---------------------------------- MODULE Plan ----------------------------------
(***************************************************************************)
(* What an alert group promises, and to whom: internal/engine/plan.go, and *)
(* the gates an admission passes (outbound/keys/escalation.go,             *)
(* outbound/validate.go, the links of outbound_store.go).                  *)
(*                                                                         *)
(* Pure operators.  A policy is a sequence of steps, each                  *)
(*   [index, provider, shape, target, ref, delay, continues],              *)
(* target being "user", "channel" or "schedule"; who is on duty is         *)
(*   [team, users, stored]                                                 *)
(* team saying whether the team has a schedule of its own, users who is on *)
(* it, and stored who is on the schedule a step names, by its ref.         *)
(* Times are counted in steps of delay, CallExpiry being the ten minutes.  *)
(***************************************************************************)
EXTENDS Integers, Sequences, SequencesExt

CONSTANTS
  Firehose,    \* the firehose channel of the severity, or NoChannel
  NoChannel,
  CallExpiry   \* how long after its step a call is worth placing

ASSUME PlanAssumption == CallExpiry \in Nat \ {0}

DeliversThrough(provider) == provider \in {"slack", "telegram", "phone"}

NoExpiry == -1

------------------------------------------------------------------------------
(* One promise.                                                            *)

\* What makes two commitments one: the slot, the provider and the recipient.
Key(c) == <<c.slot, c.provider, c.kind, c.ref>>

Satellite(c) == c.kind \in {"thread", "thread_reply"}

\* The thread under a Slack channel card, and the reply that closes it.
SatellitesOf(card) ==
  IF card.provider = "slack" /\ card.kind = "channel" /\ card.editable
  THEN {[card EXCEPT !.kind = "thread", !.stops = FALSE],
        [card EXCEPT !.kind = "thread_reply", !.editable = FALSE, !.stops = FALSE]}
  ELSE {}

WithSatellites(card) == {card} \cup SatellitesOf(card)

\* A call is said once, waits for the provider's word and is owed for a while.
CallOf(c) ==
  [c EXCEPT !.editable = FALSE, !.completion = "on_provider_receipt", !.expiry = c.due + CallExpiry]

FirehoseCards ==
  IF Firehose = NoChannel THEN {}
  ELSE WithSatellites([slot |-> <<"firehose", 0>>, provider |-> "slack", kind |-> "channel",
                       ref |-> Firehose, editable |-> TRUE, due |-> 0, expiry |-> NoExpiry,
                       completion |-> "on_acceptance", stops |-> FALSE])

StepCard(step, target, due) ==
  LET c == [slot |-> <<"policy", step.index>>, provider |-> step.provider,
            kind |-> target.kind, ref |-> target.ref, editable |-> step.shape = "channel",
            due |-> due, expiry |-> NoExpiry, completion |-> "on_acceptance",
            stops |-> ~step.continues]
  IN IF step.provider = "phone" THEN CallOf(c) ELSE c

------------------------------------------------------------------------------
(* The whole plan.                                                         *)

\* A team with a schedule answers for itself, "nobody" included; only a team
\* without one is asked for by the schedule stored on the step.
OnDutyFor(step, duty) == IF duty.team THEN duty.users ELSE duty.stored[step.ref]

Recipients(step, duty) ==
  CASE step.target = "schedule" -> {[kind |-> "user", ref |-> u] : u \in OnDutyFor(step, duty)}
    [] step.target # "schedule" /\ step.ref = NoChannel -> {}
    [] OTHER -> {[kind |-> IF step.target = "channel" THEN "channel" ELSE "user", ref |-> step.ref]}

\* A step's delay counts from the admission, on top of the delays before it, whatever
\* became of those steps.
Due(policy, n) == FoldLeft(LAMBDA offset, step : offset + step.delay, 0, SubSeq(policy, 1, n))

\* Mutant: a repeat is promised again.
RepeatsNothing(policy, duty, n) == {}

\* Whom an earlier step of the same index promises the same.
Repeats(policy, duty, n) ==
  UNION {Recipients(policy[k], duty) :
           k \in {j \in 1..(n - 1) : /\ policy[j].index = policy[n].index
                                     /\ policy[j].provider = policy[n].provider}}

PromisedBy(policy, duty, n) ==
  IF ~DeliversThrough(policy[n].provider) THEN {}
  ELSE UNION {WithSatellites(StepCard(policy[n], target, Due(policy, n))) :
                target \in Recipients(policy[n], duty) \ Repeats(policy, duty, n)}

\* Mutant: a provider nothing here delivers through is skipped without a word.
ReasonsQuietly(policy, duty, n) ==
  LET step == policy[n]
      to   == Recipients(step, duty)
  IN {reason \in {"nobody_on_call", "no_target", "duplicate"} :
        /\ DeliversThrough(step.provider)
        /\ reason = "nobody_on_call" => to = {} /\ step.target = "schedule"
        /\ reason = "no_target" => to = {} /\ step.target # "schedule"
        /\ reason = "duplicate" => to \cap Repeats(policy, duty, n) # {}}

\* What a step does not promise is recorded, with the reason: a provider nothing here
\* delivers through, nobody it names, somebody it names again.
Reasons(policy, duty, n) ==
  LET step == policy[n]
      to   == Recipients(step, duty)
  IN {reason \in {"no_channel", "nobody_on_call", "no_target", "duplicate"} :
        /\ DeliversThrough(step.provider) <=> reason # "no_channel"
        /\ reason = "nobody_on_call" => to = {} /\ step.target = "schedule"
        /\ reason = "no_target" => to = {} /\ step.target # "schedule"
        /\ reason = "duplicate" => to \cap Repeats(policy, duty, n) # {}}

\* commitments: the firehose and the policy's steps.  The grammar sorts them by key.
Planned(policy, duty) ==
  [promised   |-> FirehoseCards \cup UNION {PromisedBy(policy, duty, n) : n \in DOMAIN policy},
   unpromised |-> UNION {{[step |-> n, reason |-> reason] : reason \in Reasons(policy, duty, n)} :
                           n \in DOMAIN policy}]

------------------------------------------------------------------------------
(* The gates.                                                              *)

\* Admit: one key, one commitment, and a satellite only under its card.
Coherent(promised) ==
  /\ \A c, d \in promised : Key(c) = Key(d) => c = d
  /\ \A c \in promised : Satellite(c) =>
       \E card \in promised : Key(card) = <<c.slot, c.provider, "channel", c.ref>>

\* ValidateEscalationAdmission: only what this build can carry out.
Deliverable(c) ==
  /\ DeliversThrough(c.provider)
  /\ c.completion = IF c.provider = "phone" THEN "on_provider_receipt" ELSE "on_acceptance"
  /\ c.provider = "phone" => ~c.editable

Admissible(plan) == Coherent(plan.promised) /\ \A c \in plan.promised : Deliverable(c)

\* The people an admission promises to reach.
PeopleOf(plan) == {c.ref : c \in {d \in plan.promised : d.kind = "user"}}

=============================================================================
