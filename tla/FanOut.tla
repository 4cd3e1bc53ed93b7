--------------------------------- MODULE FanOut ---------------------------------
(***************************************************************************)
(* What subscribers of outgoing webhooks are owed: the alert outbox and its *)
(* fan-out (outbound/fanout.go, outbound_webhook_store.go), the replay      *)
(* (webhook_delivery_store.go), the commands that switch a subscriber off   *)
(* or delete it (integration_lifecycle_store.go) and the retention of what  *)
(* is over (outbound/retention.go, outbound_retention_store.go).            *)
(*                                                                         *)
(* The transactions that hold row locks between two statements are two or  *)
(* three steps here, and what the rows between them are locked against is   *)
(* in the guards; Read Committed is each step reading what is committed.    *)
(* A transaction that waits longer than the lock timeout gives up.          *)
(*                                                                         *)
(* A commitment is <<claim, subscriber>>, and a claim the event it fans out *)
(* or the event, subscriber and request id of a replay.  What an attempt    *)
(* comes to is decided by the table of DeliveryMachine.  Events are        *)
(* numbered in the order they are created.                                  *)
(***************************************************************************)
EXTENDS Integers, FiniteSets, DeliveryMachine

CONSTANTS
  Subscriber,   \* generic webhook integrations
  Event,        \* events of the alert outbox: 1..n
  Hears,        \* which subscribers are in the scope of an event
  Damaged,      \* the events this build cannot read, until a person mends them
  RequestId,    \* the idempotency keys of replays
  Instance,     \* fan-out loops, one per instance
  Operator,     \* people changing subscribers and replaying deliveries
  MaxUpsets,    \* bound: requests that fail, commitments that expire, crashes
  MaxCommands,  \* bound: changes to subscribers and replays
  MaxWindows    \* bound: retention windows that pass

ASSUME FanOutAssumption ==
  /\ Event \subseteq Nat /\ Damaged \subseteq Event
  /\ Hears \in [Event -> SUBSET Subscriber]
  /\ MaxUpsets \in Nat /\ MaxCommands \in Nat /\ MaxWindows \in Nat

VARIABLES
  rows,       \* integrations: "on", "off" or "gone"
  outbox,     \* event_outbox: [status, old], old being beyond the retention window
  claims,     \* outbound_batches of the webhook family
  owed,       \* outbound_intents: the commitments there are
  made,       \* history: how often a commitment was ever made
  fanouts,    \* the transaction of each fan-out loop
  operators,  \* the transaction of each operator
  sweep,      \* the transaction of the sweep: one instance holds the advisory lock
  budget      \* what is left of the bounds

vars == <<rows, outbox, claims, owed, made, fanouts, operators, sweep, budget>>

FanOutOf(e)       == [kind |-> "event", event |-> e]
ReplayOf(e, s, k) == [kind |-> "replay", event |-> e, subscriber |-> s, request |-> k]

Claim == {FanOutOf(e) : e \in Event} \cup {ReplayOf(e, s, k) : e \in Event, s \in Subscriber, k \in RequestId}

Commitment == {c \in Claim \X Subscriber : IF c[1].kind = "event" THEN c[2] \in Hears[c[1].event]
                                                                ELSE c[2] = c[1].subscriber}

None == [status |-> "none"]
Idle == [pc |-> "idle"]

Kept   == {c \in Commitment : owed[c] # None}
Live(c) == owed[c] # None /\ owed[c].status \notin Terminal
EventOf(c) == c[1].event

\* batch.Admit: one-shot, due at once, completed on acceptance, repeated when in doubt.
Fresh(original) ==
  [status |-> "pending", cancel |-> FALSE, tried |-> FALSE, old |-> FALSE, original |-> original]

\* What the decision table reads of it.
Intent(c) ==
  [status |-> owed[c].status, cancel |-> owed[c].cancel, form |-> "one_shot",
   completion |-> "on_acceptance", policy |-> "retry", bound |-> owed[c].tried,
   withdrawn |-> FALSE, desired |-> 0, receipt |-> FALSE, satellite |-> FALSE, door |-> "none"]

Spend(what) == budget[what] > 0 /\ budget' = [budget EXCEPT ![what] = @ - 1]

------------------------------------------------------------------------------
(* Row locks.                                                              *)

\* FOR SHARE on subscribers: a fan-out's audience, a replay's subscriber.
Sharing(s) ==
  \/ \E i \in Instance : fanouts[i].pc = "held" /\ s \in fanouts[i].audience
  \/ \E o \in Operator : operators[o].pc = "replaying" /\ s = operators[o].original[2]

\* FOR UPDATE on a subscriber: the command that changes it.
Changing(s) == \E o \in Operator : operators[o].pc = "withdrawing" /\ s = operators[o].subscriber

\* FOR SHARE on a commitment: a replay of it.
Reading(c) == \E o \in Operator : operators[o].pc = "replaying" /\ operators[o].original = c

\* Written by a transaction that has not committed.
Taken(c) ==
  \/ \E o \in Operator : operators[o].pc = "withdrawing" /\ c \in operators[o].taken
  \/ sweep.pc = "chosen" /\ c \in sweep.chosen

------------------------------------------------------------------------------
(* The outbox and its fan-out.                                             *)

OnlyOutbox == UNCHANGED <<rows, claims, owed, made, fanouts, operators, sweep, budget>>

\* insertOutboxEventTx, with the transition of an alert group.
Arrive(e) ==
  /\ outbox[e].status = "none" /\ \A d \in Event : d < e => outbox[d].status # "none"
  /\ outbox' = [outbox EXCEPT ![e].status = IF e \in Damaged THEN "damaged" ELSE "pending"]
  /\ OnlyOutbox

\* A person mends the row of an event this build cannot read.
Mend(e) ==
  /\ outbox[e].status = "damaged" /\ outbox' = [outbox EXCEPT ![e].status = "pending"]
  /\ OnlyOutbox

Waiting == {e \in Event : outbox[e].status \in {"pending", "damaged"}}
Held(e) == \E i \in Instance : fanouts[i].pc = "held" /\ fanouts[i].event = e

\* ORDER BY created_at, SKIP LOCKED, LIMIT 1.
HeadOfQueue(e) == e \in Waiting /\ ~Held(e) /\ \A d \in Waiting : d < e => Held(d)

\* Mutant: the audience is read without a lock on it.
AudienceUnlocked(e) == TRUE

\* The audience is read FOR SHARE: whoever changes one of it is waited for.
AudienceCanBeRead(e) == \A s \in Hears[e] : rows[s] = "on" => ~Changing(s)

FanOutTakes(i, e) ==
  /\ fanouts[i] = Idle /\ HeadOfQueue(e) /\ AudienceCanBeRead(e)
  /\ fanouts' = [fanouts EXCEPT ![i] =
                   [pc |-> "held", event |-> e, audience |-> {s \in Hears[e] : rows[s] = "on"}]]
  /\ UNCHANGED <<rows, outbox, claims, owed, made, operators, sweep, budget>>

\* admitWebhookTx, the mark and the commit; an event nobody can read is refused, and
\* stays where it is.
FanOutCommits(i) ==
  LET e     == fanouts[i].event
      fresh == {<<FanOutOf(e), s>> : s \in fanouts[i].audience}
  IN /\ fanouts[i].pc = "held"
     /\ IF outbox[e].status = "damaged" THEN UNCHANGED <<outbox, claims, owed, made>>
        ELSE /\ claims' = claims \cup {FanOutOf(e)}
             /\ owed' = [c \in Commitment |-> IF c \in fresh THEN Fresh(c) ELSE owed[c]]
             /\ made' = [c \in Commitment |-> IF c \in fresh THEN made[c] + 1 ELSE made[c]]
             /\ outbox' = [outbox EXCEPT ![e] = [status |-> "fanned_out", old |-> FALSE]]
     /\ fanouts' = [fanouts EXCEPT ![i] = Idle]
     /\ UNCHANGED <<rows, operators, sweep, budget>>

\* Mutant: the claim on the event is a mark on its row, which outlives the process.
FanOutAbortsMarked(i) ==
  /\ fanouts[i].pc = "held"
  /\ outbox' = [outbox EXCEPT ![fanouts[i].event].status = "processing"]
  /\ fanouts' = [fanouts EXCEPT ![i] = Idle]
  /\ UNCHANGED <<rows, claims, owed, made, operators, sweep>> /\ Spend("upsets")

\* The process dies, or the database does: rolled back whole.
FanOutAborts(i) ==
  /\ fanouts[i].pc = "held" /\ fanouts' = [fanouts EXCEPT ![i] = Idle]
  /\ UNCHANGED <<rows, outbox, claims, owed, made, operators, sweep>> /\ Spend("upsets")

------------------------------------------------------------------------------
(* The attempts.                                                           *)

OnlyOwed == UNCHANGED <<rows, outbox, claims, made, fanouts, operators, sweep>>

Moves(c, to) ==
  owed' = [owed EXCEPT ![c] = [@ EXCEPT !.status = to, !.old = FALSE, !.cancel = to = "sending" /\ @]]

\* Prepare and begin: a subscriber that is gone is refused for good, any other is called.
Begin(c) ==
  LET move == DecidePreparation(Intent(c), IF rows[c[2]] = "gone" THEN "permanent" ELSE "ready")
  IN /\ owed[c].status = "pending" /\ ~Taken(c)
     /\ owed' = [owed EXCEPT ![c] = [@ EXCEPT !.status = move.to, !.old = FALSE, !.tried = TRUE]]
     /\ OnlyOwed /\ UNCHANGED budget

\* FinalizeDeliveryAttempt: the answer, or the lack of one.
Finish(c, outcome) ==
  LET move == DecideFinish(Intent(c), outcome, NoRevision, FALSE, FALSE)
  IN /\ owed[c].status = "sending" /\ Moves(c, move.to) /\ OnlyOwed
     /\ IF outcome = "accepted" THEN UNCHANGED budget ELSE Spend("upsets")

\* RecoverStaleAttempts: its worker died.
Recover(c) ==
  /\ owed[c].status = "sending" /\ Moves(c, DecideRecover(Intent(c), FALSE, NoRevision, FALSE).to)
  /\ OnlyOwed /\ Spend("upsets")

\* ExpireDueIntents: a day has passed.
Expire(c) ==
  /\ owed[c].status = "pending" /\ ~Taken(c) /\ Moves(c, "expired")
  /\ OnlyOwed /\ Spend("upsets")

------------------------------------------------------------------------------
(* Switching a subscriber off, and deleting it.                            *)

OnlyOperators == UNCHANGED <<outbox, made, fanouts, sweep>>

\* UpdateIntegration and DeleteIntegration: the row is taken FOR UPDATE, and a
\* subscriber that is switched off, or deleted, is withdrawn from what waits for its
\* first or next attempt.
Withdraw(o, s, to) ==
  /\ operators[o] = Idle /\ ~Sharing(s) /\ ~Changing(s)
  /\ rows[s] = "on" \/ (rows[s] = "off" /\ to = "gone")
  /\ operators' = [operators EXCEPT ![o] =
       [pc |-> "withdrawing", subscriber |-> s, to |-> to,
        taken |-> {c \in Kept : c[2] = s /\ owed[c].status = "pending" /\ ~Taken(c)}]]
  /\ UNCHANGED <<rows, claims, owed>> /\ OnlyOperators /\ Spend("commands")

\* The rest of withdrawSubscriberTx, and the commit: what is in flight now is flagged.
WithdrawCommits(o) ==
  LET s == operators[o].subscriber
  IN /\ operators[o].pc = "withdrawing"
     /\ owed' = [c \in Commitment |->
          IF c \in operators[o].taken THEN [owed[c] EXCEPT !.status = "canceled", !.old = FALSE]
          ELSE IF c[2] = s /\ owed[c].status = "sending" THEN [owed[c] EXCEPT !.cancel = TRUE]
          ELSE owed[c]]
     /\ rows' = [rows EXCEPT ![s] = operators[o].to]
     /\ operators' = [operators EXCEPT ![o] = Idle]
     /\ UNCHANGED claims /\ OnlyOperators /\ UNCHANGED budget

\* UpdateIntegration, back on.
SwitchOn(o, s) ==
  /\ operators[o] = Idle /\ rows[s] = "off" /\ ~Sharing(s) /\ ~Changing(s)
  /\ rows' = [rows EXCEPT ![s] = "on"]
  /\ UNCHANGED <<operators, claims, owed>> /\ OnlyOperators /\ Spend("commands")

------------------------------------------------------------------------------
(* Replaying a delivery.                                                   *)

\* Terminal is final for this family: read once, without a lock.
Replayable(c) == owed[c] # None /\ owed[c].status \in Terminal

\* ReplayWebhookDelivery, its first read.
ReplayBegins(o, c, k) ==
  /\ operators[o] = Idle /\ Replayable(c)
  /\ operators' = [operators EXCEPT ![o] = [pc |-> "asked", original |-> c, request |-> k]]
  /\ UNCHANGED <<rows, claims, owed>> /\ OnlyOperators /\ Spend("commands")

\* The subscriber is there, switched on and shared; so is the original, unless the sweep
\* took it first.
ReplayLocks(o) ==
  LET c == operators[o].original
  IN /\ operators[o].pc = "asked" /\ ~Changing(c[2]) /\ ~Taken(c)
     /\ operators' = [operators EXCEPT ![o] =
                        IF rows[c[2]] = "on" /\ owed[c] # None THEN [@ EXCEPT !.pc = "replaying"] ELSE Idle]
     /\ UNCHANGED <<rows, claims, owed, budget>> /\ OnlyOperators

\* admitWebhookTx and the commit.  A claim that is held already is the answer, whether
\* or not its commitment is still there.
ReplayCommits(o) ==
  LET c     == operators[o].original
      claim == ReplayOf(EventOf(c), c[2], operators[o].request)
      fresh == <<claim, c[2]>>
  IN /\ operators[o].pc = "replaying"
     /\ claims' = claims \cup {claim}
     /\ IF claim \in claims THEN UNCHANGED <<owed, made>>
        ELSE owed' = [owed EXCEPT ![fresh] = Fresh(c)] /\ made' = [made EXCEPT ![fresh] = @ + 1]
     /\ operators' = [operators EXCEPT ![o] = Idle]
     /\ UNCHANGED <<rows, outbox, fanouts, sweep, budget>>

\* Whatever an operator asked for fails or times out on a lock: nothing is written.
OperatorAborts(o) ==
  /\ operators[o] # Idle /\ operators' = [operators EXCEPT ![o] = Idle]
  /\ UNCHANGED <<rows, claims, owed>> /\ OnlyOperators /\ Spend("upsets")

------------------------------------------------------------------------------
(* Retention.                                                              *)

\* The retention window passes: everything that stands is older than it.
WindowPasses ==
  /\ outbox' = [e \in Event |-> [outbox[e] EXCEPT !.old = outbox[e].status = "fanned_out"]]
  /\ owed' = [c \in Commitment |-> IF owed[c] = None THEN None ELSE [owed[c] EXCEPT !.old = TRUE]]
  /\ UNCHANGED <<rows, claims, made, fanouts, operators, sweep>> /\ Spend("windows")

\* FOR UPDATE SKIP LOCKED: what another transaction reads or writes is left.
SweepChooses ==
  LET doomed == {c \in Kept : owed[c].status \in Terminal /\ owed[c].old /\ ~Reading(c) /\ ~Taken(c)}
  IN /\ sweep = Idle
     /\ doomed # {} \/ \E e \in Event : outbox[e].old
     /\ \E chunk \in {doomed} \cup {{c} : c \in doomed} : sweep' = [pc |-> "chosen", chosen |-> chunk]
     /\ UNCHANGED <<rows, outbox, claims, owed, made, fanouts, operators, budget>>

\* Mutant: an event goes by its age alone.
UnclaimedByAge(e, left) == TRUE

\* No claim on the event holds a commitment.
Unclaimed(e, left) == \A c \in left : EventOf(c) # e

\* Mutant: the claims go with what they held.
ClaimsAfterSwept(chosen) == {k \in claims : \A c \in chosen : c[1] # k}

\* A claim that is gone would admit the same work twice.
ClaimsAfter(chosen) == claims

SweepCommits ==
  LET left == Kept \ sweep.chosen
  IN /\ sweep.pc = "chosen"
     /\ owed' = [c \in Commitment |-> IF c \in sweep.chosen THEN None ELSE owed[c]]
     /\ outbox' = [e \in Event |-> IF outbox[e].old /\ Unclaimed(e, left)
                                   THEN [status |-> "removed", old |-> FALSE] ELSE outbox[e]]
     /\ claims' = ClaimsAfter(sweep.chosen)
     /\ sweep' = Idle
     /\ UNCHANGED <<rows, made, fanouts, operators, budget>>

\* The chunk is cut off, and rolls back whole.
SweepAborts ==
  /\ sweep # Idle /\ sweep' = Idle
  /\ UNCHANGED <<rows, outbox, claims, owed, made, fanouts, operators>> /\ Spend("upsets")

------------------------------------------------------------------------------
Init ==
  /\ rows = [s \in Subscriber |-> "on"]
  /\ outbox = [e \in Event |-> [status |-> "none", old |-> FALSE]]
  /\ claims = {}
  /\ owed = [c \in Commitment |-> None]
  /\ made = [c \in Commitment |-> 0]
  /\ fanouts = [i \in Instance |-> Idle]
  /\ operators = [o \in Operator |-> Idle]
  /\ sweep = Idle
  /\ budget = [upsets |-> MaxUpsets, commands |-> MaxCommands, windows |-> MaxWindows]

FanOutStep(i) == (\E e \in Event : FanOutTakes(i, e)) \/ FanOutCommits(i)

OperatorStep(o) == WithdrawCommits(o) \/ ReplayLocks(o) \/ ReplayCommits(o)

Next ==
  \/ \E e \in Event : Arrive(e) \/ Mend(e)
  \/ \E i \in Instance : FanOutStep(i) \/ FanOutAborts(i)
  \/ \E c \in Commitment : \/ Begin(c) \/ Recover(c) \/ Expire(c)
                           \/ \E outcome \in {"accepted", "retryable", "permanent"} : Finish(c, outcome)
  \/ \E o \in Operator :
       \/ \E s \in Subscriber : SwitchOn(o, s) \/ \E to \in {"off", "gone"} : Withdraw(o, s, to)
       \/ \E c \in Commitment, k \in RequestId : ReplayBegins(o, c, k)
       \/ OperatorStep(o) \/ OperatorAborts(o)
  \/ WindowPasses \/ SweepChooses \/ SweepCommits \/ SweepAborts

Spec == Init /\ [][Next]_vars

\* Every loop ticks, and a transaction ends: its statements have a lock timeout.
FairSpec ==
  /\ Spec
  /\ \A i \in Instance : WF_vars(FanOutStep(i))
  /\ \A o \in Operator : WF_vars(OperatorStep(o))

------------------------------------------------------------------------------
(* Properties.                                                             *)

AFresh == [status : Statuses, cancel : BOOLEAN, tried : BOOLEAN, old : BOOLEAN, original : Commitment]

\* Every row is what its table allows, and every transaction is at one of its steps.
TypeOK ==
  /\ rows \in [Subscriber -> {"on", "off", "gone"}]
  /\ outbox \in [Event -> [status : {"none", "pending", "damaged", "fanned_out", "removed"}, old : BOOLEAN]]
  /\ claims \subseteq Claim
  /\ owed \in [Commitment -> AFresh \cup {None}]
  /\ made \in [Commitment -> Nat]
  /\ \A i \in Instance : fanouts[i] # Idle => fanouts[i].event \in Event
  /\ \A o \in Operator : operators[o].pc \in {"idle", "withdrawing", "asked", "replaying"}
  /\ sweep # Idle => sweep.chosen \subseteq Commitment

\* Whatever the order of a fan-out or a replay and the command that switches their
\* subscriber off or deletes it, nothing new is left owed to it: what is still owed has
\* been tried before (DeleteIntegration, FanOutNextEvent: FOR SHARE against FOR UPDATE).
NothingMadeForTheGone == \A c \in Commitment : Live(c) /\ rows[c[2]] # "on" => owed[c].tried

\* Retention never takes an event from under a commitment of its fan-out or of any replay,
\* late ones included: their history could not be read (SweepDeliveryHistory).
EventOutlivesItsCommitments == \A c \in Kept : outbox[EventOf(c)].status # "removed"

\* An event is fanned out once and a request replayed once, for ever: also when it is asked
\* for again after retention removed what it made (existingAdmission, ReplayWebhookDelivery).
RepeatMakesNothingNew == \A c \in Commitment : made[c] <= 1

\* A row of the outbox is never stuck: unless an older one cannot be read, an event is
\* fanned out whichever instances die over it (FanOutNextEvent: a row lock and no lease).
PendingIsFannedOut ==
  \A e \in Event : (outbox[e].status = "pending" /\ \A d \in Event : d < e => outbox[d].status # "damaged")
                       ~> outbox[e].status = "fanned_out"

==============================================================================
