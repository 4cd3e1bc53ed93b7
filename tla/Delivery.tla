------------------------------- MODULE Delivery -------------------------------
(***************************************************************************)
(* The durable delivery of one alert group: internal/store/outbound_*.go   *)
(* driven by internal/outbound/worker.go and by the transitions of the     *)
(* group.                                                                  *)
(*                                                                         *)
(* An alert group has been admitted: its commitments - channel cards, the  *)
(* thread and the closing reply that follow a card (satellites), direct    *)
(* messages - are rows of outbound_intents.  Worker slots claim a row      *)
(* under a lease, prepare, open an attempt in the journal, call the        *)
(* provider and record the answer, each in a transaction of its own, while *)
(* leases run out, recovery closes abandoned attempts, deadlines pass,     *)
(* the group is acknowledged, resolved or merged into, and a person        *)
(* decides about what is stuck.  A transaction is one step: every one of   *)
(* them locks the rows it reads before it decides.  What happens between   *)
(* two transactions of a worker is what the module is about.               *)
(*                                                                         *)
(* Abstracted: payloads and provider coordinates (a receipt is the number  *)
(* of the attempt that created the message), the clock (leases, deadlines  *)
(* and backoffs are "alive or over"), the alert's history lines, metrics.  *)
(* Left to other modules: calls whose acceptance only means "queued", the  *)
(* webhook family, erasure and retention.                                  *)
(***************************************************************************)
EXTENDS Integers, Sequences, DeliveryMachine

CONSTANTS
  Commitment,   \* the commitments of the group's one admission
  Worker,       \* worker slots, over every instance of the process
  Address,      \* the addresses a person's identity can be linked to
  NoParent,     \* the parent of a commitment that is not a satellite
  Plan,         \* what the admission wrote for each commitment
  MaxRevision,  \* bound: raises that are not an ack or a resolve stop here
  MaxFaults,    \* bound: crashes, overrun leases, refused, lost and doubtful calls,
                \* rows found damaged
  MaxDecisions, \* bound: decisions of a person about stuck commitments
  MaxRelinks    \* bound: times a person's identity is linked to another address

\* 0 is "NULL" in every numbered column: no token, no attempt, no address, no receipt.
PlanType ==
  [form     : Forms,
   policy   : Policies,
   parent   : Commitment \cup {NoParent},
   thread   : BOOLEAN,               \* target_kind = thread
   reply    : BOOLEAN,               \* target_kind = thread_reply
   step     : Nat,                   \* the policy slot, 0 for the firehose
   stops    : BOOLEAN,               \* the step's StopOnFailure
   awaits   : SUBSET Commitment,     \* awaits_intent_ids of a direct message
   deadline : {"none", "ahead"},     \* has expires_at
   due      : BOOLEAN]               \* not_before has passed at admission

ASSUME PlanAssumption ==
  /\ NoParent \notin Commitment
  /\ Plan \in [Commitment -> PlanType]
  /\ \A c \in Commitment :
       /\ Plan[c].policy # "reconcile_then_retry"
       /\ Plan[c].policy = "assume_accepted" => Plan[c].form = "one_shot"
       /\ (Plan[c].thread \/ Plan[c].reply) <=> Plan[c].parent # NoParent
       /\ \A card \in Plan[c].awaits :
            /\ Plan[c].form = "one_shot" /\ Plan[c].parent = NoParent
            /\ Plan[card].form = "editable" /\ Plan[card].parent = NoParent
       /\ Plan[c].thread => Plan[c].form = "editable"
       /\ Plan[c].reply  => Plan[c].form = "one_shot"
       /\ Plan[c].parent # NoParent =>
            /\ Plan[Plan[c].parent].parent = NoParent
            /\ Plan[Plan[c].parent].form = "editable"

ASSUME BoundsAssumption ==
  /\ Address \subseteq Nat \ {0} /\ Address # {}
  /\ MaxRevision \in Nat /\ MaxFaults \in Nat
  /\ MaxDecisions \in Nat /\ MaxRelinks \in Nat

VARIABLES
  group,     \* alert_groups.status
  snapshot,  \* outbound_group_snapshots: revision, final, and the revision at
             \* which the card's and the thread's picture last changed
  intents,   \* outbound_intents
  journal,   \* outbound_attempts, by attempt_no, with the late observation of each
  workers,   \* what one serve() holds in memory
  made,      \* the attempts whose call took effect at the provider
  address,   \* the directory: where a person is reached now
  budget     \* what is left of MaxFaults, MaxDecisions and MaxRelinks

vars == <<group, snapshot, intents, journal, workers, made, address, budget>>

GroupOver == group \in {"acknowledged", "resolved"}

Satellite(c) == Plan[c].parent # NoParent

Idle == [pc |-> "idle", intent |-> NoParent, token |-> 0, prep |-> "none",
         endpoint |-> 0, attempt |-> 0, answer |-> "none"]

------------------------------------------------------------------------------
(* What the machine reads of a row, and what a transition writes to it.    *)

View(c) ==
  [status |-> intents[c].status, form |-> Plan[c].form, policy |-> Plan[c].policy,
   completion |-> "on_acceptance", bound |-> intents[c].endpoint # 0,
   cancel |-> intents[c].cancel, withdrawn |-> FALSE, desired |-> intents[c].desired,
   receipt |-> intents[c].receipt # 0, satellite |-> Satellite(c),
   door |-> "resolve_ambiguity"]

\* The row after a transition; w holds what the transition is given besides its
\* effects: the attempt's revision, the receipt it brought, a new deadline.
Written(i, m, w) ==
  [status   |-> m.to,
   gen      |-> IF "NewGeneration" \in m.effects THEN i.gen + 1 ELSE i.gen,
   endpoint |-> IF "NewGeneration" \in m.effects THEN 0 ELSE i.endpoint,
   desired  |-> i.desired,
   applied  |-> IF "ApplyRevision" \in m.effects THEN w.revision ELSE i.applied,
   receipt  |-> IF "NewGeneration" \in m.effects THEN 0
                ELSE IF "StoreReceipt" \in m.effects /\ w.receipt # 0 THEN w.receipt
                ELSE i.receipt,
   cancel   |-> IF "ConsumeCancellation" \in m.effects THEN FALSE ELSE i.cancel,
   risk     |-> i.risk \/ "RecordDuplicateRisk" \in m.effects,
   claims   |-> i.claims,
   token    |-> IF "ClearLease" \in m.effects THEN 0 ELSE i.token,
   live     |-> IF "ClearLease" \in m.effects THEN FALSE ELSE i.live,
   attempt  |-> IF "ClearCurrentAttempt" \in m.effects THEN 0 ELSE i.attempt,
   failing  |-> IF "ResetFailureStreak" \in m.effects THEN FALSE
                ELSE i.failing \/ "BumpFailureStreak" \in m.effects,
   due      |-> IF "ScheduleRetry" \in m.effects THEN FALSE
                ELSE i.due \/ "ScheduleNow" \in m.effects,
   deadline |-> IF w.deadline THEN "ahead" ELSE i.deadline]

Writing(revision, receipt) == [revision |-> revision, receipt |-> receipt, deadline |-> FALSE]

\* Mutant: any end of a withdrawn card brings its satellites back.
RevivesAlways(m, c, d) ==
  /\ "ConsumeCancellation" \in m.effects /\ ~Satellite(c)
  /\ Plan[d].parent = c /\ intents[d].status = "canceled" /\ journal[d] = <<>>

\* A card that went out alongside its withdrawal brings back the satellites the
\* withdrawal took with it, unless somebody ever attempted them.
Revives(m, c, d) ==
  /\ "ConsumeCancellation" \in m.effects /\ m.to # "canceled" /\ ~Satellite(c)
  /\ Plan[d].parent = c /\ intents[d].status = "canceled" /\ journal[d] = <<>>

Revived(d) ==
  [intents[d] EXCEPT !.status = "pending", !.due = TRUE, !.cancel = FALSE,
                     !.desired = IF Plan[d].form = "editable" THEN snapshot.revision ELSE @]

\* Every row after transition m of commitment c.
Applied(c, m, w) ==
  [d \in Commitment |->
     IF d = c THEN Written(intents[c], m, w)
     ELSE IF Revives(m, c, d) THEN Revived(d) ELSE intents[d]]

\* The one move of the group a delivery makes: its first success.
GroupAfter(m) ==
  IF "TriggerGroup" \in m.effects /\ group = "processing" THEN "triggered" ELSE group

------------------------------------------------------------------------------
(* Withdrawals: by the group's transition, and by a step that stops the    *)
(* escalation.                                                             *)

CanceledRow(i) == [i EXCEPT !.status = "canceled", !.token = 0, !.live = FALSE]

WithdrawnRow(i) ==
  CASE i.status = "pending"       -> CanceledRow(i)
    [] i.status = "sending"       -> [i EXCEPT !.cancel = TRUE]
    [] i.status = "manual_review" -> [i EXCEPT !.status = "canceled"]
    [] OTHER -> i

\* A commitment with a message stays, and so does a satellite of a card with one.
Withdrawable(rows, c) ==
  rows[c].receipt = 0 /\ (Satellite(c) => rows[Plan[c].parent].receipt = 0)

Withdrawn(rows) ==
  [c \in Commitment |-> IF Withdrawable(rows, c) THEN WithdrawnRow(rows[c]) ELSE rows[c]]

StopsEscalation(c) == ~Satellite(c) /\ Plan[c].stops /\ Plan[c].step > 0

\* Mutant: the step right after the failed one escapes.
StoppedOffByOne(rows, failed) ==
  [c \in Commitment |-> IF Plan[c].step > Plan[failed].step + 1 /\ Withdrawable(rows, c)
                        THEN WithdrawnRow(rows[c]) ELSE rows[c]]

\* stopEscalationTx: the later steps of the policy that have no message yet.
Stopped(rows, failed) ==
  [c \in Commitment |-> IF Plan[c].step > Plan[failed].step /\ Withdrawable(rows, c)
                        THEN WithdrawnRow(rows[c]) ELSE rows[c]]

------------------------------------------------------------------------------
(* The desired state: a revision of the group's picture, and the editable  *)
(* commitments aimed at it.                                                *)

\* Mutant: a parked card is not aimed any more.
AimsOpen(c, i, cards, threads) ==
  /\ Plan[c].form = "editable"
  /\ i.status \in {"pending", "sending", "manual_review"}
  /\ IF Plan[c].thread THEN threads ELSE cards

Aims(c, i, cards, threads) ==
  /\ Plan[c].form = "editable"
  /\ i.status \in {"idle", "pending", "sending", "manual_review"}
  /\ IF Plan[c].thread THEN threads ELSE cards

\* Mutant: a parked card is aimed and left parked.
AimedRowStaysParked(i, revision) == [i EXCEPT !.desired = revision]

AimedRow(i, revision) ==
  [i EXCEPT !.desired = revision,
            !.status  = IF i.status = "idle" THEN "pending" ELSE i.status,
            !.due     = IF i.status = "idle" THEN TRUE ELSE i.due]

Aimed(rows, revision, cards, threads) ==
  [c \in Commitment |-> IF Aims(c, rows[c], cards, threads) THEN AimedRow(rows[c], revision)
                                                            ELSE rows[c]]

\* setDesiredStateTx on the rows the caller has already written.
Raise(rows, cards, threads, final) ==
  IF snapshot.final THEN intents' = rows /\ UNCHANGED snapshot
  ELSE LET next == snapshot.revision + 1
       IN /\ snapshot' = [revision |-> next, final |-> final,
                          card     |-> IF cards THEN next ELSE snapshot.card,
                          thread   |-> IF threads THEN next ELSE snapshot.thread]
          /\ intents' = Aimed(rows, next, cards, threads)

------------------------------------------------------------------------------
(* The journal.                                                            *)

Record(c, kind, revision, endpoint, token, outcome, by) ==
  [gen |-> intents[c].gen, kind |-> kind, revision |-> revision, endpoint |-> endpoint,
   token |-> token, outcome |-> outcome, by |-> by, late |-> "none"]

\* Mutant: an attempt whose worker was lost is put down as a failure.
ClosedAsFailed(a, outcome, by) ==
  [a EXCEPT !.outcome = IF by = "lease_lost" THEN "retryable" ELSE outcome, !.by = by]

\* The attempt with its answer: by its worker, or by recovery in its place.
Closed(a, outcome, by) == [a EXCEPT !.outcome = outcome, !.by = by]

\* A receipt makes the next call a change; without one it creates.
Kind(c) == IF intents[c].receipt = 0 THEN "create" ELSE "mutation"

\* The revision an attempt renders: a card and a thread the group's state, the
\* closing reply the group's last one, any other message what was admitted.
ContentRevision(c) ==
  IF Plan[c].form = "editable" \/ Plan[c].reply THEN snapshot.revision ELSE 0

OfGeneration(c) == {n \in DOMAIN journal[c] : journal[c][n].gen = intents[c].gen}

\* Mutant: only the last attempt is looked at for doubt.
FactsOfTheLast(c, risk, deadline) ==
  LET mine == OfGeneration(c)
      last == Len(journal[c])
  IN [create    |-> last \in mine /\ journal[c][last].kind = "create",
      revision  |-> IF last \in mine THEN journal[c][last].revision ELSE NoRevision,
      ambiguous |-> last \in mine /\ journal[c][last].outcome = "ambiguous",
      lost      |-> \E n \in mine : "absent" \in {journal[c][n].outcome, journal[c][n].late},
      risk      |-> risk,
      deadline  |-> deadline]

\* lastAttemptFactsTx, of the current generation.  An answer that the message
\* is gone is a permanent rejection with provider_result_detail definitely_absent.
Facts(c, risk, deadline) ==
  LET mine == OfGeneration(c)
      last == Len(journal[c])
  IN [create    |-> last \in mine /\ journal[c][last].kind = "create",
      revision  |-> IF last \in mine THEN journal[c][last].revision ELSE NoRevision,
      ambiguous |-> \E n \in mine : journal[c][n].outcome = "ambiguous",
      lost      |-> \E n \in mine : "absent" \in {journal[c][n].outcome, journal[c][n].late},
      risk      |-> risk,
      deadline  |-> deadline]

\* The machine is told the outcome; the detail stays with the journal.
OutcomeOf(answer) == IF answer = "absent" THEN "permanent" ELSE answer

------------------------------------------------------------------------------
Init ==
  /\ group = "processing"
  /\ snapshot = [revision |-> 0, final |-> FALSE, card |-> 0, thread |-> 0]
  /\ intents = [c \in Commitment |->
       [status |-> "pending", gen |-> 1, endpoint |-> 0, desired |-> 0,
        applied |-> NoRevision, receipt |-> 0, cancel |-> FALSE, risk |-> FALSE,
        claims |-> 0, token |-> 0, live |-> FALSE, attempt |-> 0, failing |-> FALSE,
        due |-> Plan[c].due, deadline |-> Plan[c].deadline]]
  /\ journal = [c \in Commitment |-> <<>>]
  /\ workers = [w \in Worker |-> Idle]
  /\ made = [c \in Commitment |-> {}]
  /\ address = [c \in Commitment |-> CHOOSE a \in Address : TRUE]  \* which one is all the same
  /\ budget = [faults |-> MaxFaults, decisions |-> MaxDecisions, relinks |-> MaxRelinks]

Fault == budget.faults > 0 /\ budget' = [budget EXCEPT !.faults = @ - 1]

\* Some slot still carries this lease.
Carried(c) ==
  \E w \in Worker : /\ workers[w].pc # "idle" /\ workers[w].intent = c
                    /\ workers[w].token = intents[c].token

------------------------------------------------------------------------------
(* Time.                                                                   *)

Lapse(c) ==
  /\ intents[c].live
  /\ intents' = [intents EXCEPT ![c].live = FALSE]
  /\ UNCHANGED <<group, snapshot, journal, workers, made, address>>

\* Nobody carries the lease any more: it runs out by itself.
LeaseExpires(c) == Lapse(c) /\ ~Carried(c) /\ UNCHANGED budget

\* A holder that is slower than its lease.
LeaseOverruns(c) == Lapse(c) /\ Carried(c) /\ Fault

DeadlinePasses(c) ==
  /\ intents[c].deadline = "ahead"
  /\ intents' = [intents EXCEPT ![c].deadline = "past"]
  /\ UNCHANGED <<group, snapshot, journal, workers, made, address, budget>>

\* next_attempt_at arrives: the backoff of a retry, or the delay of a later step.
BackoffElapses(c) ==
  /\ intents[c].status = "pending" /\ ~intents[c].due
  /\ intents' = [intents EXCEPT ![c].due = TRUE]
  /\ UNCHANGED <<group, snapshot, journal, workers, made, address, budget>>

------------------------------------------------------------------------------
(* One tick of the worker: expire, recover, claim.                         *)

\* A leased row is taken too: its holder finds out at its next transaction.
Expire(c) ==
  /\ intents[c].status = "pending" /\ intents[c].deadline = "past"
  /\ intents' = [intents EXCEPT ![c].status = "expired", ![c].token = 0, ![c].live = FALSE]
  /\ UNCHANGED <<group, snapshot, journal, workers, made, address, budget>>

Recover(c) ==
  LET n == intents[c].attempt
      r == journal[c][n].revision
      m == ForSatellite(View(c), DecideRecover(View(c), intents[c].deadline = "past", r, FALSE))
  IN /\ intents[c].status = "sending" /\ ~intents[c].live /\ n # 0
     /\ journal[c][n].by = "none"
     /\ Valid(m)
     /\ journal' = [journal EXCEPT ![c][n] = Closed(@, "ambiguous", "lease_lost")]
     /\ intents' = Applied(c, m, Writing(r, 0))
     /\ group' = GroupAfter(m)
     /\ UNCHANGED <<snapshot, workers, made, address, budget>>

\* Mutant: the closing reply goes with its thread.
SatelliteMayGoEarly(c) ==
  Satellite(c) => \/ intents[Plan[c].parent].receipt # 0
                  \/ intents[Plan[c].parent].status \in Terminal

\* A satellite goes once its card has a message or has ended; the closing reply
\* once the last revision is out and the card has ended.
SatelliteMayGo(c) ==
  Satellite(c) =>
    LET card == intents[Plan[c].parent]
    IN /\ card.receipt # 0 \/ card.status \in Terminal
       /\ Plan[c].reply => snapshot.final /\ card.status \in Terminal

\* Mutant: a direct message waits for a card that went out.
DMMayGoWithACard(c) ==
  intents[c].endpoint = 0 => \A card \in Plan[c].awaits : intents[card].receipt # 0

\* A direct message with nothing bound yet waits for the first attempt of the
\* cards it could link to.
DMMayGo(c) ==
  intents[c].endpoint = 0 =>
    \A card \in Plan[c].awaits :
      \/ intents[card].receipt # 0
      \/ intents[card].failing
      \/ intents[card].status \notin {"pending", "sending"}

Claim(w, c) ==
  /\ intents[c].status = "pending" /\ intents[c].due /\ intents[c].deadline # "past"
  /\ ~intents[c].live
  /\ workers[w] = Idle
  /\ SatelliteMayGo(c) /\ DMMayGo(c)
  /\ LET token == intents[c].claims + 1
     IN /\ intents' = [intents EXCEPT ![c].claims = token, ![c].token = token, ![c].live = TRUE]
        /\ workers' = [workers EXCEPT ![w].pc = "leased", ![w].intent = c, ![w].token = token]
  /\ UNCHANGED <<group, snapshot, journal, made, address, budget>>

------------------------------------------------------------------------------
(* serve(): prepare.  The row, its card and the directory are read as they *)
(* stand, without a lock; the answer is judged when the attempt begins.    *)

Prepared(w, prep, endpoint) ==
  /\ workers' = [workers EXCEPT ![w].pc = "prepared", ![w].prep = prep, ![w].endpoint = endpoint]
  /\ UNCHANGED <<group, snapshot, intents, journal, made, address>>

\* The address of a satellite is its card's message.
Proposed(c) == IF Satellite(c) THEN intents[Plan[c].parent].receipt ELSE address[c]

\* Satellites are asked about only under a card with a message.
Asked(c) == Satellite(c) => intents[Plan[c].parent].receipt # 0

PrepareReady(w) ==
  /\ workers[w].pc = "leased" /\ Asked(workers[w].intent)
  /\ Prepared(w, "ready", Proposed(workers[w].intent))
  /\ UNCHANGED budget

\* No linked identity, no integration, a directory that does not answer.
PrepareRefuses(w, prep) ==
  /\ workers[w].pc = "leased" /\ Asked(workers[w].intent)
  /\ Prepared(w, prep, 0)
  /\ Fault

\* The card ended without a message: the gate's own refusal.
PrepareOrphaned(w) ==
  LET c == workers[w].intent
  IN /\ workers[w].pc = "leased" /\ ~Asked(c)
     /\ intents[Plan[c].parent].status \in Terminal
     /\ Prepared(w, "parent_ended", 0)
     /\ UNCHANGED budget

\* The card was brought back between the claim and this read: left alone.
PrepareSkips(w) ==
  LET c == workers[w].intent
  IN /\ workers[w].pc = "leased" /\ ~Asked(c)
     /\ intents[Plan[c].parent].status \notin Terminal
     /\ workers' = [workers EXCEPT ![w] = Idle]
     /\ UNCHANGED <<group, snapshot, intents, journal, made, address, budget>>

------------------------------------------------------------------------------
(* serve(): begin.                                                         *)

Holds(w) ==
  LET i == intents[workers[w].intent]
  IN i.status = "pending" /\ i.token = workers[w].token /\ i.live

\* intent_finalized and lease_lost: nothing is written.
BeginDenied(w) ==
  /\ workers[w].pc = "prepared" /\ ~Holds(w)
  /\ workers' = [workers EXCEPT ![w] = Idle]
  /\ UNCHANGED <<group, snapshot, intents, journal, made, address, budget>>

\* A refusal that was true when the worker read the card and is not any more.
StaleRefusal(w) ==
  LET c == workers[w].intent
  IN /\ workers[w].prep = "parent_ended"
     /\ \/ intents[Plan[c].parent].receipt # 0
        \/ intents[Plan[c].parent].status \notin Terminal

BeginStale(w) ==
  LET c == workers[w].intent
  IN /\ workers[w].pc = "prepared" /\ Holds(w) /\ StaleRefusal(w)
     /\ intents' = [intents EXCEPT ![c].token = 0, ![c].live = FALSE, ![c].due = TRUE]
     /\ workers' = [workers EXCEPT ![w] = Idle]
     /\ UNCHANGED <<group, snapshot, journal, made, address, budget>>

\* recordPreparation: proof in the journal that no call was made.
BeginRefused(w) ==
  LET c == workers[w].intent
      prep == workers[w].prep
      outcome == IF prep = "transient" THEN "transient" ELSE "permanent"
      m == ForSatellite(View(c), DecidePreparation(View(c), outcome))
      rows == Applied(c, m, Writing(NoRevision, 0))
  IN /\ workers[w].pc = "prepared" /\ prep # "ready" /\ Holds(w) /\ ~StaleRefusal(w)
     /\ Valid(m)
     /\ journal' = [journal EXCEPT ![c] = Append(@,
          Record(c, Kind(c), NoRevision, 0, 0,
                 IF prep = "transient" THEN "retryable" ELSE "permanent",
                 IF prep = "parent_ended" THEN "parent_ended" ELSE "preparation"))]
     /\ intents' = IF StopsEscalation(c) /\ m.to = "permanent_failed"
                   THEN Stopped(rows, c) ELSE rows
     /\ workers' = [workers EXCEPT ![w] = Idle]
     /\ UNCHANGED <<group, snapshot, made, address, budget>>

\* refuseAttempt: the payload, the state it renders from or its binding cannot be
\* read any more.  It ends the commitment whatever the worker had prepared, and it
\* stops no escalation: the later steps go on.
BeginUndeliverable(w) ==
  LET c == workers[w].intent
      m == ForSatellite(View(c), DecidePreparation(View(c), "permanent"))
  IN /\ workers[w].pc = "prepared" /\ Holds(w) /\ Fault
     /\ Valid(m)
     /\ journal' = [journal EXCEPT ![c] = Append(@,
          Record(c, Kind(c), NoRevision, 0, 0, "permanent", "undeliverable"))]
     /\ intents' = Applied(c, m, Writing(NoRevision, 0))
     /\ workers' = [workers EXCEPT ![w] = Idle]
     /\ UNCHANGED <<group, snapshot, made, address>>

\* Mutant: every attempt goes where the directory points now.
BoundAgain(c, proposed) == proposed

\* The generation's address is bound by its first call and kept by every repeat.
Bound(c, proposed) == IF intents[c].endpoint = 0 THEN proposed ELSE intents[c].endpoint

BeginStarted(w) ==
  LET c == workers[w].intent
      n == Len(journal[c]) + 1
      endpoint == Bound(c, workers[w].endpoint)
  IN /\ workers[w].pc = "prepared" /\ workers[w].prep = "ready" /\ Holds(w)
     /\ Valid(DecidePreparation(View(c), "ready"))
     /\ journal' = [journal EXCEPT ![c] = Append(@,
          Record(c, Kind(c), ContentRevision(c), endpoint, workers[w].token, "open", "none"))]
     /\ intents' = [intents EXCEPT ![c].status = "sending", ![c].attempt = n,
                                   ![c].endpoint = endpoint]
     /\ workers' = [workers EXCEPT ![w].pc = "calling", ![w].attempt = n]
     /\ UNCHANGED <<group, snapshot, made, address, budget>>

------------------------------------------------------------------------------
(* serve(): the provider.  External; what Conclude() leaves of its answer. *)

Answered(w, answer, effect) ==
  LET c == workers[w].intent
  IN /\ workers[w].pc = "calling"
     /\ workers' = [workers EXCEPT ![w].pc = "answered", ![w].answer = answer]
     /\ made' = IF effect THEN [made EXCEPT ![c] = @ \cup {workers[w].attempt}] ELSE made
     /\ UNCHANGED <<group, snapshot, intents, journal, address>>

CallAccepted(w) == Answered(w, "accepted", TRUE) /\ UNCHANGED budget

CallRejected(w, answer) == Answered(w, answer, FALSE) /\ Fault

\* Only a change can be told that the message it changes is gone.
CallFindsNothing(w) ==
  /\ workers[w].pc = "calling"
  /\ journal[workers[w].intent][workers[w].attempt].kind = "mutation"
  /\ Answered(w, "absent", FALSE) /\ Fault

\* A timeout, a cut connection, an answer nobody can classify.
CallInDoubt(w, effect) == Answered(w, "ambiguous", effect) /\ Fault

------------------------------------------------------------------------------
(* serve(): finalize.                                                      *)

\* The attempt is still the commitment's: close it and move the commitment.
Finalize(w) ==
  LET c == workers[w].intent
      n == workers[w].attempt
      a == journal[c][n]
      answer == workers[w].answer
      final == /\ Plan[c].form = "editable" /\ answer = "accepted"
               /\ snapshot.final /\ a.revision = snapshot.revision
      m == ForSatellite(View(c),
             DecideFinish(View(c), OutcomeOf(answer), a.revision, final, FALSE))
      receipt == IF answer = "accepted" /\ a.kind = "create" THEN n ELSE 0
      rows == Applied(c, m, Writing(a.revision, receipt))
  IN /\ workers[w].pc = "answered" /\ a.by = "none" /\ a.token = workers[w].token
     /\ intents[c].attempt = n /\ intents[c].token = a.token
     /\ Valid(m)
     /\ journal' = [journal EXCEPT ![c][n] = Closed(@, answer, "worker")]
     /\ intents' = IF /\ StopsEscalation(c) /\ OutcomeOf(answer) = "permanent"
                      /\ m.to = "permanent_failed"
                   THEN Stopped(rows, c) ELSE rows
     /\ group' = GroupAfter(m)
     /\ workers' = [workers EXCEPT ![w] = Idle]
     /\ UNCHANGED <<snapshot, made, address, budget>>

\* Mutant: a late answer replaces the outcome recovery wrote.
FinalizeLateRewrites(w) ==
  LET c == workers[w].intent
      n == workers[w].attempt
  IN /\ workers[w].pc = "answered" /\ journal[c][n].by = "lease_lost"
     /\ journal' = [journal EXCEPT ![c][n].outcome = workers[w].answer]
     /\ workers' = [workers EXCEPT ![w] = Idle]
     /\ UNCHANGED <<group, snapshot, intents, made, address, budget>>

\* Recovery closed the attempt first: the answer is kept as an observation.
FinalizeLate(w) ==
  LET c == workers[w].intent
      n == workers[w].attempt
  IN /\ workers[w].pc = "answered" /\ journal[c][n].by = "lease_lost"
     /\ journal[c][n].token = workers[w].token
     /\ journal' = [journal EXCEPT ![c][n].late = workers[w].answer]
     /\ workers' = [workers EXCEPT ![w] = Idle]
     /\ UNCHANGED <<group, snapshot, intents, made, address, budget>>

\* The process dies, or a reply of the database is lost: serve() never repeats
\* a call of its own, so both leave the row to its lease.
Crash(w) ==
  /\ workers[w].pc # "idle"
  /\ workers' = [workers EXCEPT ![w] = Idle]
  /\ Fault
  /\ UNCHANGED <<group, snapshot, intents, journal, made, address>>

\* A call that took effect although its caller died before it was answered.
CrashAfterEffect(w) ==
  /\ workers[w].pc = "calling"
  /\ made' = [made EXCEPT ![workers[w].intent] = @ \cup {workers[w].attempt}]
  /\ workers' = [workers EXCEPT ![w] = Idle]
  /\ Fault
  /\ UNCHANGED <<group, snapshot, intents, journal, address>>

------------------------------------------------------------------------------
(* The group, the directory and the person.                                *)

Acknowledge ==
  /\ group \in {"processing", "triggered"}
  /\ group' = "acknowledged"
  /\ Raise(Withdrawn(intents), TRUE, TRUE, FALSE)
  /\ UNCHANGED <<journal, workers, made, address, budget>>

Resolve ==
  /\ group \in {"processing", "triggered", "acknowledged"}
  /\ group' = "resolved"
  /\ Raise(Withdrawn(intents), TRUE, TRUE, TRUE)
  /\ UNCHANGED <<journal, workers, made, address, budget>>

\* A merge, a note, a button switch: the card's picture, the thread's, or both.
StateMoves(cards, threads) ==
  /\ snapshot.revision < MaxRevision /\ ~snapshot.final
  /\ cards \/ threads
  /\ Raise(intents, cards, threads, FALSE)
  /\ UNCHANGED <<group, journal, workers, made, address, budget>>

Relink(c, to) ==
  /\ budget.relinks > 0 /\ to # address[c]
  /\ Plan[c].form = "one_shot" /\ ~Satellite(c)
  /\ address' = [address EXCEPT ![c] = to]
  /\ budget' = [budget EXCEPT !.relinks = @ - 1]
  /\ UNCHANGED <<group, snapshot, intents, journal, workers, made>>

\* Nothing is retried for an alert that is over, except the correction of a
\* card that is on somebody's screen.
DecisionIsStale(c, decision) ==
  /\ decision \in {"retry_current", "retry_new"} /\ GroupOver
  /\ ~(decision = "retry_current" /\ Plan[c].form = "editable" /\ intents[c].receipt # 0)

\* A card brought back is aimed at the state the group is in now.
Reaimed(c, decision) ==
  IF decision = "retry_current" /\ Plan[c].form = "editable"
  THEN [intents EXCEPT ![c].desired = snapshot.revision] ELSE intents

\* A card brought back by a retry brings back the satellites refused for its end.
Unorphaned(rows, c, decision) ==
  [d \in Commitment |->
     IF /\ decision \in {"retry_current", "retry_new"} /\ ~Satellite(c)
        /\ Plan[d].parent = c /\ rows[d].status = "permanent_failed"
        /\ journal[d] # <<>> /\ journal[d][Len(journal[d])].by = "parent_ended"
     THEN [rows[d] EXCEPT !.status = "pending", !.due = TRUE, !.token = 0, !.live = FALSE]
     ELSE rows[d]]

OperatorDecides(c, decision, risk, deadline) ==
  LET f == Facts(c, risk, deadline)
      final == /\ Plan[c].form = "editable" /\ decision \in {"assume_accepted", "retry_current"}
               /\ snapshot.final /\ f.revision = snapshot.revision
      i == [View(c) EXCEPT !.desired = Reaimed(c, decision)[c].desired]
      m == ForSatellite(i, DecideOperator(i, decision, f, f.revision, final))
      w == [revision |-> f.revision, receipt |-> 0, deadline |-> deadline]
  IN /\ budget.decisions > 0
     /\ intents[c].status \in {"manual_review", "permanent_failed", "expired"}
     /\ ~DecisionIsStale(c, decision)
     /\ Valid(m)
     /\ intents' = Unorphaned([Applied(c, m, w) EXCEPT ![c].desired = i.desired], c, decision)
     /\ group' = GroupAfter(m)
     /\ budget' = [budget EXCEPT !.decisions = @ - 1]
     /\ UNCHANGED <<snapshot, journal, workers, made, address>>

------------------------------------------------------------------------------
Tick(c) ==
  \/ LeaseExpires(c) \/ LeaseOverruns(c) \/ DeadlinePasses(c) \/ BackoffElapses(c)
  \/ Expire(c) \/ Recover(c)

Serve(w) ==
  \/ \E c \in Commitment : Claim(w, c)
  \/ PrepareReady(w) \/ PrepareOrphaned(w) \/ PrepareSkips(w)
  \/ \E prep \in {"permanent", "transient"} : PrepareRefuses(w, prep)
  \/ BeginDenied(w) \/ BeginStale(w) \/ BeginRefused(w) \/ BeginUndeliverable(w)
  \/ BeginStarted(w)
  \/ CallAccepted(w) \/ CallFindsNothing(w)
  \/ \E answer \in {"retryable", "permanent"} : CallRejected(w, answer)
  \/ \E effect \in BOOLEAN : CallInDoubt(w, effect)
  \/ Finalize(w) \/ FinalizeLate(w)
  \/ Crash(w) \/ CrashAfterEffect(w)

Domain ==
  \/ Acknowledge \/ Resolve
  \/ \E cards, threads \in BOOLEAN : StateMoves(cards, threads)
  \/ \E c \in Commitment, to \in Address : Relink(c, to)
  \/ \E c \in Commitment, decision \in Decisions, risk, deadline \in BOOLEAN :
       OperatorDecides(c, decision, risk, deadline)

Next == (\E c \in Commitment : Tick(c)) \/ (\E w \in Worker : Serve(w)) \/ Domain

Spec == Init /\ [][Next]_vars

------------------------------------------------------------------------------
(* Fairness.  The worker's loop ticks for ever (expire, recover, claim);    *)
(* leases, backoffs and deadlines run out with the clock; every step of a   *)
(* serve() has a deadline of its own, so it ends, a call included - answered *)
(* or in doubt.  Nothing is assumed of crashes, people or the alert.        *)

CallEnds(w) ==
  \/ CallAccepted(w) \/ CallFindsNothing(w)
  \/ \E answer \in {"retryable", "permanent"} : CallRejected(w, answer)
  \/ \E effect \in BOOLEAN : CallInDoubt(w, effect)

PrepareEnds(w) ==
  \/ PrepareReady(w) \/ PrepareOrphaned(w) \/ PrepareSkips(w)
  \/ \E prep \in {"permanent", "transient"} : PrepareRefuses(w, prep)

BeginEnds(w) ==
  \/ BeginDenied(w) \/ BeginStale(w) \/ BeginRefused(w) \/ BeginUndeliverable(w)
  \/ BeginStarted(w)

Fairness ==
  /\ \A c \in Commitment :
       /\ WF_vars(LeaseExpires(c)) /\ WF_vars(DeadlinePasses(c)) /\ WF_vars(BackoffElapses(c))
       /\ WF_vars(Expire(c)) /\ WF_vars(Recover(c))
       /\ WF_vars(\E w \in Worker : Claim(w, c))
  /\ \A w \in Worker :
       /\ WF_vars(PrepareEnds(w)) /\ WF_vars(BeginEnds(w)) /\ WF_vars(CallEnds(w))
       /\ WF_vars(Finalize(w) \/ FinalizeLate(w))

FairSpec == Spec /\ Fairness

------------------------------------------------------------------------------
(* Types.                                                                  *)

Answers == {"accepted", "retryable", "permanent", "absent", "ambiguous"}

SnapshotType == [revision : Nat, final : BOOLEAN, card : Nat, thread : Nat]

IntentType ==
  [status : Statuses, gen : Nat, endpoint : Nat, desired : Int, applied : Int,
   receipt : Nat, cancel : BOOLEAN, risk : BOOLEAN, claims : Nat, token : Nat,
   live : BOOLEAN, attempt : Nat, failing : BOOLEAN, due : BOOLEAN,
   deadline : {"none", "ahead", "past"}]

RecordType ==
  [gen : Nat, kind : {"create", "mutation"}, revision : Int, endpoint : Nat, token : Nat,
   outcome : Answers \cup {"open"},
   by : {"none", "worker", "lease_lost", "preparation", "parent_ended", "undeliverable"},
   late : Answers \cup {"none"}]

WorkerType ==
  [pc : {"idle", "leased", "prepared", "calling", "answered"},
   intent : Commitment \cup {NoParent}, token : Nat,
   prep : {"none", "ready", "permanent", "transient", "parent_ended"},
   endpoint : Nat, attempt : Nat, answer : Answers \cup {"none"}]

BudgetType == [faults : Nat, decisions : Nat, relinks : Nat]

\* The shape of every row, of the journal and of what a slot remembers.
TypeOK ==
  /\ group \in {"processing", "triggered", "acknowledged", "resolved"}
  /\ snapshot \in SnapshotType
  /\ intents \in [Commitment -> IntentType]
  /\ journal \in [Commitment -> Seq(RecordType)]
  /\ workers \in [Worker -> WorkerType]
  /\ made \in [Commitment -> SUBSET Nat]
  /\ address \in [Commitment -> Address]
  /\ budget \in BudgetType

------------------------------------------------------------------------------
(* Safety.                                                                 *)

Call(c, n) == journal[c][n].by \notin {"preparation", "parent_ended", "undeliverable"}

Creates(c) == {n \in DOMAIN journal[c] : journal[c][n].kind = "create" /\ Call(c, n)}

\* One attempt at a time, and only its owner closes it: a row is sending exactly
\* while its journal has one open record, the one it points at, under the token
\* the row carries now.  It is what makes "open but its commitment points
\* elsewhere" in FinalizeDeliveryAttempt a contract error and not a race.
AttemptFence ==
  \A c \in Commitment :
    /\ intents[c].status = "sending" <=> intents[c].attempt # 0
    /\ \A n \in DOMAIN journal[c] :
         journal[c][n].by = "none" <=> n = intents[c].attempt
    /\ intents[c].attempt # 0 =>
         /\ intents[c].attempt \in DOMAIN journal[c]
         /\ intents[c].token # 0
         /\ journal[c][intents[c].attempt].token = intents[c].token

\* Every call of a generation goes to the address its first call was bound to,
\* whatever the directory says by then: a repeat after doubt must not reach
\* somebody else (bindGenerationTx).
OneAddressPerGeneration ==
  \A c \in Commitment : \A n, m \in DOMAIN journal[c] :
    Call(c, n) /\ Call(c, m) /\ journal[c][n].gen = journal[c][m].gen
      => journal[c][n].endpoint = journal[c][m].endpoint

\* A second message is never made quietly.  Within a generation the call that
\* made the first one ended in doubt, on the record; a new generation over such
\* a doubt carries the risk a person accepted.
DuplicatesAreExplained ==
  \A c \in Commitment : \A n, m \in Creates(c) :
    n < m /\ n \in made[c] =>
      IF journal[c][n].gen = journal[c][m].gen
      THEN journal[c][n].outcome = "ambiguous"
      ELSE journal[c][n].outcome = "ambiguous" => intents[c].risk

\* Once the alert is over, a commitment without a message owes nobody anything:
\* it is not queued, and one in flight is asked to stop - unless it follows a
\* card that went out, which keeps its thread and its reply.
WithdrawalHolds ==
  GroupOver =>
    \A c \in Commitment :
      intents[c].receipt = 0 /\ (Satellite(c) => intents[Plan[c].parent].receipt = 0) =>
        /\ intents[c].status \notin {"pending", "manual_review", "idle"}
        /\ intents[c].status = "sending" => intents[c].cancel

\* No update is lost: a parked card or thread has applied the last revision its
\* own picture moved at, nothing is parked once the last revision is out, and nothing
\* is finished before.
CaughtUp ==
  \A c \in Commitment :
    /\ intents[c].status = "idle" =>
         /\ ~snapshot.final
         /\ intents[c].applied >= IF Plan[c].thread THEN snapshot.thread ELSE snapshot.card
    /\ Plan[c].form = "editable" /\ intents[c].status = "succeeded" =>
         snapshot.final /\ intents[c].applied = snapshot.revision

\* A satellite is only ever posted under a message its card made, and the reply
\* that closes a thread only at the last revision of a finished alert.
SatelliteUnderItsCard ==
  \A c \in Commitment : Satellite(c) =>
    \A n \in DOMAIN journal[c] : Call(c, n) =>
      /\ journal[c][n].endpoint \in Creates(Plan[c].parent) \cap made[Plan[c].parent]
      /\ Plan[c].reply => snapshot.final /\ journal[c][n].revision = snapshot.revision

------------------------------------------------------------------------------
(* What a step may never do.                                               *)

\* The steps at which the escalation stops when they fail.
Stopping == {c \in Commitment : StopsEscalation(c)}

\* A commitment of a later step that has no message is still queued, or in flight
\* unasked, although step c failed for good - by the provider's word or a worker's,
\* for what the store itself refuses stops nothing.
EscapesTheStop(c, d) ==
  /\ intents[c].status = "permanent_failed"
  /\ journal[c][Len(journal[c])].by # "undeliverable"
  /\ Plan[d].step > Plan[c].step /\ Withdrawable(intents, d)
  /\ \/ intents[d].status \in {"pending", "manual_review"}
     \/ intents[d].status = "sending" /\ ~intents[d].cancel

\* A policy that stops at a failed step sends nothing of a later one
\* (stopEscalationTx, in the transaction that writes the failure): what escapes it
\* is what a person's decision brings back, never what a step of the machine does.
\* A failure is what a provider or a worker answered: a commitment the store finds
\* unreadable or unbound (refuseAttempt) ends without stopping anything.
StopHolds ==
  [][\A c \in Stopping, d \in Commitment :
       EscapesTheStop(c, d)' => EscapesTheStop(c, d) \/ budget'.decisions # budget.decisions]_vars

\* The journal is history: records are only added, a closed one keeps its
\* outcome, and the observation beside it is written once.
JournalIsHistory ==
  [][\A c \in Commitment : \A n \in DOMAIN journal[c] :
       /\ n \in DOMAIN journal'[c]
       /\ journal[c][n].by # "none" =>
            /\ journal'[c][n] = [journal[c][n] EXCEPT !.late = journal'[c][n].late]
            /\ journal[c][n].late # "none" => journal'[c][n] = journal[c][n]]_vars

\* machine.go: "A new external object may only replace one that was never created
\* or is known to be gone.  Otherwise the old one stays behind, unowned."
ReplacedOnlyWhenGone ==
  \A c \in Commitment : \A n, m \in Creates(c) :
    journal[c][n].gen < journal[c][m].gen /\ journal[c][n].outcome = "accepted" =>
      \E k \in DOMAIN journal[c] :
        /\ journal[c][k].gen = journal[c][n].gen
        /\ "absent" \in {journal[c][k].outcome, journal[c][k].late}

\* outbound_satellite_store.go: "The resolution is announced under a card that
\* already shows it."
AnnouncedUnderItsCard ==
  \A c \in Commitment : Plan[c].reply =>
    \A n \in DOMAIN journal[c] :
      Call(c, n) => intents[Plan[c].parent].applied = snapshot.revision

------------------------------------------------------------------------------
(* Liveness, under Fairness.                                               *)

\* No attempt stays open for ever, whoever dies with it.
EveryAttemptEnds ==
  \A c \in Commitment : intents[c].status = "sending" ~> intents[c].status # "sending"

\* A page or a card in the queue leaves it: it is tried, or withdrawn.  The cards
\* a direct message waits for never hold it up for good, whatever becomes of them.
QueueDrains ==
  \A c \in Commitment :
    ~Satellite(c) => (intents[c].status = "pending" ~> intents[c].status # "pending")

\* After a resolve nothing keeps moving: every commitment is finished, or
\* stopped where a person can see it, and stays there.
ResolvedComesToRest ==
  group = "resolved" ~>
    [](\A c \in Commitment : intents[c].status \notin {"pending", "sending", "idle"})

==============================================================================
