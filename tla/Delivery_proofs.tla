--------------------------- MODULE Delivery_proofs ---------------------------
(* What holds of a group's delivery for every admission, every number of     *)
(* worker slots and every bound.  First the journal; then what the rows       *)
(* promise beside it: a receipt is a message that was made, nothing is owed   *)
(* once the alert is over or the escalation has stopped, a satellite goes     *)
(* under its card's message, a second message is on the record, and a card at *)
(* rest shows the last picture.  At the end, that the delivery keeps its      *)
(* promise: read through DeliveryContract, every step of the workers,         *)
(* recovery, the alert and people is, for each commitment, a step of Promise  *)
(* or none.                                                                   *)
EXTENDS DeliveryContract, TLAPS, SequenceTheorems

------------------------------------------------------------------------------
(* What the decision table guarantees for every commitment and every input.   *)

\* Released, or the whole of it kept: a move out of "sending" closes what the
\* attempt held open.
ClosesAttempt(m) ==
  /\ m.to \in Statuses \ {"sending"}
  /\ "ClearLease" \in m.effects /\ "ClearCurrentAttempt" \in m.effects

\* A settled delivery (settleApplied) lands outside "sending" and closes its
\* attempt, or is refused.
LEMMA SettleCloses ==
  ASSUME NEW i, NEW proof, NEW revision, NEW final,
         Valid(SettleApplied(i, proof, revision, final))
  PROVE  ClosesAttempt(SettleApplied(i, proof, revision, final))
BY DEF SettleApplied, Settled, Released, Move, Invalid, Valid, ClosesAttempt, Statuses

\* Whatever a provider answered, a finished attempt of a commitment that
\* succeeds on acceptance is closed (decideFinish).
LEMMA FinishCloses ==
  ASSUME NEW i, NEW outcome, NEW revision, NEW final, NEW doubt,
         i.completion = "on_acceptance",
         Valid(DecideFinish(i, outcome, revision, final, doubt))
  PROVE  ClosesAttempt(DecideFinish(i, outcome, revision, final, doubt))
<1>1. CASE i.status = "sending" /\ i.cancel
  <2>1. CASE outcome = "accepted"
    BY <1>1, <2>1, SettleCloses DEF DecideFinish, FinishWithdrawn, With, Move, Valid, ClosesAttempt
  <2>2. CASE outcome # "accepted"
    BY <1>1, <2>2 DEF DecideFinish, FinishWithdrawn, Outcomes, Released, Move, Valid, Invalid,
                      ClosesAttempt, Statuses
  <2> QED BY <2>1, <2>2
<1>2. CASE i.status = "sending" /\ ~i.cancel /\ outcome = "accepted"
  BY <1>2, SettleCloses DEF DecideFinish
<1>3. CASE i.status = "sending" /\ ~i.cancel /\ outcome = "ambiguous"
  <2>1. CASE i.policy = "assume_accepted"
    BY <1>3, <2>1, SettleCloses
       DEF DecideFinish, DecideAmbiguous, Valid, Invalid, Move
  <2>2. CASE i.policy # "assume_accepted"
    BY <1>3, <2>2
       DEF DecideFinish, DecideAmbiguous, Repeat, ToReview, Released, Move, Valid, Invalid,
           ClosesAttempt, Statuses
  <2> QED BY <2>1, <2>2
<1>4. CASE i.status = "sending" /\ ~i.cancel /\ outcome \notin {"accepted", "ambiguous"}
  BY <1>4 DEF DecideFinish, Repeat, Released, Move, Valid, Invalid, ClosesAttempt, Statuses
<1>5. CASE i.status # "sending"
  BY <1>5 DEF DecideFinish, Valid, Invalid, Move
<1> QED BY <1>1, <1>2, <1>3, <1>4, <1>5

\* A recovered attempt is closed, whatever its policy (decideRecover).
LEMMA RecoverCloses ==
  ASSUME NEW i, NEW expired, NEW revision, NEW final,
         Valid(DecideRecover(i, expired, revision, final))
  PROVE  ClosesAttempt(DecideRecover(i, expired, revision, final))
<1>1. CASE i.status = "sending" /\ ~i.cancel /\ i.policy = "assume_accepted" /\ i.form = "one_shot"
  BY <1>1, SettleCloses DEF DecideRecover
<1>2. CASE ~(i.status = "sending" /\ ~i.cancel /\ i.policy = "assume_accepted" /\ i.form = "one_shot")
  BY <1>2 DEF DecideRecover, Repeat, ToReview, Released, Move, Valid, Invalid,
              ClosesAttempt, Statuses
<1> QED BY <1>1, <1>2

\* A preparation that ends without a call gives the lease back and stays out of
\* "sending" (decidePreparation).
LEMMA RefusalReleases ==
  ASSUME NEW i, NEW outcome \in {"permanent", "transient"},
         Valid(DecidePreparation(i, outcome))
  PROVE  LET m == DecidePreparation(i, outcome)
         IN m.to \in Statuses \ {"sending"} /\ "ClearLease" \in m.effects
BY DEF DecidePreparation, Move, Valid, Invalid, Statuses

\* A person decides only about what is stuck, and nothing a person decides puts
\* a call on the wire by itself (decideOperator).
LEMMA OperatorDoesNotSend ==
  ASSUME NEW i, NEW decision, NEW f, NEW revision, NEW final,
         Valid(DecideOperator(i, decision, f, revision, final))
  PROVE  /\ DecideOperator(i, decision, f, revision, final).to \in Statuses \ {"sending"}
         /\ i.status \in {"manual_review", "permanent_failed", "expired"}
<1>1. i.status \in {"manual_review", "permanent_failed", "expired"}
  BY DEF DecideOperator, Valid, Invalid, Move
<1>2. CASE decision = "assume_accepted" /\ i.status = "manual_review"
           /\ (i.form = "one_shot" \/ i.receipt)
  BY <1>1, <1>2, SettleCloses DEF DecideOperator, ClosesAttempt
<1>3. CASE ~(decision = "assume_accepted" /\ i.status = "manual_review"
             /\ (i.form = "one_shot" \/ i.receipt))
  BY <1>1, <1>3 DEF DecideOperator, Move, Valid, Invalid, Statuses
<1> QED BY <1>1, <1>2, <1>3

\* Keeping a satellite's transitions out of the alert's history changes neither
\* where it goes nor what it releases.
LEMMA SatelliteSameMove ==
  ASSUME NEW i, NEW m
  PROVE  /\ Valid(ForSatellite(i, m)) <=> Valid(m)
         /\ ForSatellite(i, m).to = m.to
         /\ \A e : e # "TriggerGroup" => (e \in ForSatellite(i, m).effects <=> e \in m.effects)
BY DEF ForSatellite, Valid, Move

------------------------------------------------------------------------------
(* The invariant.                                                             *)

\* What a slot between its transactions still knows for certain: which
\* commitment it serves, under which token, that its attempt is on record, and
\* what it was answered.
SlotsHold ==
  \A w \in Worker :
    /\ workers[w].pc # "idle" =>
         workers[w].intent \in Commitment /\ workers[w].token # 0
    /\ workers[w].pc \in {"calling", "answered"} =>
         workers[w].attempt \in DOMAIN journal[workers[w].intent]
    /\ workers[w].pc = "answered" => workers[w].answer # "none"

\* The invariant the steps preserve.
IInv == TypeOK /\ AttemptFence /\ SlotsHold

------------------------------------------------------------------------------
(* Rows.                                                                      *)

\* AttemptFence of one commitment.
FenceAt(i, log) ==
  /\ i.status = "sending" <=> i.attempt # 0
  /\ \A n \in DOMAIN log : log[n].by = "none" <=> n = i.attempt
  /\ i.attempt # 0 => /\ i.attempt \in DOMAIN log
                      /\ i.token # 0
                      /\ log[i.attempt].token = i.token

\* A row rewritten beside the worker's protocol: its open attempt is not touched.
Quiet(i, j) ==
  /\ j \in IntentType
  /\ j.attempt = i.attempt
  /\ j.status = "sending" <=> i.status = "sending"
  /\ i.status = "sending" => j.token = i.token

\* The fence is a statement about each row and its journal.
LEMMA FencePointwise == AttemptFence <=> \A c \in Commitment : FenceAt(intents[c], journal[c])
BY DEF AttemptFence, FenceAt

\* The same of the next state.
LEMMA FencePointwisePrime ==
  AttemptFence' <=> \A c \in Commitment : FenceAt(intents'[c], journal'[c])
BY DEF AttemptFence, FenceAt

\* A quiet rewrite of a row keeps its fence.
LEMMA QuietKeepsFence ==
  ASSUME NEW i, NEW j, NEW log, FenceAt(i, log), Quiet(i, j)
  PROVE  FenceAt(j, log)
BY DEF FenceAt, Quiet

\* A row left as it is is quiet.
LEMMA QuietSelf == ASSUME NEW i \in IntentType PROVE Quiet(i, i)
BY DEF Quiet

\* Two quiet rewrites in a row are one.
LEMMA QuietTwice ==
  ASSUME NEW i, NEW j, NEW k, Quiet(i, j), Quiet(j, k)
  PROVE  Quiet(i, k)
BY DEF Quiet

\* The row the withdrawal writes: only a commitment in flight keeps its attempt.
LEMMA WithdrawnRowQuiet ==
  ASSUME NEW i \in IntentType
  PROVE  Quiet(i, WithdrawnRow(i))
<1>1. CASE i.status = "pending"
  <2>1. WithdrawnRow(i) = [i EXCEPT !.status = "canceled", !.token = 0, !.live = FALSE]
    BY <1>1, Zenon DEF WithdrawnRow, CanceledRow
  <2>2. [i EXCEPT !.status = "canceled"] \in IntentType
    BY DEF IntentType, Statuses
  <2>3. [[i EXCEPT !.status = "canceled"] EXCEPT !.token = 0] \in IntentType
    BY <2>2 DEF IntentType
  <2>4. [[[i EXCEPT !.status = "canceled"] EXCEPT !.token = 0] EXCEPT !.live = FALSE]
          \in IntentType
    BY <2>3 DEF IntentType
  <2>5. WithdrawnRow(i) \in IntentType
    BY <2>1, <2>4
  <2>6. WithdrawnRow(i).status = "canceled" /\ WithdrawnRow(i).attempt = i.attempt
    BY <2>1 DEF IntentType
  <2> QED BY <1>1, <2>5, <2>6 DEF Quiet
<1>2. CASE i.status = "sending"
  <2>1. WithdrawnRow(i) = [i EXCEPT !.cancel = TRUE]
    BY <1>2, Zenon DEF WithdrawnRow
  <2> QED BY <1>2, <2>1 DEF Quiet, IntentType, Statuses
<1>3. CASE i.status = "manual_review"
  <2>1. WithdrawnRow(i) = [i EXCEPT !.status = "canceled"]
    BY <1>3, Zenon DEF WithdrawnRow
  <2> QED BY <1>3, <2>1 DEF Quiet, IntentType, Statuses
<1>4. CASE i.status \notin {"pending", "sending", "manual_review"}
  <2>1. WithdrawnRow(i) = i
    BY <1>4, Zenon DEF WithdrawnRow
  <2> QED BY <2>1, QuietSelf
<1> QED BY <1>1, <1>2, <1>3, <1>4

\* The row the desired state writes: a parked commitment is queued, no other moves.
LEMMA AimedRowQuiet ==
  ASSUME NEW i \in IntentType, NEW revision \in Nat
  PROVE  Quiet(i, AimedRow(i, revision))
<1> DEFINE status == IF i.status = "idle" THEN "pending" ELSE i.status
           due    == IF i.status = "idle" THEN TRUE ELSE i.due
<1>1. status \in Statuses /\ (status = "sending" <=> i.status = "sending") /\ due \in BOOLEAN
  BY DEF IntentType, Statuses
<1>2. AimedRow(i, revision) = [i EXCEPT !.desired = revision, !.status = status, !.due = due]
  BY DEF AimedRow
<1> HIDE DEF status, due
<1>3. [i EXCEPT !.desired = revision] \in IntentType
  BY DEF IntentType
<1>4. [[i EXCEPT !.desired = revision] EXCEPT !.status = status] \in IntentType
  BY <1>1, <1>3 DEF IntentType
<1>5. [[[i EXCEPT !.desired = revision] EXCEPT !.status = status] EXCEPT !.due = due]
        \in IntentType
  BY <1>1, <1>4 DEF IntentType
<1>6. AimedRow(i, revision) \in IntentType
  BY <1>2, <1>5
<1>7. /\ AimedRow(i, revision).status = status
      /\ AimedRow(i, revision).attempt = i.attempt
      /\ AimedRow(i, revision).token = i.token
  BY <1>2 DEF IntentType
<1> QED BY <1>1, <1>6, <1>7 DEF Quiet

\* The row a transition writes.
LEMMA WrittenRow ==
  ASSUME NEW i \in IntentType, NEW m, NEW w,
         m.to \in Statuses, w.revision \in Int, w.receipt \in Nat
  PROVE  /\ Written(i, m, w) \in IntentType
         /\ Written(i, m, w).status = m.to
         /\ Written(i, m, w).attempt = IF "ClearCurrentAttempt" \in m.effects THEN 0 ELSE i.attempt
<1> DEFINE j == Written(i, m, w)
<1>1. /\ j.status \in Statuses /\ j.gen \in Nat /\ j.endpoint \in Nat
      /\ j.desired \in Int /\ j.applied \in Int /\ j.receipt \in Nat
      /\ j.claims \in Nat /\ j.token \in Nat /\ j.attempt \in Nat
      /\ j.deadline \in {"none", "ahead", "past"}
  BY DEF Written, IntentType
<1>2. /\ j.cancel \in BOOLEAN /\ j.risk \in BOOLEAN /\ j.live \in BOOLEAN
      /\ j.failing \in BOOLEAN /\ j.due \in BOOLEAN
  BY DEF Written, IntentType
<1>3. j = [status |-> j.status, gen |-> j.gen, endpoint |-> j.endpoint, desired |-> j.desired,
           applied |-> j.applied, receipt |-> j.receipt, cancel |-> j.cancel, risk |-> j.risk,
           claims |-> j.claims, token |-> j.token, live |-> j.live, attempt |-> j.attempt,
           failing |-> j.failing, due |-> j.due, deadline |-> j.deadline]
  BY DEF Written
<1>4. j \in IntentType
  <2> HIDE DEF j
  <2> QED BY <1>1, <1>2, <1>3 DEF IntentType
<1>5. /\ j.status = m.to
      /\ j.attempt = IF "ClearCurrentAttempt" \in m.effects THEN 0 ELSE i.attempt
  BY DEF Written
<1> QED BY <1>4, <1>5

\* The row of a satellite that comes back.
LEMMA RevivedQuiet ==
  ASSUME TypeOK, NEW d \in Commitment, intents[d].status = "canceled"
  PROVE  Quiet(intents[d], Revived(d))
<1> DEFINE i == intents[d]
           desired == IF Plan[d].form = "editable" THEN snapshot.revision ELSE i.desired
<1>1. i \in IntentType /\ desired \in Int
  BY DEF TypeOK, SnapshotType, IntentType
<1>2. Revived(d) = [i EXCEPT !.status = "pending", !.due = TRUE, !.cancel = FALSE,
                             !.desired = desired]
  BY DEF Revived
<1>0. i.status = "canceled"
  OBVIOUS
<1> HIDE DEF i, desired
<1>3. [i EXCEPT !.status = "pending"] \in IntentType
  BY <1>1 DEF IntentType, Statuses
<1>4. [[i EXCEPT !.status = "pending"] EXCEPT !.due = TRUE] \in IntentType
  BY <1>3 DEF IntentType
<1>5. [[[i EXCEPT !.status = "pending"] EXCEPT !.due = TRUE] EXCEPT !.cancel = FALSE]
        \in IntentType
  BY <1>4 DEF IntentType
<1>6. [[[[i EXCEPT !.status = "pending"] EXCEPT !.due = TRUE] EXCEPT !.cancel = FALSE]
         EXCEPT !.desired = desired] \in IntentType
  BY <1>1, <1>5 DEF IntentType
<1>7. Revived(d) \in IntentType
  BY <1>2, <1>6
<1>8. Revived(d).status = "pending" /\ Revived(d).attempt = i.attempt
  BY <1>1, <1>2 DEF IntentType
<1>9. Quiet(i, Revived(d))
  BY <1>0, <1>7, <1>8 DEF Quiet
<1> QED BY <1>9 DEF i

------------------------------------------------------------------------------
(* Every row after a transition of one of them.                               *)

Typed(rows) == rows \in [Commitment -> IntentType]

\* cancelIntentsAtTx is quiet on every row.
LEMMA WithdrawnQuiet ==
  ASSUME NEW rows, Typed(rows)
  PROVE  Typed(Withdrawn(rows)) /\ \A c \in Commitment : Quiet(rows[c], Withdrawn(rows)[c])
<1> USE DEF Typed
<1>1. ASSUME NEW c \in Commitment PROVE Quiet(rows[c], Withdrawn(rows)[c])
  BY WithdrawnRowQuiet, QuietSelf DEF Withdrawn
<1>2. Withdrawn(rows) \in [Commitment -> IntentType]
  BY <1>1 DEF Withdrawn, Quiet
<1> QED BY <1>1, <1>2

\* stopEscalationTx is quiet on every row.
LEMMA StoppedQuiet ==
  ASSUME NEW rows, NEW failed \in Commitment, Typed(rows)
  PROVE  Typed(Stopped(rows, failed))
         /\ \A c \in Commitment : Quiet(rows[c], Stopped(rows, failed)[c])
<1> USE DEF Typed
<1>1. ASSUME NEW c \in Commitment PROVE Quiet(rows[c], Stopped(rows, failed)[c])
  BY WithdrawnRowQuiet, QuietSelf DEF Stopped
<1>2. Stopped(rows, failed) \in [Commitment -> IntentType]
  BY <1>1 DEF Stopped, Quiet
<1> QED BY <1>1, <1>2

\* Aiming the editable rows at a revision is quiet on every row.
LEMMA AimedQuiet ==
  ASSUME NEW rows, NEW revision \in Nat, NEW cards, NEW threads, Typed(rows)
  PROVE  Typed(Aimed(rows, revision, cards, threads))
         /\ \A c \in Commitment : Quiet(rows[c], Aimed(rows, revision, cards, threads)[c])
<1> USE DEF Typed
<1>1. ASSUME NEW c \in Commitment
      PROVE  Quiet(rows[c], Aimed(rows, revision, cards, threads)[c])
  BY AimedRowQuiet, QuietSelf DEF Aimed
<1>2. Aimed(rows, revision, cards, threads) \in [Commitment -> IntentType]
  BY <1>1 DEF Aimed, Quiet
<1> QED BY <1>1, <1>2

\* setDesiredStateTx leaves every open attempt alone.
LEMMA RaiseQuiet ==
  ASSUME TypeOK, NEW rows, Typed(rows), NEW cards \in BOOLEAN, NEW threads \in BOOLEAN,
         NEW final \in BOOLEAN, Raise(rows, cards, threads, final)
  PROVE  /\ snapshot' \in SnapshotType
         /\ Typed(intents')
         /\ \A c \in Commitment : Quiet(rows[c], intents'[c])
<1>1. CASE snapshot.final
  BY <1>1, QuietSelf DEF Raise, TypeOK, Typed
<1>2. CASE ~snapshot.final
  <2> DEFINE next == snapshot.revision + 1
  <2>1. next \in Nat
    BY DEF TypeOK, SnapshotType
  <2>2. intents' = Aimed(rows, next, cards, threads)
    BY <1>2 DEF Raise
  <2>3. snapshot' \in SnapshotType
    BY <1>2 DEF Raise, TypeOK, SnapshotType
  <2> HIDE DEF next
  <2> QED BY <2>1, <2>2, <2>3, AimedQuiet
<1> QED BY <1>1, <1>2

\* A transition of c writes c's row, and beside it only brings satellites back.
LEMMA AppliedRows ==
  ASSUME TypeOK, NEW c \in Commitment, NEW m, NEW w,
         m.to \in Statuses, w.revision \in Int, w.receipt \in Nat
  PROVE  /\ Typed(Applied(c, m, w))
         /\ Applied(c, m, w)[c] = Written(intents[c], m, w)
         /\ \A d \in Commitment \ {c} : Quiet(intents[d], Applied(c, m, w)[d])
<1> USE DEF Typed
<1>1. intents \in [Commitment -> IntentType] /\ snapshot.revision \in Nat
  BY DEF TypeOK, SnapshotType
<1>2. Written(intents[c], m, w) \in IntentType
  BY <1>1, WrittenRow
<1>3. Applied(c, m, w)[c] = Written(intents[c], m, w)
  BY DEF Applied
<1>4. ASSUME NEW d \in Commitment \ {c} PROVE Quiet(intents[d], Applied(c, m, w)[d])
  <2>1. CASE Revives(m, c, d)
    <3>1. intents[d].status = "canceled"
      BY <2>1 DEF Revives
    <3>2. Quiet(intents[d], Revived(d))
      BY <3>1, RevivedQuiet
    <3> QED BY <2>1, <3>2 DEF Applied
  <2>2. CASE ~Revives(m, c, d)
    BY <1>1, <2>2, QuietSelf DEF Applied
  <2> QED BY <2>1, <2>2
<1>5. \A d \in Commitment : Applied(c, m, w)[d] \in IntentType
  BY <1>2, <1>3, <1>4 DEF Quiet
<1> QED BY <1>3, <1>4, <1>5 DEF Applied

------------------------------------------------------------------------------
(* What a step has to show.                                                   *)

\* TypeOK without the rows, the journal and the slots.
RestOK ==
  /\ group \in {"processing", "triggered", "acknowledged", "resolved"}
  /\ snapshot \in SnapshotType
  /\ made \in [Commitment -> SUBSET Nat]
  /\ address \in [Commitment -> Address]
  /\ budget \in BudgetType

\* SlotsHold of one slot.
SlotAt(row, log) ==
  /\ row.pc # "idle" => row.intent \in Commitment /\ row.token # 0
  /\ row.pc \in {"calling", "answered"} => row.attempt \in DOMAIN log[row.intent]
  /\ row.pc = "answered" => row.answer # "none"

Grows(old, new) == \A c \in Commitment : DOMAIN old[c] \subseteq DOMAIN new[c]

\* The parts a step lemma has to establish make up the invariant.
LEMMA StepKeeps ==
  ASSUME RestOK', Typed(intents'), journal' \in [Commitment -> Seq(RecordType)],
         workers' \in [Worker -> WorkerType],
         \A c \in Commitment : FenceAt(intents'[c], journal'[c]),
         \A w \in Worker : SlotAt(workers'[w], journal')
  PROVE  IInv'
<1>1. TypeOK'
  BY DEF TypeOK, RestOK, Typed
<1>2. AttemptFence'
  BY FencePointwisePrime
<1>3. SlotsHold'
  BY DEF SlotsHold, SlotAt
<1> QED BY <1>1, <1>2, <1>3 DEF IInv

\* A step with a still journal and quiet rows keeps the fence.
LEMMA QuietRowsKeepFence ==
  ASSUME IInv, UNCHANGED journal, \A c \in Commitment : Quiet(intents[c], intents'[c])
  PROVE  \A c \in Commitment : FenceAt(intents'[c], journal'[c])
<1>1. \A c \in Commitment : FenceAt(intents[c], journal[c])
  BY FencePointwise DEF IInv
<1> QED BY <1>1, QuietKeepsFence

\* A quiet rewrite of one row is quiet on all of them.
LEMMA OneRowQuiet ==
  ASSUME TypeOK, NEW c \in Commitment, NEW row, Quiet(intents[c], row),
         intents' = [intents EXCEPT ![c] = row]
  PROVE  Typed(intents') /\ \A d \in Commitment : Quiet(intents[d], intents'[d])
<1>1. intents \in [Commitment -> IntentType] /\ row \in IntentType
  BY DEF TypeOK, Quiet
<1> QED BY <1>1, QuietSelf DEF Typed

\* Slots left alone keep what they know while journals only grow.
LEMMA SlotsStay ==
  ASSUME IInv, UNCHANGED workers, Grows(journal, journal')
  PROVE  /\ workers' \in [Worker -> WorkerType]
         /\ \A w \in Worker : SlotAt(workers'[w], journal')
<1>1. workers' \in [Worker -> WorkerType]
  BY DEF IInv, TypeOK
<1>2. ASSUME NEW w \in Worker PROVE SlotAt(workers'[w], journal')
  <2>1. SlotAt(workers[w], journal)
    BY DEF IInv, SlotsHold, SlotAt
  <2>2. workers[w].pc \in {"calling", "answered"} => workers[w].intent \in Commitment
    BY <2>1 DEF SlotAt
  <2> QED BY <2>1, <2>2 DEF SlotAt, Grows
<1> QED BY <1>1, <1>2

\* One slot rewritten, the others keep what they know.
LEMMA OneSlotMoves ==
  ASSUME IInv, NEW w \in Worker, NEW row \in WorkerType, SlotAt(row, journal'),
         workers' = [workers EXCEPT ![w] = row], Grows(journal, journal')
  PROVE  /\ workers' \in [Worker -> WorkerType]
         /\ \A v \in Worker : SlotAt(workers'[v], journal')
<1>1. workers \in [Worker -> WorkerType]
  BY DEF IInv, TypeOK
<1>2. ASSUME NEW v \in Worker, v # w PROVE SlotAt(workers'[v], journal')
  <2>1. workers'[v] = workers[v]
    BY <1>1, <1>2
  <2>2. SlotAt(workers[v], journal)
    BY DEF IInv, SlotsHold, SlotAt
  <2>3. workers[v].pc \in {"calling", "answered"} => workers[v].intent \in Commitment
    BY <2>2 DEF SlotAt
  <2> QED BY <2>1, <2>2, <2>3 DEF SlotAt, Grows
<1>3. workers'[w] = row
  BY <1>1
<1> QED BY <1>1, <1>2, <1>3

\* A journal left alone counts as grown.
LEMMA SameJournalGrows ==
  ASSUME TypeOK, UNCHANGED journal
  PROVE  journal' \in [Commitment -> Seq(RecordType)] /\ Grows(journal, journal')
BY DEF Grows, TypeOK

Extended(c, r) == [journal EXCEPT ![c] = Append(@, r)]

Rewritten(c, n, r) == [journal EXCEPT ![c][n] = r]

\* A record is added at the end of one journal.
OnlyAppends(c, r) ==
  /\ journal' \in [Commitment -> Seq(RecordType)]
  /\ Grows(journal, journal')
  /\ \A d \in Commitment \ {c} : journal'[d] = journal[d]
  /\ Len(journal[c]) \in Nat
  /\ DOMAIN journal[c] = 1 .. Len(journal[c])
  /\ DOMAIN journal'[c] = 1 .. Len(journal[c]) + 1
  /\ \A n \in DOMAIN journal[c] : journal'[c][n] = journal[c][n]
  /\ journal'[c][Len(journal[c]) + 1] = r

\* What the next journal looks like after a record is added.
LEMMA JournalAppend ==
  ASSUME TypeOK, NEW c \in Commitment, NEW r \in RecordType,
         journal' = Extended(c, r)
  PROVE  OnlyAppends(c, r)
<1>1. journal \in [Commitment -> Seq(RecordType)]
  BY DEF TypeOK
<1>2. journal'[c] = Append(journal[c], r)
  BY <1>1 DEF Extended
<1>3. /\ journal'[c] \in Seq(RecordType)
      /\ Len(journal'[c]) = Len(journal[c]) + 1
      /\ \A n \in 1 .. Len(journal[c]) : journal'[c][n] = journal[c][n]
      /\ journal'[c][Len(journal[c]) + 1] = r
  BY <1>1, <1>2
<1>4. /\ \A d \in Commitment \ {c} : journal'[d] = journal[d]
      /\ journal' \in [Commitment -> Seq(RecordType)]
  BY <1>1, <1>3 DEF Extended
<1>5. /\ DOMAIN journal'[c] = 1 .. Len(journal[c]) + 1
      /\ DOMAIN journal[c] = 1 .. Len(journal[c])
      /\ Len(journal[c]) \in Nat
  BY <1>1, <1>3
<1>6. Grows(journal, journal')
  <2>1. DOMAIN journal[c] \subseteq DOMAIN journal'[c]
    BY <1>5
  <2> QED BY <1>4, <2>1 DEF Grows
<1> QED BY <1>3, <1>4, <1>5, <1>6 DEF OnlyAppends

\* A record of one journal is rewritten in place.
OnlyRewrites(c, n, r) ==
  /\ journal' \in [Commitment -> Seq(RecordType)]
  /\ Grows(journal, journal')
  /\ \A d \in Commitment \ {c} : journal'[d] = journal[d]
  /\ DOMAIN journal'[c] = DOMAIN journal[c]
  /\ \A k \in DOMAIN journal[c] \ {n} : journal'[c][k] = journal[c][k]
  /\ journal'[c][n] = r

\* What the next journal looks like after a record is rewritten.
LEMMA JournalRewrite ==
  ASSUME TypeOK, NEW c \in Commitment, NEW n \in DOMAIN journal[c], NEW r \in RecordType,
         journal' = Rewritten(c, n, r)
  PROVE  OnlyRewrites(c, n, r)
<1>1. journal \in [Commitment -> Seq(RecordType)]
  BY DEF TypeOK
<1>2. journal'[c] = [journal[c] EXCEPT ![n] = r]
  BY <1>1 DEF Rewritten
<1>3. /\ journal'[c] \in Seq(RecordType)
      /\ DOMAIN journal'[c] = DOMAIN journal[c]
      /\ \A k \in DOMAIN journal[c] \ {n} : journal'[c][k] = journal[c][k]
      /\ journal'[c][n] = r
  BY <1>1, <1>2
<1>4. /\ \A d \in Commitment \ {c} : journal'[d] = journal[d]
      /\ journal' \in [Commitment -> Seq(RecordType)]
  BY <1>1, <1>3 DEF Rewritten
<1> QED BY <1>3, <1>4 DEF Grows, OnlyRewrites

\* The record a closed attempt leaves: whoever closes it, its token stays.
LEMMA ClosedRecord ==
  ASSUME NEW r \in RecordType, NEW outcome \in Answers, NEW by \in {"worker", "lease_lost"}
  PROVE  /\ Closed(r, outcome, by) \in RecordType
         /\ Closed(r, outcome, by).by = by
         /\ Closed(r, outcome, by).token = r.token
<1>1. [r EXCEPT !.outcome = outcome] \in RecordType
  BY DEF RecordType
<1>2. [[r EXCEPT !.outcome = outcome] EXCEPT !.by = by] \in RecordType
  BY <1>1 DEF RecordType
<1>3. Closed(r, outcome, by) \in RecordType
  BY <1>2 DEF Closed
<1>4. Closed(r, outcome, by).by = by /\ Closed(r, outcome, by).token = r.token
  BY DEF Closed, RecordType
<1> QED BY <1>3, <1>4

------------------------------------------------------------------------------
(* Steps beside the workers.                                                  *)

\* A step that rewrites rows quietly and nothing of a worker keeps the invariant.
LEMMA QuietStep ==
  ASSUME IInv, RestOK', Typed(intents'), UNCHANGED <<journal, workers>>,
         \A c \in Commitment : Quiet(intents[c], intents'[c])
  PROVE  IInv'
<1>1. TypeOK
  BY DEF IInv
<1>2. journal' \in [Commitment -> Seq(RecordType)] /\ Grows(journal, journal')
  BY <1>1, SameJournalGrows
<1>3. /\ workers' \in [Worker -> WorkerType]
      /\ \A w \in Worker : SlotAt(workers'[w], journal')
  BY <1>2, SlotsStay
<1> QED BY <1>2, <1>3, QuietRowsKeepFence, StepKeeps

\* Spending a fault keeps the budget's type.
LEMMA FaultKeeps ==
  ASSUME TypeOK, Fault
  PROVE  budget' \in BudgetType
<1>1. budget \in BudgetType /\ budget.faults > 0
  BY DEF TypeOK, Fault
<1>2. budget.faults - 1 \in Nat
  BY <1>1 DEF BudgetType
<1>3. budget' = [budget EXCEPT !.faults = budget.faults - 1]
  BY DEF Fault
<1> QED BY <1>1, <1>2, <1>3 DEF BudgetType

\* A lease that runs out, in time or under a slow holder.
LEMMA LapseKeeps ==
  ASSUME IInv, NEW c \in Commitment, LeaseExpires(c) \/ LeaseOverruns(c)
  PROVE  IInv'
<1> DEFINE row == [intents[c] EXCEPT !.live = FALSE]
<1>1. TypeOK /\ intents[c] \in IntentType
  BY DEF IInv, TypeOK
<1>2. Quiet(intents[c], row)
  BY <1>1 DEF Quiet, IntentType
<1>3. intents' = [intents EXCEPT ![c] = row]
  BY DEF LeaseExpires, LeaseOverruns, Lapse
<1>4. RestOK'
  BY <1>1, FaultKeeps DEF LeaseExpires, LeaseOverruns, Lapse, RestOK, TypeOK
<1> HIDE DEF row
<1> QED BY <1>1, <1>2, <1>3, <1>4, OneRowQuiet, QuietStep DEF LeaseExpires, LeaseOverruns, Lapse

\* expires_at passes.
LEMMA DeadlinePassesKeeps ==
  ASSUME IInv, NEW c \in Commitment, DeadlinePasses(c)
  PROVE  IInv'
<1> DEFINE row == [intents[c] EXCEPT !.deadline = "past"]
<1>1. TypeOK /\ intents[c] \in IntentType
  BY DEF IInv, TypeOK
<1>2. Quiet(intents[c], row)
  BY <1>1 DEF Quiet, IntentType
<1>3. intents' = [intents EXCEPT ![c] = row] /\ RestOK'
  BY <1>1 DEF DeadlinePasses, RestOK, TypeOK
<1> HIDE DEF row
<1> QED BY <1>1, <1>2, <1>3, OneRowQuiet, QuietStep DEF DeadlinePasses

\* next_attempt_at arrives.
LEMMA BackoffElapsesKeeps ==
  ASSUME IInv, NEW c \in Commitment, BackoffElapses(c)
  PROVE  IInv'
<1> DEFINE row == [intents[c] EXCEPT !.due = TRUE]
<1>1. TypeOK /\ intents[c] \in IntentType
  BY DEF IInv, TypeOK
<1>2. Quiet(intents[c], row)
  BY <1>1 DEF Quiet, IntentType
<1>3. intents' = [intents EXCEPT ![c] = row] /\ RestOK'
  BY <1>1 DEF BackoffElapses, RestOK, TypeOK
<1> HIDE DEF row
<1> QED BY <1>1, <1>2, <1>3, OneRowQuiet, QuietStep DEF BackoffElapses

\* The sweep of overdue rows: none of them is sending.
LEMMA ExpireKeeps ==
  ASSUME IInv, NEW c \in Commitment, Expire(c)
  PROVE  IInv'
<1> DEFINE i == intents[c]
           row == [i EXCEPT !.status = "expired", !.token = 0, !.live = FALSE]
<1>1. TypeOK /\ i \in IntentType /\ i.status = "pending"
  BY DEF IInv, TypeOK, Expire
<1>2. intents' = [intents EXCEPT ![c] = row] /\ RestOK'
  BY <1>1 DEF Expire, RestOK, TypeOK
<1>3. Quiet(i, row)
  <2> HIDE DEF i
  <2>1. [i EXCEPT !.status = "expired"] \in IntentType
    BY <1>1 DEF IntentType, Statuses
  <2>2. [[i EXCEPT !.status = "expired"] EXCEPT !.token = 0] \in IntentType
    BY <2>1 DEF IntentType
  <2>3. row \in IntentType
    BY <2>2 DEF IntentType
  <2>4. row.status = "expired" /\ row.attempt = i.attempt
    BY <1>1 DEF IntentType
  <2> QED BY <1>1, <2>3, <2>4 DEF Quiet
<1> HIDE DEF row
<1> QED BY <1>1, <1>2, <1>3, OneRowQuiet, QuietStep DEF Expire

\* The group's transitions and its merges: the rows are withdrawn or not, then aimed.
LEMMA RaisedRowsQuiet ==
  ASSUME TypeOK, NEW rows, NEW cards \in BOOLEAN, NEW threads \in BOOLEAN, NEW final \in BOOLEAN,
         rows = intents \/ rows = Withdrawn(intents), Raise(rows, cards, threads, final)
  PROVE  /\ snapshot' \in SnapshotType
         /\ Typed(intents')
         /\ \A c \in Commitment : Quiet(intents[c], intents'[c])
<1>1. Typed(intents) /\ \A c \in Commitment : Quiet(intents[c], intents[c])
  BY QuietSelf DEF TypeOK, Typed
<1>2. Typed(rows) /\ \A c \in Commitment : Quiet(intents[c], rows[c])
  BY <1>1, WithdrawnQuiet
<1>3. /\ snapshot' \in SnapshotType
      /\ Typed(intents')
      /\ \A c \in Commitment : Quiet(rows[c], intents'[c])
  BY <1>2, RaiseQuiet
<1> QED BY <1>2, <1>3, QuietTwice

\* The group is acknowledged.
LEMMA AcknowledgeKeeps == ASSUME IInv, Acknowledge PROVE IInv'
<1>1. TypeOK /\ Raise(Withdrawn(intents), TRUE, TRUE, FALSE)
  BY DEF IInv, Acknowledge
<1>2. /\ snapshot' \in SnapshotType
      /\ Typed(intents')
      /\ \A c \in Commitment : Quiet(intents[c], intents'[c])
  BY <1>1, RaisedRowsQuiet
<1>3. RestOK' /\ UNCHANGED <<journal, workers>>
  BY <1>1, <1>2 DEF Acknowledge, RestOK, TypeOK
<1> QED BY <1>2, <1>3, QuietStep

\* The group is resolved.
LEMMA ResolveKeeps == ASSUME IInv, Resolve PROVE IInv'
<1>1. TypeOK /\ Raise(Withdrawn(intents), TRUE, TRUE, TRUE)
  BY DEF IInv, Resolve
<1>2. /\ snapshot' \in SnapshotType
      /\ Typed(intents')
      /\ \A c \in Commitment : Quiet(intents[c], intents'[c])
  BY <1>1, RaisedRowsQuiet
<1>3. RestOK' /\ UNCHANGED <<journal, workers>>
  BY <1>1, <1>2 DEF Resolve, RestOK, TypeOK
<1> QED BY <1>2, <1>3, QuietStep

\* The group's picture moves.
LEMMA StateMovesKeeps ==
  ASSUME IInv, NEW cards \in BOOLEAN, NEW threads \in BOOLEAN, StateMoves(cards, threads)
  PROVE  IInv'
<1>1. TypeOK /\ Raise(intents, cards, threads, FALSE)
  BY DEF IInv, StateMoves
<1>2. /\ snapshot' \in SnapshotType
      /\ Typed(intents')
      /\ \A c \in Commitment : Quiet(intents[c], intents'[c])
  BY <1>1, RaisedRowsQuiet
<1>3. RestOK' /\ UNCHANGED <<journal, workers>>
  BY <1>1, <1>2 DEF StateMoves, RestOK, TypeOK
<1> QED BY <1>2, <1>3, QuietStep

\* A person is linked to another address.
LEMMA RelinkKeeps ==
  ASSUME IInv, NEW c \in Commitment, NEW to \in Address, Relink(c, to)
  PROVE  IInv'
<1>1. TypeOK /\ Typed(intents') /\ \A d \in Commitment : Quiet(intents[d], intents'[d])
  BY QuietSelf DEF IInv, TypeOK, Typed, Relink
<1>2. RestOK'
  <2>1. budget \in BudgetType /\ budget.relinks > 0
    BY <1>1 DEF TypeOK, Relink
  <2>2. budget.relinks - 1 \in Nat
    BY <2>1 DEF BudgetType
  <2>3. budget' = [budget EXCEPT !.relinks = budget.relinks - 1]
    BY DEF Relink
  <2>4. budget' \in BudgetType
    BY <2>1, <2>2, <2>3 DEF BudgetType
  <2>5. address' \in [Commitment -> Address]
    BY <1>1 DEF TypeOK, Relink
  <2> QED BY <1>1, <2>4, <2>5 DEF Relink, RestOK, TypeOK
<1> QED BY <1>1, <1>2, QuietStep DEF Relink

------------------------------------------------------------------------------
(* The worker: recovery and the claim.                                        *)

\* A delivery leaves the group in one of its states.
LEMMA GroupAfterTyped ==
  ASSUME TypeOK, NEW m
  PROVE  GroupAfter(m) \in {"processing", "triggered", "acknowledged", "resolved"}
BY DEF GroupAfter, TypeOK

\* A transition that closes the open attempt: the row leaves "sending" and its
\* record is closed in the same step.
LEMMA ClosingTransition ==
  ASSUME IInv, NEW c \in Commitment, NEW m, NEW w,
         ClosesAttempt(m), w.revision \in Int, w.receipt \in Nat,
         NEW outcome \in Answers, NEW by \in {"worker", "lease_lost"},
         intents[c].attempt # 0,
         journal' = Rewritten(c, intents[c].attempt,
                              Closed(journal[c][intents[c].attempt], outcome, by)),
         \/ intents' = Applied(c, m, w)
         \/ intents' = Stopped(Applied(c, m, w), c)
  PROVE  /\ Typed(intents')
         /\ journal' \in [Commitment -> Seq(RecordType)]
         /\ Grows(journal, journal')
         /\ \A d \in Commitment : FenceAt(intents'[d], journal'[d])
<1> DEFINE n == intents[c].attempt
           r == Closed(journal[c][n], outcome, by)
           rows == Applied(c, m, w)
<1>0. TypeOK
  BY DEF IInv
<1>1. intents[c] \in IntentType /\ \A d \in Commitment : FenceAt(intents[d], journal[d])
  BY FencePointwise DEF IInv, TypeOK
<1>2. n \in DOMAIN journal[c] /\ journal[c] \in Seq(RecordType)
  BY <1>0, <1>1 DEF FenceAt, TypeOK
<1>3. journal[c][n] \in RecordType
  BY <1>2
<1>4. r \in RecordType /\ r.by = by
  BY <1>3, ClosedRecord
<1>5. journal' = Rewritten(c, n, r)
  OBVIOUS
<1> HIDE DEF n, r
<1>6. /\ journal' \in [Commitment -> Seq(RecordType)]
      /\ Grows(journal, journal')
      /\ \A d \in Commitment \ {c} : journal'[d] = journal[d]
      /\ DOMAIN journal'[c] = DOMAIN journal[c]
      /\ \A k \in DOMAIN journal[c] \ {n} : journal'[c][k] = journal[c][k]
      /\ journal'[c][n] = r
  <2>1. OnlyRewrites(c, n, r)
    BY <1>0, <1>2, <1>4, <1>5, JournalRewrite
  <2> QED BY <2>1 DEF OnlyRewrites
<1>7. m.to \in Statuses
  BY DEF ClosesAttempt
<1>8. /\ Typed(rows)
      /\ rows[c] = Written(intents[c], m, w)
      /\ \A d \in Commitment \ {c} : Quiet(intents[d], rows[d])
  BY <1>0, <1>7, AppliedRows
<1>9. rows[c].status # "sending" /\ rows[c].attempt = 0
  BY <1>1, <1>7, <1>8, WrittenRow DEF ClosesAttempt
<1>10. \A k \in DOMAIN journal'[c] : journal'[c][k].by # "none"
  <2>1. \A k \in DOMAIN journal[c] : journal[c][k].by = "none" <=> k = n
    BY <1>1 DEF FenceAt, n
  <2> QED BY <1>4, <1>6, <2>1
<1>11. FenceAt(rows[c], journal'[c])
  <2>1. \A k \in DOMAIN journal'[c] : k # 0
    BY <1>2, <1>6
  <2> QED BY <1>9, <1>10, <2>1 DEF FenceAt
<1>12. \A d \in Commitment : FenceAt(rows[d], journal'[d])
  BY <1>1, <1>6, <1>8, <1>11, QuietKeepsFence
<1>13. CASE intents' = rows
  BY <1>6, <1>8, <1>12, <1>13
<1>14. CASE intents' = Stopped(rows, c)
  <2> HIDE DEF rows
  <2>1. Typed(intents') /\ \A d \in Commitment : Quiet(rows[d], intents'[d])
    BY <1>8, <1>14, StoppedQuiet
  <2>2. \A d \in Commitment : FenceAt(intents'[d], journal'[d])
    BY <1>12, <2>1, QuietKeepsFence
  <2> QED BY <1>6, <2>1, <2>2
<1> QED BY <1>13, <1>14

\* Recovery closes an attempt in its worker's place.
LEMMA RecoverKeeps ==
  ASSUME IInv, NEW c \in Commitment, Recover(c)
  PROVE  IInv'
<1> DEFINE n == intents[c].attempt
           r == journal[c][n].revision
           d == DecideRecover(View(c), intents[c].deadline = "past", r, FALSE)
           m == ForSatellite(View(c), d)
           w == Writing(r, 0)
<1>1. TypeOK /\ n # 0 /\ Valid(m)
  BY DEF IInv, Recover
<1>2. ClosesAttempt(m)
  <2>1. Valid(d) /\ m.to = d.to /\ \A e : e # "TriggerGroup" => (e \in m.effects <=> e \in d.effects)
    BY <1>1, SatelliteSameMove
  <2>2. ClosesAttempt(d)
    BY <2>1, RecoverCloses
  <2> QED BY <2>1, <2>2 DEF ClosesAttempt
<1>3. r \in Int
  <2>1. n \in DOMAIN journal[c] /\ journal[c] \in Seq(RecordType)
    BY <1>1 DEF IInv, AttemptFence, TypeOK
  <2>2. journal[c][n] \in RecordType
    BY <2>1
  <2> QED BY <2>2 DEF RecordType
<1>4. w.revision \in Int /\ w.receipt \in Nat
  BY <1>3 DEF Writing
<1>5. /\ journal' = Rewritten(c, n, Closed(journal[c][n], "ambiguous", "lease_lost"))
      /\ intents' = Applied(c, m, w)
  BY DEF Recover, Rewritten
<1>6. "ambiguous" \in Answers
  BY DEF Answers
<1>7. RestOK'
  BY <1>1, GroupAfterTyped DEF Recover, RestOK, TypeOK
<1> HIDE DEF r, m, w
<1>8. /\ Typed(intents') /\ journal' \in [Commitment -> Seq(RecordType)]
      /\ Grows(journal, journal')
      /\ \A x \in Commitment : FenceAt(intents'[x], journal'[x])
  BY <1>1, <1>2, <1>4, <1>5, <1>6, ClosingTransition
<1>9. UNCHANGED workers
  BY DEF Recover
<1> QED BY <1>7, <1>8, <1>9, SlotsStay, StepKeeps

\* A slot that serves nothing owes nothing.
LEMMA IdleSlot ==
  /\ Idle \in WorkerType
  /\ \A log : SlotAt(Idle, log)
BY DEF Idle, WorkerType, SlotAt

\* A row is claimed, or prepared and let go: the claim gives a waiting row a new
\* token, and no attempt is open under the old one.
LEMMA ClaimKeeps ==
  ASSUME IInv, NEW w \in Worker, NEW c \in Commitment, Claim(w, c)
  PROVE  IInv'
<1> DEFINE i == intents[c]
           token == i.claims + 1
           row == [i EXCEPT !.claims = token, !.token = token, !.live = TRUE]
           slot == [workers[w] EXCEPT !.pc = "leased", !.intent = c, !.token = token]
<1>1. TypeOK /\ i \in IntentType /\ workers[w] \in WorkerType
  BY DEF IInv, TypeOK
<1>2. token \in Nat /\ token # 0
  BY <1>1 DEF IntentType
<1>3. i.status = "pending"
  BY DEF Claim
<1>4. intents' = [intents EXCEPT ![c] = row] /\ workers' = [workers EXCEPT ![w] = slot]
  BY DEF Claim
<1> HIDE DEF token
<1>5. Quiet(i, row)
  <2> HIDE DEF i
  <2>1. [i EXCEPT !.claims = token] \in IntentType
    BY <1>1, <1>2 DEF IntentType
  <2>2. [[i EXCEPT !.claims = token] EXCEPT !.token = token] \in IntentType
    BY <1>2, <2>1 DEF IntentType
  <2>3. row \in IntentType
    BY <2>2 DEF IntentType
  <2>4. row.status = "pending" /\ row.attempt = i.attempt
    BY <1>1, <1>3 DEF IntentType
  <2> QED BY <1>3, <2>3, <2>4 DEF Quiet
<1>6. slot \in WorkerType /\ \A log : SlotAt(slot, log)
  <2> DEFINE s == workers[w]
  <2>1. s \in WorkerType
    BY <1>1
  <2> HIDE DEF s
  <2>2. [s EXCEPT !.pc = "leased"] \in WorkerType
    BY <2>1 DEF WorkerType
  <2>3. [[s EXCEPT !.pc = "leased"] EXCEPT !.intent = c] \in WorkerType
    BY <2>2 DEF WorkerType
  <2>4. [[[s EXCEPT !.pc = "leased"] EXCEPT !.intent = c] EXCEPT !.token = token] \in WorkerType
    BY <1>2, <2>3 DEF WorkerType
  <2>5. [s EXCEPT !.pc = "leased", !.intent = c, !.token = token] \in WorkerType
    BY <2>4
  <2>6. LET t == [s EXCEPT !.pc = "leased", !.intent = c, !.token = token]
        IN t.pc = "leased" /\ t.intent = c /\ t.token = token
    BY <2>1 DEF WorkerType
  <2> QED BY <1>2, <2>5, <2>6 DEF SlotAt, s
<1>7. RestOK' /\ UNCHANGED journal
  BY <1>1 DEF Claim, RestOK, TypeOK
<1>8. journal' \in [Commitment -> Seq(RecordType)] /\ Grows(journal, journal')
  BY <1>1, <1>7, SameJournalGrows
<1> HIDE DEF row, slot
<1>9. Typed(intents') /\ \A d \in Commitment : Quiet(intents[d], intents'[d])
  BY <1>1, <1>4, <1>5, OneRowQuiet
<1>10. \A d \in Commitment : FenceAt(intents'[d], journal'[d])
  BY <1>7, <1>9, QuietRowsKeepFence
<1>11. /\ workers' \in [Worker -> WorkerType]
       /\ \A v \in Worker : SlotAt(workers'[v], journal')
  BY <1>4, <1>6, <1>8, OneSlotMoves
<1> QED BY <1>7, <1>8, <1>9, <1>10, <1>11, StepKeeps

------------------------------------------------------------------------------
(* The worker: the steps of one serve().                                      *)

\* A step that only moves one slot.
LEMMA SlotStep ==
  ASSUME IInv, NEW w \in Worker, NEW row \in WorkerType, SlotAt(row, journal),
         workers' = [workers EXCEPT ![w] = row], UNCHANGED <<intents, journal>>, RestOK'
  PROVE  IInv'
<1>1. TypeOK /\ Typed(intents') /\ \A d \in Commitment : Quiet(intents[d], intents'[d])
  BY QuietSelf DEF IInv, TypeOK, Typed
<1>2. journal' \in [Commitment -> Seq(RecordType)] /\ Grows(journal, journal')
  BY <1>1, SameJournalGrows
<1>3. \A d \in Commitment : FenceAt(intents'[d], journal'[d])
  BY <1>1, QuietRowsKeepFence
<1>4. SlotAt(row, journal')
  OBVIOUS
<1>5. /\ workers' \in [Worker -> WorkerType]
      /\ \A v \in Worker : SlotAt(workers'[v], journal')
  BY <1>2, <1>4, OneSlotMoves
<1> QED BY <1>1, <1>2, <1>3, <1>5, StepKeeps

\* A slot with its preparation still knows its commitment and its token.
LEMMA PreparedKeeps ==
  ASSUME IInv, NEW w \in Worker, workers[w].pc = "leased",
         NEW prep \in {"ready", "permanent", "transient", "parent_ended"},
         NEW endpoint \in Nat, Prepared(w, prep, endpoint), budget' \in BudgetType
  PROVE  IInv'
<1> DEFINE s == workers[w]
           slot == [s EXCEPT !.pc = "prepared", !.prep = prep, !.endpoint = endpoint]
<1>1. TypeOK /\ s \in WorkerType /\ s.intent \in Commitment /\ s.token # 0
  BY DEF IInv, TypeOK, SlotsHold
<1>2. workers' = [workers EXCEPT ![w] = slot] /\ RestOK' /\ UNCHANGED <<intents, journal>>
  BY <1>1 DEF Prepared, RestOK, TypeOK
<1> HIDE DEF s
<1>3. [s EXCEPT !.pc = "prepared"] \in WorkerType
  BY <1>1 DEF WorkerType
<1>4. [[s EXCEPT !.pc = "prepared"] EXCEPT !.prep = prep] \in WorkerType
  BY <1>3 DEF WorkerType
<1>5. [[[s EXCEPT !.pc = "prepared"] EXCEPT !.prep = prep] EXCEPT !.endpoint = endpoint]
        \in WorkerType
  BY <1>4 DEF WorkerType
<1>6. slot \in WorkerType
  BY <1>5
<1>7. slot.pc = "prepared" /\ slot.intent = s.intent /\ slot.token = s.token
  BY <1>1 DEF WorkerType
<1> HIDE DEF slot
<1>8. SlotAt(slot, journal)
  BY <1>1, <1>7 DEF SlotAt
<1> QED BY <1>2, <1>6, <1>8, SlotStep

\* What a preparation proposes is an address, or a card's message or none.
LEMMA ProposedTyped ==
  ASSUME TypeOK, NEW c \in Commitment
  PROVE  Proposed(c) \in Nat
<1>1. address[c] \in Nat
  BY BoundsAssumption DEF TypeOK
<1>2. ASSUME Satellite(c) PROVE intents[Plan[c].parent].receipt \in Nat
  <2>1. Plan[c].parent \in Commitment
    BY <1>2, PlanAssumption DEF PlanType, Satellite
  <2> QED BY <2>1 DEF TypeOK, IntentType
<1> QED BY <1>1, <1>2 DEF Proposed

\* Every way a preparation ends.
LEMMA PrepareKeeps ==
  ASSUME IInv, NEW w \in Worker,
         \/ PrepareReady(w) \/ PrepareOrphaned(w) \/ PrepareSkips(w)
         \/ \E prep \in {"permanent", "transient"} : PrepareRefuses(w, prep)
  PROVE  IInv'
<1>1. TypeOK /\ (workers[w].pc = "leased" => workers[w].intent \in Commitment)
  BY DEF IInv, SlotsHold
<1>2. CASE PrepareReady(w)
  <2>1. /\ workers[w].pc = "leased" /\ Prepared(w, "ready", Proposed(workers[w].intent))
        /\ budget' \in BudgetType
    BY <1>1, <1>2 DEF PrepareReady, TypeOK
  <2>2. Proposed(workers[w].intent) \in Nat
    BY <1>1, <2>1, ProposedTyped
  <2> QED BY <2>1, <2>2, PreparedKeeps
<1>3. CASE PrepareOrphaned(w)
  BY <1>1, <1>3, PreparedKeeps DEF PrepareOrphaned, TypeOK
<1>4. CASE PrepareSkips(w)
  <2>1. workers' = [workers EXCEPT ![w] = Idle] /\ UNCHANGED <<intents, journal>> /\ RestOK'
    BY <1>1, <1>4 DEF PrepareSkips, RestOK, TypeOK
  <2> QED BY <2>1, IdleSlot, SlotStep
<1>5. CASE \E prep \in {"permanent", "transient"} : PrepareRefuses(w, prep)
  <2>1. PICK prep \in {"permanent", "transient"} :
          workers[w].pc = "leased" /\ Prepared(w, prep, 0) /\ Fault
    BY <1>5 DEF PrepareRefuses
  <2>2. budget' \in BudgetType
    BY <1>1, <2>1, FaultKeeps
  <2> QED BY <2>1, <2>2, PreparedKeeps
<1> QED BY <1>2, <1>3, <1>4, <1>5

\* BeginAttempt for a worker that lost its lease.
LEMMA BeginDeniedKeeps ==
  ASSUME IInv, NEW w \in Worker, BeginDenied(w)
  PROVE  IInv'
<1>1. workers' = [workers EXCEPT ![w] = Idle] /\ UNCHANGED <<intents, journal>> /\ RestOK'
  BY DEF IInv, BeginDenied, RestOK, TypeOK
<1> QED BY <1>1, IdleSlot, SlotStep

\* The row a slot holds is a commitment's, and waits under the slot's token.
LEMMA HeldRow ==
  ASSUME IInv, NEW w \in Worker, workers[w].pc = "prepared", Holds(w)
  PROVE  /\ workers[w].intent \in Commitment
         /\ intents[workers[w].intent] \in IntentType
         /\ intents[workers[w].intent].status = "pending"
         /\ intents[workers[w].intent].token = workers[w].token
         /\ workers[w].token \in Nat \ {0}
         /\ intents[workers[w].intent].attempt = 0
<1>1. workers[w] \in WorkerType /\ workers[w].intent \in Commitment /\ workers[w].token # 0
  BY DEF IInv, TypeOK, SlotsHold
<1>2. intents[workers[w].intent].status = "pending"
      /\ intents[workers[w].intent].token = workers[w].token
  BY DEF Holds
<1>3. intents[workers[w].intent] \in IntentType /\ workers[w].token \in Nat
  BY <1>1 DEF IInv, TypeOK, WorkerType
<1>4. intents[workers[w].intent].attempt = 0
  BY <1>1, <1>2 DEF IInv, AttemptFence
<1> QED BY <1>1, <1>2, <1>3, <1>4

\* BeginAttempt with a refusal that is no longer true.
LEMMA BeginStaleKeeps ==
  ASSUME IInv, NEW w \in Worker, BeginStale(w)
  PROVE  IInv'
<1> DEFINE c == workers[w].intent
           i == intents[c]
           row == [i EXCEPT !.token = 0, !.live = FALSE, !.due = TRUE]
<1>1. TypeOK /\ c \in Commitment /\ i \in IntentType /\ i.status = "pending"
  BY HeldRow DEF IInv, BeginStale
<1>2. /\ intents' = [intents EXCEPT ![c] = row]
      /\ workers' = [workers EXCEPT ![w] = Idle] /\ UNCHANGED journal /\ RestOK'
  BY <1>1 DEF BeginStale, RestOK, TypeOK
<1> HIDE DEF c
<1>3. Quiet(i, row)
  <2> HIDE DEF i
  <2>1. [i EXCEPT !.token = 0] \in IntentType
    BY <1>1 DEF IntentType
  <2>2. [[i EXCEPT !.token = 0] EXCEPT !.live = FALSE] \in IntentType
    BY <2>1 DEF IntentType
  <2>3. row \in IntentType
    BY <2>2 DEF IntentType
  <2>4. row.status = "pending" /\ row.attempt = i.attempt
    BY <1>1 DEF IntentType
  <2> QED BY <1>1, <2>3, <2>4 DEF Quiet
<1> HIDE DEF row
<1>4. Typed(intents') /\ \A d \in Commitment : Quiet(intents[d], intents'[d])
  BY <1>1, <1>2, <1>3, OneRowQuiet
<1>5. journal' \in [Commitment -> Seq(RecordType)] /\ Grows(journal, journal')
  BY <1>1, <1>2, SameJournalGrows
<1>6. \A d \in Commitment : FenceAt(intents'[d], journal'[d])
  BY <1>2, <1>4, QuietRowsKeepFence
<1>7. /\ workers' \in [Worker -> WorkerType]
      /\ \A v \in Worker : SlotAt(workers'[v], journal')
  BY <1>2, <1>5, IdleSlot, OneSlotMoves
<1> QED BY <1>2, <1>4, <1>5, <1>6, <1>7, StepKeeps

\* A new record is well typed.
LEMMA RecordTyped ==
  ASSUME TypeOK, NEW c \in Commitment, NEW revision \in Int, NEW endpoint \in Nat,
         NEW token \in Nat, NEW outcome \in Answers \cup {"open"},
         NEW by \in {"none", "worker", "lease_lost", "preparation", "parent_ended", "undeliverable"}
  PROVE  /\ Record(c, Kind(c), revision, endpoint, token, outcome, by) \in RecordType
         /\ Record(c, Kind(c), revision, endpoint, token, outcome, by).by = by
         /\ Record(c, Kind(c), revision, endpoint, token, outcome, by).token = token
<1>1. intents[c].gen \in Nat /\ Kind(c) \in {"create", "mutation"}
  BY DEF TypeOK, IntentType, Kind
<1> HIDE DEF Kind
<1> QED BY <1>1 DEF Record, RecordType

Refusers == {"preparation", "parent_ended", "undeliverable"}

\* An attempt that ends before its call: refused by its worker or, for good and
\* stopping nothing, by the store.
Refused(w, outcome, by) ==
  LET c == workers[w].intent
      m == ForSatellite(View(c), DecidePreparation(View(c), outcome))
      rows == Applied(c, m, Writing(NoRevision, 0))
  IN /\ workers[w].pc = "prepared" /\ Holds(w) /\ Valid(m)
     /\ journal' = Extended(c, Record(c, Kind(c), NoRevision, 0, 0,
          IF outcome = "transient" THEN "retryable" ELSE "permanent", by))
     /\ intents' = IF by # "undeliverable" /\ StopsEscalation(c) /\ m.to = "permanent_failed"
                   THEN Stopped(rows, c) ELSE rows
     /\ workers' = [workers EXCEPT ![w] = Idle]
     /\ UNCHANGED <<group, snapshot, made, address>>
     /\ Fault \/ UNCHANGED budget

Refusal(w) == \E outcome \in {"permanent", "transient"}, by \in Refusers : Refused(w, outcome, by)

\* recordPreparation and refuseAttempt are such ends.
LEMMA BothRefuse ==
  ASSUME NEW w \in Worker, BeginRefused(w) \/ BeginUndeliverable(w)
  PROVE  Refusal(w)
<1>1. CASE BeginRefused(w)
  <2> DEFINE prep == workers[w].prep
             outcome == IF prep = "transient" THEN "transient" ELSE "permanent"
             by == IF prep = "parent_ended" THEN "parent_ended" ELSE "preparation"
  <2>1. Refused(w, outcome, by)
    BY <1>1 DEF BeginRefused, Refused, Extended
  <2>2. outcome \in {"permanent", "transient"} /\ by \in Refusers
    BY DEF Refusers
  <2> QED BY <2>1, <2>2 DEF Refusal
<1>2. CASE BeginUndeliverable(w)
  <2>1. Refused(w, "permanent", "undeliverable")
    BY <1>2 DEF BeginUndeliverable, Refused, Extended
  <2> QED BY <2>1 DEF Refusal, Refusers
<1> QED BY <1>1, <1>2

\* The refusal is on record, and no call was made: no attempt is opened.
LEMMA RefusalKeeps ==
  ASSUME IInv, NEW w \in Worker, Refusal(w)
  PROVE  IInv'
<1>a. PICK outcome \in {"permanent", "transient"}, by \in Refusers : Refused(w, outcome, by)
  BY DEF Refusal
<1> DEFINE c == workers[w].intent
           d == DecidePreparation(View(c), outcome)
           m == ForSatellite(View(c), d)
           rows == Applied(c, m, Writing(NoRevision, 0))
           result == IF outcome = "transient" THEN "retryable" ELSE "permanent"
           r == Record(c, Kind(c), NoRevision, 0, 0, result, by)
<1>0. TypeOK
  BY DEF IInv
<1>1. /\ c \in Commitment /\ intents[c] \in IntentType /\ intents[c].attempt = 0
      /\ \A x \in Commitment : FenceAt(intents[x], journal[x])
  BY <1>a, HeldRow, FencePointwise DEF IInv, Refused
<1>2. m.to \in Statuses \ {"sending"}
  <2>1. Valid(m)
    BY <1>a DEF Refused
  <2>2. Valid(d) /\ m.to = d.to
    BY <2>1, SatelliteSameMove
  <2> QED BY <2>2, RefusalReleases
<1>3. r \in RecordType /\ r.by \in Refusers
  <2>1. NoRevision \in Int /\ result \in Answers
    BY DEF NoRevision, Answers
  <2> HIDE DEF result
  <2> QED BY <1>0, <1>1, <2>1, RecordTyped DEF Refusers
<1>4. /\ journal' = Extended(c, r)
      /\ intents' = rows \/ intents' = Stopped(rows, c)
      /\ workers' = [workers EXCEPT ![w] = Idle]
  BY <1>a DEF Refused
<1>5. RestOK'
  BY <1>0, <1>a, FaultKeeps DEF Refused, RestOK, TypeOK
<1>6. Writing(NoRevision, 0).revision \in Int /\ Writing(NoRevision, 0).receipt \in Nat
  BY DEF Writing, NoRevision
<1> HIDE DEF c, m, r
<1>7. OnlyAppends(c, r)
  BY <1>0, <1>1, <1>3, <1>4, JournalAppend
<1>8. /\ Typed(rows)
      /\ rows[c] = Written(intents[c], m, Writing(NoRevision, 0))
      /\ \A x \in Commitment \ {c} : Quiet(intents[x], rows[x])
  BY <1>0, <1>1, <1>2, <1>6, AppliedRows
<1>9. rows[c].status # "sending" /\ rows[c].attempt = 0
  BY <1>1, <1>2, <1>6, <1>8, WrittenRow
<1> HIDE DEF rows
<1>10. FenceAt(rows[c], journal'[c])
  <2>1. \A n \in DOMAIN journal[c] : journal[c][n].by # "none"
    <3>1. \A n \in DOMAIN journal[c] : n # 0
      BY <1>7 DEF OnlyAppends
    <3> QED BY <1>1, <3>1 DEF FenceAt
  <2>2. \A n \in DOMAIN journal'[c] : journal'[c][n].by # "none" /\ n # 0
    BY <1>3, <1>7, <2>1 DEF OnlyAppends, Refusers
  <2> QED BY <1>9, <2>2 DEF FenceAt
<1>11. \A x \in Commitment : FenceAt(rows[x], journal'[x])
  BY <1>1, <1>7, <1>8, <1>10, QuietKeepsFence DEF OnlyAppends
<1>12. Typed(intents') /\ \A x \in Commitment : FenceAt(intents'[x], journal'[x])
  <2>1. CASE intents' = rows
    BY <1>8, <1>11, <2>1
  <2>2. CASE intents' = Stopped(rows, c)
    <3>1. Typed(intents') /\ \A x \in Commitment : Quiet(rows[x], intents'[x])
      BY <1>1, <1>8, <2>2, StoppedQuiet
    <3> QED BY <1>11, <3>1, QuietKeepsFence
  <2> QED BY <1>4, <2>1, <2>2
<1>13. journal' \in [Commitment -> Seq(RecordType)] /\ Grows(journal, journal')
  BY <1>7 DEF OnlyAppends
<1>14. /\ workers' \in [Worker -> WorkerType]
       /\ \A v \in Worker : SlotAt(workers'[v], journal')
  BY <1>4, <1>13, IdleSlot, OneSlotMoves
<1> QED BY <1>5, <1>12, <1>13, <1>14, StepKeeps

\* The one step that opens an attempt: the row points at the record it adds,
\* under the token it holds.
LEMMA BeginStartedKeeps ==
  ASSUME IInv, NEW w \in Worker, BeginStarted(w)
  PROVE  IInv'
<1> DEFINE c == workers[w].intent
           i == intents[c]
           s == workers[w]
           n == Len(journal[c]) + 1
           endpoint == Bound(c, s.endpoint)
           r == Record(c, Kind(c), ContentRevision(c), endpoint, s.token, "open", "none")
           row == [i EXCEPT !.status = "sending", !.attempt = n, !.endpoint = endpoint]
           slot == [s EXCEPT !.pc = "calling", !.attempt = n]
<1>0. TypeOK
  BY DEF IInv
<1>1. /\ c \in Commitment /\ i \in IntentType /\ i.attempt = 0 /\ i.token = s.token
      /\ s.token \in Nat \ {0} /\ s \in WorkerType
      /\ \A x \in Commitment : FenceAt(intents[x], journal[x])
  BY HeldRow, FencePointwise DEF IInv, BeginStarted, TypeOK
<1>2. /\ journal' = Extended(c, r)
      /\ intents' = [intents EXCEPT ![c] = row]
      /\ workers' = [workers EXCEPT ![w] = slot]
  BY DEF BeginStarted, Extended
<1>3. RestOK'
  BY <1>0 DEF BeginStarted, RestOK, TypeOK
<1>4. endpoint \in Nat /\ ContentRevision(c) \in Int
  BY <1>0, <1>1 DEF Bound, ContentRevision, IntentType, WorkerType, TypeOK, SnapshotType
<1>5. r \in RecordType /\ r.by = "none" /\ r.token = s.token
  BY <1>0, <1>1, <1>4, RecordTyped
<1>6. Len(journal[c]) \in Nat
  BY <1>0, <1>1 DEF TypeOK
<1>7. n \in Nat /\ n # 0
  BY <1>6
<1> HIDE DEF endpoint, r
<1>8. OnlyAppends(c, r)
  BY <1>0, <1>1, <1>2, <1>5, JournalAppend
<1>9. row \in IntentType /\ row.status = "sending" /\ row.attempt = n /\ row.token = s.token
  <2>0. i \in IntentType /\ i.token = s.token
    BY <1>1
  <2> HIDE DEF i, n, s
  <2>1. [i EXCEPT !.status = "sending"] \in IntentType
    BY <2>0 DEF IntentType, Statuses
  <2>2. [[i EXCEPT !.status = "sending"] EXCEPT !.attempt = n] \in IntentType
    BY <1>7, <2>1 DEF IntentType
  <2>3. row \in IntentType
    BY <1>4, <2>2 DEF IntentType
  <2>4. row.status = "sending" /\ row.attempt = n /\ row.token = i.token
    BY <2>0 DEF IntentType
  <2> QED BY <2>0, <2>3, <2>4
<1>10. /\ slot \in WorkerType /\ slot.pc = "calling"
       /\ slot.intent = c /\ slot.token = s.token /\ slot.attempt = n
  <2>0. s \in WorkerType /\ s.intent = c
    BY <1>1
  <2> HIDE DEF n, s, c
  <2>1. [s EXCEPT !.pc = "calling"] \in WorkerType
    BY <2>0 DEF WorkerType
  <2>2. slot \in WorkerType
    BY <1>7, <2>1 DEF WorkerType
  <2>3. /\ slot.pc = "calling"
        /\ slot.intent = s.intent /\ slot.token = s.token /\ slot.attempt = n
    BY <2>0 DEF WorkerType
  <2> QED BY <2>0, <2>2, <2>3
<1>11. n \in DOMAIN journal'[c] /\ journal'[c][n] = r
  BY <1>6, <1>8 DEF OnlyAppends
<1>12. Typed(intents') /\ intents'[c] = row /\ \A x \in Commitment \ {c} : intents'[x] = intents[x]
  <2> HIDE DEF row, c
  <2> QED BY <1>0, <1>1, <1>2, <1>9 DEF Typed, TypeOK
<1>13. FenceAt(intents'[c], journal'[c])
  <2>1. \A k \in DOMAIN journal[c] : k # 0 /\ k # n
    BY <1>6, <1>8 DEF OnlyAppends
  <2>2. \A k \in DOMAIN journal[c] : journal[c][k].by # "none"
    <3>1. FenceAt(i, journal[c])
      BY <1>1
    <3> QED BY <1>1, <2>1, <3>1 DEF FenceAt
  <2>3. \A k \in DOMAIN journal'[c] : k = n \/ (k \in DOMAIN journal[c] /\ journal'[c][k] = journal[c][k])
    BY <1>6, <1>8 DEF OnlyAppends
  <2>4. \A k \in DOMAIN journal'[c] : journal'[c][k].by = "none" <=> k = n
    BY <1>5, <1>11, <2>1, <2>2, <2>3
  <2> HIDE DEF n, row
  <2> QED BY <1>1, <1>5, <1>7, <1>9, <1>11, <1>12, <2>4 DEF FenceAt
<1>14. \A x \in Commitment : FenceAt(intents'[x], journal'[x])
  BY <1>1, <1>8, <1>12, <1>13 DEF OnlyAppends
<1>15. journal' \in [Commitment -> Seq(RecordType)] /\ Grows(journal, journal')
  BY <1>8 DEF OnlyAppends
<1> HIDE DEF slot, n, c, s
<1>16. SlotAt(slot, journal')
  BY <1>1, <1>10, <1>11 DEF SlotAt
<1>17. /\ workers' \in [Worker -> WorkerType]
       /\ \A v \in Worker : SlotAt(workers'[v], journal')
  BY <1>2, <1>10, <1>15, <1>16, OneSlotMoves
<1> QED BY <1>3, <1>12, <1>14, <1>15, <1>17, StepKeeps

\* The provider's answer stays with the slot until it is recorded.
LEMMA AnsweredKeeps ==
  ASSUME IInv, NEW w \in Worker, NEW answer \in Answers, NEW effect \in BOOLEAN,
         Answered(w, answer, effect), budget' \in BudgetType
  PROVE  IInv'
<1> DEFINE s == workers[w]
           slot == [s EXCEPT !.pc = "answered", !.answer = answer]
<1>1. /\ TypeOK /\ s \in WorkerType /\ s.intent \in Commitment /\ s.token # 0
      /\ s.attempt \in DOMAIN journal[s.intent] /\ s.attempt \in Nat
  BY DEF IInv, TypeOK, SlotsHold, Answered, WorkerType
<1>2. workers' = [workers EXCEPT ![w] = slot] /\ UNCHANGED <<intents, journal>>
  BY DEF Answered
<1>3. made' \in [Commitment -> SUBSET Nat]
  BY <1>1 DEF Answered, TypeOK
<1>4. RestOK'
  BY <1>1, <1>3 DEF Answered, RestOK, TypeOK
<1> HIDE DEF s
<1>5. [s EXCEPT !.pc = "answered"] \in WorkerType
  BY <1>1 DEF WorkerType
<1>6. slot \in WorkerType
  BY <1>5 DEF WorkerType
<1>7. /\ slot.intent = s.intent /\ slot.token = s.token /\ slot.attempt = s.attempt
      /\ slot.answer # "none"
  BY <1>1 DEF WorkerType, Answers
<1> HIDE DEF slot
<1>8. SlotAt(slot, journal)
  BY <1>1, <1>7 DEF SlotAt
<1> QED BY <1>2, <1>4, <1>6, <1>8, SlotStep

\* Every way a call ends.
LEMMA CallKeeps ==
  ASSUME IInv, NEW w \in Worker, CallEnds(w)
  PROVE  IInv'
<1>1. TypeOK
  BY DEF IInv
<1>2. PICK answer \in Answers, effect \in BOOLEAN :
        Answered(w, answer, effect) /\ (UNCHANGED budget \/ Fault)
  <2>1. CASE CallAccepted(w)
    BY <2>1 DEF CallAccepted, Answers
  <2>2. CASE CallFindsNothing(w)
    BY <2>2 DEF CallFindsNothing, Answers
  <2>3. CASE \E answer \in {"retryable", "permanent"} : CallRejected(w, answer)
    BY <2>3 DEF CallRejected, Answers
  <2>4. CASE \E effect \in BOOLEAN : CallInDoubt(w, effect)
    BY <2>4 DEF CallInDoubt, Answers
  <2> QED BY <2>1, <2>2, <2>3, <2>4 DEF CallEnds
<1>3. budget' \in BudgetType
  BY <1>1, <1>2, FaultKeeps DEF TypeOK
<1> QED BY <1>2, <1>3, AnsweredKeeps

\* A finished attempt is closed with its answer, and its row leaves "sending".
LEMMA FinalizeKeeps ==
  ASSUME IInv, NEW w \in Worker, Finalize(w)
  PROVE  IInv'
<1> DEFINE c == workers[w].intent
           n == workers[w].attempt
           a == journal[c][n]
           answer == workers[w].answer
           final == /\ Plan[c].form = "editable" /\ answer = "accepted"
                    /\ snapshot.final /\ a.revision = snapshot.revision
           d == DecideFinish(View(c), OutcomeOf(answer), a.revision, final, FALSE)
           m == ForSatellite(View(c), d)
           receipt == IF answer = "accepted" /\ a.kind = "create" THEN n ELSE 0
           x == Writing(a.revision, receipt)
           rows == Applied(c, m, x)
<1>0. TypeOK
  BY DEF IInv
<1>1. /\ c \in Commitment /\ n \in DOMAIN journal[c] /\ answer \in Answers
      /\ journal[c] \in Seq(RecordType) /\ n \in Nat
  BY DEF IInv, TypeOK, SlotsHold, Finalize, WorkerType
<1>2. a \in RecordType /\ n # 0 /\ intents[c].attempt = n
  <2>1. intents[c].attempt = n
    BY DEF Finalize
  <2> HIDE DEF c, n
  <2>2. a \in RecordType /\ n # 0
    BY <1>1
  <2> QED BY <2>1, <2>2
<1>3. x.revision \in Int /\ x.receipt \in Nat
  BY <1>1, <1>2 DEF Writing, RecordType
<1>4. ClosesAttempt(m)
  <2>1. Valid(m) /\ View(c).completion = "on_acceptance"
    BY DEF Finalize, View
  <2> HIDE DEF c, final, a, answer
  <2>2. Valid(d) /\ m.to = d.to /\ \A e : e # "TriggerGroup" => (e \in m.effects <=> e \in d.effects)
    BY <2>1, SatelliteSameMove
  <2>3. ClosesAttempt(d)
    BY <2>1, <2>2, FinishCloses
  <2> QED BY <2>2, <2>3 DEF ClosesAttempt
<1>5. /\ journal' = Rewritten(c, n, Closed(a, answer, "worker"))
      /\ intents' = rows \/ intents' = Stopped(rows, c)
      /\ workers' = [workers EXCEPT ![w] = Idle]
  BY DEF Finalize, Rewritten
<1>6. RestOK'
  <2>1. group' = GroupAfter(m) /\ UNCHANGED <<snapshot, made, address, budget>>
    BY DEF Finalize
  <2> HIDE DEF m
  <2> QED BY <1>0, <2>1, GroupAfterTyped DEF RestOK, TypeOK
<1> HIDE DEF c, n, a, answer, m, x
<1>7. /\ Typed(intents') /\ journal' \in [Commitment -> Seq(RecordType)]
      /\ Grows(journal, journal')
      /\ \A e \in Commitment : FenceAt(intents'[e], journal'[e])
  <2>1. journal' = Rewritten(c, intents[c].attempt,
                             Closed(journal[c][intents[c].attempt], answer, "worker"))
    BY <1>2, <1>5 DEF a
  <2> QED BY <1>1, <1>2, <1>3, <1>4, <1>5, <2>1, ClosingTransition
<1>8. /\ workers' \in [Worker -> WorkerType]
      /\ \A v \in Worker : SlotAt(workers'[v], journal')
  BY <1>5, <1>7, IdleSlot, OneSlotMoves
<1> QED BY <1>6, <1>7, <1>8, StepKeeps

\* A late answer is written beside a closed record and nowhere else.
LEMMA FinalizeLateKeeps ==
  ASSUME IInv, NEW w \in Worker, FinalizeLate(w)
  PROVE  IInv'
<1> DEFINE c == workers[w].intent
           n == workers[w].attempt
           a == journal[c][n]
           r == [a EXCEPT !.late = workers[w].answer]
<1>0. TypeOK
  BY DEF IInv
<1>1. /\ c \in Commitment /\ n \in DOMAIN journal[c] /\ workers[w].answer \in Answers
      /\ journal[c] \in Seq(RecordType)
      /\ \A x \in Commitment : FenceAt(intents[x], journal[x])
  BY FencePointwise DEF IInv, TypeOK, SlotsHold, FinalizeLate, WorkerType
<1>2. a \in RecordType /\ a.by = "lease_lost"
  BY <1>1 DEF FinalizeLate
<1>3. r \in RecordType /\ r.by = a.by /\ r.token = a.token
  <2> HIDE DEF a
  <2> QED BY <1>1, <1>2 DEF RecordType
<1>4. /\ journal' = Rewritten(c, n, r)
      /\ workers' = [workers EXCEPT ![w] = Idle] /\ UNCHANGED intents
  BY DEF FinalizeLate, Rewritten
<1>5. RestOK' /\ Typed(intents')
  BY <1>0 DEF FinalizeLate, RestOK, TypeOK, Typed
<1> HIDE DEF c, n, r
<1>6. OnlyRewrites(c, n, r)
  BY <1>0, <1>1, <1>3, <1>4, JournalRewrite
<1>7. FenceAt(intents'[c], journal'[c])
  <2>1. \A k \in DOMAIN journal[c] :
          journal'[c][k].by = journal[c][k].by /\ journal'[c][k].token = journal[c][k].token
    BY <1>3, <1>6 DEF OnlyRewrites, a
  <2>2. FenceAt(intents[c], journal[c]) /\ DOMAIN journal'[c] = DOMAIN journal[c]
    BY <1>1, <1>6 DEF OnlyRewrites
  <2> QED BY <1>4, <2>1, <2>2 DEF FenceAt
<1>8. \A x \in Commitment : FenceAt(intents'[x], journal'[x])
  BY <1>1, <1>4, <1>6, <1>7 DEF OnlyRewrites
<1>9. journal' \in [Commitment -> Seq(RecordType)] /\ Grows(journal, journal')
  BY <1>6 DEF OnlyRewrites
<1>10. /\ workers' \in [Worker -> WorkerType]
       /\ \A v \in Worker : SlotAt(workers'[v], journal')
  BY <1>4, <1>9, IdleSlot, OneSlotMoves
<1> QED BY <1>5, <1>8, <1>9, <1>10, StepKeeps

\* A worker that dies, before or after its call took effect.
LEMMA CrashKeeps ==
  ASSUME IInv, NEW w \in Worker, Crash(w) \/ CrashAfterEffect(w)
  PROVE  IInv'
<1>1. /\ TypeOK /\ workers[w].attempt \in Nat
      /\ workers[w].pc # "idle" => workers[w].intent \in Commitment
  BY DEF IInv, TypeOK, WorkerType, SlotsHold
<1>2. made' \in [Commitment -> SUBSET Nat]
  <2> DEFINE c == workers[w].intent
             n == workers[w].attempt
  <2>1. made \in [Commitment -> SUBSET Nat]
    BY <1>1 DEF TypeOK
  <2>2. UNCHANGED made \/ (c \in Commitment /\ made' = [made EXCEPT ![c] = @ \cup {n}])
    BY <1>1 DEF Crash, CrashAfterEffect
  <2>3. n \in Nat
    BY <1>1
  <2> HIDE DEF c, n
  <2> QED BY <2>1, <2>2, <2>3
<1>3. budget' \in BudgetType
  BY <1>1, FaultKeeps DEF Crash, CrashAfterEffect
<1>4. RestOK' /\ workers' = [workers EXCEPT ![w] = Idle] /\ UNCHANGED <<intents, journal>>
  BY <1>1, <1>2, <1>3 DEF Crash, CrashAfterEffect, RestOK, TypeOK
<1> QED BY <1>4, IdleSlot, SlotStep

------------------------------------------------------------------------------
(* The person.                                                                *)

\* The satellites a retry brings back were refused: no attempt of theirs is open.
LEMMA UnorphanedQuiet ==
  ASSUME NEW rows, NEW c, NEW decision, Typed(rows)
  PROVE  /\ Typed(Unorphaned(rows, c, decision))
         /\ \A d \in Commitment : Quiet(rows[d], Unorphaned(rows, c, decision)[d])
<1> DEFINE back(i) == [i EXCEPT !.status = "pending", !.due = TRUE, !.token = 0, !.live = FALSE]
<1>1. ASSUME NEW i \in IntentType, i.status = "permanent_failed" PROVE Quiet(i, back(i))
  <2>1. [i EXCEPT !.status = "pending"] \in IntentType
    BY DEF IntentType, Statuses
  <2>2. [[i EXCEPT !.status = "pending"] EXCEPT !.due = TRUE] \in IntentType
    BY <2>1 DEF IntentType
  <2>3. [[[i EXCEPT !.status = "pending"] EXCEPT !.due = TRUE] EXCEPT !.token = 0] \in IntentType
    BY <2>2 DEF IntentType
  <2>4. [[[[i EXCEPT !.status = "pending"] EXCEPT !.due = TRUE] EXCEPT !.token = 0]
           EXCEPT !.live = FALSE] \in IntentType
    BY <2>3 DEF IntentType
  <2>5. back(i) \in IntentType
    BY <2>4
  <2>6. back(i).status = "pending" /\ back(i).attempt = i.attempt
    BY DEF IntentType
  <2> QED BY <1>1, <2>5, <2>6 DEF Quiet
<1>2. ASSUME NEW d \in Commitment PROVE Quiet(rows[d], Unorphaned(rows, c, decision)[d])
  <2>1. rows[d] \in IntentType
    BY DEF Typed
  <2>2. \/ Unorphaned(rows, c, decision)[d] = rows[d]
        \/ /\ rows[d].status = "permanent_failed"
           /\ Unorphaned(rows, c, decision)[d] = back(rows[d])
    BY DEF Unorphaned
  <2> HIDE DEF back
  <2> QED BY <1>1, <2>1, <2>2, QuietSelf
<1>3. Unorphaned(rows, c, decision) \in [Commitment -> IntentType]
  <2>1. \A d \in Commitment : Unorphaned(rows, c, decision)[d] \in IntentType
    BY <1>2 DEF Quiet
  <2> QED BY <2>1 DEF Unorphaned
<1> QED BY <1>2, <1>3 DEF Typed

\* A person decides about rows with no open attempt, and opens none.
LEMMA OperatorKeeps ==
  ASSUME IInv, NEW c \in Commitment, NEW decision \in Decisions,
         NEW risk \in BOOLEAN, NEW deadline \in BOOLEAN,
         OperatorDecides(c, decision, risk, deadline)
  PROVE  IInv'
<1> DEFINE f == Facts(c, risk, deadline)
           final == /\ Plan[c].form = "editable" /\ decision \in {"assume_accepted", "retry_current"}
                    /\ snapshot.final /\ f.revision = snapshot.revision
           desired == Reaimed(c, decision)[c].desired
           i == [View(c) EXCEPT !.desired = desired]
           d == DecideOperator(i, decision, f, f.revision, final)
           m == ForSatellite(i, d)
           w == [revision |-> f.revision, receipt |-> 0, deadline |-> deadline]
           rows == Applied(c, m, w)
           aimed == [rows EXCEPT ![c].desired = i.desired]
<1>0. TypeOK /\ intents[c] \in IntentType /\ FenceAt(intents[c], journal[c])
  BY FencePointwise DEF IInv, TypeOK
<1>1. f.revision \in Int
  <2>1. f.revision = NoRevision
        \/ (Len(journal[c]) \in DOMAIN journal[c]
            /\ f.revision = journal[c][Len(journal[c])].revision)
    BY DEF Facts, OfGeneration
  <2>2. \A k \in DOMAIN journal[c] : journal[c][k] \in RecordType
    BY <1>0 DEF TypeOK
  <2> QED BY <2>1, <2>2 DEF RecordType, NoRevision
<1>2. desired \in Int
  BY <1>0 DEF Reaimed, TypeOK, IntentType, SnapshotType
<1>3. w.revision \in Int /\ w.receipt \in Nat
  BY <1>1
<1>4. /\ Valid(m)
      /\ intents' = Unorphaned(aimed, c, decision)
      /\ group' = GroupAfter(m)
      /\ UNCHANGED <<snapshot, journal, workers, made, address>>
  BY DEF OperatorDecides
<1>5. i.status = intents[c].status /\ i.desired \in Int
  BY <1>2 DEF View
<1>6. budget' \in BudgetType
  <2>1. budget \in BudgetType /\ budget.decisions > 0
    BY <1>0 DEF TypeOK, OperatorDecides
  <2>2. budget.decisions - 1 \in Nat
    BY <2>1 DEF BudgetType
  <2>3. budget' = [budget EXCEPT !.decisions = budget.decisions - 1]
    BY DEF OperatorDecides
  <2> QED BY <2>1, <2>2, <2>3 DEF BudgetType
<1> HIDE DEF f, final, desired, i, w
<1>7. m.to \in Statuses \ {"sending"} /\ intents[c].status # "sending"
  <2>1. Valid(d) /\ m.to = d.to
    BY <1>4, SatelliteSameMove
  <2>2. /\ d.to \in Statuses \ {"sending"}
        /\ i.status \in {"manual_review", "permanent_failed", "expired"}
    BY <2>1, OperatorDoesNotSend
  <2> QED BY <1>5, <2>1, <2>2
<1>8. intents[c].attempt = 0
  BY <1>0, <1>7 DEF FenceAt
<1>9. RestOK'
  BY <1>0, <1>4, <1>6, GroupAfterTyped DEF RestOK, TypeOK
<1> HIDE DEF d, m
<1>10. /\ Typed(rows) /\ rows[c] = Written(intents[c], m, w)
       /\ \A x \in Commitment \ {c} : Quiet(intents[x], rows[x])
  BY <1>0, <1>3, <1>7, AppliedRows
<1>11. rows[c] \in IntentType /\ rows[c].status # "sending" /\ rows[c].attempt = 0
  BY <1>0, <1>3, <1>7, <1>8, <1>10, WrittenRow
<1> HIDE DEF rows
<1>12. /\ Typed(aimed) /\ aimed[c] = [rows[c] EXCEPT !.desired = i.desired]
       /\ \A x \in Commitment \ {c} : aimed[x] = rows[x]
  <2>1. [rows[c] EXCEPT !.desired = i.desired] \in IntentType
    BY <1>5, <1>11 DEF IntentType
  <2> QED BY <1>10, <2>1 DEF Typed
<1>13. Quiet(intents[c], aimed[c])
  <2>1. aimed[c] \in IntentType /\ aimed[c].status # "sending" /\ aimed[c].attempt = 0
    BY <1>5, <1>11, <1>12 DEF IntentType
  <2> QED BY <1>7, <1>8, <2>1 DEF Quiet
<1>14. \A x \in Commitment : Quiet(intents[x], aimed[x])
  BY <1>10, <1>12, <1>13
<1> HIDE DEF aimed
<1>15. Typed(intents') /\ \A x \in Commitment : Quiet(aimed[x], intents'[x])
  BY <1>4, <1>12, UnorphanedQuiet
<1>16. \A x \in Commitment : Quiet(intents[x], intents'[x])
  BY <1>14, <1>15, QuietTwice
<1> QED BY <1>4, <1>9, <1>15, <1>16, QuietStep

------------------------------------------------------------------------------
(* The theorems.                                                              *)

\* The admitted rows satisfy the invariant.
LEMMA InitHolds == Init => IInv
<1> SUFFICES ASSUME Init PROVE IInv
  OBVIOUS
<1>1. (CHOOSE a \in Address : TRUE) \in Address
  BY BoundsAssumption
<1>2. /\ intents \in [Commitment -> IntentType]
      /\ \A c \in Commitment : intents[c].status = "pending" /\ intents[c].attempt = 0
  <2>1. ASSUME NEW c \in Commitment
        PROVE  Plan[c].due \in BOOLEAN /\ Plan[c].deadline \in {"none", "ahead"}
    BY PlanAssumption DEF PlanType
  <2> QED BY <2>1 DEF Init, IntentType, Statuses, NoRevision
<1>3. \A w \in Worker : workers[w] \in WorkerType /\ workers[w].pc = "idle"
  BY DEF Init, Idle, WorkerType
<1>4. TypeOK
  <2>1. group = "processing" /\ snapshot \in SnapshotType
    BY DEF Init, SnapshotType
  <2>2. journal \in [Commitment -> Seq(RecordType)] /\ made \in [Commitment -> SUBSET Nat]
    BY DEF Init
  <2>3. workers \in [Worker -> WorkerType]
    BY <1>3 DEF Init
  <2>4. address \in [Commitment -> Address]
    BY <1>1 DEF Init
  <2>5. budget \in BudgetType
    BY BoundsAssumption DEF Init, BudgetType
  <2> QED BY <1>2, <2>1, <2>2, <2>3, <2>4, <2>5 DEF TypeOK
<1>5. AttemptFence
  <2>1. \A c \in Commitment : DOMAIN journal[c] = {}
    BY DEF Init
  <2> QED BY <1>2, <2>1 DEF AttemptFence
<1>6. SlotsHold
  BY <1>3 DEF SlotsHold
<1> QED BY <1>4, <1>5, <1>6 DEF IInv

\* A step that changes nothing keeps the invariant.
LEMMA StutterKeeps == ASSUME IInv, UNCHANGED vars PROVE IInv'
BY DEF IInv, TypeOK, AttemptFence, SlotsHold, Call, vars

\* Every step keeps the invariant: one lemma per action.
LEMMA NextKeeps == IInv /\ [Next]_vars => IInv'
<1> SUFFICES ASSUME IInv, [Next]_vars PROVE IInv'
  OBVIOUS
<1>1. CASE \E c \in Commitment : Tick(c)
  <2>1. PICK c \in Commitment : Tick(c)
    BY <1>1
  <2> QED BY <2>1, LapseKeeps, DeadlinePassesKeeps, BackoffElapsesKeeps, ExpireKeeps, RecoverKeeps
          DEF Tick
<1>2. CASE \E w \in Worker : Serve(w)
  <2>1. PICK w \in Worker : Serve(w)
    BY <1>2
  <2>2. CASE \E c \in Commitment : Claim(w, c)
    BY <2>2, ClaimKeeps
  <2>3. CASE PrepareEnds(w)
    BY <2>3, PrepareKeeps DEF PrepareEnds
  <2>4. CASE BeginEnds(w)
    BY <2>4, BeginDeniedKeeps, BeginStaleKeeps, BothRefuse, RefusalKeeps, BeginStartedKeeps
       DEF BeginEnds
  <2>5. CASE CallEnds(w)
    BY <2>5, CallKeeps
  <2>6. CASE Finalize(w) \/ FinalizeLate(w)
    BY <2>6, FinalizeKeeps, FinalizeLateKeeps
  <2>7. CASE Crash(w) \/ CrashAfterEffect(w)
    BY <2>7, CrashKeeps
  <2> QED BY <2>1, <2>2, <2>3, <2>4, <2>5, <2>6, <2>7 DEF Serve, PrepareEnds, BeginEnds, CallEnds
<1>3. CASE Domain
  <2>1. CASE Acknowledge \/ Resolve
    BY <2>1, AcknowledgeKeeps, ResolveKeeps
  <2>2. CASE \E cards, threads \in BOOLEAN : StateMoves(cards, threads)
    BY <2>2, StateMovesKeeps
  <2>3. CASE \E c \in Commitment, to \in Address : Relink(c, to)
    BY <2>3, RelinkKeeps
  <2>4. CASE \E c \in Commitment, decision \in Decisions, risk, deadline \in BOOLEAN :
               OperatorDecides(c, decision, risk, deadline)
    BY <2>4, OperatorKeeps
  <2> QED BY <1>3, <2>1, <2>2, <2>3, <2>4 DEF Domain
<1>4. CASE UNCHANGED vars
  BY <1>4, StutterKeeps
<1> QED BY <1>1, <1>2, <1>3, <1>4 DEF Next

\* The inductive invariant behind the two theorems below: the types, the fence, and that
\* what a slot still knows of its attempt after a transaction is on record.
THEOREM Invariance == Spec => []IInv
<1>1. Init => IInv
  BY InitHolds
<1>2. IInv /\ [Next]_vars => IInv'
  BY NextKeeps
<1> QED BY <1>1, <1>2, PTL DEF Spec

\* Every row, record and slot keeps its type, whatever the machine decides.
THEOREM TypesHold == Spec => []TypeOK
<1>1. IInv => TypeOK
  BY DEF IInv
<1> QED BY <1>1, Invariance, PTL

\* One attempt at a time, owned by the token the row carries: for every admission
\* and any number of slots (BeginAttempt, FinalizeDeliveryAttempt, recoverOne).
THEOREM AttemptIsFenced == Spec => []AttemptFence
<1>1. IInv => AttemptFence
  BY DEF IInv
<1> QED BY <1>1, Invariance, PTL

------------------------------------------------------------------------------
(* What the journal says of its calls: it is history, which recovery, late    *)
(* answers and people add to and never rewrite, and within a generation       *)
(* every call in it went to one address.                                      *)

\* A slot between the transaction that opened its attempt and the one that
\* records the answer.
InFlight(slot) == slot.pc \in {"calling", "answered"}

\* No two slots work on one attempt, and nothing was observed beside an attempt
\* whose slot has not reported yet.  It is why the late observation has one writer.
SlotsApart ==
  \A w \in Worker : InFlight(workers[w]) =>
    /\ journal[workers[w].intent][workers[w].attempt].late = "none"
    /\ \A v \in Worker \ {w} :
         InFlight(workers[v]) => \/ workers[v].intent # workers[w].intent
                                 \/ workers[v].attempt # workers[w].attempt

HInv == IInv /\ SlotsApart

\* What JournalIsHistory says of a step.
Historic ==
  \A c \in Commitment : \A n \in DOMAIN journal[c] :
    /\ n \in DOMAIN journal'[c]
    /\ journal[c][n].by # "none" =>
         /\ journal'[c][n] = [journal[c][n] EXCEPT !.late = journal'[c][n].late]
         /\ journal[c][n].late # "none" => journal'[c][n] = journal[c][n]

\* A slot in flight after the step was in flight before it, on the same attempt.
SameFlight(w) ==
  InFlight(workers'[w]) => /\ InFlight(workers[w])
                           /\ workers'[w].intent = workers[w].intent
                           /\ workers'[w].attempt = workers[w].attempt

LateKept ==
  \A c \in Commitment : \A n \in DOMAIN journal[c] :
    n \in DOMAIN journal'[c] /\ journal'[c][n].late = journal[c][n].late

------------------------------------------------------------------------------
(* Kinds of steps.                                                            *)

\* A record is what it is with its late observation in its place.
LEMMA RecordItself ==
  ASSUME NEW r \in RecordType
  PROVE  r = [r EXCEPT !.late = r.late]
BY DEF RecordType

\* Nobody takes off and no observation is written: the slots stay apart.
LEMMA ApartKept ==
  ASSUME HInv, LateKept, \A w \in Worker : SameFlight(w)
  PROVE  SlotsApart'
<1> SUFFICES ASSUME NEW w \in Worker, InFlight(workers'[w])
             PROVE  /\ journal'[workers'[w].intent][workers'[w].attempt].late = "none"
                    /\ \A v \in Worker \ {w} :
                         InFlight(workers'[v]) => \/ workers'[v].intent # workers'[w].intent
                                                  \/ workers'[v].attempt # workers'[w].attempt
  BY DEF SlotsApart
<1>1. /\ InFlight(workers[w])
      /\ workers'[w].intent = workers[w].intent /\ workers'[w].attempt = workers[w].attempt
  BY DEF SameFlight
<1>2. workers[w].intent \in Commitment /\ workers[w].attempt \in DOMAIN journal[workers[w].intent]
  BY <1>1 DEF HInv, IInv, SlotsHold, InFlight
<1>3. journal'[workers'[w].intent][workers'[w].attempt].late = "none"
  BY <1>1, <1>2 DEF HInv, SlotsApart, LateKept
<1>4. ASSUME NEW v \in Worker \ {w}, InFlight(workers'[v])
      PROVE  \/ workers'[v].intent # workers'[w].intent
             \/ workers'[v].attempt # workers'[w].attempt
  <2>1. /\ InFlight(workers[v])
        /\ workers'[v].intent = workers[v].intent /\ workers'[v].attempt = workers[v].attempt
    BY <1>4 DEF SameFlight
  <2> QED BY <1>1, <2>1 DEF HInv, SlotsApart
<1> QED BY <1>3, <1>4

\* A step beside the journal.
LEMMA StillJournal ==
  ASSUME HInv, UNCHANGED journal, \A w \in Worker : SameFlight(w)
  PROVE  SlotsApart' /\ Historic
<1>1. \A c \in Commitment : \A n \in DOMAIN journal[c] : journal[c][n] \in RecordType
  BY DEF HInv, IInv, TypeOK
<1>2. Historic
  BY <1>1, RecordItself DEF Historic
<1>3. LateKept
  BY DEF LateKept
<1> QED BY <1>2, <1>3, ApartKept

\* A step that frees a slot.
LEMMA SlotFreed ==
  ASSUME HInv, NEW w \in Worker, workers' = [workers EXCEPT ![w] = Idle]
  PROVE  \A v \in Worker : SameFlight(v)
BY DEF HInv, IInv, TypeOK, SameFlight, InFlight, Idle

\* A record is added: nothing of the others moves.
LEMMA AppendIsHistory ==
  ASSUME HInv, NEW c \in Commitment, NEW r, OnlyAppends(c, r)
  PROVE  Historic /\ LateKept
<1>1. \A d \in Commitment : \A n \in DOMAIN journal[d] : journal[d][n] \in RecordType
  BY DEF HInv, IInv, TypeOK
<1>2. \A d \in Commitment : \A n \in DOMAIN journal[d] :
        n \in DOMAIN journal'[d] /\ journal'[d][n] = journal[d][n]
  BY DEF OnlyAppends, Grows
<1> QED BY <1>1, <1>2, RecordItself DEF Historic, LateKept

\* The open record is closed: no closed record moves, and no observation.
LEMMA CloseIsHistory ==
  ASSUME HInv, NEW c \in Commitment, NEW n \in DOMAIN journal[c], journal[c][n].by = "none",
         NEW outcome \in Answers, NEW by \in {"worker", "lease_lost"},
         journal' = Rewritten(c, n, Closed(journal[c][n], outcome, by))
  PROVE  Historic /\ LateKept
<1> DEFINE r == Closed(journal[c][n], outcome, by)
<1>1. \A d \in Commitment : \A k \in DOMAIN journal[d] : journal[d][k] \in RecordType
  BY DEF HInv, IInv, TypeOK
<1>2. r \in RecordType
  BY <1>1, ClosedRecord
<1>3. r.late = journal[c][n].late
  BY <1>1 DEF Closed, RecordType
<1>4. journal' = Rewritten(c, n, r)
  OBVIOUS
<1> HIDE DEF r
<1>5. OnlyRewrites(c, n, r)
  BY <1>2, <1>4, JournalRewrite DEF HInv, IInv
<1>6. \A d \in Commitment : \A k \in DOMAIN journal[d] :
        /\ k \in DOMAIN journal'[d]
        /\ (d = c /\ k = n) \/ journal'[d][k] = journal[d][k]
  BY <1>5 DEF OnlyRewrites
<1>7. LateKept
  BY <1>3, <1>5, <1>6 DEF LateKept, OnlyRewrites
<1>8. Historic
  BY <1>1, <1>6, RecordItself DEF Historic
<1> QED BY <1>7, <1>8

------------------------------------------------------------------------------
(* The steps that write the journal.                                          *)

\* Recovery closes what its worker left open.
LEMMA RecoverIsHistory ==
  ASSUME HInv, NEW c \in Commitment, Recover(c)
  PROVE  SlotsApart' /\ Historic
<1> DEFINE n == intents[c].attempt
<1>1. /\ n \in DOMAIN journal[c] /\ journal[c][n].by = "none"
      /\ journal' = Rewritten(c, n, Closed(journal[c][n], "ambiguous", "lease_lost"))
      /\ UNCHANGED workers
  BY DEF HInv, IInv, AttemptFence, Recover, Rewritten
<1>2. "ambiguous" \in Answers
  BY DEF Answers
<1> HIDE DEF n
<1>3. Historic /\ LateKept
  BY <1>1, <1>2, CloseIsHistory
<1>4. \A w \in Worker : SameFlight(w)
  BY <1>1 DEF SameFlight
<1> QED BY <1>3, <1>4, ApartKept

\* A worker closes its own attempt.
LEMMA FinalizeIsHistory ==
  ASSUME HInv, NEW w \in Worker, Finalize(w)
  PROVE  SlotsApart' /\ Historic
<1> DEFINE c == workers[w].intent
           n == workers[w].attempt
           answer == workers[w].answer
<1>1. /\ c \in Commitment /\ n \in DOMAIN journal[c] /\ answer \in Answers
      /\ journal[c][n].by = "none"
      /\ journal' = Rewritten(c, n, Closed(journal[c][n], answer, "worker"))
      /\ workers' = [workers EXCEPT ![w] = Idle]
  BY DEF HInv, IInv, TypeOK, WorkerType, SlotsHold, Finalize, Rewritten
<1> HIDE DEF c, n, answer
<1>2. Historic /\ LateKept
  BY <1>1, CloseIsHistory
<1>3. \A v \in Worker : SameFlight(v)
  BY <1>1, SlotFreed
<1> QED BY <1>2, <1>3, ApartKept

\* A late answer: beside a closed record, once, and by the last slot that could.
LEMMA FinalizeLateIsHistory ==
  ASSUME HInv, NEW w \in Worker, FinalizeLate(w)
  PROVE  SlotsApart' /\ Historic
<1> DEFINE c == workers[w].intent
           n == workers[w].attempt
           a == journal[c][n]
           answer == workers[w].answer
           r == [a EXCEPT !.late = answer]
<1>1. /\ TypeOK /\ SlotsHold /\ SlotsApart /\ workers[w].pc = "answered"
      /\ workers \in [Worker -> WorkerType]
  BY DEF HInv, IInv, TypeOK, FinalizeLate
<1>2. c \in Commitment /\ n \in DOMAIN journal[c] /\ answer \in Answers
  BY <1>1 DEF SlotsHold, WorkerType
<1>3. a.late = "none"
  BY <1>1 DEF SlotsApart, InFlight
<1>4. \A d \in Commitment : \A k \in DOMAIN journal[d] : journal[d][k] \in RecordType
  BY <1>1 DEF TypeOK
<1>5. a \in RecordType
  BY <1>2, <1>4
<1>6. r \in RecordType /\ r.late = answer /\ r = [a EXCEPT !.late = r.late]
  <2> HIDE DEF a, answer
  <2> QED BY <1>2, <1>5 DEF RecordType
<1>7. journal' = Rewritten(c, n, r) /\ workers' = [workers EXCEPT ![w] = Idle]
  BY DEF FinalizeLate, Rewritten
<1>8. \A v \in Worker \ {w} : InFlight(workers[v]) =>
        workers[v].intent # c \/ workers[v].attempt # n
  BY <1>1 DEF SlotsApart, InFlight
<1> HIDE DEF c, n, r, answer
<1>9. OnlyRewrites(c, n, r)
  BY <1>1, <1>2, <1>6, <1>7, JournalRewrite
<1>10. \A d \in Commitment : \A k \in DOMAIN journal[d] :
         /\ k \in DOMAIN journal'[d]
         /\ (d = c /\ k = n) \/ journal'[d][k] = journal[d][k]
  BY <1>9 DEF OnlyRewrites
<1>11. Historic
  <2>1. journal'[c][n] = [journal[c][n] EXCEPT !.late = journal'[c][n].late]
    BY <1>6, <1>9 DEF OnlyRewrites
  <2> QED BY <1>3, <1>4, <1>10, <2>1, RecordItself DEF Historic
<1>12. SlotsApart'
  <2>1. ASSUME NEW v \in Worker, InFlight(workers'[v])
        PROVE  v # w /\ workers'[v] = workers[v] /\ InFlight(workers[v])
    BY <1>1, <1>7, <2>1 DEF InFlight, Idle
  <2>2. ASSUME NEW v \in Worker, InFlight(workers'[v])
        PROVE  journal'[workers'[v].intent][workers'[v].attempt].late = "none"
    <3>1. v # w /\ workers'[v] = workers[v] /\ InFlight(workers[v])
      BY <2>1, <2>2
    <3>2. /\ workers[v].intent \in Commitment
          /\ workers[v].attempt \in DOMAIN journal[workers[v].intent]
          /\ journal[workers[v].intent][workers[v].attempt].late = "none"
      BY <1>1, <3>1 DEF SlotsHold, SlotsApart, InFlight
    <3>3. workers[v].intent # c \/ workers[v].attempt # n
      BY <1>8, <3>1
    <3> QED BY <1>10, <3>1, <3>2, <3>3
  <2>3. ASSUME NEW v \in Worker, NEW u \in Worker \ {v},
               InFlight(workers'[v]), InFlight(workers'[u])
        PROVE  workers'[u].intent # workers'[v].intent \/ workers'[u].attempt # workers'[v].attempt
    BY <1>1, <2>1, <2>3 DEF SlotsApart
  <2> QED BY <2>2, <2>3 DEF SlotsApart
<1> QED BY <1>11, <1>12

\* A refusal is added to the journal.
LEMMA RefusalIsHistory ==
  ASSUME HInv, NEW w \in Worker, Refusal(w)
  PROVE  SlotsApart' /\ Historic
<1>a. PICK outcome \in {"permanent", "transient"}, by \in Refusers : Refused(w, outcome, by)
  BY DEF Refusal
<1> DEFINE c == workers[w].intent
           result == IF outcome = "transient" THEN "retryable" ELSE "permanent"
           r == Record(c, Kind(c), NoRevision, 0, 0, result, by)
<1>1. IInv /\ TypeOK /\ c \in Commitment
  BY <1>a, HeldRow DEF HInv, IInv, Refused
<1>2. NoRevision \in Int /\ result \in Answers
  BY DEF NoRevision, Answers
<1>3. journal' = Extended(c, r) /\ workers' = [workers EXCEPT ![w] = Idle]
  BY <1>a DEF Refused
<1> HIDE DEF c, result
<1>4. r \in RecordType
  BY <1>1, <1>2, RecordTyped DEF Refusers
<1> HIDE DEF r
<1>5. OnlyAppends(c, r)
  BY <1>1, <1>3, <1>4, JournalAppend
<1>6. Historic /\ LateKept
  BY <1>1, <1>5, AppendIsHistory
<1>7. \A v \in Worker : SameFlight(v)
  BY <1>3, SlotFreed
<1> QED BY <1>6, <1>7, ApartKept

\* An attempt is opened at a number no slot can remember: the next one.
LEMMA BeginStartedIsHistory ==
  ASSUME HInv, NEW w \in Worker, BeginStarted(w)
  PROVE  SlotsApart' /\ Historic
<1> DEFINE c == workers[w].intent
           s == workers[w]
           n == Len(journal[c]) + 1
           endpoint == Bound(c, s.endpoint)
           r == Record(c, Kind(c), ContentRevision(c), endpoint, s.token, "open", "none")
<1>1. /\ IInv /\ TypeOK /\ SlotsHold /\ SlotsApart /\ workers \in [Worker -> WorkerType]
      /\ c \in Commitment /\ s.token \in Nat /\ s \in WorkerType
  BY HeldRow DEF HInv, IInv, TypeOK, BeginStarted
<1>2. endpoint \in Nat /\ ContentRevision(c) \in Int
  BY <1>1 DEF Bound, ContentRevision, IntentType, WorkerType, TypeOK, SnapshotType
<1>3. /\ journal' = Extended(c, r)
      /\ workers' = [workers EXCEPT ![w].pc = "calling", ![w].attempt = n]
  BY DEF BeginStarted, Extended
<1>4. r.late = "none"
  BY DEF Record
<1> HIDE DEF endpoint
<1>5. r \in RecordType
  BY <1>1, <1>2, RecordTyped
<1>6. Len(journal[c]) \in Nat
  BY <1>1 DEF TypeOK
<1> HIDE DEF r
<1>7. OnlyAppends(c, r)
  BY <1>1, <1>3, <1>5, JournalAppend
<1>8. Historic /\ LateKept
  BY <1>1, <1>7, AppendIsHistory
<1>9. n \notin DOMAIN journal[c] /\ journal'[c][n] = r
  BY <1>6, <1>7 DEF OnlyAppends
<1>10. /\ workers'[w].intent = c /\ workers'[w].attempt = n
       /\ \A v \in Worker \ {w} : workers'[v] = workers[v]
  BY <1>1, <1>3 DEF WorkerType
<1> HIDE DEF n, c, s
<1>11. ASSUME NEW v \in Worker \ {w}, InFlight(workers'[v])
       PROVE  /\ InFlight(workers[v]) /\ workers[v].intent \in Commitment
              /\ workers[v].attempt \in DOMAIN journal[workers[v].intent]
              /\ journal[workers[v].intent][workers[v].attempt].late = "none"
              /\ workers[v].intent # c \/ workers[v].attempt # n
  <2>1. workers'[v] = workers[v]
    BY <1>10
  <2> QED BY <1>1, <1>9, <1>11, <2>1 DEF SlotsHold, SlotsApart, InFlight
<1>12. SlotsApart'
  <2>1. ASSUME NEW v \in Worker, InFlight(workers'[v])
        PROVE  journal'[workers'[v].intent][workers'[v].attempt].late = "none"
    <3>1. CASE v = w
      BY <1>4, <1>9, <1>10, <3>1
    <3>2. CASE v # w
      BY <1>8, <1>10, <1>11, <2>1, <3>2 DEF LateKept
    <3> QED BY <3>1, <3>2
  <2>2. ASSUME NEW v \in Worker, NEW u \in Worker \ {v},
               InFlight(workers'[v]), InFlight(workers'[u])
        PROVE  workers'[u].intent # workers'[v].intent \/ workers'[u].attempt # workers'[v].attempt
    <3>1. CASE v = w
      BY <1>10, <1>11, <2>2, <3>1
    <3>2. CASE u = w
      BY <1>10, <1>11, <2>2, <3>2
    <3>3. CASE v # w /\ u # w
      BY <1>1, <1>10, <1>11, <2>2, <3>3 DEF SlotsApart
    <3> QED BY <3>1, <3>2, <3>3
  <2> QED BY <2>1, <2>2 DEF SlotsApart
<1> QED BY <1>8, <1>12

------------------------------------------------------------------------------
(* Every step.                                                                *)

\* Time, and the sweeps of a tick.
LEMMA TickIsHistory ==
  ASSUME HInv, NEW c \in Commitment, Tick(c)
  PROVE  SlotsApart' /\ Historic
<1>1. CASE Recover(c)
  BY <1>1, RecoverIsHistory
<1>2. CASE \/ LeaseExpires(c) \/ LeaseOverruns(c) \/ DeadlinePasses(c)
           \/ BackoffElapses(c) \/ Expire(c)
  <2>1. UNCHANGED <<journal, workers>>
    BY <1>2 DEF LeaseExpires, LeaseOverruns, Lapse, DeadlinePasses, BackoffElapses, Expire
  <2>2. \A w \in Worker : SameFlight(w)
    BY <2>1 DEF SameFlight
  <2> QED BY <2>1, <2>2, StillJournal
<1> QED BY <1>1, <1>2 DEF Tick

\* The steps of a slot that leave the journal alone.
LEMMA ServeBesideJournal ==
  ASSUME HInv, NEW w \in Worker,
         \/ \E c \in Commitment : Claim(w, c)
         \/ PrepareEnds(w) \/ BeginDenied(w) \/ BeginStale(w) \/ CallEnds(w)
         \/ Crash(w) \/ CrashAfterEffect(w)
  PROVE  SlotsApart' /\ Historic
<1>0. workers \in [Worker -> WorkerType]
  BY DEF HInv, IInv, TypeOK
<1>1. CASE \E c \in Commitment : Claim(w, c)
  <2>1. PICK c \in Commitment : Claim(w, c)
    BY <1>1
  <2>2. workers'[w].pc = "leased" /\ \A v \in Worker \ {w} : workers'[v] = workers[v]
    BY <1>0, <2>1 DEF Claim, WorkerType
  <2>3. \A v \in Worker : SameFlight(v)
    BY <2>2 DEF SameFlight, InFlight
  <2>4. UNCHANGED journal
    BY <2>1 DEF Claim
  <2> QED BY <2>3, <2>4, StillJournal
<1>2. CASE \E prep, endpoint : Prepared(w, prep, endpoint)
  <2>1. UNCHANGED journal /\ \A v \in Worker : SameFlight(v)
    BY <1>0, <1>2 DEF Prepared, SameFlight, InFlight, WorkerType
  <2> QED BY <2>1, StillJournal
<1>3. CASE \E answer, effect : Answered(w, answer, effect)
  <2>1. UNCHANGED journal /\ \A v \in Worker : SameFlight(v)
    BY <1>0, <1>3 DEF Answered, SameFlight, InFlight, WorkerType
  <2> QED BY <2>1, StillJournal
<1>4. CASE PrepareSkips(w) \/ BeginDenied(w) \/ BeginStale(w) \/ Crash(w) \/ CrashAfterEffect(w)
  <2>1. UNCHANGED journal /\ workers' = [workers EXCEPT ![w] = Idle]
    BY <1>4 DEF PrepareSkips, BeginDenied, BeginStale, Crash, CrashAfterEffect
  <2> QED BY <2>1, SlotFreed, StillJournal
<1>5. PrepareEnds(w) => PrepareSkips(w) \/ \E prep, endpoint : Prepared(w, prep, endpoint)
  BY DEF PrepareEnds, PrepareReady, PrepareOrphaned, PrepareRefuses
<1>6. CallEnds(w) => \E answer, effect : Answered(w, answer, effect)
  BY DEF CallEnds, CallAccepted, CallFindsNothing, CallRejected, CallInDoubt
<1> QED BY <1>1, <1>2, <1>3, <1>4, <1>5, <1>6

\* The group, the directory and the person write no journal.
LEMMA DomainIsHistory ==
  ASSUME HInv, Domain
  PROVE  SlotsApart' /\ Historic
<1>1. UNCHANGED <<journal, workers>>
  <2>1. CASE Acknowledge \/ Resolve
    BY <2>1 DEF Acknowledge, Resolve
  <2>2. CASE \E cards, threads \in BOOLEAN : StateMoves(cards, threads)
    BY <2>2 DEF StateMoves
  <2>3. CASE \E c \in Commitment, to \in Address : Relink(c, to)
    BY <2>3 DEF Relink
  <2>4. CASE \E c \in Commitment, decision \in Decisions, risk, deadline \in BOOLEAN :
               OperatorDecides(c, decision, risk, deadline)
    <3>1. PICK c \in Commitment, decision \in Decisions, risk \in BOOLEAN, deadline \in BOOLEAN :
            OperatorDecides(c, decision, risk, deadline)
      BY <2>4
    <3> QED BY <3>1 DEF OperatorDecides
  <2> QED BY <2>1, <2>2, <2>3, <2>4 DEF Domain
<1>2. \A w \in Worker : SameFlight(w)
  BY <1>1 DEF SameFlight
<1> QED BY <1>1, <1>2, StillJournal

\* Every step keeps the slots apart and the journal's past.
LEMMA StepIsHistory == HInv /\ [Next]_vars => SlotsApart' /\ Historic
<1> SUFFICES ASSUME HInv, [Next]_vars PROVE SlotsApart' /\ Historic
  OBVIOUS
<1>1. CASE \E c \in Commitment : Tick(c)
  BY <1>1, TickIsHistory
<1>2. CASE \E w \in Worker : Serve(w)
  <2>1. PICK w \in Worker : Serve(w)
    BY <1>2
  <2>2. CASE BeginRefused(w) \/ BeginUndeliverable(w) \/ BeginStarted(w)
    BY <2>2, BothRefuse, RefusalIsHistory, BeginStartedIsHistory
  <2>3. CASE Finalize(w) \/ FinalizeLate(w)
    BY <2>3, FinalizeIsHistory, FinalizeLateIsHistory
  <2>4. CASE \/ \E c \in Commitment : Claim(w, c)
             \/ PrepareEnds(w) \/ BeginDenied(w) \/ BeginStale(w) \/ CallEnds(w)
             \/ Crash(w) \/ CrashAfterEffect(w)
    BY <2>4, ServeBesideJournal
  <2> QED BY <2>1, <2>2, <2>3, <2>4 DEF Serve, PrepareEnds, CallEnds
<1>3. CASE Domain
  BY <1>3, DomainIsHistory
<1>4. CASE UNCHANGED vars
  <2>1. UNCHANGED <<journal, workers>>
    BY <1>4 DEF vars
  <2>2. \A w \in Worker : SameFlight(w)
    BY <2>1 DEF SameFlight
  <2> QED BY <2>1, <2>2, StillJournal
<1> QED BY <1>1, <1>2, <1>3, <1>4 DEF Next

\* The journal only grows: a closed attempt keeps its outcome for good, and the one
\* observation that may stand beside it is written once - however recovery, late
\* workers, crashes and decisions interleave (FinalizeDeliveryAttempt, recoverOne and
\* the late_finalize observation; erasure and retention, which scrub an address and
\* delete a finished history, are not steps of this module).
THEOREM HistoryStands == Spec => JournalIsHistory
<1>1. Init => SlotsApart
  BY DEF Init, SlotsApart, InFlight, Idle
<1>2. Spec => []SlotsApart
  <2>1. IInv /\ SlotsApart /\ [Next]_vars => SlotsApart'
    BY StepIsHistory DEF HInv
  <2> QED BY <1>1, <2>1, Invariance, PTL DEF Spec
<1>3. IInv /\ SlotsApart /\ [Next]_vars =>
        [\A c \in Commitment : \A n \in DOMAIN journal[c] :
           /\ n \in DOMAIN journal'[c]
           /\ journal[c][n].by # "none" =>
                /\ journal'[c][n] = [journal[c][n] EXCEPT !.late = journal'[c][n].late]
                /\ journal[c][n].late # "none" => journal'[c][n] = journal[c][n]]_vars
  BY StepIsHistory DEF HInv, Historic
<1> QED BY <1>2, <1>3, Invariance, PTL DEF Spec, JournalIsHistory

------------------------------------------------------------------------------
(* One address per generation.                                                *)

\* A record of a call, as opposed to the proof that none was made.
OfACall(a) == a.by \notin {"preparation", "parent_ended", "undeliverable"}

\* The calls of a row's own generation went where the row is bound; no record is
\* ahead of the row.
BoundAt(i, log) ==
  \A n \in DOMAIN log :
    /\ log[n].gen <= i.gen
    /\ OfACall(log[n]) /\ log[n].gen = i.gen => i.endpoint # 0 /\ log[n].endpoint = i.endpoint

\* OneAddressPerGeneration of one journal.
OneAddressIn(log) ==
  \A n, m \in DOMAIN log :
    OfACall(log[n]) /\ OfACall(log[m]) /\ log[n].gen = log[m].gen => log[n].endpoint = log[m].endpoint

\* A slot that is ready to call knows where.
ReadyKnowsWhere ==
  \A w \in Worker :
    workers[w].pc = "prepared" /\ workers[w].prep = "ready" => workers[w].endpoint # 0

RowsBound == \A c \in Commitment : BoundAt(intents[c], journal[c]) /\ OneAddressIn(journal[c])

BInv == IInv /\ ReadyKnowsWhere /\ RowsBound

\* A row rewritten within its generation, and a row that may have left it unbound.
SameBinding(i, j) == j.gen = i.gen /\ j.endpoint = i.endpoint

Unbinds(i, j) == SameBinding(i, j) \/ (j.gen = i.gen + 1 /\ j.endpoint = 0)

\* A journal whose calls are those it had; what is new is of the row's generation.
SameCalls(i, old, new) ==
  \A n \in DOMAIN new :
    \/ /\ n \in DOMAIN old
       /\ new[n].gen = old[n].gen /\ new[n].endpoint = old[n].endpoint
       /\ OfACall(new[n]) = OfACall(old[n])
    \/ ~OfACall(new[n]) /\ new[n].gen = i.gen

\* Where no call is added, the calls stay bound.
LEMMA BindingKept ==
  ASSUME NEW i \in IntentType, NEW j, NEW old \in Seq(RecordType), NEW new,
         BoundAt(i, old), OneAddressIn(old), Unbinds(i, j), SameCalls(i, old, new)
  PROVE  BoundAt(j, new) /\ OneAddressIn(new)
<1>1. i.gen \in Nat /\ \A n \in DOMAIN old : old[n].gen \in Nat
  <2>1. \A n \in DOMAIN old : old[n] \in RecordType
    OBVIOUS
  <2> QED BY <2>1 DEF IntentType, RecordType
<1>2. BoundAt(j, new)
  <2> SUFFICES ASSUME NEW n \in DOMAIN new
               PROVE  /\ new[n].gen <= j.gen
                      /\ OfACall(new[n]) /\ new[n].gen = j.gen =>
                           j.endpoint # 0 /\ new[n].endpoint = j.endpoint
    BY DEF BoundAt
  <2>1. CASE ~OfACall(new[n]) /\ new[n].gen = i.gen
    BY <1>1, <2>1 DEF Unbinds, SameBinding
  <2>2. CASE /\ n \in DOMAIN old
             /\ new[n].gen = old[n].gen /\ new[n].endpoint = old[n].endpoint
             /\ OfACall(new[n]) = OfACall(old[n])
    <3>1. /\ old[n].gen <= i.gen
          /\ OfACall(old[n]) /\ old[n].gen = i.gen => i.endpoint # 0 /\ old[n].endpoint = i.endpoint
      BY <2>2 DEF BoundAt
    <3>2. CASE SameBinding(i, j)
      BY <2>2, <3>1, <3>2 DEF SameBinding
    <3>3. CASE j.gen = i.gen + 1
      BY <1>1, <2>2, <3>1, <3>3
    <3> QED BY <3>2, <3>3 DEF Unbinds
  <2> QED BY <2>1, <2>2 DEF SameCalls
<1>3. OneAddressIn(new)
  BY DEF OneAddressIn, SameCalls
<1> QED BY <1>2, <1>3

------------------------------------------------------------------------------
(* Rows.                                                                      *)

\* A row with every column, whatever they hold.
IsRow(i) ==
  i = [status |-> i.status, gen |-> i.gen, endpoint |-> i.endpoint, desired |-> i.desired,
       applied |-> i.applied, receipt |-> i.receipt, cancel |-> i.cancel, risk |-> i.risk,
       claims |-> i.claims, token |-> i.token, live |-> i.live, attempt |-> i.attempt,
       failing |-> i.failing, due |-> i.due, deadline |-> i.deadline]

\* The admitted rows and the rows a transition writes have every column.
LEMMA Rows ==
  /\ \A i \in IntentType : IsRow(i)
  /\ \A i, m, w : IsRow(Written(i, m, w))
<1>1. \A i \in IntentType : IsRow(i)
  BY DEF IsRow, IntentType
<1>2. \A i, m, w : IsRow(Written(i, m, w))
  BY DEF IsRow, Written
<1> QED BY <1>1, <1>2

\* The withdrawal touches no binding.
LEMMA WithdrawnRowBinding ==
  ASSUME NEW i, IsRow(i)
  PROVE  SameBinding(i, WithdrawnRow(i))
<1>1. CASE i.status = "pending"
  <2>1. WithdrawnRow(i) = [i EXCEPT !.status = "canceled", !.token = 0, !.live = FALSE]
    BY <1>1, Zenon DEF WithdrawnRow, CanceledRow
  <2> QED BY <2>1 DEF IsRow, SameBinding
<1>2. CASE i.status = "sending"
  <2>1. WithdrawnRow(i) = [i EXCEPT !.cancel = TRUE]
    BY <1>2, Zenon DEF WithdrawnRow
  <2> QED BY <2>1 DEF IsRow, SameBinding
<1>3. CASE i.status = "manual_review"
  <2>1. WithdrawnRow(i) = [i EXCEPT !.status = "canceled"]
    BY <1>3, Zenon DEF WithdrawnRow
  <2> QED BY <2>1 DEF IsRow, SameBinding
<1>4. CASE i.status \notin {"pending", "sending", "manual_review"}
  <2>1. WithdrawnRow(i) = i
    BY <1>4, Zenon DEF WithdrawnRow
  <2> QED BY <2>1 DEF SameBinding
<1> QED BY <1>1, <1>2, <1>3, <1>4

\* Nor does the desired state.
LEMMA RaiseBinding ==
  ASSUME NEW rows, Typed(rows), NEW cards, NEW threads, NEW final, Raise(rows, cards, threads, final)
  PROVE  \A c \in Commitment : SameBinding(rows[c], intents'[c])
<1>1. ASSUME NEW c \in Commitment, NEW revision
      PROVE  SameBinding(rows[c], Aimed(rows, revision, cards, threads)[c])
  <2>1. rows[c] \in IntentType
    BY DEF Typed
  <2>2. SameBinding(rows[c], AimedRow(rows[c], revision))
    BY <2>1 DEF AimedRow, SameBinding, IntentType
  <2> QED BY <2>2 DEF Aimed, SameBinding
<1>2. \/ intents' = rows
      \/ \E revision : intents' = Aimed(rows, revision, cards, threads)
  BY DEF Raise
<1> QED BY <1>1, <1>2 DEF SameBinding

\* A transition starts a generation unbound, or keeps the row's.
LEMMA AppliedBinding ==
  ASSUME TypeOK, NEW c \in Commitment, NEW m, NEW w
  PROVE  \A d \in Commitment : /\ IsRow(Applied(c, m, w)[d])
                               /\ Unbinds(intents[d], Applied(c, m, w)[d])
<1> SUFFICES ASSUME NEW d \in Commitment
             PROVE  IsRow(Applied(c, m, w)[d]) /\ Unbinds(intents[d], Applied(c, m, w)[d])
  OBVIOUS
<1>1. CASE d = c
  <2>1. Applied(c, m, w)[d] = Written(intents[d], m, w)
    BY <1>1 DEF Applied
  <2>2. Unbinds(intents[d], Written(intents[d], m, w))
    BY DEF Written, Unbinds, SameBinding
  <2> QED BY <2>1, <2>2, Rows
<1>2. CASE Applied(c, m, w)[d] = intents[d]
  BY <1>2, Rows DEF Unbinds, SameBinding, TypeOK
<1>3. CASE Applied(c, m, w)[d] = Revived(d) /\ Revives(m, c, d)
  <2>1. intents[d].status = "canceled" /\ intents[d] \in IntentType
    BY <1>3 DEF Revives, TypeOK
  <2>2. Revived(d) \in IntentType
    BY <2>1, RevivedQuiet DEF Quiet
  <2>3. SameBinding(intents[d], Revived(d))
    BY <2>1 DEF Revived, SameBinding, IntentType
  <2> QED BY <1>3, <2>2, <2>3, Rows DEF Unbinds
<1> QED BY <1>1, <1>2, <1>3 DEF Applied

\* The rows a transition leaves, whether or not it stops the escalation.
LEMMA TransitionBinding ==
  ASSUME TypeOK, NEW c \in Commitment, NEW m, NEW w,
         intents' = Applied(c, m, w) \/ intents' = Stopped(Applied(c, m, w), c)
  PROVE  \A d \in Commitment : Unbinds(intents[d], intents'[d])
<1> DEFINE rows == Applied(c, m, w)
<1>1. \A d \in Commitment : IsRow(rows[d]) /\ Unbinds(intents[d], rows[d])
  BY AppliedBinding
<1>2. intents' = rows \/ intents' = Stopped(rows, c)
  OBVIOUS
<1> HIDE DEF rows
<1>3. \A d \in Commitment : SameBinding(rows[d], Stopped(rows, c)[d])
  BY <1>1, WithdrawnRowBinding DEF Stopped, SameBinding
<1> QED BY <1>1, <1>2, <1>3 DEF Unbinds, SameBinding

------------------------------------------------------------------------------
(* Steps.                                                                     *)

\* A step that adds no call.
LEMMA BindingStep ==
  ASSUME IInv, RowsBound,
         \A c \in Commitment : Unbinds(intents[c], intents'[c]),
         \A c \in Commitment : SameCalls(intents[c], journal[c], journal'[c])
  PROVE  RowsBound'
<1>1. \A c \in Commitment : intents[c] \in IntentType /\ journal[c] \in Seq(RecordType)
  BY DEF IInv, TypeOK
<1> QED BY <1>1, BindingKept DEF RowsBound

\* A step beside the journal.
LEMMA StillCalls ==
  ASSUME UNCHANGED journal
  PROVE  \A c \in Commitment : SameCalls(intents[c], journal[c], journal'[c])
BY DEF SameCalls

\* Closing a record, or writing an observation beside it, makes no call.
LEMMA RewriteCalls ==
  ASSUME TypeOK, NEW c \in Commitment, NEW n \in DOMAIN journal[c], NEW r \in RecordType,
         journal' = Rewritten(c, n, r), r.gen = journal[c][n].gen,
         r.endpoint = journal[c][n].endpoint, OfACall(r) = OfACall(journal[c][n])
  PROVE  \A d \in Commitment : SameCalls(intents[d], journal[d], journal'[d])
<1>1. OnlyRewrites(c, n, r)
  BY JournalRewrite
<1> QED BY <1>1 DEF OnlyRewrites, SameCalls

\* The slots that do not become ready to call.
LEMMA ReadyKept ==
  ASSUME ReadyKnowsWhere,
         \A w \in Worker : \/ workers'[w] = workers[w]
                           \/ workers'[w].pc # "prepared"
                           \/ workers'[w].prep # "ready"
                           \/ workers'[w].endpoint # 0
  PROVE  ReadyKnowsWhere'
BY DEF ReadyKnowsWhere

\* A slot that is freed is not ready.
LEMMA FreedKeepsReady ==
  ASSUME IInv, ReadyKnowsWhere, NEW w \in Worker, workers' = [workers EXCEPT ![w] = Idle]
  PROVE  ReadyKnowsWhere'
<1>1. workers'[w] = Idle /\ \A v \in Worker \ {w} : workers'[v] = workers[v]
  BY DEF IInv, TypeOK
<1>2. \A v \in Worker : workers'[v] = workers[v] \/ workers'[v].pc # "prepared"
  BY <1>1 DEF Idle
<1> QED BY <1>2, ReadyKept

\* A clock or a sweep moves columns of one row, none of them the binding.
LEMMA TickBinding ==
  ASSUME BInv, NEW c \in Commitment, Tick(c)
  PROVE  RowsBound' /\ ReadyKnowsWhere'
<1>0. IInv /\ TypeOK /\ ReadyKnowsWhere /\ RowsBound /\ intents[c] \in IntentType
  BY DEF BInv, IInv, TypeOK
<1>1. UNCHANGED workers
  BY DEF Tick, LeaseExpires, LeaseOverruns, Lapse, DeadlinePasses, BackoffElapses, Expire, Recover
<1>2. ReadyKnowsWhere'
  BY <1>0, <1>1, ReadyKept
<1>3. CASE Recover(c)
  <2> DEFINE n == intents[c].attempt
             a == journal[c][n]
             r == Closed(a, "ambiguous", "lease_lost")
  <2>1. n \in DOMAIN journal[c] /\ a.by = "none" /\ journal' = Rewritten(c, n, r)
    BY <1>0, <1>3 DEF IInv, AttemptFence, Recover, Rewritten
  <2>2. a \in RecordType /\ "ambiguous" \in Answers
    <3>1. journal[c] \in Seq(RecordType)
      BY <1>0 DEF TypeOK
    <3> HIDE DEF n
    <3> QED BY <2>1, <3>1 DEF Answers
  <2>3. \E m, w : intents' = Applied(c, m, w)
    BY <1>3 DEF Recover
  <2> HIDE DEF n, a
  <2>4. r \in RecordType /\ r.by = "lease_lost" /\ r.gen = a.gen /\ r.endpoint = a.endpoint
    BY <2>2, ClosedRecord DEF Closed, RecordType
  <2> HIDE DEF r
  <2>5. \A d \in Commitment : SameCalls(intents[d], journal[d], journal'[d])
    BY <1>0, <2>1, <2>4, RewriteCalls DEF a, OfACall
  <2>6. \A d \in Commitment : Unbinds(intents[d], intents'[d])
    BY <1>0, <2>3, TransitionBinding
  <2> QED BY <1>0, <1>2, <2>5, <2>6, BindingStep
<1>4. CASE \/ LeaseExpires(c) \/ LeaseOverruns(c) \/ DeadlinePasses(c)
           \/ BackoffElapses(c) \/ Expire(c)
  <2>1. UNCHANGED journal
    BY <1>4 DEF LeaseExpires, LeaseOverruns, Lapse, DeadlinePasses, BackoffElapses, Expire
  <2>2. \E row : intents' = [intents EXCEPT ![c] = row] /\ SameBinding(intents[c], row)
    BY <1>0, <1>4
       DEF LeaseExpires, LeaseOverruns, Lapse, DeadlinePasses, BackoffElapses, Expire,
           SameBinding, IntentType
  <2>3. \A d \in Commitment : Unbinds(intents[d], intents'[d])
    BY <1>0, <2>2 DEF TypeOK, Unbinds, SameBinding
  <2> QED BY <1>0, <1>2, <2>1, <2>3, BindingStep, StillCalls
<1> QED BY <1>3, <1>4 DEF Tick

\* The group and the person: rows are withdrawn, aimed, or brought back.
LEMMA DomainBinding ==
  ASSUME BInv, Domain
  PROVE  RowsBound' /\ ReadyKnowsWhere'
<1>0. IInv /\ TypeOK /\ ReadyKnowsWhere /\ RowsBound /\ Typed(intents)
  BY DEF BInv, IInv, TypeOK, Typed
<1> SUFFICES UNCHANGED <<journal, workers>> /\ \A d \in Commitment : Unbinds(intents[d], intents'[d])
  BY <1>0, BindingStep, StillCalls, ReadyKept
<1>1. ASSUME NEW cards \in BOOLEAN, NEW threads \in BOOLEAN, NEW final \in BOOLEAN,
             \/ Raise(intents, cards, threads, final)
             \/ Raise(Withdrawn(intents), cards, threads, final)
      PROVE  \A d \in Commitment : Unbinds(intents[d], intents'[d])
  <2>1. Typed(Withdrawn(intents))
    BY <1>0, WithdrawnQuiet
  <2>2. \A d \in Commitment : SameBinding(intents[d], Withdrawn(intents)[d])
    BY <1>0, Rows, WithdrawnRowBinding DEF Withdrawn, Typed, SameBinding
  <2>3. \/ \A d \in Commitment : SameBinding(intents[d], intents'[d])
        \/ \A d \in Commitment : SameBinding(Withdrawn(intents)[d], intents'[d])
    BY <1>0, <1>1, <2>1, RaiseBinding
  <2> QED BY <2>2, <2>3 DEF Unbinds, SameBinding
<1>2. CASE Acknowledge \/ Resolve
  BY <1>1, <1>2 DEF Acknowledge, Resolve
<1>3. CASE \E cards, threads \in BOOLEAN : StateMoves(cards, threads)
  BY <1>1, <1>3 DEF StateMoves
<1>4. CASE \E c \in Commitment, to \in Address : Relink(c, to)
  BY <1>4 DEF Relink, Unbinds, SameBinding
<1>5. CASE \E c \in Commitment, decision \in Decisions, risk, deadline \in BOOLEAN :
             OperatorDecides(c, decision, risk, deadline)
  <2>1. PICK c \in Commitment, decision \in Decisions, risk \in BOOLEAN, deadline \in BOOLEAN :
          OperatorDecides(c, decision, risk, deadline)
    BY <1>5
  <2>2. PICK m, w, desired :
          intents' = Unorphaned([Applied(c, m, w) EXCEPT ![c].desired = desired], c, decision)
    BY <2>1 DEF OperatorDecides
  <2> DEFINE rows == Applied(c, m, w)
             aimed == [rows EXCEPT ![c].desired = desired]
             back(i) == [i EXCEPT !.status = "pending", !.due = TRUE, !.token = 0, !.live = FALSE]
  <2>3. \A d \in Commitment : IsRow(rows[d]) /\ Unbinds(intents[d], rows[d])
    BY <1>0, AppliedBinding
  <2>4. \A d \in Commitment \ {c} : aimed[d] = rows[d]
    BY DEF Applied
  <2>5. aimed[c] = [rows[c] EXCEPT !.desired = desired]
    BY DEF Applied
  <2> HIDE DEF rows
  <2>6. \A i : IsRow(i) => SameBinding(i, [i EXCEPT !.desired = desired])
                           /\ IsRow([i EXCEPT !.desired = desired])
    BY DEF IsRow, SameBinding
  <2>7. \A i : IsRow(i) => SameBinding(i, back(i))
    BY DEF IsRow, SameBinding
  <2>8. \A d \in Commitment : IsRow(aimed[d]) /\ SameBinding(rows[d], aimed[d])
    BY <2>3, <2>4, <2>5, <2>6 DEF SameBinding
  <2>9. \A d \in Commitment : intents'[d] = aimed[d] \/ intents'[d] = back(aimed[d])
    BY <2>2 DEF Unorphaned, rows
  <2> HIDE DEF aimed, back
  <2>10. \A d \in Commitment : SameBinding(aimed[d], intents'[d])
    BY <2>7, <2>8, <2>9 DEF SameBinding
  <2>11. \A d \in Commitment : Unbinds(intents[d], intents'[d])
    BY <2>3, <2>8, <2>10 DEF Unbinds, SameBinding
  <2> QED BY <2>1, <2>11 DEF OperatorDecides
<1> QED BY <1>2, <1>3, <1>4, <1>5 DEF Domain

\* A claim, a denied or a stale begin: rows keep their binding.
LEMMA ClaimBinding ==
  ASSUME BInv, NEW w \in Worker,
         (\E c \in Commitment : Claim(w, c)) \/ BeginDenied(w) \/ BeginStale(w)
  PROVE  RowsBound' /\ ReadyKnowsWhere'
<1>0. /\ IInv /\ TypeOK /\ ReadyKnowsWhere /\ RowsBound
      /\ workers \in [Worker -> WorkerType] /\ intents \in [Commitment -> IntentType]
  BY DEF BInv, IInv, TypeOK
<1>1. UNCHANGED journal
  BY DEF Claim, BeginDenied, BeginStale
<1>2. ASSUME NEW c \in Commitment, NEW row, intents' = [intents EXCEPT ![c] = row],
             SameBinding(intents[c], row)
      PROVE  RowsBound'
  <2>1. \A d \in Commitment : Unbinds(intents[d], intents'[d])
    BY <1>0, <1>2 DEF Unbinds, SameBinding
  <2> QED BY <1>0, <1>1, <2>1, BindingStep, StillCalls
<1>3. CASE \E c \in Commitment : Claim(w, c)
  <2>1. PICK c \in Commitment : Claim(w, c)
    BY <1>3
  <2> DEFINE token == intents[c].claims + 1
             row == [intents[c] EXCEPT !.claims = token, !.token = token, !.live = TRUE]
  <2>2. intents' = [intents EXCEPT ![c] = row] /\ SameBinding(intents[c], row)
    BY <1>0, <2>1 DEF Claim, SameBinding, IntentType
  <2>3. workers'[w].pc = "leased" /\ \A v \in Worker \ {w} : workers'[v] = workers[v]
    BY <1>0, <2>1 DEF Claim, WorkerType
  <2> HIDE DEF row
  <2>4. RowsBound'
    BY <1>2, <2>2
  <2>5. \A v \in Worker : workers'[v] = workers[v] \/ workers'[v].pc # "prepared"
    BY <2>3
  <2> QED BY <1>0, <2>4, <2>5, ReadyKept
<1>4. CASE BeginDenied(w)
  <2>1. UNCHANGED intents /\ workers' = [workers EXCEPT ![w] = Idle]
    BY <1>4 DEF BeginDenied
  <2>2. \A d \in Commitment : Unbinds(intents[d], intents'[d])
    BY <2>1 DEF Unbinds, SameBinding
  <2> QED BY <1>0, <1>1, <2>1, <2>2, BindingStep, StillCalls, FreedKeepsReady
<1>5. CASE BeginStale(w)
  <2> DEFINE c == workers[w].intent
             row == [intents[c] EXCEPT !.token = 0, !.live = FALSE, !.due = TRUE]
  <2>1. c \in Commitment
    BY <1>0, <1>5, HeldRow DEF BeginStale
  <2>2. intents' = [intents EXCEPT ![c] = row] /\ workers' = [workers EXCEPT ![w] = Idle]
    BY <1>0, <1>5, <2>1 DEF BeginStale
  <2> HIDE DEF c
  <2>3. SameBinding(intents[c], row)
    BY <1>0, <2>1 DEF SameBinding, IntentType
  <2> HIDE DEF row
  <2> QED BY <1>0, <1>2, <2>1, <2>2, <2>3, FreedKeepsReady
<1> QED BY <1>3, <1>4, <1>5

\* The steps that read or wait: a preparation that finds the way knows an address.
LEMMA WaitingBinding ==
  ASSUME BInv, NEW w \in Worker,
         PrepareEnds(w) \/ CallEnds(w) \/ Crash(w) \/ CrashAfterEffect(w)
  PROVE  RowsBound' /\ ReadyKnowsWhere'
<1>0. /\ IInv /\ TypeOK /\ SlotsHold /\ ReadyKnowsWhere /\ RowsBound
      /\ workers \in [Worker -> WorkerType]
  BY DEF BInv, IInv, TypeOK
<1>1. UNCHANGED <<intents, journal>>
  BY DEF PrepareEnds, PrepareReady, PrepareOrphaned, PrepareRefuses, PrepareSkips, Prepared,
         CallEnds, CallAccepted, CallFindsNothing, CallRejected, CallInDoubt, Answered,
         Crash, CrashAfterEffect
<1>2. RowsBound'
  <2>1. \A d \in Commitment : Unbinds(intents[d], intents'[d])
    BY <1>1 DEF Unbinds, SameBinding
  <2> QED BY <1>0, <1>1, <2>1, BindingStep, StillCalls
<1>3. CASE PrepareReady(w)
  <2> DEFINE c == workers[w].intent
  <2>1. c \in Commitment
    BY <1>0, <1>3 DEF PrepareReady, SlotsHold
  <2>2. Proposed(c) # 0
    <3>1. address[c] # 0
      BY <1>0, <2>1, BoundsAssumption DEF TypeOK
    <3> QED BY <1>3, <3>1 DEF PrepareReady, Asked, Proposed
  <2> HIDE DEF c
  <2>3. workers'[w].endpoint = Proposed(c) /\ \A v \in Worker \ {w} : workers'[v] = workers[v]
    BY <1>0, <1>3 DEF PrepareReady, Prepared, WorkerType, c
  <2>4. \A v \in Worker : workers'[v] = workers[v] \/ workers'[v].endpoint # 0
    BY <2>2, <2>3
  <2> QED BY <1>0, <1>2, <2>4, ReadyKept
<1>4. CASE \/ PrepareOrphaned(w)
           \/ \E prep \in {"permanent", "transient"} : PrepareRefuses(w, prep)
  <2>1. PICK prep \in {"permanent", "transient", "parent_ended"} : Prepared(w, prep, 0)
    BY <1>4 DEF PrepareOrphaned, PrepareRefuses
  <2>2. workers'[w].prep = prep /\ \A v \in Worker \ {w} : workers'[v] = workers[v]
    BY <1>0, <2>1 DEF Prepared, WorkerType
  <2>3. \A v \in Worker : workers'[v] = workers[v] \/ workers'[v].prep # "ready"
    BY <2>2
  <2> QED BY <1>0, <1>2, <2>3, ReadyKept
<1>5. CASE CallEnds(w)
  <2>1. PICK answer, effect : Answered(w, answer, effect)
    BY <1>5 DEF CallEnds, CallAccepted, CallFindsNothing, CallRejected, CallInDoubt
  <2>2. workers'[w].pc = "answered" /\ \A v \in Worker \ {w} : workers'[v] = workers[v]
    BY <1>0, <2>1 DEF Answered, WorkerType
  <2>3. \A v \in Worker : workers'[v] = workers[v] \/ workers'[v].pc # "prepared"
    BY <2>2
  <2> QED BY <1>0, <1>2, <2>3, ReadyKept
<1>6. CASE PrepareSkips(w) \/ Crash(w) \/ CrashAfterEffect(w)
  <2>1. workers' = [workers EXCEPT ![w] = Idle]
    BY <1>6 DEF PrepareSkips, Crash, CrashAfterEffect
  <2> QED BY <1>0, <1>2, <2>1, FreedKeepsReady
<1> QED BY <1>3, <1>4, <1>5, <1>6 DEF PrepareEnds

\* A refusal is a record of no call.
LEMMA RefusedBinding ==
  ASSUME BInv, NEW w \in Worker, Refusal(w)
  PROVE  RowsBound' /\ ReadyKnowsWhere'
<1>a. PICK outcome \in {"permanent", "transient"}, by \in Refusers : Refused(w, outcome, by)
  BY DEF Refusal
<1> DEFINE c == workers[w].intent
           result == IF outcome = "transient" THEN "retryable" ELSE "permanent"
           r == Record(c, Kind(c), NoRevision, 0, 0, result, by)
<1>1. IInv /\ TypeOK /\ ReadyKnowsWhere /\ RowsBound /\ c \in Commitment
  BY <1>a, HeldRow DEF BInv, IInv, Refused
<1>2. NoRevision \in Int /\ result \in Answers /\ by \in Refusers
  BY DEF NoRevision, Answers
<1>3. journal' = Extended(c, r) /\ workers' = [workers EXCEPT ![w] = Idle]
  BY <1>a DEF Refused
<1>4. \E m, x : intents' = Applied(c, m, x) \/ intents' = Stopped(Applied(c, m, x), c)
  BY <1>a DEF Refused
<1> HIDE DEF c, result
<1>5. r \in RecordType /\ r.by = by
  BY <1>1, <1>2, RecordTyped DEF Refusers
<1>6. r.gen = intents[c].gen
  BY DEF Record
<1> HIDE DEF r
<1>7. OnlyAppends(c, r) /\ Len(journal[c]) \in Nat
  BY <1>1, <1>3, <1>5, JournalAppend DEF TypeOK
<1>8. \A d \in Commitment : SameCalls(intents[d], journal[d], journal'[d])
  <2>1. \A n \in DOMAIN journal'[c] :
          \/ n \in DOMAIN journal[c] /\ journal'[c][n] = journal[c][n]
          \/ journal'[c][n] = r
    BY <1>7 DEF OnlyAppends
  <2>2. SameCalls(intents[c], journal[c], journal'[c])
    BY <1>2, <1>5, <1>6, <2>1 DEF SameCalls, OfACall, Refusers
  <2> QED BY <1>7, <2>2 DEF OnlyAppends, SameCalls
<1>9. \A d \in Commitment : Unbinds(intents[d], intents'[d])
  BY <1>1, <1>4, TransitionBinding
<1> QED BY <1>1, <1>3, <1>8, <1>9, BindingStep, FreedKeepsReady

\* The one step that adds a call: to the address the row is bound to, or that it
\* binds the row to because no call of the generation was made yet.
LEMMA StartedBinding ==
  ASSUME BInv, NEW w \in Worker, BeginStarted(w)
  PROVE  RowsBound' /\ ReadyKnowsWhere'
<1> DEFINE c == workers[w].intent
           i == intents[c]
           s == workers[w]
           n == Len(journal[c]) + 1
           endpoint == Bound(c, s.endpoint)
           r == Record(c, Kind(c), ContentRevision(c), endpoint, s.token, "open", "none")
           row == [i EXCEPT !.status = "sending", !.attempt = n, !.endpoint = endpoint]
<1>0. /\ IInv /\ TypeOK /\ ReadyKnowsWhere /\ RowsBound
      /\ workers \in [Worker -> WorkerType] /\ intents \in [Commitment -> IntentType]
  BY DEF BInv, IInv, TypeOK
<1>1. c \in Commitment /\ s.token \in Nat /\ s \in WorkerType /\ i \in IntentType
  BY <1>0, HeldRow DEF BeginStarted
<1>2. /\ journal' = Extended(c, r)
      /\ intents' = [intents EXCEPT ![c] = row]
      /\ workers' = [workers EXCEPT ![w].pc = "calling", ![w].attempt = n]
  BY DEF BeginStarted, Extended
<1>3. s.endpoint # 0 /\ s.endpoint \in Nat
  BY <1>0, <1>1 DEF BeginStarted, ReadyKnowsWhere, WorkerType
<1>4. endpoint \in Nat /\ endpoint # 0 /\ (i.endpoint # 0 => endpoint = i.endpoint)
      /\ ContentRevision(c) \in Int
  BY <1>0, <1>1, <1>3 DEF Bound, ContentRevision, IntentType, TypeOK, SnapshotType
<1>5. workers'[w].pc = "calling" /\ \A v \in Worker \ {w} : workers'[v] = workers[v]
  BY <1>0, <1>2 DEF WorkerType
<1>6. ReadyKnowsWhere'
  <2>1. \A v \in Worker : workers'[v] = workers[v] \/ workers'[v].pc # "prepared"
    BY <1>5
  <2> QED BY <1>0, <2>1, ReadyKept
<1>7. r.gen = i.gen /\ r.endpoint = endpoint
  BY DEF Record
<1> HIDE DEF endpoint
<1>8. r \in RecordType
  BY <1>0, <1>1, <1>4, RecordTyped
<1> HIDE DEF r, n
<1>9. OnlyAppends(c, r) /\ Len(journal[c]) \in Nat
  BY <1>0, <1>1, <1>2, <1>8, JournalAppend DEF TypeOK
<1>10. /\ intents'[c] = row /\ row.gen = i.gen /\ row.endpoint = endpoint
       /\ \A d \in Commitment \ {c} : intents'[d] = intents[d]
  <2> HIDE DEF c
  <2>1. intents'[c] = row /\ \A d \in Commitment \ {c} : intents'[d] = intents[d]
    BY <1>0, <1>1, <1>2
  <2>2. row.gen = i.gen /\ row.endpoint = endpoint
    BY <1>1 DEF IntentType
  <2> QED BY <2>1, <2>2
<1> HIDE DEF row, c, s, i
<1>11. \A k \in DOMAIN journal'[c] :
         \/ k \in DOMAIN journal[c] /\ journal'[c][k] = journal[c][k]
         \/ journal'[c][k] = r
  BY <1>9 DEF OnlyAppends
<1>12. BoundAt(i, journal[c]) /\ OneAddressIn(journal[c]) /\ i.gen \in Nat
  BY <1>0, <1>1 DEF RowsBound, i, IntentType
<1>13. \A k \in DOMAIN journal[c] :
         OfACall(journal[c][k]) /\ journal[c][k].gen = i.gen => journal[c][k].endpoint = endpoint
  BY <1>4, <1>12 DEF BoundAt
<1>14. BoundAt(intents'[c], journal'[c])
  <2>1. \A k \in DOMAIN journal[c] : journal[c][k].gen <= i.gen
    BY <1>12 DEF BoundAt
  <2> QED BY <1>4, <1>7, <1>10, <1>11, <1>12, <1>13, <2>1 DEF BoundAt
<1>15. OneAddressIn(journal'[c])
  BY <1>7, <1>11, <1>12, <1>13 DEF OneAddressIn
<1>16. RowsBound'
  BY <1>0, <1>9, <1>10, <1>14, <1>15 DEF RowsBound, OnlyAppends
<1> QED BY <1>6, <1>16

\* An attempt is closed by its worker, or its answer noted beside it: no call is added.
LEMMA FinalizeBinding ==
  ASSUME BInv, NEW w \in Worker, Finalize(w) \/ FinalizeLate(w)
  PROVE  RowsBound' /\ ReadyKnowsWhere'
<1> DEFINE c == workers[w].intent
           n == workers[w].attempt
           a == journal[c][n]
           answer == workers[w].answer
           closed == Closed(a, answer, "worker")
           noted == [a EXCEPT !.late = answer]
<1>0. IInv /\ TypeOK /\ SlotsHold /\ ReadyKnowsWhere /\ RowsBound
  BY DEF BInv, IInv
<1>1. /\ workers[w].pc = "answered"
      /\ workers' = [workers EXCEPT ![w] = Idle]
  BY DEF Finalize, FinalizeLate
<1>2. c \in Commitment /\ n \in DOMAIN journal[c] /\ answer \in Answers
      /\ journal[c] \in Seq(RecordType)
  BY <1>0, <1>1 DEF SlotsHold, TypeOK, WorkerType
<1>3. a \in RecordType
  <2> HIDE DEF c, n
  <2> QED BY <1>2
<1>4. \/ /\ journal' = Rewritten(c, n, closed) /\ a.by = "none"
         /\ \E m, x : intents' = Applied(c, m, x) \/ intents' = Stopped(Applied(c, m, x), c)
      \/ journal' = Rewritten(c, n, noted) /\ UNCHANGED intents
  <2>1. CASE Finalize(w)
    <3>1. journal' = Rewritten(c, n, closed) /\ a.by = "none"
      BY <2>1 DEF Finalize, Rewritten
    <3>2. \E m, x : intents' = Applied(c, m, x) \/ intents' = Stopped(Applied(c, m, x), c)
      BY <2>1 DEF Finalize
    <3> QED BY <3>1, <3>2
  <2>2. CASE FinalizeLate(w)
    <3>1. journal' = Rewritten(c, n, noted) /\ UNCHANGED intents
      BY <2>2 DEF FinalizeLate, Rewritten
    <3> QED BY <3>1
  <2> QED BY <2>1, <2>2
<1> HIDE DEF a, answer
<1>5. closed \in RecordType /\ closed.by = "worker" /\ closed.gen = a.gen
      /\ closed.endpoint = a.endpoint
  BY <1>2, <1>3, ClosedRecord DEF Closed, RecordType
<1>6. noted \in RecordType /\ noted.by = a.by /\ noted.gen = a.gen /\ noted.endpoint = a.endpoint
  BY <1>2, <1>3 DEF RecordType
<1> HIDE DEF c, n, closed, noted
<1>7. \A d \in Commitment : SameCalls(intents[d], journal[d], journal'[d])
  <2>1. CASE journal' = Rewritten(c, n, closed) /\ a.by = "none"
    BY <1>0, <1>2, <1>5, <2>1, RewriteCalls DEF a, c, n, OfACall
  <2>2. CASE journal' = Rewritten(c, n, noted)
    BY <1>0, <1>2, <1>6, <2>2, RewriteCalls DEF a, c, n, OfACall
  <2> QED BY <1>4, <2>1, <2>2
<1>8. \A d \in Commitment : Unbinds(intents[d], intents'[d])
  <2>1. CASE \E m, x : intents' = Applied(c, m, x) \/ intents' = Stopped(Applied(c, m, x), c)
    BY <1>0, <1>2, <2>1, TransitionBinding
  <2>2. CASE UNCHANGED intents
    BY <2>2 DEF Unbinds, SameBinding
  <2> QED BY <1>4, <2>1, <2>2
<1> QED BY <1>0, <1>1, <1>7, <1>8, BindingStep, FreedKeepsReady

\* Every step keeps the calls bound.
LEMMA StepKeepsBinding == BInv /\ [Next]_vars => RowsBound' /\ ReadyKnowsWhere'
<1> SUFFICES ASSUME BInv, [Next]_vars PROVE RowsBound' /\ ReadyKnowsWhere'
  OBVIOUS
<1>1. CASE \E c \in Commitment : Tick(c)
  BY <1>1, TickBinding
<1>2. CASE \E w \in Worker : Serve(w)
  <2>1. PICK w \in Worker : Serve(w)
    BY <1>2
  <2>2. CASE (\E c \in Commitment : Claim(w, c)) \/ BeginDenied(w) \/ BeginStale(w)
    BY <2>2, ClaimBinding
  <2>3. CASE PrepareEnds(w) \/ CallEnds(w) \/ Crash(w) \/ CrashAfterEffect(w)
    BY <2>3, WaitingBinding
  <2>4. CASE BeginRefused(w) \/ BeginUndeliverable(w) \/ BeginStarted(w)
    BY <2>4, BothRefuse, RefusedBinding, StartedBinding
  <2>5. CASE Finalize(w) \/ FinalizeLate(w)
    BY <2>5, FinalizeBinding
  <2> QED BY <2>1, <2>2, <2>3, <2>4, <2>5 DEF Serve, PrepareEnds, CallEnds
<1>3. CASE Domain
  BY <1>3, DomainBinding
<1>4. CASE UNCHANGED vars
  BY <1>4 DEF vars, BInv, RowsBound, ReadyKnowsWhere, BoundAt, OneAddressIn, OfACall
<1> QED BY <1>1, <1>2, <1>3, <1>4 DEF Next

\* Every call of a generation went to one address: however often the directory is
\* relinked, a lease runs out between preparing and beginning, an attempt is
\* recovered or a person retries (BeginAttempt and bindGenerationTx).
THEOREM CallsShareAnAddress == Spec => []OneAddressPerGeneration
<1>1. Init => ReadyKnowsWhere /\ RowsBound
  <2> SUFFICES ASSUME Init PROVE ReadyKnowsWhere /\ RowsBound
    OBVIOUS
  <2>1. ReadyKnowsWhere
    BY DEF Init, Idle, ReadyKnowsWhere
  <2>2. \A c \in Commitment : DOMAIN journal[c] = {}
    BY DEF Init
  <2> QED BY <2>1, <2>2 DEF RowsBound, BoundAt, OneAddressIn
<1>2. IInv /\ (ReadyKnowsWhere /\ RowsBound) /\ [Next]_vars => (ReadyKnowsWhere /\ RowsBound)'
  BY StepKeepsBinding DEF BInv
<1>3. ReadyKnowsWhere /\ RowsBound => OneAddressPerGeneration
  BY DEF RowsBound, OneAddressIn, OfACall, OneAddressPerGeneration, Call
<1> QED BY <1>1, <1>2, <1>3, Invariance, PTL DEF Spec

------------------------------------------------------------------------------
(* What the decision table does to a row.                                     *)

\* A commitment the machine reads: it succeeds on acceptance, and only a message
\* that is never edited may be assumed sent.
Readable(i) ==
  /\ i.completion = "on_acceptance" /\ i.form \in Forms
  /\ i.policy = "assume_accepted" => i.form = "one_shot"

\* settleApplied: an editable commitment is parked on a revision that is not
\* behind, and finished on the last one.
Settles(i, m, revision, final) ==
  /\ m.to \in {"succeeded", "idle", "pending"}
  /\ {"ApplyRevision", "StoreReceipt"} \subseteq m.effects
  /\ "NewGeneration" \notin m.effects
  /\ m.to = "idle" => i.form = "editable" /\ ~final /\ revision >= i.desired
  /\ m.to = "succeeded" /\ i.form = "editable" => final
  /\ m.to \in {"idle", "pending"} => i.form = "editable"
  /\ i.form = "editable" => revision # NoRevision

\* Every settled delivery is one of these.
LEMMA SettleMove ==
  ASSUME NEW i, i.form \in Forms, NEW proof, NEW revision, NEW final,
         Valid(SettleApplied(i, proof, revision, final))
  PROVE  Settles(i, SettleApplied(i, proof, revision, final), revision, final)
<1> DEFINE e == Settled \cup (IF proof = "assumed" THEN {"RecordDuplicateRisk"} ELSE {})
           l == ProofLine(proof)
<1>0. PICK m : m = SettleApplied(i, proof, revision, final)
  OBVIOUS
<1> SUFFICES Settles(i, m, revision, final)
  BY <1>0
<1>1. /\ {"ApplyRevision", "StoreReceipt"} \subseteq e /\ "NewGeneration" \notin e
      /\ {"ApplyRevision", "StoreReceipt"} \subseteq e \cup {"ScheduleNow"}
      /\ "NewGeneration" \notin e \cup {"ScheduleNow"}
  BY DEF Settled, Released
<1>2. CASE i.form = "one_shot"
  <2>1. m = Move("succeeded", e, l)
    BY <1>2, <1>0, Zenon DEF SettleApplied
  <2> HIDE DEF e, l
  <2> QED BY <1>1, <1>2, <2>1 DEF Settles, Move
<1>3. CASE i.form = "editable"
  <2>1. CASE revision = NoRevision
    BY <1>3, <2>1, <1>0, Zenon DEF SettleApplied, Valid, Invalid, Move
  <2>2. CASE revision # NoRevision
    <3>1. CASE final
      <4>1. m = Move("succeeded", e, l)
        BY <1>3, <2>2, <3>1, <1>0, Zenon DEF SettleApplied
      <4> HIDE DEF e, l
      <4> QED BY <1>1, <1>3, <2>2, <3>1, <4>1 DEF Settles, Move
    <3>2. CASE ~final /\ revision >= i.desired
      <4>1. m = Move("idle", e, l)
        BY <1>3, <2>2, <3>2, <1>0, Zenon DEF SettleApplied
      <4> HIDE DEF e, l
      <4> QED BY <1>1, <1>3, <2>2, <3>2, <4>1 DEF Settles, Move
    <3>3. CASE ~final /\ ~(revision >= i.desired)
      <4>1. m = Move("pending", e \cup {"ScheduleNow"}, l)
        BY <1>3, <2>2, <3>3, <1>0, Zenon DEF SettleApplied
      <4> HIDE DEF e, l
      <4> QED BY <1>1, <1>3, <2>2, <3>3, <4>1 DEF Settles, Move
    <3> QED BY <3>1, <3>2, <3>3
  <2> QED BY <2>1, <2>2
<1> QED BY <1>2, <1>3 DEF Forms

\* Where a finished attempt leads (decideFinish).
Finishes(i, m, outcome, revision, final) ==
  /\ i.status = "sending" /\ "NewGeneration" \notin m.effects
  /\ outcome = "accepted" => Settles(i, m, revision, final)
  /\ outcome # "accepted" =>
       /\ i.cancel => m.to = "canceled"
       /\ i.form = "editable" => /\ "ApplyRevision" \notin m.effects
                                 /\ m.to \notin {"idle", "succeeded"}
       /\ m.to # "idle"
       /\ "ConsumeCancellation" \in m.effects => m.to = "canceled"
  /\ m.to = "permanent_failed" => outcome = "permanent"
  /\ outcome \in {"retryable", "permanent"} =>
       m.to \in {"pending", "permanent_failed", "canceled"}

\* Every finished attempt is one of these.
LEMMA FinishMove ==
  ASSUME NEW i, Readable(i), NEW outcome, NEW revision, NEW final,
         Valid(DecideFinish(i, outcome, revision, final, FALSE))
  PROVE  Finishes(i, DecideFinish(i, outcome, revision, final, FALSE), outcome, revision, final)
<1>0. PICK m : m = DecideFinish(i, outcome, revision, final, FALSE)
  OBVIOUS
<1> SUFFICES Finishes(i, m, outcome, revision, final)
  BY <1>0
<1>1. Valid(m) /\ ~Valid(Invalid)
  BY <1>0 DEF Valid, Invalid, Move
<1>2. i.status = "sending"
  BY <1>0, <1>1, Zenon DEF DecideFinish
<1>3. CASE outcome = "accepted" /\ i.cancel
  <2>1. PICK s : s = SettleApplied(i, "accepted", revision, final)
    OBVIOUS
  <2>2. m = With(s, {"ConsumeCancellation"}, "sent_alongside_cancel")
    <3>1. m = FinishWithdrawn(i, outcome, revision, final)
      BY <1>0, <1>2, <1>3, Zenon DEF DecideFinish
    <3>2. i.completion = "on_acceptance"
      BY DEF Readable
    <3> QED BY <1>3, <2>1, <3>1, <3>2, Zenon DEF FinishWithdrawn
  <2>3. Valid(s)
    BY <1>1, <2>2 DEF With
  <2>4. Settles(i, s, revision, final)
    BY <2>1, <2>3, SettleMove DEF Readable
  <2>5. m.to = s.to /\ m.effects = s.effects \cup {"ConsumeCancellation"}
    BY <2>2, <2>3 DEF With, Move
  <2>6. m.to # "permanent_failed" /\ Settles(i, m, revision, final)
    BY <2>4, <2>5 DEF Settles
  <2> QED BY <1>2, <1>3, <2>6 DEF Finishes, Settles
<1>4. CASE outcome = "accepted" /\ ~i.cancel
  <2>1. m = SettleApplied(i, "accepted", revision, final)
    BY <1>0, <1>2, <1>4, Zenon DEF DecideFinish, Readable
  <2>2. Settles(i, m, revision, final)
    BY <1>1, <2>1, SettleMove DEF Readable
  <2> QED BY <1>2, <1>4, <2>2 DEF Finishes, Settles
<1>5. CASE outcome # "accepted" /\ i.cancel
  <2>1. m = FinishWithdrawn(i, outcome, revision, final)
    BY <1>0, <1>2, <1>5, Zenon DEF DecideFinish
  <2>2. m = Move("canceled", Released \cup {"ConsumeCancellation"}, "canceled")
    BY <1>1, <1>5, <2>1, Zenon DEF FinishWithdrawn
  <2> QED BY <1>2, <1>5, <2>2 DEF Finishes, Move, Released
<1>6. CASE outcome = "retryable" /\ ~i.cancel
  <2>1. m = Repeat("none")
    BY <1>0, <1>2, <1>6, Zenon DEF DecideFinish
  <2> QED BY <1>2, <1>6, <2>1 DEF Finishes, Repeat, Move, Released
<1>7. CASE outcome = "permanent" /\ ~i.cancel
  <2>1. m = Move("permanent_failed", Released \cup {"BumpFailureStreak", "RaiseFailureSignal"},
                 "failed")
    <3>1. i.completion # "on_provider_receipt"
      BY DEF Readable
    <3> QED BY <1>0, <1>2, <1>7, <3>1, Zenon DEF DecideFinish
  <2> QED BY <1>2, <1>7, <2>1 DEF Finishes, Move, Released
<1>8. CASE outcome = "ambiguous" /\ ~i.cancel
  <2>1. m = DecideAmbiguous(i, revision, final)
    BY <1>0, <1>2, <1>8, Zenon DEF DecideFinish
  <2>2. CASE i.policy = "assume_accepted"
    <3>1. i.form = "one_shot"
      BY <2>2 DEF Readable
    <3>2. m = SettleApplied(i, "assumed", revision, final)
      BY <2>1, <2>2, <3>1, Zenon DEF DecideAmbiguous
    <3>3. \E e, l : m = Move("succeeded", Settled \cup e, l) /\ e = {"RecordDuplicateRisk"}
      BY <3>1, <3>2, Zenon DEF SettleApplied
    <3> QED BY <1>2, <1>8, <3>1, <3>3 DEF Finishes, Move, Settled, Released
  <2>3. CASE i.policy = "manual_review"
    <3>1. m = ToReview("none")
      BY <2>1, <2>3, Zenon DEF DecideAmbiguous
    <3> QED BY <1>2, <1>8, <3>1 DEF Finishes, ToReview, Move, Released
  <2>4. CASE i.policy \notin {"assume_accepted", "manual_review"}
    <3>1. m = Repeat("none")
      BY <1>1, <2>1, <2>4, Zenon DEF DecideAmbiguous
    <3> QED BY <1>2, <1>8, <3>1 DEF Finishes, Repeat, Move, Released
  <2> QED BY <2>2, <2>3, <2>4
<1>9. outcome \in {"accepted", "retryable", "permanent", "ambiguous"} \/ i.cancel
  BY <1>0, <1>1, Zenon DEF DecideFinish
<1> QED BY <1>3, <1>4, <1>5, <1>6, <1>7, <1>8, <1>9

\* Where a recovered attempt leads (decideRecover).
Recovers(i, m) ==
  /\ i.status = "sending" /\ "NewGeneration" \notin m.effects
  /\ i.cancel => m.to = "canceled"
  /\ m.to \in {"canceled", "manual_review", "succeeded", "expired", "pending"}
  /\ i.form = "editable" => "ApplyRevision" \notin m.effects /\ m.to # "succeeded"
  /\ "ConsumeCancellation" \in m.effects => m.to = "canceled"

\* Every recovered attempt is one of these.
LEMMA RecoverMove ==
  ASSUME NEW i, Readable(i), NEW expired, NEW revision, NEW final,
         Valid(DecideRecover(i, expired, revision, final))
  PROVE  Recovers(i, DecideRecover(i, expired, revision, final))
<1>0. PICK m : m = DecideRecover(i, expired, revision, final)
  OBVIOUS
<1> SUFFICES Recovers(i, m)
  BY <1>0
<1>1. Valid(m) /\ ~Valid(Invalid)
  BY <1>0 DEF Valid, Invalid, Move
<1>2. i.status = "sending"
  BY <1>0, <1>1, Zenon DEF DecideRecover
<1>3. CASE i.cancel
  <2>1. m = Move("canceled", Released \cup {"ConsumeCancellation", "BumpFailureStreak"}, "canceled")
    BY <1>0, <1>2, <1>3, Zenon DEF DecideRecover
  <2> QED BY <1>2, <1>3, <2>1 DEF Recovers, Move, Released
<1>4. CASE ~i.cancel /\ i.policy = "manual_review"
  <2>1. m = ToReview("lease_lost")
    BY <1>0, <1>2, <1>4, Zenon DEF DecideRecover
  <2> QED BY <1>2, <1>4, <2>1 DEF Recovers, ToReview, Move, Released
<1>5. CASE ~i.cancel /\ i.policy = "assume_accepted"
  <2>1. i.form = "one_shot"
    BY <1>5 DEF Readable
  <2>2. m = SettleApplied(i, "assumed", revision, final)
    BY <1>0, <1>2, <1>5, <2>1, Zenon DEF DecideRecover
  <2>3. \E e, l : m = Move("succeeded", Settled \cup e, l) /\ e = {"RecordDuplicateRisk"}
    BY <2>1, <2>2, Zenon DEF SettleApplied
  <2> QED BY <1>2, <1>5, <2>1, <2>3 DEF Recovers, Move, Settled, Released
<1>6. CASE ~i.cancel /\ i.policy \notin {"manual_review", "assume_accepted"}
  <2>1. \/ m = Move("expired", Released \cup {"BumpFailureStreak"}, "expired")
        \/ m = Repeat("lease_lost")
    BY <1>0, <1>1, <1>2, <1>6, Zenon DEF DecideRecover
  <2> QED BY <1>2, <1>6, <2>1 DEF Recovers, Repeat, Move, Released
<1> QED BY <1>3, <1>4, <1>5, <1>6

\* A refused preparation touches nothing but the queue (decidePreparation).
Refuses(i, m) ==
  /\ i.status = "pending" /\ m.to \in {"pending", "permanent_failed"}
  /\ m.effects \cap {"NewGeneration", "ApplyRevision", "StoreReceipt",
                     "ConsumeCancellation", "RecordDuplicateRisk"} = {}

\* Every refusal is one of these.
LEMMA RefusalMove ==
  ASSUME NEW i, NEW outcome \in {"permanent", "transient"},
         Valid(DecidePreparation(i, outcome))
  PROVE  Refuses(i, DecidePreparation(i, outcome))
<1>0. PICK m : m = DecidePreparation(i, outcome)
  OBVIOUS
<1>1. Valid(m) /\ ~Valid(Invalid)
  BY <1>0 DEF Valid, Invalid, Move
<1>2. i.status = "pending"
  BY <1>0, <1>1, Zenon DEF DecidePreparation
<1>3. \/ m = Move("permanent_failed", {"ClearLease", "BumpFailureStreak", "RaiseFailureSignal"}, "failed")
      \/ m = Move("pending", {"ClearLease", "BumpFailureStreak", "ScheduleRetry"}, "none")
  BY <1>0, <1>2, Zenon DEF DecidePreparation
<1> QED BY <1>0, <1>2, <1>3 DEF Refuses, Move

\* Where a person's decision leads (decideOperator).
Decides(i, m, decision, f, revision, final) ==
  /\ i.status \in {"manual_review", "permanent_failed", "expired"}
  /\ "ConsumeCancellation" \notin m.effects
  /\ \/ /\ decision = "assume_accepted" /\ i.status = "manual_review"
        /\ i.form = "one_shot" \/ i.receipt
        /\ Settles(i, m, revision, final)
     \/ /\ decision = "cancel" /\ m.to = "canceled" /\ m.effects = {}
     \/ /\ decision = "retry_current" /\ m.to = "pending"
        /\ "NewGeneration" \notin m.effects /\ "ApplyRevision" \notin m.effects
     \/ /\ decision = "retry_new" /\ m.to = "pending"
        /\ "NewGeneration" \in m.effects /\ "ApplyRevision" \notin m.effects
        /\ f.ambiguous => f.risk
        /\ f.risk => "RecordDuplicateRisk" \in m.effects

\* Every decision is one of these.
LEMMA OperatorMove ==
  ASSUME NEW i, i.form \in Forms, NEW decision \in Decisions, NEW f, f.risk \in BOOLEAN,
         NEW revision, NEW final, Valid(DecideOperator(i, decision, f, revision, final))
  PROVE  Decides(i, DecideOperator(i, decision, f, revision, final), decision, f, revision, final)
<1>0. PICK m : m = DecideOperator(i, decision, f, revision, final)
  OBVIOUS
<1> SUFFICES Decides(i, m, decision, f, revision, final)
  BY <1>0
<1>1. Valid(m) /\ ~Valid(Invalid)
  BY <1>0 DEF Valid, Invalid, Move
<1>2. i.status \in {"manual_review", "permanent_failed", "expired"}
  BY <1>0, <1>1, Zenon DEF DecideOperator
<1>3. CASE decision = "assume_accepted"
  <2>1. i.status = "manual_review" /\ (i.form = "one_shot" \/ i.receipt)
    BY <1>0, <1>1, <1>3, Zenon DEF DecideOperator
  <2>2. m = SettleApplied(i, "assumed", revision, final)
    BY <1>0, <1>1, <1>3, Zenon DEF DecideOperator
  <2>3. Settles(i, m, revision, final)
    BY <1>1, <2>2, SettleMove
  <2>4. "ConsumeCancellation" \notin m.effects
    <3> DEFINE e == Settled \cup {"RecordDuplicateRisk"}
    <3>1. e \cup {"ScheduleNow"} # {} /\ "ConsumeCancellation" \notin e
          /\ "ConsumeCancellation" \notin e \cup {"ScheduleNow"}
      BY DEF Settled, Released
    <3>2. \E to, l : m = Move(to, e, l) \/ m = Move(to, e \cup {"ScheduleNow"}, l)
      BY <1>1, <2>2, Zenon DEF SettleApplied
    <3> HIDE DEF e
    <3> QED BY <3>1, <3>2 DEF Move
  <2> QED BY <1>2, <1>3, <2>1, <2>3, <2>4 DEF Decides
<1>4. CASE decision = "cancel"
  <2>1. m = Move("canceled", {}, "canceled")
    BY <1>0, <1>1, <1>4, Zenon DEF DecideOperator
  <2> QED BY <1>2, <1>4, <2>1 DEF Decides, Move
<1>5. CASE decision = "retry_current"
  <2>1. m = Move("pending", {"ScheduleNow", "ResetFailureStreak"}, "none")
    BY <1>0, <1>1, <1>5, Zenon DEF DecideOperator
  <2> QED BY <1>2, <1>5, <2>1 DEF Decides, Move
<1>6. CASE decision = "retry_new"
  <2>1. f.ambiguous => f.risk
    BY <1>0, <1>1, <1>6, Zenon DEF DecideOperator
  <2>2. m = Move("pending", {"NewGeneration", "ScheduleNow", "ResetFailureStreak"}
                              \cup (IF f.risk THEN {"RecordDuplicateRisk"} ELSE {}), "none")
    BY <1>0, <1>1, <1>6, Zenon DEF DecideOperator
  <2> QED BY <1>2, <1>6, <2>1, <2>2 DEF Decides, Move
<1> QED BY <1>3, <1>4, <1>5, <1>6 DEF Decisions

------------------------------------------------------------------------------
(* Rows beside a transition.                                                  *)

\* A row owes somebody a message: queued, parked, stuck, or in flight unasked.
Underway(i) ==
  \/ i.status \in {"pending", "manual_review", "idle"}
  \/ i.status = "sending" /\ ~i.cancel

\* What a row's attempts have brought, left as it is.
SameMessage(i, j) ==
  /\ j.gen = i.gen /\ j.endpoint = i.endpoint /\ j.applied = i.applied
  /\ j.receipt = i.receipt /\ j.risk = i.risk /\ j.attempt = i.attempt

\* A row another's step rewrites: queued again at most, or let go - but never one
\* that has what it was owed.
Beside(i, j) ==
  /\ SameMessage(i, j)
  /\ \/ j.status = i.status
     \/ i.status # "sending" /\ j.status = "pending"
     \/ i.status \notin {"sending", "idle", "succeeded"} /\ j.status \in {"canceled", "expired"}

\* It is aimed where it was, as long as that matters.
SameAim(i, j) == j.status \in {"sending", "manual_review"} => j.desired = i.desired

\* It owes no more than it did.
Steady(i, j) == Beside(i, j) /\ SameAim(i, j) /\ (Underway(j) => Underway(i))

\* A row left alone is steady.
LEMMA SteadySelf == \A i : Steady(i, i)
BY DEF Steady, Beside, SameMessage, SameAim

\* What the withdrawal writes: nothing is owed by a row it takes.
LEMMA WithdrawnRowSteady ==
  ASSUME NEW i, IsRow(i)
  PROVE  /\ Steady(i, WithdrawnRow(i)) /\ IsRow(WithdrawnRow(i))
         /\ Underway(WithdrawnRow(i)) => i.status = "idle" /\ WithdrawnRow(i) = i
<1> USE DEF Steady, Beside, SameMessage, SameAim, Underway
<1>1. CASE i.status = "pending"
  <2>1. WithdrawnRow(i) = [i EXCEPT !.status = "canceled", !.token = 0, !.live = FALSE]
    BY <1>1, Zenon DEF WithdrawnRow, CanceledRow
  <2> QED BY <1>1, <2>1 DEF IsRow
<1>2. CASE i.status = "sending"
  <2>1. WithdrawnRow(i) = [i EXCEPT !.cancel = TRUE]
    BY <1>2, Zenon DEF WithdrawnRow
  <2> QED BY <1>2, <2>1 DEF IsRow
<1>3. CASE i.status = "manual_review"
  <2>1. WithdrawnRow(i) = [i EXCEPT !.status = "canceled"]
    BY <1>3, Zenon DEF WithdrawnRow
  <2> QED BY <1>3, <2>1 DEF IsRow
<1>4. CASE i.status \notin {"pending", "sending", "manual_review"}
  <2>1. WithdrawnRow(i) = i
    BY <1>4, Zenon DEF WithdrawnRow
  <2> QED BY <1>4, <2>1
<1> QED BY <1>1, <1>2, <1>3, <1>4

\* What the desired state writes: a parked row is queued, and still owes.
LEMMA AimedRowBeside ==
  ASSUME NEW i, IsRow(i), NEW revision
  PROVE  /\ Beside(i, AimedRow(i, revision))
         /\ Underway(AimedRow(i, revision)) => Underway(i)
         /\ AimedRow(i, revision).desired = revision
         /\ AimedRow(i, revision).status # "idle"
         /\ \/ AimedRow(i, revision).status = i.status
            \/ i.status = "idle" /\ AimedRow(i, revision).status = "pending"
<1> DEFINE status == IF i.status = "idle" THEN "pending" ELSE i.status
           due    == IF i.status = "idle" THEN TRUE ELSE i.due
<1>1. status # "idle" /\ (status = i.status \/ (i.status = "idle" /\ status = "pending"))
  OBVIOUS
<1>2. AimedRow(i, revision) = [i EXCEPT !.desired = revision, !.status = status, !.due = due]
  BY DEF AimedRow
<1> HIDE DEF status, due
<1> QED BY <1>1, <1>2 DEF IsRow, Beside, SameMessage, Underway

\* A satellite that comes back, with its card or with a decision about it.
LEMMA RevivedBeside ==
  /\ \A d \in Commitment : IsRow(intents[d]) /\ intents[d].status = "canceled" =>
       Beside(intents[d], Revived(d)) /\ Revived(d).status = "pending" /\ IsRow(Revived(d))
  /\ \A i : IsRow(i) /\ i.status = "permanent_failed" =>
       Beside(i, [i EXCEPT !.status = "pending", !.due = TRUE, !.token = 0, !.live = FALSE])
<1>1. ASSUME NEW d \in Commitment, IsRow(intents[d]), intents[d].status = "canceled"
      PROVE  Beside(intents[d], Revived(d)) /\ Revived(d).status = "pending" /\ IsRow(Revived(d))
  <2>1. PICK i : i = intents[d]
    OBVIOUS
  <2>2. PICK desired : Revived(d) = [i EXCEPT !.status = "pending", !.due = TRUE,
                                              !.cancel = FALSE, !.desired = desired]
    BY <2>1 DEF Revived
  <2> QED BY <1>1, <2>1, <2>2 DEF Beside, SameMessage, IsRow
<1>2. ASSUME NEW i, IsRow(i), i.status = "permanent_failed"
      PROVE  Beside(i, [i EXCEPT !.status = "pending", !.due = TRUE, !.token = 0, !.live = FALSE])
  BY <1>2 DEF Beside, SameMessage, IsRow
<1> QED BY <1>1, <1>2

\* Every row beside a transition of c; a satellite comes back only with its card.
RowsBeside(c, m) ==
  \A d \in Commitment \ {c} :
    /\ Beside(intents[d], intents'[d]) /\ SameAim(intents[d], intents'[d])
    /\ Underway(intents'[d]) => Underway(intents[d]) \/ Revives(m, c, d)

\* A transition of c, whether or not it stops the escalation.
LEMMA TransitionRows ==
  ASSUME TypeOK, NEW c \in Commitment, NEW m, NEW w,
         intents' = Applied(c, m, w) \/ intents' = Stopped(Applied(c, m, w), c)
  PROVE  intents'[c] = Written(intents[c], m, w) /\ RowsBeside(c, m)
<1> DEFINE rows == Applied(c, m, w)
<1>1. rows[c] = Written(intents[c], m, w)
  BY DEF Applied
<1>2. ASSUME NEW d \in Commitment \ {c}
      PROVE  /\ Beside(intents[d], rows[d]) /\ SameAim(intents[d], rows[d])
             /\ Underway(rows[d]) => Underway(intents[d]) \/ Revives(m, c, d)
             /\ IsRow(rows[d]) /\ (rows[d] = intents[d] \/ intents[d].status = "canceled")
  <2>1. IsRow(intents[d])
    BY Rows DEF TypeOK
  <2>2. CASE Revives(m, c, d)
    <3>1. intents[d].status = "canceled" /\ rows[d] = Revived(d)
      BY <2>2 DEF Revives, Applied
    <3> QED BY <2>1, <2>2, <3>1, RevivedBeside DEF SameAim
  <2>3. CASE ~Revives(m, c, d)
    <3>1. rows[d] = intents[d]
      BY <2>3 DEF Applied
    <3> QED BY <2>1, <3>1, SteadySelf DEF Steady
  <2> QED BY <2>2, <2>3
<1>3. intents' = rows \/ intents' = Stopped(rows, c)
  OBVIOUS
<1>4. Plan[c].step \in Nat
  BY PlanAssumption DEF PlanType
<1> HIDE DEF rows
<1>5. intents'[c] = rows[c]
  BY <1>3, <1>4 DEF Stopped
<1>6. ASSUME NEW d \in Commitment \ {c}
      PROVE  /\ Beside(intents[d], intents'[d]) /\ SameAim(intents[d], intents'[d])
             /\ Underway(intents'[d]) => Underway(intents[d]) \/ Revives(m, c, d)
  <2>1. intents'[d] = rows[d] \/ intents'[d] = WithdrawnRow(rows[d])
    BY <1>3 DEF Stopped
  <2>2. Steady(rows[d], intents'[d])
    BY <1>2, <2>1, SteadySelf, WithdrawnRowSteady
  <2>3. CASE rows[d] = intents[d]
    BY <2>2, <2>3 DEF Steady
  <2>4. CASE intents[d].status = "canceled"
    BY <1>2, <2>2, <2>4 DEF Steady, Beside, SameMessage, SameAim
  <2> QED BY <1>2, <2>3, <2>4
<1> QED BY <1>1, <1>5, <1>6 DEF RowsBeside

\* A step that stops the escalation leaves nothing of a later step underway but
\* what has a message, or is parked.
LEMMA StopLeavesNothing ==
  ASSUME TypeOK, NEW c \in Commitment, NEW m, NEW w, intents' = Stopped(Applied(c, m, w), c)
  PROVE  \A d \in Commitment :
           Plan[d].step > Plan[c].step /\ Withdrawable(intents', d) /\ Underway(intents'[d])
             => intents'[d].status = "idle"
<1> DEFINE rows == Applied(c, m, w)
<1>1. \A d \in Commitment : IsRow(rows[d])
  BY AppliedBinding
<1>2. intents' = Stopped(rows, c)
  OBVIOUS
<1> HIDE DEF rows
<1> SUFFICES ASSUME NEW d \in Commitment,
                    Plan[d].step > Plan[c].step, Withdrawable(intents', d), Underway(intents'[d])
             PROVE  intents'[d].status = "idle"
  OBVIOUS
<1>3. ASSUME NEW e \in Commitment PROVE intents'[e].receipt = rows[e].receipt
  <2>1. intents'[e] = rows[e] \/ intents'[e] = WithdrawnRow(rows[e])
    BY <1>2 DEF Stopped
  <2> QED BY <1>1, <2>1, WithdrawnRowSteady DEF Steady, Beside, SameMessage
<1>4. Satellite(d) => Plan[d].parent \in Commitment
  BY PlanAssumption DEF Satellite, PlanType
<1>5. Withdrawable(rows, d)
  BY <1>3, <1>4 DEF Withdrawable
<1>6. intents'[d] = WithdrawnRow(rows[d])
  BY <1>2, <1>5 DEF Stopped
<1> QED BY <1>1, <1>6, WithdrawnRowSteady

------------------------------------------------------------------------------
(* A row and its journal.                                                     *)

\* Creates of one journal.
CreatesIn(log) == {n \in DOMAIN log : log[n].kind = "create" /\ OfACall(log[n])}

\* What a row knows of its attempts.  It is parked on a message.  In flight, its
\* last record is the open one, of its generation, and a change exactly when there
\* is a message to change.  An accepted create of its generation left a receipt;
\* one in doubt of an earlier generation, the risk a person took.
RowAt(i, log) ==
  /\ i.status = "idle" => i.receipt # 0
  /\ i.status = "sending" =>
       /\ i.attempt = Len(log) /\ log[i.attempt].gen = i.gen
       /\ log[i.attempt].kind = "create" <=> i.receipt = 0
  /\ \A n \in CreatesIn(log) :
       /\ log[n].outcome = "accepted" /\ log[n].gen = i.gen => i.receipt # 0
       /\ log[n].outcome = "ambiguous" /\ log[n].gen < i.gen => i.risk

\* A record is open until somebody closes it; generations follow one another.
LogAt(log) ==
  /\ \A n \in DOMAIN log : log[n].by = "none" <=> log[n].outcome = "open"
  /\ \A n, m \in DOMAIN log : n < m => log[n].gen <= log[m].gen

RowsStand == \A c \in Commitment : RowAt(intents[c], journal[c]) /\ LogAt(journal[c])

\* A row beside somebody's transition stands as it did.
LEMMA BesideStands ==
  ASSUME NEW i, NEW j, NEW log, RowAt(i, log), Beside(i, j)
  PROVE  RowAt(j, log)
BY DEF RowAt, Beside, SameMessage

\* A journal in which only observations may have moved.
SameButLate(log, new) ==
  /\ DOMAIN new = DOMAIN log /\ Len(new) = Len(log)
  /\ \A n \in DOMAIN log :
       /\ new[n].gen = log[n].gen /\ new[n].kind = log[n].kind
       /\ new[n].revision = log[n].revision /\ new[n].endpoint = log[n].endpoint
       /\ new[n].outcome = log[n].outcome /\ new[n].by = log[n].by

\* An observation moves nothing a row knows.
LEMMA LateStands ==
  ASSUME NEW i, NEW log, NEW new, RowAt(i, log), LogAt(log), SameButLate(log, new),
         i.status = "sending" => i.attempt \in DOMAIN log
  PROVE  RowAt(i, new) /\ LogAt(new)
<1>1. CreatesIn(new) = CreatesIn(log)
  BY DEF SameButLate, CreatesIn, OfACall
<1>2. CreatesIn(log) \subseteq DOMAIN log
  BY DEF CreatesIn
<1>3. RowAt(i, new)
  BY <1>1, <1>2 DEF RowAt, SameButLate
<1>4. LogAt(new)
  BY DEF LogAt, SameButLate
<1> QED BY <1>3, <1>4

\* A journal with one record more.
OneMore(log, new, r) ==
  /\ DOMAIN log = 1 .. Len(log) /\ DOMAIN new = 1 .. Len(log) + 1
  /\ Len(log) \in Nat /\ Len(new) = Len(log) + 1
  /\ \A n \in DOMAIN log : new[n] = log[n]
  /\ new[Len(log) + 1] = r

\* A refused preparation is a record and no call.
LEMMA RefusedStands ==
  ASSUME NEW i, NEW j, NEW log, NEW new, NEW r, RowAt(i, log), LogAt(log), BoundAt(i, log),
         OneMore(log, new, r), SameMessage(i, j), j.status \in {"pending", "permanent_failed"},
         ~OfACall(r), r.gen = i.gen, r.by # "none", r.outcome # "open"
  PROVE  RowAt(j, new) /\ LogAt(new)
<1>1. CreatesIn(new) = CreatesIn(log) /\ CreatesIn(log) \subseteq DOMAIN log
  BY DEF OneMore, CreatesIn
<1>2. RowAt(j, new)
  BY <1>1 DEF RowAt, OneMore, SameMessage
<1>3. \A n \in DOMAIN log : log[n].gen <= i.gen
  BY DEF BoundAt
<1>4. LogAt(new)
  BY <1>3 DEF LogAt, OneMore
<1> QED BY <1>2, <1>4

\* An attempt is opened: the last record, and no answer yet.
LEMMA StartedStands ==
  ASSUME NEW i, NEW j, NEW log, NEW new, NEW r, RowAt(i, log), LogAt(log), BoundAt(i, log),
         OneMore(log, new, r), j.gen = i.gen, j.receipt = i.receipt, j.risk = i.risk,
         j.status = "sending", j.attempt = Len(log) + 1,
         r.gen = i.gen, r.by = "none", r.outcome = "open",
         r.kind = IF i.receipt = 0 THEN "create" ELSE "mutation"
  PROVE  RowAt(j, new) /\ LogAt(new)
<1>1. \A n \in CreatesIn(new) : n = Len(log) + 1 \/ (n \in CreatesIn(log) /\ n \in DOMAIN log)
  BY DEF OneMore, CreatesIn
<1>2. RowAt(j, new)
  BY <1>1 DEF RowAt, OneMore
<1>3. \A n \in DOMAIN log : log[n].gen <= i.gen
  BY DEF BoundAt
<1>5. LogAt(new)
  BY <1>3 DEF LogAt, OneMore
<1> QED BY <1>2, <1>5

\* A journal in which one record was closed.
OneClosed(log, new, n, outcome, by) ==
  /\ DOMAIN new = DOMAIN log /\ Len(new) = Len(log)
  /\ n \in DOMAIN log /\ log[n].by = "none"
  /\ \A k \in DOMAIN log \ {n} : new[k] = log[k]
  /\ new[n].gen = log[n].gen /\ new[n].kind = log[n].kind
  /\ new[n].revision = log[n].revision /\ new[n].endpoint = log[n].endpoint
  /\ new[n].outcome = outcome /\ new[n].by = by

\* Where the end of its attempt n, of this kind, leaves a row.
Ends(i, j, kind, n, outcome) ==
  /\ i.status = "sending" /\ j.status # "sending"
  /\ j.gen = i.gen /\ j.endpoint = i.endpoint /\ (i.risk => j.risk)
  /\ j.receipt = IF outcome = "accepted" /\ kind = "create" THEN n ELSE i.receipt
  /\ j.status = "idle" => outcome = "accepted"
  /\ outcome = "accepted" => j.status \in {"succeeded", "idle", "pending"}
  /\ outcome \in {"retryable", "permanent", "absent"} =>
       j.status \in {"pending", "permanent_failed", "canceled"}
  /\ i.cancel /\ outcome # "accepted" => j.status = "canceled"

\* The end of an attempt; an accepted one leaves a message.
LEMMA EndedStands ==
  ASSUME NEW i \in IntentType, NEW j, NEW log, NEW new, RowAt(i, log), LogAt(log),
         NEW outcome \in Answers, NEW by \in {"worker", "lease_lost"},
         i.attempt # 0, OneClosed(log, new, i.attempt, outcome, by),
         Ends(i, j, log[i.attempt].kind, i.attempt, outcome)
  PROVE  /\ RowAt(j, new) /\ LogAt(new)
         /\ outcome = "accepted" \/ i.receipt # 0 => j.receipt # 0
<1> DEFINE n == i.attempt
<1>1. n \in DOMAIN log /\ log[n].by = "none" /\ new[n].gen = i.gen /\ i.gen \in Nat /\ n # 0
  BY DEF Ends, OneClosed, RowAt, IntentType
<1>2. outcome = "accepted" \/ i.receipt # 0 => j.receipt # 0
  BY <1>1 DEF Ends, RowAt
<1>3. CreatesIn(new) = CreatesIn(log) /\ CreatesIn(log) \subseteq DOMAIN log
  BY DEF OneClosed, CreatesIn, OfACall
<1>4. ASSUME NEW k \in CreatesIn(new)
      PROVE  /\ new[k].outcome = "accepted" /\ new[k].gen = j.gen => j.receipt # 0
             /\ new[k].outcome = "ambiguous" /\ new[k].gen < j.gen => j.risk
  <2>1. CASE k = n
    BY <1>1, <1>2, <2>1 DEF Ends, OneClosed
  <2>2. CASE k # n
    <3>1. new[k] = log[k] /\ k \in CreatesIn(log)
      BY <1>3, <2>2 DEF OneClosed
    <3> QED BY <1>2, <3>1 DEF Ends, RowAt
  <2> QED BY <2>1, <2>2
<1>5. RowAt(j, new)
  BY <1>2, <1>4 DEF RowAt, Ends
<1>6. LogAt(new)
  <2>1. outcome # "open"
    BY DEF Answers
  <2> QED BY <2>1 DEF LogAt, OneClosed
<1> QED BY <1>2, <1>5, <1>6

\* Where a person's decision leaves a row: its message, or a new generation over
\* doubts that carry the risk.
Judged(i, j, log) ==
  /\ i.status \in {"manual_review", "permanent_failed", "expired"}
  /\ \/ j.status \in {"pending", "canceled"}
     \/ i.status = "manual_review" /\ j.status \in {"succeeded", "idle"}
  /\ i.risk => j.risk
  /\ j.status = "idle" => j.receipt # 0
  /\ \/ j.gen = i.gen /\ j.receipt = i.receipt
     \/ /\ j.gen = i.gen + 1
        /\ (\E n \in DOMAIN log : log[n].gen = i.gen /\ log[n].outcome = "ambiguous") => j.risk

\* A decision stands on what the row knew.
LEMMA JudgedStands ==
  ASSUME NEW i \in IntentType, NEW j, NEW log \in Seq(RecordType),
         RowAt(i, log), BoundAt(i, log), Judged(i, j, log)
  PROVE  RowAt(j, log)
<1>1. ASSUME NEW n \in CreatesIn(log)
      PROVE  /\ log[n].outcome = "accepted" /\ log[n].gen = j.gen => j.receipt # 0
             /\ log[n].outcome = "ambiguous" /\ log[n].gen < j.gen => j.risk
  <2>1. n \in DOMAIN log /\ log[n] \in RecordType
    BY DEF CreatesIn
  <2>2. log[n].gen \in Nat /\ i.gen \in Nat /\ log[n].gen <= i.gen
    BY <2>1 DEF RecordType, IntentType, BoundAt
  <2>3. /\ log[n].outcome = "accepted" /\ log[n].gen = i.gen => i.receipt # 0
        /\ log[n].outcome = "ambiguous" /\ log[n].gen < i.gen => i.risk
    BY DEF RowAt
  <2> QED BY <2>1, <2>2, <2>3 DEF Judged
<1> QED BY <1>1 DEF RowAt, Judged

------------------------------------------------------------------------------
(* The kinds of steps.                                                        *)

\* Rows move beside their attempts, and owe no more than they did.
Still ==
  /\ UNCHANGED <<group, snapshot, journal>>
  /\ \A c \in Commitment : Steady(intents[c], intents'[c])

\* The clock, the claim, what a slot does by itself, the directory.
BesideJournal ==
  \/ \E c \in Commitment : \/ LeaseExpires(c) \/ LeaseOverruns(c) \/ DeadlinePasses(c)
                           \/ BackoffElapses(c) \/ Expire(c)
  \/ \E w \in Worker : \/ \E c \in Commitment : Claim(w, c)
                       \/ PrepareEnds(w) \/ BeginDenied(w) \/ BeginStale(w) \/ CallEnds(w)
                       \/ Crash(w) \/ CrashAfterEffect(w)
  \/ \E c \in Commitment, to \in Address : Relink(c, to)
  \/ UNCHANGED vars

\* They leave the journal and the picture alone, and every row steady.
LEMMA BesideIsStill == ASSUME IInv, BesideJournal PROVE Still
<1>0. TypeOK /\ \A c \in Commitment : IsRow(intents[c])
  BY Rows DEF IInv, TypeOK
<1>1. ASSUME NEW c \in Commitment, NEW row, intents' = [intents EXCEPT ![c] = row],
             Steady(intents[c], row), UNCHANGED <<group, snapshot, journal>>
      PROVE  Still
  <2>1. \A d \in Commitment : intents'[d] = intents[d] \/ (d = c /\ intents'[d] = row)
    BY <1>0, <1>1 DEF TypeOK
  <2> QED BY <1>1, <2>1, SteadySelf DEF Still
<1>2. ASSUME UNCHANGED <<group, snapshot, journal, intents>> PROVE Still
  BY <1>2, SteadySelf DEF Still
<1>3. \A i : IsRow(i) => /\ Steady(i, [i EXCEPT !.live = FALSE])
                         /\ Steady(i, [i EXCEPT !.deadline = "past"])
                         /\ Steady(i, [i EXCEPT !.due = TRUE])
                         /\ Steady(i, [i EXCEPT !.token = 0, !.live = FALSE, !.due = TRUE])
                         /\ \A t : Steady(i, [i EXCEPT !.claims = t, !.token = t, !.live = TRUE])
  BY DEF IsRow, Steady, Beside, SameMessage, SameAim, Underway
<1>4. \A i : IsRow(i) /\ i.status = "pending" =>
        Steady(i, [i EXCEPT !.status = "expired", !.token = 0, !.live = FALSE])
  BY DEF IsRow, Steady, Beside, SameMessage, SameAim, Underway
<1>5. ASSUME NEW c \in Commitment,
             \/ LeaseExpires(c) \/ LeaseOverruns(c) \/ DeadlinePasses(c)
             \/ BackoffElapses(c) \/ Expire(c)
      PROVE  Still
  <2>1. CASE LeaseExpires(c) \/ LeaseOverruns(c)
    <3>1. /\ intents' = [intents EXCEPT ![c] = [intents[c] EXCEPT !.live = FALSE]]
          /\ UNCHANGED <<group, snapshot, journal>>
      BY <2>1 DEF LeaseExpires, LeaseOverruns, Lapse
    <3> QED BY <1>0, <1>1, <1>3, <3>1
  <2>2. CASE DeadlinePasses(c)
    <3>1. /\ intents' = [intents EXCEPT ![c] = [intents[c] EXCEPT !.deadline = "past"]]
          /\ UNCHANGED <<group, snapshot, journal>>
      BY <2>2 DEF DeadlinePasses
    <3> QED BY <1>0, <1>1, <1>3, <3>1
  <2>3. CASE BackoffElapses(c)
    <3>1. /\ intents' = [intents EXCEPT ![c] = [intents[c] EXCEPT !.due = TRUE]]
          /\ UNCHANGED <<group, snapshot, journal>>
      BY <2>3 DEF BackoffElapses
    <3> QED BY <1>0, <1>1, <1>3, <3>1
  <2>4. CASE Expire(c)
    <3>1. /\ intents' = [intents EXCEPT ![c] = [intents[c] EXCEPT !.status = "expired",
                                                                  !.token = 0, !.live = FALSE]]
          /\ UNCHANGED <<group, snapshot, journal>> /\ intents[c].status = "pending"
      BY <1>0, <2>4 DEF Expire, TypeOK
    <3> QED BY <1>0, <1>1, <1>4, <3>1
  <2> QED BY <1>5, <2>1, <2>2, <2>3, <2>4
<1>6. ASSUME NEW w \in Worker, NEW c \in Commitment, Claim(w, c) PROVE Still
  <2>1. PICK t : t = intents[c].claims + 1
    OBVIOUS
  <2>2. /\ intents' = [intents EXCEPT ![c] = [intents[c] EXCEPT !.claims = t, !.token = t,
                                                                !.live = TRUE]]
        /\ UNCHANGED <<group, snapshot, journal>>
    BY <1>0, <1>6, <2>1 DEF Claim, TypeOK
  <2> QED BY <1>0, <1>1, <1>3, <2>2
<1>7. ASSUME NEW w \in Worker, BeginStale(w) PROVE Still
  <2>1. PICK c : c = workers[w].intent
    OBVIOUS
  <2>2. c \in Commitment
    BY <1>7, <2>1, HeldRow DEF BeginStale
  <2>3. /\ intents' = [intents EXCEPT ![c] = [intents[c] EXCEPT !.token = 0, !.live = FALSE,
                                                                !.due = TRUE]]
        /\ UNCHANGED <<group, snapshot, journal>>
    BY <1>0, <1>7, <2>1 DEF BeginStale, TypeOK
  <2> QED BY <1>0, <1>1, <1>3, <2>2, <2>3
<1>8. ASSUME NEW w \in Worker,
             \/ PrepareEnds(w) \/ BeginDenied(w) \/ CallEnds(w) \/ Crash(w) \/ CrashAfterEffect(w)
      PROVE  Still
  <2>1. UNCHANGED <<group, snapshot, journal, intents>>
    BY <1>8 DEF PrepareEnds, PrepareReady, PrepareOrphaned, PrepareRefuses, PrepareSkips, Prepared,
         CallEnds, CallAccepted, CallFindsNothing, CallRejected, CallInDoubt, Answered,
         Crash, CrashAfterEffect, BeginDenied
  <2> QED BY <1>2, <2>1
<1>9. ASSUME NEW c \in Commitment, NEW to \in Address, Relink(c, to) PROVE Still
  BY <1>2, <1>9 DEF Relink
<1>10. ASSUME UNCHANGED vars PROVE Still
  BY <1>2, <1>10 DEF vars
<1> QED BY <1>5, <1>6, <1>7, <1>8, <1>9, <1>10 DEF BesideJournal

\* A late answer: only an observation moves.
Noted ==
  /\ UNCHANGED <<group, snapshot, intents, made>>
  /\ \A c \in Commitment : SameButLate(journal[c], journal'[c])

\* What an observation written beside a closed record leaves.
LEMMA LateIsNoted == ASSUME IInv, NEW w \in Worker, FinalizeLate(w) PROVE Noted
<1>1. PICK c, n, answer : /\ c = workers[w].intent /\ n = workers[w].attempt
                          /\ answer = workers[w].answer
  OBVIOUS
<1>2. /\ TypeOK /\ c \in Commitment /\ n \in DOMAIN journal[c] /\ answer \in Answers
      /\ \A d \in Commitment : journal[d] \in Seq(RecordType)
  BY <1>1 DEF IInv, TypeOK, SlotsHold, FinalizeLate, WorkerType
<1>3. PICK a : a = journal[c][n]
  OBVIOUS
<1>4. a \in RecordType
  BY <1>2, <1>3
<1>5. PICK r : r = [a EXCEPT !.late = answer]
  OBVIOUS
<1>6. /\ r \in RecordType /\ r.gen = a.gen /\ r.kind = a.kind /\ r.revision = a.revision
      /\ r.endpoint = a.endpoint /\ r.outcome = a.outcome /\ r.by = a.by
  BY <1>2, <1>4, <1>5 DEF RecordType
<1>7. journal' = Rewritten(c, n, r) /\ UNCHANGED <<group, snapshot, intents, made>>
  BY <1>1, <1>3, <1>5 DEF FinalizeLate, Rewritten
<1>8. OnlyRewrites(c, n, r)
  BY <1>2, <1>6, <1>7, JournalRewrite
<1>9. ASSUME NEW d \in Commitment PROVE SameButLate(journal[d], journal'[d])
  <2>1. /\ DOMAIN journal'[d] = DOMAIN journal[d]
        /\ \A k \in DOMAIN journal[d] :
             journal'[d][k] = journal[d][k] \/ (d = c /\ k = n /\ journal'[d][k] = r)
    BY <1>8 DEF OnlyRewrites
  <2>2. Len(journal'[d]) = Len(journal[d])
    <3>1. journal[d] \in Seq(RecordType) /\ journal'[d] \in Seq(RecordType)
      BY <1>2, <1>8 DEF OnlyRewrites
    <3> QED BY <2>1, <3>1
  <2> QED BY <1>3, <1>6, <2>1, <2>2 DEF SameButLate
<1> QED BY <1>7, <1>9 DEF Noted

\* What a step that failed for good leaves of the later ones.
LaterStepsStop(c) ==
  \A d \in Commitment :
    Plan[d].step > Plan[c].step /\ Withdrawable(intents', d) /\ Underway(intents'[d])
      => intents'[d].status = "idle"

\* What ended c for good was the store's own refusal, which stops nothing.
Undeliverable(log) == log[Len(log)].by = "undeliverable"

\* A failure of c that stops the escalation does so in the same step.
FailureStops(c) ==
  /\ StopsEscalation(c) /\ intents'[c].status = "permanent_failed"
  /\ ~Undeliverable(journal'[c])
  => LaterStepsStop(c)

\* c's preparation is refused: a record of no call.
RefusedAt(c) ==
  /\ UNCHANGED <<group, snapshot, made>>
  /\ intents[c].status = "pending" /\ intents'[c].status \in {"pending", "permanent_failed"}
  /\ SameMessage(intents[c], intents'[c])
  /\ \E r : /\ OneMore(journal[c], journal'[c], r)
            /\ ~OfACall(r) /\ r.gen = intents[c].gen /\ r.by # "none"
            /\ r.outcome \in {"retryable", "permanent"}
            /\ r.revision = NoRevision
  /\ \A d \in Commitment \ {c} : journal'[d] = journal[d] /\ Steady(intents[d], intents'[d])
  /\ FailureStops(c)

\* What recordPreparation and refuseAttempt write.
LEMMA RefusalStep ==
  ASSUME IInv, NEW w \in Worker, Refusal(w)
  PROVE  workers[w].intent \in Commitment /\ RefusedAt(workers[w].intent)
<1>a. PICK outcome \in {"permanent", "transient"}, by \in Refusers : Refused(w, outcome, by)
  BY DEF Refusal
<1>1. PICK c : c = workers[w].intent
  OBVIOUS
<1>b. PICK result : result = IF outcome = "transient" THEN "retryable" ELSE "permanent"
  OBVIOUS
<1>2. /\ TypeOK /\ c \in Commitment /\ intents[c] \in IntentType
      /\ intents[c].status = "pending" /\ intents[c].attempt = 0
  BY <1>a, <1>1, HeldRow DEF IInv, Refused
<1>3. PICK m, x :
        /\ m = ForSatellite(View(c), DecidePreparation(View(c), outcome))
        /\ Valid(ForSatellite(View(c), DecidePreparation(View(c), outcome)))
        /\ result \in {"retryable", "permanent"}
        /\ journal' = Extended(c, Record(c, Kind(c), NoRevision, 0, 0, result, by))
        /\ intents' = IF by # "undeliverable" /\ StopsEscalation(c) /\ m.to = "permanent_failed"
                      THEN Stopped(Applied(c, m, x), c) ELSE Applied(c, m, x)
        /\ UNCHANGED <<group, snapshot, made>>
  BY <1>a, <1>b, <1>1 DEF Refused
<1>4. /\ m.to \in {"pending", "permanent_failed"}
      /\ "NewGeneration" \notin m.effects /\ "ApplyRevision" \notin m.effects
      /\ "StoreReceipt" \notin m.effects /\ "ConsumeCancellation" \notin m.effects
      /\ "RecordDuplicateRisk" \notin m.effects
  <2>1. PICK d : d = DecidePreparation(View(c), outcome)
    OBVIOUS
  <2>2. Valid(d) /\ m.to = d.to /\ \A e : e # "TriggerGroup" => (e \in m.effects <=> e \in d.effects)
    BY <1>3, <2>1, SatelliteSameMove
  <2>3. Refuses(View(c), d)
    BY <2>1, <2>2, RefusalMove
  <2> QED BY <2>2, <2>3 DEF Refuses
<1>5. intents'[c] = Written(intents[c], m, x) /\ RowsBeside(c, m)
  BY <1>2, <1>3, TransitionRows
<1>6. SameMessage(intents[c], intents'[c]) /\ intents'[c].status = m.to
  <2>1. PICK i, j : i = intents[c] /\ j = Written(i, m, x)
    OBVIOUS
  <2>2. /\ j.gen = i.gen /\ j.endpoint = i.endpoint /\ j.applied = i.applied
        /\ j.receipt = i.receipt /\ j.attempt = i.attempt /\ j.status = m.to
    BY <1>2, <1>4, <2>1 DEF Written
  <2>3. j.risk = (i.risk \/ "RecordDuplicateRisk" \in m.effects)
    BY <2>1 DEF Written
  <2>4. j.risk = i.risk
    <3>1. i.risk \in BOOLEAN
      BY <1>2, <2>1 DEF IntentType
    <3> QED BY <1>4, <2>3, <3>1
  <2> QED BY <1>5, <2>1, <2>2, <2>4 DEF SameMessage
<1>7. \A d \in Commitment \ {c} : Steady(intents[d], intents'[d])
  BY <1>4, <1>5 DEF RowsBeside, Revives, Steady
<1>8. StopsEscalation(c) /\ intents'[c].status = "permanent_failed" /\ by # "undeliverable"
        => LaterStepsStop(c)
  BY <1>2, <1>3, <1>6, StopLeavesNothing DEF LaterStepsStop
<1>9. PICK r : r = Record(c, Kind(c), NoRevision, 0, 0, result, by)
  OBVIOUS
<1>10. /\ r \in RecordType /\ ~OfACall(r) /\ r.gen = intents[c].gen
       /\ r.by # "none" /\ r.outcome \in {"retryable", "permanent"} /\ r.revision = NoRevision
       /\ r.by = by
  <2>1. NoRevision \in Int /\ result \in Answers \cup {"open"}
    BY <1>3 DEF NoRevision, Answers
  <2>2. r \in RecordType
    BY <1>2, <1>3, <1>9, <2>1, RecordTyped DEF Refusers
  <2> QED BY <1>3, <1>9, <2>2 DEF Record, OfACall, Refusers
<1>11. OnlyAppends(c, r)
  BY <1>2, <1>3, <1>9, <1>10, JournalAppend
<1>12. OneMore(journal[c], journal'[c], r) /\ \A d \in Commitment \ {c} : journal'[d] = journal[d]
  <2>1. Len(journal'[c]) = Len(journal[c]) + 1
    <3>1. journal'[c] \in Seq(RecordType)
      BY <1>2, <1>11 DEF OnlyAppends
    <3> QED BY <3>1, <1>11 DEF OnlyAppends
  <2> QED BY <1>11, <2>1 DEF OnlyAppends, OneMore
<1>13. FailureStops(c)
  BY <1>8, <1>10, <1>12 DEF FailureStops, Undeliverable, OneMore
<1>14. RefusedAt(c)
  BY <1>2, <1>3, <1>4, <1>6, <1>7, <1>10, <1>12, <1>13 DEF RefusedAt
<1> QED BY <1>1, <1>2, <1>14

\* Slot w opens an attempt of c, at the next number.
StartedAt(w, c) ==
  /\ UNCHANGED <<group, snapshot, made>>
  /\ workers[w].pc = "prepared" /\ workers[w].prep = "ready" /\ workers[w].intent = c
  /\ intents[c].status = "pending" /\ intents[c].attempt = 0
  /\ intents'[c] = [intents[c] EXCEPT !.status = "sending", !.attempt = Len(journal[c]) + 1,
                                      !.endpoint = Bound(c, workers[w].endpoint)]
  /\ OneMore(journal[c], journal'[c],
             Record(c, Kind(c), ContentRevision(c), Bound(c, workers[w].endpoint),
                    workers[w].token, "open", "none"))
  /\ workers' = [workers EXCEPT ![w].pc = "calling", ![w].attempt = Len(journal[c]) + 1]
  /\ \A d \in Commitment \ {c} : journal'[d] = journal[d] /\ intents'[d] = intents[d]

\* What beginAttemptTx writes.
LEMMA StartStep ==
  ASSUME IInv, NEW w \in Worker, BeginStarted(w)
  PROVE  workers[w].intent \in Commitment /\ StartedAt(w, workers[w].intent)
<1>1. PICK c, n, endpoint, revision :
        /\ c = workers[w].intent /\ n = Len(journal[c]) + 1
        /\ endpoint = Bound(c, workers[w].endpoint) /\ revision = ContentRevision(c)
  OBVIOUS
<1>2. /\ TypeOK /\ c \in Commitment /\ workers[w].token \in Nat
      /\ intents[c].status = "pending" /\ intents[c].attempt = 0
  BY <1>1, HeldRow DEF IInv, BeginStarted
<1>3. endpoint \in Nat /\ revision \in Int
  BY <1>1, <1>2 DEF Bound, ContentRevision, IntentType, WorkerType, TypeOK, SnapshotType
<1>4. PICK r : r = Record(c, Kind(c), revision, endpoint, workers[w].token, "open", "none")
  OBVIOUS
<1>5. r \in RecordType
  BY <1>2, <1>3, <1>4, RecordTyped
<1>6. PICK row : row = [intents[c] EXCEPT !.status = "sending", !.attempt = n, !.endpoint = endpoint]
  OBVIOUS
<1>7. /\ journal' = Extended(c, r)
      /\ intents' = [intents EXCEPT ![c] = row]
      /\ workers' = [workers EXCEPT ![w].pc = "calling", ![w].attempt = n]
      /\ workers[w].pc = "prepared" /\ workers[w].prep = "ready"
      /\ UNCHANGED <<group, snapshot, made>>
  BY <1>1, <1>4, <1>6 DEF BeginStarted, Extended
<1>8. OnlyAppends(c, r)
  BY <1>2, <1>5, <1>7, JournalAppend
<1>9. OneMore(journal[c], journal'[c], r) /\ \A d \in Commitment \ {c} : journal'[d] = journal[d]
  <2>1. Len(journal'[c]) = Len(journal[c]) + 1
    <3>1. journal'[c] \in Seq(RecordType)
      BY <1>2, <1>8 DEF OnlyAppends
    <3> QED BY <3>1, <1>8 DEF OnlyAppends
  <2> QED BY <1>8, <2>1 DEF OnlyAppends, OneMore
<1>10. intents'[c] = row /\ \A d \in Commitment \ {c} : intents'[d] = intents[d]
  BY <1>2, <1>7 DEF TypeOK
<1>11. StartedAt(w, c)
  BY <1>1, <1>2, <1>4, <1>6, <1>7, <1>9, <1>10 DEF StartedAt
<1> QED BY <1>1, <1>2, <1>11

\* What the end of an attempt at this revision, or a decision about it, shows: a
\* row is parked on a revision not behind its aim and not the last one, finished
\* on the last one.
Shows(c, revision) ==
  /\ intents'[c].status = "idle" =>
       /\ Plan[c].form = "editable"
       /\ revision >= intents[c].desired /\ intents'[c].applied = revision
       /\ ~(snapshot.final /\ revision = snapshot.revision)
  /\ Plan[c].form = "editable" /\ intents'[c].status = "succeeded" =>
       snapshot.final /\ revision = snapshot.revision /\ intents'[c].applied = revision

\* c's attempt is closed, by its worker or by recovery.
EndedAt(c, outcome, by) ==
  /\ UNCHANGED <<snapshot, made>> /\ (GroupOver' <=> GroupOver)
  /\ intents[c].attempt # 0 /\ outcome \in Answers /\ by \in {"worker", "lease_lost"}
  /\ OneClosed(journal[c], journal'[c], intents[c].attempt, outcome, by)
  /\ Ends(intents[c], intents'[c], journal[c][intents[c].attempt].kind, intents[c].attempt, outcome)
  /\ intents'[c].desired = intents[c].desired
  /\ Shows(c, journal[c][intents[c].attempt].revision)
  /\ \A d \in Commitment \ {c} :
       /\ journal'[d] = journal[d]
       /\ Beside(intents[d], intents'[d]) /\ SameAim(intents[d], intents'[d])
       /\ Underway(intents'[d]) =>
            Underway(intents[d]) \/ (Plan[d].parent = c /\ outcome = "accepted")
  /\ FailureStops(c)

\* A first success moves the group only out of processing.
LEMMA SuccessIsNoEnd == ASSUME NEW m, group' = GroupAfter(m) PROVE GroupOver' <=> GroupOver
BY DEF GroupAfter, GroupOver

\* Every commitment is read by the machine as it was admitted.
LEMMA ViewReadable == \A c \in Commitment : Readable(View(c)) /\ Plan[c].form \in Forms
BY PlanAssumption DEF PlanType, Readable, View

\* The journal after a record is closed.
LEMMA JournalClosed ==
  ASSUME TypeOK, NEW c \in Commitment, NEW n \in DOMAIN journal[c], journal[c][n].by = "none",
         NEW outcome \in Answers, NEW by \in {"worker", "lease_lost"},
         journal' = Rewritten(c, n, Closed(journal[c][n], outcome, by))
  PROVE  /\ OneClosed(journal[c], journal'[c], n, outcome, by)
         /\ \A d \in Commitment \ {c} : journal'[d] = journal[d]
<1>1. PICK a, r : a = journal[c][n] /\ r = Closed(a, outcome, by)
  OBVIOUS
<1>2. journal[c] \in Seq(RecordType)
  BY DEF TypeOK
<1>3. a \in RecordType
  BY <1>1, <1>2
<1>4. /\ r \in RecordType /\ r.by = by /\ r.outcome = outcome /\ r.gen = a.gen /\ r.kind = a.kind
      /\ r.revision = a.revision /\ r.endpoint = a.endpoint
  BY <1>1, <1>3, ClosedRecord DEF Closed, RecordType
<1>5. OnlyRewrites(c, n, r)
  BY <1>1, <1>4, JournalRewrite
<1>6. Len(journal'[c]) = Len(journal[c])
  <2>1. journal'[c] \in Seq(RecordType) /\ DOMAIN journal'[c] = DOMAIN journal[c]
    BY <1>5 DEF OnlyRewrites
  <2> QED BY <1>2, <2>1
<1> QED BY <1>1, <1>4, <1>5, <1>6 DEF OnlyRewrites, OneClosed

\* Where the row goes that a transition out of "sending" writes.
LEMMA EndedRow ==
  ASSUME NEW i \in IntentType, NEW j, NEW m, NEW x, NEW kind, NEW n, NEW outcome,
         j = Written(i, m, x), i.status = "sending", m.to # "sending", n # 0,
         "NewGeneration" \notin m.effects,
         outcome = "accepted" => "StoreReceipt" \in m.effects,
         x.receipt = IF outcome = "accepted" /\ kind = "create" THEN n ELSE 0,
         m.to = "idle" => outcome = "accepted",
         outcome = "accepted" => m.to \in {"succeeded", "idle", "pending"},
         outcome \in {"retryable", "permanent", "absent"} =>
           m.to \in {"pending", "permanent_failed", "canceled"},
         i.cancel /\ outcome # "accepted" => m.to = "canceled"
  PROVE  Ends(i, j, kind, n, outcome) /\ j.desired = i.desired
<1>1. j.status = m.to /\ j.gen = i.gen /\ j.endpoint = i.endpoint /\ j.desired = i.desired
  BY DEF Written
<1>2. j.receipt = IF outcome = "accepted" /\ kind = "create" THEN n ELSE i.receipt
  BY DEF Written
<1>3. j.risk = (i.risk \/ "RecordDuplicateRisk" \in m.effects)
  BY DEF Written
<1>4. i.risk => j.risk
  BY <1>3
<1> QED BY <1>1, <1>2, <1>4 DEF Ends

\* What FinalizeDeliveryAttempt writes.
LEMMA FinalizeStep ==
  ASSUME IInv, NEW w \in Worker, Finalize(w)
  PROVE  /\ workers[w].intent \in Commitment
         /\ intents[workers[w].intent].attempt = workers[w].attempt
         /\ EndedAt(workers[w].intent, workers[w].answer, "worker")
<1>1. PICK c, n, answer : c = workers[w].intent /\ n = workers[w].attempt /\ answer = workers[w].answer
  OBVIOUS
<1>2. PICK a : a = journal[c][n]
  OBVIOUS
<1>3. PICK final : final = (/\ Plan[c].form = "editable" /\ answer = "accepted"
                            /\ snapshot.final /\ a.revision = snapshot.revision)
  OBVIOUS
<1>4. PICK d : d = DecideFinish(View(c), OutcomeOf(answer), a.revision, final, FALSE)
  OBVIOUS
<1>5. PICK m : m = ForSatellite(View(c), d)
  OBVIOUS
<1>6. PICK x : x = Writing(a.revision, IF answer = "accepted" /\ a.kind = "create" THEN n ELSE 0)
  OBVIOUS
<1>7. /\ workers[w].pc = "answered" /\ a.by = "none" /\ intents[c].attempt = n /\ Valid(m)
      /\ journal' = Rewritten(c, n, Closed(a, answer, "worker"))
      /\ intents' = IF /\ StopsEscalation(c) /\ OutcomeOf(answer) = "permanent"
                       /\ m.to = "permanent_failed"
                    THEN Stopped(Applied(c, m, x), c) ELSE Applied(c, m, x)
      /\ group' = GroupAfter(m) /\ UNCHANGED <<snapshot, made>>
  BY <1>1, <1>2, <1>3, <1>4, <1>5, <1>6 DEF Finalize, Rewritten
<1>8. /\ TypeOK /\ c \in Commitment /\ n \in DOMAIN journal[c] /\ answer \in Answers /\ n # 0
      /\ intents[c] \in IntentType /\ intents[c].status = "sending"
  <2>1. TypeOK /\ c \in Commitment /\ n \in DOMAIN journal[c] /\ answer \in Answers
    BY <1>1, <1>7 DEF IInv, TypeOK, SlotsHold, WorkerType
  <2>2. n # 0
    <3>1. journal[c] \in Seq(RecordType)
      BY <2>1 DEF TypeOK
    <3> QED BY <2>1, <3>1
  <2> QED BY <1>7, <2>1, <2>2 DEF IInv, TypeOK, AttemptFence
<1>9. Valid(d) /\ m.to = d.to /\ \A e : e # "TriggerGroup" => (e \in m.effects <=> e \in d.effects)
  BY <1>5, <1>7, SatelliteSameMove
<1>10. Finishes(View(c), d, OutcomeOf(answer), a.revision, final)
  BY <1>4, <1>8, <1>9, FinishMove, ViewReadable
<1>11. /\ View(c).status = intents[c].status /\ View(c).cancel = intents[c].cancel
       /\ View(c).form = Plan[c].form /\ View(c).desired = intents[c].desired
  BY DEF View
<1>12. OutcomeOf(answer) = "accepted" <=> answer = "accepted"
  BY DEF OutcomeOf
<1>13. /\ "NewGeneration" \notin m.effects /\ m.to # "sending"
       /\ answer = "accepted" => Settles(View(c), d, a.revision, final)
       /\ intents[c].cancel /\ answer # "accepted" => m.to = "canceled"
       /\ m.to = "idle" => answer = "accepted"
       /\ Plan[c].form = "editable" /\ answer # "accepted" => m.to # "succeeded"
       /\ answer # "accepted" /\ "ConsumeCancellation" \in m.effects => m.to = "canceled"
       /\ m.to = "permanent_failed" => OutcomeOf(answer) = "permanent"
       /\ answer \in {"retryable", "permanent", "absent"} =>
            m.to \in {"pending", "permanent_failed", "canceled"}
  <2>1. m.to # "sending"
    <3>1. View(c).completion = "on_acceptance"
      BY DEF View
    <3>2. ClosesAttempt(d)
      BY <1>4, <1>9, <3>1, FinishCloses
    <3> QED BY <1>9, <3>2 DEF ClosesAttempt
  <2>2. answer \in {"retryable", "permanent", "absent"} =>
          OutcomeOf(answer) \in {"retryable", "permanent"}
    BY DEF OutcomeOf
  <2> QED BY <1>9, <1>10, <1>11, <1>12, <2>1, <2>2 DEF Finishes
<1>14. answer = "accepted" =>
         /\ "ApplyRevision" \in m.effects /\ "StoreReceipt" \in m.effects
         /\ m.to \in {"succeeded", "idle", "pending"}
         /\ m.to = "idle" => Plan[c].form = "editable" /\ ~final /\ a.revision >= intents[c].desired
         /\ m.to = "succeeded" /\ Plan[c].form = "editable" => final
  BY <1>9, <1>11, <1>13 DEF Settles
<1>15. intents'[c] = Written(intents[c], m, x) /\ RowsBeside(c, m)
  BY <1>7, <1>8, TransitionRows
<1>16. /\ Ends(intents[c], intents'[c], a.kind, n, answer)
       /\ intents'[c].desired = intents[c].desired
  <2>1. x.receipt = IF answer = "accepted" /\ a.kind = "create" THEN n ELSE 0
    BY <1>6 DEF Writing
  <2>2. PICK i, j, kind : i = intents[c] /\ j = intents'[c] /\ kind = a.kind
    OBVIOUS
  <2>3. /\ i \in IntentType /\ j = Written(i, m, x) /\ i.status = "sending" /\ m.to # "sending"
        /\ answer = "accepted" =>
             "StoreReceipt" \in m.effects /\ m.to \in {"succeeded", "idle", "pending"}
        /\ answer \in {"retryable", "permanent", "absent"} =>
             m.to \in {"pending", "permanent_failed", "canceled"}
        /\ i.cancel /\ answer # "accepted" => m.to = "canceled"
        /\ n # 0 /\ "NewGeneration" \notin m.effects /\ (m.to = "idle" => answer = "accepted")
        /\ x.receipt = IF answer = "accepted" /\ kind = "create" THEN n ELSE 0
    BY <1>8, <1>13, <1>14, <1>15, <2>1, <2>2
  <2>4. Ends(i, j, kind, n, answer) /\ j.desired = i.desired
    BY <2>3, EndedRow
  <2> QED BY <2>2, <2>4
<1>17. Shows(c, a.revision)
  <2>1. /\ intents'[c].status = m.to
        /\ "ApplyRevision" \in m.effects => intents'[c].applied = a.revision
    BY <1>6, <1>15 DEF Written, Writing
  <2>2. final => snapshot.final /\ a.revision = snapshot.revision
    BY <1>3
  <2>3. Plan[c].form = "editable" /\ answer = "accepted" /\ snapshot.final
          /\ a.revision = snapshot.revision => final
    BY <1>3
  <2> QED BY <1>13, <1>14, <2>1, <2>2, <2>3 DEF Shows
<1>18. \A e \in Commitment \ {c} :
         /\ Beside(intents[e], intents'[e]) /\ SameAim(intents[e], intents'[e])
         /\ Underway(intents'[e]) =>
              Underway(intents[e]) \/ (Plan[e].parent = c /\ answer = "accepted")
  BY <1>13, <1>15 DEF RowsBeside, Revives
<1>19. FailureStops(c)
  <2>1. intents'[c].status = m.to
    BY <1>15 DEF Written
  <2> QED BY <1>7, <1>8, <1>13, <2>1, StopLeavesNothing DEF FailureStops, LaterStepsStop
<1>20. /\ OneClosed(journal[c], journal'[c], n, answer, "worker")
       /\ \A e \in Commitment \ {c} : journal'[e] = journal[e]
  BY <1>2, <1>7, <1>8, JournalClosed
<1>21. GroupOver' <=> GroupOver
  BY <1>7, SuccessIsNoEnd
<1>22. EndedAt(c, answer, "worker")
  BY <1>2, <1>7, <1>8, <1>16, <1>17, <1>18, <1>19, <1>20, <1>21 DEF EndedAt
<1> QED BY <1>1, <1>7, <1>8, <1>22

\* What recovery writes: the attempt ended in doubt.
LEMMA RecoverStep ==
  ASSUME IInv, NEW c \in Commitment, Recover(c)
  PROVE  EndedAt(c, "ambiguous", "lease_lost") /\ UNCHANGED workers
<1>1. PICK n, a, d : /\ n = intents[c].attempt /\ a = journal[c][n]
                     /\ d = DecideRecover(View(c), intents[c].deadline = "past", a.revision, FALSE)
  OBVIOUS
<1>2. PICK m, x : m = ForSatellite(View(c), d) /\ x = Writing(a.revision, 0)
  OBVIOUS
<1>3. /\ intents[c].status = "sending" /\ n # 0 /\ a.by = "none" /\ Valid(m)
      /\ journal' = Rewritten(c, n, Closed(a, "ambiguous", "lease_lost"))
      /\ intents' = Applied(c, m, x)
      /\ group' = GroupAfter(m) /\ UNCHANGED <<snapshot, workers, made>>
  BY <1>1, <1>2 DEF Recover, Rewritten
<1>4. /\ TypeOK /\ n \in DOMAIN journal[c] /\ intents[c] \in IntentType /\ "ambiguous" \in Answers
  BY <1>1, <1>3 DEF IInv, TypeOK, AttemptFence, Answers
<1>5. Valid(d) /\ m.to = d.to /\ \A e : e # "TriggerGroup" => (e \in m.effects <=> e \in d.effects)
  BY <1>2, <1>3, SatelliteSameMove
<1>6. Recovers(View(c), d)
  BY <1>1, <1>5, RecoverMove, ViewReadable
<1>7. View(c).cancel = intents[c].cancel /\ View(c).form = Plan[c].form
  BY DEF View
<1>8. /\ "NewGeneration" \notin m.effects
      /\ m.to \in {"canceled", "manual_review", "succeeded", "expired", "pending"}
      /\ intents[c].cancel => m.to = "canceled"
      /\ Plan[c].form = "editable" => m.to # "succeeded"
      /\ "ConsumeCancellation" \in m.effects => m.to = "canceled"
  BY <1>5, <1>6, <1>7 DEF Recovers
<1>9. intents'[c] = Written(intents[c], m, x) /\ RowsBeside(c, m)
  BY <1>3, <1>4, TransitionRows
<1>10. /\ Ends(intents[c], intents'[c], a.kind, n, "ambiguous")
       /\ intents'[c].desired = intents[c].desired
  <2>1. PICK i, j, kind, outcome : /\ i = intents[c] /\ j = intents'[c] /\ kind = a.kind
                                   /\ outcome = "ambiguous"
    OBVIOUS
  <2>2. x.receipt = IF outcome = "accepted" /\ kind = "create" THEN n ELSE 0
    BY <1>2, <2>1 DEF Writing
  <2>3. /\ i \in IntentType /\ j = Written(i, m, x) /\ i.status = "sending" /\ m.to # "sending"
        /\ outcome = "ambiguous" /\ m.to # "idle" /\ (i.cancel => m.to = "canceled")
    BY <1>3, <1>4, <1>8, <1>9, <2>1
  <2>4. Ends(i, j, kind, n, outcome) /\ j.desired = i.desired
    BY <1>3, <1>8, <2>2, <2>3, EndedRow
  <2> QED BY <2>1, <2>4
<1>11. intents'[c].status = m.to
  BY <1>9 DEF Written
<1>12. Shows(c, a.revision) /\ FailureStops(c)
  BY <1>8, <1>11 DEF Shows, FailureStops
<1>13. \A e \in Commitment \ {c} : Steady(intents[e], intents'[e])
  BY <1>8, <1>9 DEF RowsBeside, Revives, Steady
<1>14. /\ OneClosed(journal[c], journal'[c], n, "ambiguous", "lease_lost")
       /\ \A e \in Commitment \ {c} : journal'[e] = journal[e]
  BY <1>1, <1>3, <1>4, JournalClosed
<1>15. GroupOver' <=> GroupOver
  BY <1>3, SuccessIsNoEnd
<1> QED BY <1>1, <1>3, <1>4, <1>10, <1>12, <1>13, <1>14, <1>15 DEF EndedAt, Steady

\* A person decides about c.
DecidedAt(c) ==
  /\ UNCHANGED <<snapshot, journal, workers, made>> /\ (GroupOver' <=> GroupOver)
  /\ budget'.decisions # budget.decisions
  /\ Judged(intents[c], intents'[c], journal[c])
  /\ \/ intents'[c].status \in {"pending", "canceled"}
     \/ /\ intents[c].status = "manual_review" /\ intents'[c].status # "manual_review"
        /\ Shows(c, journal[c][Len(journal[c])].revision)
  /\ intents'[c].endpoint \in {0, intents[c].endpoint}
  /\ intents'[c].receipt \in {0, intents[c].receipt}
  /\ GroupOver => /\ intents'[c].receipt = intents[c].receipt
                  /\ Underway(intents'[c]) => intents'[c].receipt # 0
  /\ \A d \in Commitment \ {c} :
       /\ Beside(intents[d], intents'[d]) /\ SameAim(intents[d], intents'[d])
       /\ GroupOver /\ Underway(intents'[d]) =>
            Underway(intents[d]) \/ (Plan[d].parent = c /\ intents'[c].receipt # 0)

\* The rows beside a decision: only satellites refused for their card's end come back.
LEMMA DecisionRows ==
  ASSUME TypeOK, NEW c \in Commitment, NEW decision, NEW m, NEW w, NEW desired,
         "ConsumeCancellation" \notin m.effects,
         intents' = Unorphaned([Applied(c, m, w) EXCEPT ![c].desired = desired], c, decision)
  PROVE  /\ intents'[c] = [Written(intents[c], m, w) EXCEPT !.desired = desired]
         /\ \A d \in Commitment \ {c} :
              /\ Beside(intents[d], intents'[d]) /\ SameAim(intents[d], intents'[d])
              /\ \/ intents'[d] = intents[d]
                 \/ decision \in {"retry_current", "retry_new"} /\ Plan[d].parent = c
<1> DEFINE rows == Applied(c, m, w)
           aimed == [rows EXCEPT ![c].desired = desired]
           back(i) == [i EXCEPT !.status = "pending", !.due = TRUE, !.token = 0, !.live = FALSE]
<1>1. \A d \in Commitment \ {c} : aimed[d] = intents[d]
  BY DEF Applied, Revives
<1>2. aimed[c] = [Written(intents[c], m, w) EXCEPT !.desired = desired]
  BY DEF Applied
<1>3. \A d \in Commitment :
        \/ intents'[d] = aimed[d]
        \/ /\ decision \in {"retry_current", "retry_new"} /\ Plan[d].parent = c
           /\ ~Satellite(c) /\ aimed[d].status = "permanent_failed"
           /\ intents'[d] = back(aimed[d])
  BY DEF Unorphaned
<1> HIDE DEF aimed
<1>4. intents'[c] = aimed[c]
  <2>1. c # NoParent
    BY PlanAssumption
  <2>2. ~(Plan[c].parent = c /\ ~Satellite(c))
    BY <2>1 DEF Satellite
  <2> QED BY <1>3, <2>2
<1>5. ASSUME NEW d \in Commitment \ {c}
      PROVE  /\ Beside(intents[d], intents'[d]) /\ SameAim(intents[d], intents'[d])
             /\ \/ intents'[d] = intents[d]
                \/ decision \in {"retry_current", "retry_new"} /\ Plan[d].parent = c
  <2>1. IsRow(intents[d])
    BY Rows DEF TypeOK
  <2>2. CASE intents'[d] = aimed[d]
    BY <1>1, <2>2, SteadySelf DEF Steady
  <2>3. CASE /\ decision \in {"retry_current", "retry_new"} /\ Plan[d].parent = c
             /\ intents[d].status = "permanent_failed" /\ intents'[d] = back(intents[d])
    <3>1. intents'[d].status = "pending"
      BY <2>1, <2>3 DEF IsRow
    <3>2. Beside(intents[d], intents'[d])
      <4>1. PICK i, j : i = intents[d] /\ j = intents'[d]
        OBVIOUS
      <4>2. IsRow(i) /\ i.status = "permanent_failed" /\ j = back(i)
        BY <2>1, <2>3, <4>1
      <4>3. Beside(i, back(i))
        BY <4>2, RevivedBeside
      <4> QED BY <4>1, <4>2, <4>3
    <3> QED BY <2>3, <3>1, <3>2 DEF SameAim
  <2> QED BY <1>1, <1>3, <2>2, <2>3
<1> QED BY <1>2, <1>4, <1>5

\* What a decision writes.
LEMMA DecisionStep ==
  ASSUME IInv, NEW c \in Commitment, NEW decision \in Decisions,
         NEW risk \in BOOLEAN, NEW deadline \in BOOLEAN,
         OperatorDecides(c, decision, risk, deadline)
  PROVE  DecidedAt(c)
<1>1. PICK f : f = Facts(c, risk, deadline)
  OBVIOUS
<1>2. PICK final : final = (/\ Plan[c].form = "editable"
                            /\ decision \in {"assume_accepted", "retry_current"}
                            /\ snapshot.final /\ f.revision = snapshot.revision)
  OBVIOUS
<1>3. PICK desired : desired = Reaimed(c, decision)[c].desired
  OBVIOUS
<1>4. PICK v : v = [View(c) EXCEPT !.desired = desired]
  OBVIOUS
<1>5. PICK d : d = DecideOperator(v, decision, f, f.revision, final)
  OBVIOUS
<1>6. PICK m, w : /\ m = ForSatellite(v, d)
                  /\ w = [revision |-> f.revision, receipt |-> 0, deadline |-> deadline]
  OBVIOUS
<1>7. /\ v.status = intents[c].status /\ v.form = Plan[c].form /\ v.desired = desired
      /\ v.receipt <=> intents[c].receipt # 0
  BY <1>4 DEF View
<1>8. /\ ~DecisionIsStale(c, decision) /\ Valid(m) /\ group' = GroupAfter(m)
      /\ intents' = Unorphaned([Applied(c, m, w) EXCEPT ![c].desired = desired], c, decision)
      /\ UNCHANGED <<snapshot, journal, workers, made>>
      /\ budget.decisions > 0 /\ budget' = [budget EXCEPT !.decisions = @ - 1]
  BY <1>1, <1>2, <1>3, <1>4, <1>5, <1>6, <1>7 DEF OperatorDecides
<1>9. TypeOK /\ intents[c] \in IntentType /\ snapshot \in SnapshotType
  BY DEF IInv, TypeOK
<1>10. Valid(d) /\ m.to = d.to /\ \A e : e # "TriggerGroup" => (e \in m.effects <=> e \in d.effects)
  BY <1>6, <1>8, SatelliteSameMove
<1>11. Decides(v, d, decision, f, f.revision, final)
  <2>1. v.form \in Forms /\ f.risk \in BOOLEAN
    BY <1>1, <1>7, ViewReadable DEF Facts
  <2> QED BY <1>5, <1>10, <2>1, OperatorMove
<1>12. PICK i, j : i = intents[c] /\ j = intents'[c]
  OBVIOUS
<1>13. "ConsumeCancellation" \notin m.effects
       /\ i.status \in {"manual_review", "permanent_failed", "expired"}
  BY <1>7, <1>10, <1>11, <1>12 DEF Decides
<1>14. /\ j = [Written(i, m, w) EXCEPT !.desired = desired]
       /\ \A e \in Commitment \ {c} :
            /\ Beside(intents[e], intents'[e]) /\ SameAim(intents[e], intents'[e])
            /\ \/ intents'[e] = intents[e]
               \/ decision \in {"retry_current", "retry_new"} /\ Plan[e].parent = c
  <2>1. /\ intents'[c] = [Written(intents[c], m, w) EXCEPT !.desired = desired]
        /\ \A e \in Commitment \ {c} :
             /\ Beside(intents[e], intents'[e]) /\ SameAim(intents[e], intents'[e])
             /\ \/ intents'[e] = intents[e]
                \/ decision \in {"retry_current", "retry_new"} /\ Plan[e].parent = c
    BY <1>8, <1>9, <1>13, DecisionRows
  <2> QED BY <1>12, <2>1
<1>15. /\ j.status = m.to
       /\ j.gen = IF "NewGeneration" \in m.effects THEN i.gen + 1 ELSE i.gen
       /\ j.endpoint = IF "NewGeneration" \in m.effects THEN 0 ELSE i.endpoint
       /\ j.receipt = IF "NewGeneration" \in m.effects THEN 0 ELSE i.receipt
       /\ "ApplyRevision" \in m.effects => j.applied = f.revision
       /\ j.risk = (i.risk \/ "RecordDuplicateRisk" \in m.effects)
  <2>1. PICK k : k = Written(i, m, w)
    OBVIOUS
  <2>2. /\ k.status = m.to
        /\ k.gen = IF "NewGeneration" \in m.effects THEN i.gen + 1 ELSE i.gen
        /\ k.endpoint = IF "NewGeneration" \in m.effects THEN 0 ELSE i.endpoint
        /\ k.receipt = IF "NewGeneration" \in m.effects THEN 0 ELSE i.receipt
        /\ "ApplyRevision" \in m.effects => k.applied = f.revision
    BY <1>6, <2>1 DEF Written
  <2>3. k.risk = (i.risk \/ "RecordDuplicateRisk" \in m.effects)
    BY <2>1 DEF Written
  <2>4. IsRow(k)
    BY <2>1, Rows
  <2>5. /\ j.status = k.status /\ j.gen = k.gen /\ j.endpoint = k.endpoint
        /\ j.receipt = k.receipt /\ j.applied = k.applied /\ j.risk = k.risk
    BY <1>14, <2>1, <2>4 DEF IsRow
  <2> QED BY <2>2, <2>3, <2>5
<1>16. i.risk => j.risk
  BY <1>15
\* The three kinds of decision.
<1>17. CASE decision = "assume_accepted"
  <2>1. /\ i.status = "manual_review" /\ desired = i.desired
        /\ Plan[c].form = "one_shot" \/ i.receipt # 0
        /\ m.to \in {"succeeded", "idle", "pending"}
        /\ "ApplyRevision" \in m.effects /\ "NewGeneration" \notin m.effects
        /\ m.to = "idle" => Plan[c].form = "editable" /\ ~final /\ f.revision >= desired
        /\ m.to = "succeeded" /\ Plan[c].form = "editable" => final
        /\ m.to \in {"idle", "pending"} => Plan[c].form = "editable"
        /\ Plan[c].form = "editable" => f.revision # NoRevision
    <3>1. desired = i.desired
      BY <1>3, <1>12, <1>17 DEF Reaimed
    <3>2. Settles(v, d, f.revision, final) /\ v.status = "manual_review"
          /\ (v.form = "one_shot" \/ v.receipt)
      BY <1>11, <1>17 DEF Decides
    <3> QED BY <1>7, <1>10, <1>12, <3>1, <3>2 DEF Settles
  <2>2. Plan[c].form = "editable" => f.revision = journal[c][Len(journal[c])].revision
    BY <1>1, <2>1 DEF Facts
  <2>3. Shows(c, journal[c][Len(journal[c])].revision)
    <3>1. Plan[c].form = "editable" /\ snapshot.final /\ f.revision = snapshot.revision <=> final
      BY <1>2, <1>17
    <3> QED BY <1>12, <1>15, <2>1, <2>2, <3>1 DEF Shows
  <2>4. Judged(i, j, journal[c])
    BY <1>13, <1>15, <1>16, <2>1 DEF Judged, Forms
  <2>5. Underway(j) => j.receipt # 0
    BY <1>15, <2>1 DEF Underway
  <2>6. budget'.decisions # budget.decisions
    BY <1>8, <1>9 DEF TypeOK, BudgetType
  <2>7. GroupOver' <=> GroupOver
    BY <1>8, SuccessIsNoEnd
  <2>8. j.status # "manual_review" /\ j.receipt = i.receipt /\ j.endpoint = i.endpoint
    BY <1>15, <2>1
  <2> QED BY <1>8, <1>12, <1>14, <1>17, <2>1, <2>3, <2>4, <2>5, <2>6, <2>7, <2>8
          DEF DecidedAt
<1>18. CASE decision # "assume_accepted"
  <2>1. /\ m.to \in {"pending", "canceled"}
        /\ decision # "retry_new" => "NewGeneration" \notin m.effects
        /\ decision = "retry_new" => "NewGeneration" \in m.effects
        /\ decision = "cancel" => m.to = "canceled"
        /\ decision = "retry_new" /\ f.ambiguous => "RecordDuplicateRisk" \in m.effects
    BY <1>10, <1>11, <1>18 DEF Decides
  <2>2. f.ambiguous <=> \E n \in DOMAIN journal[c] : journal[c][n].gen = i.gen
                                                     /\ journal[c][n].outcome = "ambiguous"
    BY <1>1, <1>12 DEF Facts, OfGeneration
  <2>3. Judged(i, j, journal[c])
    BY <1>13, <1>15, <1>16, <2>1, <2>2 DEF Judged
  <2>4. GroupOver => \/ decision = "cancel"
                     \/ decision = "retry_current" /\ i.receipt # 0
    BY <1>8, <1>12, <1>18 DEF DecisionIsStale, Decisions
  <2>5. GroupOver => j.receipt = i.receipt /\ (Underway(j) => j.receipt # 0)
    BY <1>15, <2>1, <2>4 DEF Underway
  <2>6. ASSUME GroupOver, NEW e \in Commitment \ {c}, Underway(intents'[e])
        PROVE  Underway(intents[e]) \/ (Plan[e].parent = c /\ j.receipt # 0)
    BY <1>14, <2>4, <2>5, <2>6
  <2>7. budget'.decisions # budget.decisions
    BY <1>8, <1>9 DEF TypeOK, BudgetType
  <2>8. GroupOver' <=> GroupOver
    BY <1>8, SuccessIsNoEnd
  <2>9. j.status \in {"pending", "canceled"} /\ j.receipt \in {0, i.receipt}
        /\ j.endpoint \in {0, i.endpoint}
    BY <1>15, <2>1
  <2> QED BY <1>8, <1>12, <1>14, <2>3, <2>5, <2>6, <2>7, <2>8, <2>9 DEF DecidedAt
<1> QED BY <1>17, <1>18

\* The picture c shows moves with these.
ShownBy(c, cards, threads) ==
  Plan[c].form = "editable" /\ IF Plan[c].thread THEN threads ELSE cards

\* The group's picture moves; a withdrawal takes every row without a message first.
RaisedAt(cards, threads, final, withdrawing) ==
  /\ UNCHANGED <<journal, workers, made>>
  /\ \A c \in Commitment :
       /\ Beside(intents[c], intents'[c]) /\ (Underway(intents'[c]) => Underway(intents[c]))
       /\ snapshot.final \/ ~ShownBy(c, cards, threads) => SameAim(intents[c], intents'[c])
       /\ ~snapshot.final /\ ShownBy(c, cards, threads) =>
            /\ intents'[c].status # "idle"
            /\ intents'[c].status \in {"sending", "manual_review"} =>
                 intents'[c].desired = snapshot'.revision
       /\ withdrawing /\ Withdrawable(intents', c) /\ Underway(intents'[c]) =>
            intents[c].status = "idle"
  /\ snapshot.final => UNCHANGED snapshot
  /\ ~snapshot.final =>
       snapshot' = [revision |-> snapshot.revision + 1, final |-> final,
                    card     |-> IF cards THEN snapshot.revision + 1 ELSE snapshot.card,
                    thread   |-> IF threads THEN snapshot.revision + 1 ELSE snapshot.thread]

\* What the withdrawal leaves of the rows, before they are aimed.
LEMMA WithdrawnRows ==
  ASSUME TypeOK, NEW rows, NEW withdrawing,
         rows = IF withdrawing THEN Withdrawn(intents) ELSE intents
  PROVE  \A c \in Commitment :
           /\ IsRow(rows[c]) /\ Steady(intents[c], rows[c])
           /\ withdrawing /\ Withdrawable(rows, c) /\ Underway(rows[c]) => intents[c].status = "idle"
<1>1. \A c \in Commitment : IsRow(intents[c])
  BY Rows DEF TypeOK
<1>2. CASE ~withdrawing
  BY <1>1, <1>2, SteadySelf
<1>3. CASE withdrawing
  <2>1. \A c \in Commitment :
          \/ Withdrawable(intents, c) /\ rows[c] = WithdrawnRow(intents[c])
          \/ ~Withdrawable(intents, c) /\ rows[c] = intents[c]
    BY <1>3 DEF Withdrawn
  <2>2. \A c \in Commitment : IsRow(rows[c]) /\ Steady(intents[c], rows[c])
    BY <1>1, <2>1, SteadySelf, WithdrawnRowSteady
  <2>3. \A c \in Commitment : rows[c].receipt = intents[c].receipt
    BY <2>2 DEF Steady, Beside, SameMessage
  <2>4. \A c \in Commitment : Plan[c].parent \in Commitment \cup {NoParent}
    BY PlanAssumption DEF PlanType
  <2>5. \A c \in Commitment : Withdrawable(rows, c) <=> Withdrawable(intents, c)
    BY <2>3, <2>4 DEF Withdrawable, Satellite
  <2>6. ASSUME NEW c \in Commitment, Withdrawable(rows, c), Underway(rows[c])
        PROVE  intents[c].status = "idle"
    <3>1. rows[c] = WithdrawnRow(intents[c])
      BY <2>1, <2>5, <2>6
    <3> QED BY <1>1, <2>6, <3>1, WithdrawnRowSteady
  <2> QED BY <2>2, <2>6
<1> QED BY <1>2, <1>3

\* What setDesiredStateTx writes on the rows its caller has written.
LEMMA RaiseStep ==
  ASSUME TypeOK, NEW rows, NEW cards \in BOOLEAN, NEW threads \in BOOLEAN, NEW final \in BOOLEAN,
         NEW withdrawing \in BOOLEAN, rows = IF withdrawing THEN Withdrawn(intents) ELSE intents,
         Raise(rows, cards, threads, final), UNCHANGED <<journal, workers, made>>
  PROVE  RaisedAt(cards, threads, final, withdrawing)
<1>1. \A c \in Commitment :
        /\ IsRow(rows[c]) /\ Steady(intents[c], rows[c])
        /\ withdrawing /\ Withdrawable(rows, c) /\ Underway(rows[c]) => intents[c].status = "idle"
  BY WithdrawnRows
<1>2. ASSUME NEW c \in Commitment
      PROVE  /\ Beside(rows[c], intents'[c]) /\ (Underway(intents'[c]) => Underway(rows[c]))
             /\ \/ intents'[c].status = rows[c].status
                \/ rows[c].status = "idle" /\ intents'[c].status = "pending"
             /\ snapshot.final \/ ~ShownBy(c, cards, threads) => intents'[c] = rows[c]
             /\ ~snapshot.final /\ ShownBy(c, cards, threads) =>
                  /\ intents'[c].status # "idle"
                  /\ intents'[c].status \in {"sending", "manual_review"} =>
                       intents'[c].desired = snapshot'.revision
  <2>1. CASE snapshot.final
    BY <2>1, SteadySelf DEF Raise, Steady
  <2>2. CASE ~snapshot.final
    <3>1. PICK next : next = snapshot.revision + 1
      OBVIOUS
    <3>2. snapshot'.revision = next
      BY <2>2, <3>1 DEF Raise
    <3>3. intents' = Aimed(rows, next, cards, threads)
      BY <2>2, <3>1 DEF Raise
    <3>4. CASE Aims(c, rows[c], cards, threads)
      <4>1. intents'[c] = AimedRow(rows[c], next)
        BY <3>3, <3>4 DEF Aimed
      <4>2. ShownBy(c, cards, threads)
        BY <3>4 DEF Aims, ShownBy
      <4> QED BY <1>1, <2>2, <3>2, <4>1, <4>2, AimedRowBeside
    <3>5. CASE ~Aims(c, rows[c], cards, threads)
      <4>1. intents'[c] = rows[c]
        BY <3>3, <3>5 DEF Aimed
      <4>2. ShownBy(c, cards, threads) =>
              rows[c].status \notin {"idle", "sending", "manual_review"}
        BY <3>5 DEF Aims, ShownBy
      <4> QED BY <2>2, <4>1, <4>2, SteadySelf DEF Steady
    <3> QED BY <3>4, <3>5
  <2> QED BY <2>1, <2>2
<1>3. \A c \in Commitment : intents'[c].receipt = rows[c].receipt
  BY <1>2 DEF Beside, SameMessage
<1>4. \A c \in Commitment : Plan[c].parent \in Commitment \cup {NoParent}
  BY PlanAssumption DEF PlanType
<1>5. \A c \in Commitment : Withdrawable(intents', c) <=> Withdrawable(rows, c)
  BY <1>3, <1>4 DEF Withdrawable, Satellite
<1>6. ASSUME NEW c \in Commitment PROVE Beside(intents[c], intents'[c])
  <2>1. PICK i, j, k : i = intents[c] /\ j = rows[c] /\ k = intents'[c]
    OBVIOUS
  <2>2. /\ Beside(i, j) /\ Beside(j, k)
        /\ \/ k.status = j.status
           \/ j.status = "idle" /\ k.status = "pending"
    BY <1>1, <1>2, <2>1 DEF Steady
  <2> QED BY <2>1, <2>2 DEF Beside, SameMessage
<1>7. \A c \in Commitment :
        /\ Underway(intents'[c]) => Underway(intents[c])
        /\ snapshot.final \/ ~ShownBy(c, cards, threads) => SameAim(intents[c], intents'[c])
        /\ withdrawing /\ Withdrawable(intents', c) /\ Underway(intents'[c]) =>
             intents[c].status = "idle"
  BY <1>1, <1>2, <1>5 DEF Steady
<1>8. /\ snapshot.final => UNCHANGED snapshot
      /\ ~snapshot.final =>
           snapshot' = [revision |-> snapshot.revision + 1, final |-> final,
                        card     |-> IF cards THEN snapshot.revision + 1 ELSE snapshot.card,
                        thread   |-> IF threads THEN snapshot.revision + 1 ELSE snapshot.thread]
  BY DEF Raise
<1> QED BY <1>2, <1>6, <1>7, <1>8 DEF RaisedAt

\* The group's transitions and the moves of its picture.
GroupMoves ==
  \/ RaisedAt(TRUE, TRUE, FALSE, TRUE) /\ GroupOver'
  \/ RaisedAt(TRUE, TRUE, TRUE, TRUE) /\ GroupOver'
  \/ \E cards, threads \in BOOLEAN : RaisedAt(cards, threads, FALSE, FALSE) /\ UNCHANGED group

\* What a transition of the group, a merge or a note writes.
LEMMA GroupStep ==
  ASSUME IInv, \/ Acknowledge \/ Resolve
               \/ \E cards, threads \in BOOLEAN : StateMoves(cards, threads)
  PROVE  GroupMoves
<1>1. CASE Acknowledge
  <2>1. Raise(Withdrawn(intents), TRUE, TRUE, FALSE) /\ UNCHANGED <<journal, workers, made>>
    BY <1>1 DEF Acknowledge
  <2>2. RaisedAt(TRUE, TRUE, FALSE, TRUE)
    BY <2>1, RaiseStep DEF IInv
  <2> QED BY <1>1, <2>2 DEF Acknowledge, GroupMoves, GroupOver
<1>2. CASE Resolve
  <2>1. Raise(Withdrawn(intents), TRUE, TRUE, TRUE) /\ UNCHANGED <<journal, workers, made>>
    BY <1>2 DEF Resolve
  <2>2. RaisedAt(TRUE, TRUE, TRUE, TRUE)
    BY <2>1, RaiseStep DEF IInv
  <2> QED BY <1>2, <2>2 DEF Resolve, GroupMoves, GroupOver
<1>3. CASE \E cards, threads \in BOOLEAN : StateMoves(cards, threads)
  <2>1. PICK cards \in BOOLEAN, threads \in BOOLEAN : StateMoves(cards, threads)
    BY <1>3
  <2>2. /\ Raise(intents, cards, threads, FALSE) /\ UNCHANGED <<journal, workers, made, group>>
    BY <2>1 DEF StateMoves
  <2>3. RaisedAt(cards, threads, FALSE, FALSE)
    BY <2>2, RaiseStep DEF IInv
  <2> QED BY <2>2, <2>3 DEF GroupMoves
<1> QED BY <1>1, <1>2, <1>3

\* Every step is one of these.
StepKind ==
  \/ BesideJournal /\ Still
  \/ \E w \in Worker : FinalizeLate(w) /\ Noted
  \/ \E w \in Worker : /\ Refusal(w) /\ workers[w].intent \in Commitment
                       /\ RefusedAt(workers[w].intent)
  \/ \E w \in Worker : /\ workers[w].intent \in Commitment
                       /\ StartedAt(w, workers[w].intent)
  \/ \E c \in Commitment : EndedAt(c, "ambiguous", "lease_lost") /\ UNCHANGED workers
  \/ \E w \in Worker : /\ Finalize(w) /\ workers[w].intent \in Commitment
                       /\ intents[workers[w].intent].attempt = workers[w].attempt
                       /\ EndedAt(workers[w].intent, workers[w].answer, "worker")
  \/ GroupMoves
  \/ \E c \in Commitment : DecidedAt(c)

\* Every step is.
LEMMA StepKinds == ASSUME IInv, [Next]_vars PROVE StepKind
<1>1. CASE BesideJournal
  BY <1>1, BesideIsStill DEF StepKind
<1>2. CASE \E w \in Worker : FinalizeLate(w)
  BY <1>2, LateIsNoted DEF StepKind
<1>3. CASE \E w \in Worker : BeginRefused(w) \/ BeginUndeliverable(w)
  BY <1>3, BothRefuse, RefusalStep DEF StepKind
<1>4. CASE \E w \in Worker : BeginStarted(w)
  BY <1>4, StartStep DEF StepKind
<1>5. CASE \E c \in Commitment : Recover(c)
  BY <1>5, RecoverStep DEF StepKind
<1>6. CASE \E w \in Worker : Finalize(w)
  BY <1>6, FinalizeStep DEF StepKind
<1>7. CASE \/ Acknowledge \/ Resolve
           \/ \E cards, threads \in BOOLEAN : StateMoves(cards, threads)
  BY <1>7, GroupStep DEF StepKind
<1>8. CASE \E c \in Commitment, decision \in Decisions, risk, deadline \in BOOLEAN :
             OperatorDecides(c, decision, risk, deadline)
  <2>1. PICK c \in Commitment, decision \in Decisions, risk \in BOOLEAN, deadline \in BOOLEAN :
          OperatorDecides(c, decision, risk, deadline)
    BY <1>8
  <2> QED BY <2>1, DecisionStep DEF StepKind
<1>9. Next \/ UNCHANGED vars
  OBVIOUS
<1> QED BY <1>1, <1>2, <1>3, <1>4, <1>5, <1>6, <1>7, <1>8, <1>9
        DEF Next, Tick, Serve, Domain, BesideJournal, PrepareEnds, CallEnds

------------------------------------------------------------------------------
(* Rows stand.                                                                *)

\* What the lemmas about one row ask of the state.
LEMMA RowFacts ==
  ASSUME BInv, RowsStand, NEW c \in Commitment
  PROVE  /\ intents[c] \in IntentType /\ journal[c] \in Seq(RecordType)
         /\ RowAt(intents[c], journal[c]) /\ LogAt(journal[c]) /\ BoundAt(intents[c], journal[c])
         /\ intents[c].status = "sending" <=> intents[c].attempt # 0
         /\ intents[c].status = "sending" => intents[c].attempt \in DOMAIN journal[c]
BY DEF BInv, IInv, TypeOK, AttemptFence, RowsBound, RowsStand

\* The end of an attempt leaves its row standing, with a message if it was accepted.
LEMMA EndStands ==
  ASSUME BInv, RowsStand, NEW c \in Commitment, NEW outcome, NEW by, EndedAt(c, outcome, by)
  PROVE  /\ RowAt(intents'[c], journal'[c]) /\ LogAt(journal'[c])
         /\ outcome = "accepted" \/ intents[c].receipt # 0 => intents'[c].receipt # 0
<1>1. PICK i, j, log, new : /\ i = intents[c] /\ j = intents'[c]
                            /\ log = journal[c] /\ new = journal'[c]
  OBVIOUS
<1>2. /\ i \in IntentType /\ RowAt(i, log) /\ LogAt(log)
      /\ outcome \in Answers /\ by \in {"worker", "lease_lost"}
      /\ i.attempt # 0 /\ OneClosed(log, new, i.attempt, outcome, by)
      /\ Ends(i, j, log[i.attempt].kind, i.attempt, outcome)
  BY <1>1, RowFacts DEF EndedAt
<1>3. /\ RowAt(j, new) /\ LogAt(new)
      /\ outcome = "accepted" \/ i.receipt # 0 => j.receipt # 0
  BY <1>2, EndedStands
<1> QED BY <1>1, <1>3

\* Every step leaves every row standing.
LEMMA StepKeepsRows ==
  ASSUME BInv, RowsStand, StepKind
  PROVE  RowsStand'
<1> SUFFICES ASSUME NEW d \in Commitment
             PROVE  RowAt(intents'[d], journal'[d]) /\ LogAt(journal'[d])
  BY DEF RowsStand
<1>0. /\ intents[d] \in IntentType /\ journal[d] \in Seq(RecordType)
      /\ RowAt(intents[d], journal[d]) /\ LogAt(journal[d]) /\ BoundAt(intents[d], journal[d])
      /\ intents[d].status = "sending" => intents[d].attempt \in DOMAIN journal[d]
  BY RowFacts
<1>1. ASSUME Beside(intents[d], intents'[d]), journal'[d] = journal[d]
      PROVE  RowAt(intents'[d], journal'[d]) /\ LogAt(journal'[d])
  BY <1>0, <1>1, BesideStands
<1>2. CASE Still
  BY <1>1, <1>2 DEF Still, Steady
<1>3. CASE Noted
  <2>1. intents'[d] = intents[d] /\ SameButLate(journal[d], journal'[d])
    BY <1>3 DEF Noted
  <2> QED BY <1>0, <2>1, LateStands
<1>4. ASSUME NEW c \in Commitment, RefusedAt(c)
      PROVE  RowAt(intents'[d], journal'[d]) /\ LogAt(journal'[d])
  <2>1. CASE d # c
    BY <1>1, <1>4, <2>1 DEF RefusedAt, Steady
  <2>2. CASE d = c
    <3>1. PICK r : /\ OneMore(journal[d], journal'[d], r)
                   /\ ~OfACall(r) /\ r.gen = intents[d].gen /\ r.by # "none" /\ r.outcome # "open"
      BY <1>4, <2>2 DEF RefusedAt
    <3>2. /\ SameMessage(intents[d], intents'[d])
          /\ intents'[d].status \in {"pending", "permanent_failed"}
      BY <1>4, <2>2 DEF RefusedAt
    <3> QED BY <1>0, <3>1, <3>2, RefusedStands
  <2> QED BY <2>1, <2>2
<1>5. ASSUME NEW w \in Worker, NEW c \in Commitment, StartedAt(w, c)
      PROVE  RowAt(intents'[d], journal'[d]) /\ LogAt(journal'[d])
  <2>1. CASE d # c
    <3>1. intents'[d] = intents[d] /\ journal'[d] = journal[d]
      BY <1>5, <2>1 DEF StartedAt
    <3> QED BY <1>0, <3>1
  <2>2. CASE d = c
    <3>1. PICK i, j, log, new, n, endpoint, r :
            /\ i = intents[d] /\ j = intents'[d] /\ log = journal[d] /\ new = journal'[d]
            /\ n = Len(log) + 1 /\ endpoint = Bound(c, workers[w].endpoint)
            /\ r = Record(c, Kind(c), ContentRevision(c), endpoint, workers[w].token, "open", "none")
      OBVIOUS
    <3>2. /\ r.gen = i.gen /\ r.by = "none" /\ r.outcome = "open"
          /\ r.kind = IF i.receipt = 0 THEN "create" ELSE "mutation"
      BY <2>2, <3>1 DEF Record, Kind
    <3>3. j = [i EXCEPT !.status = "sending", !.attempt = n, !.endpoint = endpoint]
          /\ OneMore(log, new, r)
      BY <1>5, <2>2, <3>1 DEF StartedAt
    <3>4. /\ j.gen = i.gen /\ j.receipt = i.receipt /\ j.risk = i.risk
          /\ j.status = "sending" /\ j.attempt = Len(log) + 1
      BY <1>0, <3>1, <3>3 DEF IntentType
    <3>5. RowAt(i, log) /\ LogAt(log) /\ BoundAt(i, log)
      BY <1>0, <3>1
    <3>6. RowAt(j, new) /\ LogAt(new)
      BY <3>2, <3>3, <3>4, <3>5, StartedStands
    <3> QED BY <3>1, <3>6
  <2> QED BY <2>1, <2>2
<1>6. ASSUME NEW c \in Commitment, NEW outcome, NEW by, EndedAt(c, outcome, by)
      PROVE  RowAt(intents'[d], journal'[d]) /\ LogAt(journal'[d])
  <2>1. CASE d # c
    BY <1>1, <1>6, <2>1 DEF EndedAt
  <2>2. CASE d = c
    BY <1>6, <2>2, EndStands
  <2> QED BY <2>1, <2>2
<1>7. CASE GroupMoves
  BY <1>1, <1>7 DEF GroupMoves, RaisedAt
<1>8. ASSUME NEW c \in Commitment, DecidedAt(c)
      PROVE  RowAt(intents'[d], journal'[d]) /\ LogAt(journal'[d])
  <2>1. journal'[d] = journal[d]
    BY <1>8 DEF DecidedAt
  <2>2. CASE d # c
    BY <1>1, <1>8, <2>1, <2>2 DEF DecidedAt
  <2>3. CASE d = c
    <3>1. Judged(intents[d], intents'[d], journal[d])
      BY <1>8, <2>3 DEF DecidedAt
    <3> QED BY <1>0, <2>1, <3>1, JudgedStands
  <2> QED BY <2>2, <2>3
<1> QED BY <1>2, <1>3, <1>4, <1>5, <1>6, <1>7, <1>8 DEF StepKind

\* What the rows of a delivery know of their journals, and the calls' addresses.
RInv == BInv /\ RowsStand

\* The admitted rows stand: their journals are empty.
LEMMA InitStands == Init => RInv
<1> SUFFICES ASSUME Init PROVE RInv
  OBVIOUS
<1>1. IInv
  BY InitHolds
<1>2. \A c \in Commitment : DOMAIN journal[c] = {} /\ intents[c].status = "pending"
  BY DEF Init
<1>3. ReadyKnowsWhere
  BY DEF Init, Idle, ReadyKnowsWhere
<1>4. RowsBound
  BY <1>2 DEF RowsBound, BoundAt, OneAddressIn
<1>5. \A c \in Commitment : CreatesIn(journal[c]) = {}
  BY <1>2 DEF CreatesIn
<1>6. RowsStand
  BY <1>2, <1>5 DEF RowsStand, RowAt, LogAt
<1> QED BY <1>1, <1>3, <1>4, <1>6 DEF RInv, BInv

\* Every step keeps them.
LEMMA NextStands == RInv /\ [Next]_vars => RInv' /\ StepKind
<1> SUFFICES ASSUME RInv, [Next]_vars PROVE RInv' /\ StepKind
  OBVIOUS
<1>1. BInv /\ IInv /\ RowsStand
  BY DEF RInv, BInv
<1>2. StepKind
  BY <1>1, StepKinds
<1>3. IInv' /\ RowsBound' /\ ReadyKnowsWhere'
  BY <1>1, NextKeeps, StepKeepsBinding
<1>4. RowsStand'
  BY <1>1, <1>2, StepKeepsRows
<1> QED BY <1>2, <1>3, <1>4 DEF RInv, BInv

------------------------------------------------------------------------------
(* Nothing new is owed.                                                       *)

\* c owes a message it has not sent: it has none, nor has its card.
Owes(rows, c) == Withdrawable(rows, c) /\ Underway(rows[c])

\* Only a person's decision makes a row owe what it did not.
LEMMA NothingNewOwed ==
  ASSUME RInv, StepKind, ~\E c \in Commitment : DecidedAt(c)
  PROVE  \A d \in Commitment : Owes(intents', d) => Owes(intents, d)
<1>0. BInv /\ RowsStand /\ \A d \in Commitment : Plan[d].parent \in Commitment \cup {NoParent}
  BY PlanAssumption DEF RInv, PlanType
\* A step that takes no message, and lets only rows under a message go on.
<1>1. ASSUME \A d \in Commitment : intents'[d].receipt = 0 => intents[d].receipt = 0,
             \A d \in Commitment : Owes(intents', d) => Underway(intents[d])
      PROVE  \A d \in Commitment : Owes(intents', d) => Owes(intents, d)
  BY <1>0, <1>1 DEF Owes, Withdrawable, Satellite
<1>2. ASSUME \A d \in Commitment : /\ Beside(intents[d], intents'[d])
                                   /\ Underway(intents'[d]) => Underway(intents[d])
      PROVE  \A d \in Commitment : Owes(intents', d) => Owes(intents, d)
  BY <1>1, <1>2 DEF Beside, SameMessage, Owes
<1>3. CASE Still
  BY <1>2, <1>3 DEF Still, Steady
<1>4. CASE Noted
  BY <1>4 DEF Noted, Owes
<1>5. ASSUME NEW c \in Commitment, RefusedAt(c)
      PROVE  \A d \in Commitment : Owes(intents', d) => Owes(intents, d)
  <2>1. \A d \in Commitment : intents'[d].receipt = intents[d].receipt
    BY <1>5 DEF RefusedAt, Steady, Beside, SameMessage
  <2>2. \A d \in Commitment : Underway(intents'[d]) => Underway(intents[d])
    BY <1>5 DEF RefusedAt, Steady, Underway
  <2> QED BY <1>1, <2>1, <2>2 DEF Owes
<1>6. ASSUME NEW w \in Worker, NEW c \in Commitment, StartedAt(w, c)
      PROVE  \A d \in Commitment : Owes(intents', d) => Owes(intents, d)
  <2>1. PICK i, j, n, endpoint : /\ i = intents[c] /\ j = intents'[c]
                                 /\ n = Len(journal[c]) + 1 /\ endpoint = Bound(c, workers[w].endpoint)
    OBVIOUS
  <2>2. i \in IntentType
    BY <1>0, <2>1, RowFacts
  <2>3. j = [i EXCEPT !.status = "sending", !.attempt = n, !.endpoint = endpoint]
    BY <1>6, <2>1 DEF StartedAt
  <2>4. j.receipt = i.receipt /\ Underway(i)
    BY <1>6, <2>1, <2>2, <2>3 DEF StartedAt, IntentType, Underway
  <2>5. \A d \in Commitment \ {c} : intents'[d] = intents[d]
    BY <1>6 DEF StartedAt
  <2> QED BY <1>1, <2>1, <2>4, <2>5 DEF Owes
<1>7. ASSUME NEW c \in Commitment, NEW outcome, NEW by, EndedAt(c, outcome, by)
      PROVE  \A d \in Commitment : Owes(intents', d) => Owes(intents, d)
  <2>1. outcome = "accepted" \/ intents[c].receipt # 0 => intents'[c].receipt # 0
    BY <1>0, <1>7, EndStands
  <2>2. \A d \in Commitment \ {c} : intents'[d].receipt = intents[d].receipt
    BY <1>7 DEF EndedAt, Beside, SameMessage
  <2>3. ASSUME NEW d \in Commitment, Owes(intents', d) PROVE Underway(intents[d])
    <3>1. CASE d = c
      <4>1. outcome # "accepted"
        BY <2>1, <2>3, <3>1 DEF Owes, Withdrawable
      <4>2. Ends(intents[c], intents'[c], journal[c][intents[c].attempt].kind,
                 intents[c].attempt, outcome)
        BY <1>7 DEF EndedAt
      <4> QED BY <2>3, <3>1, <4>1, <4>2 DEF Ends, Owes, Underway
    <3>2. CASE d # c
      <4>1. Underway(intents[d]) \/ (Plan[d].parent = c /\ outcome = "accepted")
        BY <1>7, <2>3, <3>2 DEF EndedAt, Owes
      <4>2. CASE Plan[d].parent = c /\ outcome = "accepted"
        <5>1. Satellite(d)
          BY <4>2, PlanAssumption DEF Satellite
        <5> QED BY <2>1, <2>3, <4>2, <5>1 DEF Owes, Withdrawable
      <4> QED BY <4>1, <4>2
    <3> QED BY <3>1, <3>2
  <2> QED BY <1>1, <2>1, <2>2, <2>3
<1>8. CASE GroupMoves
  BY <1>2, <1>8 DEF GroupMoves, RaisedAt
<1> QED BY <1>3, <1>4, <1>5, <1>6, <1>7, <1>8 DEF StepKind

\* What is owed, once the alert is over.
LEMMA WithdrawnOwesNothing == WithdrawalHolds <=> (GroupOver => ~\E c \in Commitment : Owes(intents, c))
BY DEF WithdrawalHolds, Owes, Withdrawable, Underway

\* A row without a message is not parked.
LEMMA OwedIsNotParked ==
  ASSUME RInv, NEW c \in Commitment, Owes(intents, c)
  PROVE  intents[c].status # "idle"
BY DEF RInv, RowsStand, RowAt, Owes, Withdrawable

\* No step of an alert that is over makes a row owe a message.
LEMMA StepKeepsWithdrawal == ASSUME RInv, StepKind, WithdrawalHolds PROVE WithdrawalHolds'
<1> SUFFICES ASSUME GroupOver', NEW d \in Commitment, Owes(intents', d) PROVE FALSE
  <2>1. WithdrawalHolds' <=> (GroupOver' => ~\E c \in Commitment : Owes(intents', c))
    BY DEF WithdrawalHolds, Owes, Withdrawable, Underway
  <2> QED BY <2>1
<1>1. GroupOver => \A c \in Commitment : ~Owes(intents, c)
  BY WithdrawnOwesNothing
<1>2. CASE ~\E c \in Commitment : DecidedAt(c)
  <2>1. Owes(intents, d)
    BY <1>2, NothingNewOwed
  <2>2. CASE GroupMoves
    <3>1. CASE UNCHANGED group
      BY <1>1, <2>1, <3>1 DEF GroupOver
    <3>2. CASE \E final : RaisedAt(TRUE, TRUE, final, TRUE)
      <4>1. intents[d].status = "idle"
        BY <3>2 DEF RaisedAt, Owes
      <4> QED BY <2>1, <4>1, OwedIsNotParked
    <3> QED BY <2>2, <3>1, <3>2 DEF GroupMoves
  <2>3. CASE ~GroupMoves
    <3>1. GroupOver' <=> GroupOver
      BY <1>2, <2>3 DEF StepKind, Still, Noted, RefusedAt, StartedAt, EndedAt, GroupOver
    <3> QED BY <1>1, <2>1, <3>1
  <2> QED BY <2>2, <2>3
<1>3. ASSUME NEW c \in Commitment, DecidedAt(c) PROVE FALSE
  <2>1. GroupOver /\ ~Owes(intents, d) /\ ~Owes(intents, c)
    BY <1>1, <1>3 DEF DecidedAt
  <2>2. CASE d = c
    <3>1. intents'[c].receipt # 0
      BY <1>3, <2>1, <2>2 DEF DecidedAt, Owes
    <3> QED BY <2>2, <3>1 DEF Owes, Withdrawable
  <2>3. CASE d # c
    <3>1. Underway(intents[d]) \/ (Plan[d].parent = c /\ intents'[c].receipt # 0)
      BY <1>3, <2>1, <2>3 DEF DecidedAt, Owes
    <3>2. CASE Plan[d].parent = c /\ intents'[c].receipt # 0
      <4>1. Satellite(d)
        BY <3>2, PlanAssumption DEF Satellite
      <4> QED BY <3>2, <4>1 DEF Owes, Withdrawable
    <3>3. CASE Underway(intents[d])
      <4>1. \A e \in Commitment : intents'[e].receipt = intents[e].receipt
        BY <1>3, <2>1 DEF DecidedAt, Beside, SameMessage
      <4>2. Plan[d].parent \in Commitment \cup {NoParent}
        BY PlanAssumption DEF PlanType
      <4>3. Withdrawable(intents, d)
        BY <4>1, <4>2 DEF Owes, Withdrawable, Satellite
      <4> QED BY <2>1, <3>3, <4>3 DEF Owes
    <3> QED BY <3>1, <3>2, <3>3
  <2> QED BY <2>2, <2>3
<1> QED BY <1>2, <1>3

\* Once the alert is acknowledged or resolved, a commitment without a message
\* owes nobody anything, whatever its worker, recovery, its card or a person does
\* next (withdrawIntentsTx, applyTransitionTx, DecideDelivery).
THEOREM WithdrawalStands == Spec => []WithdrawalHolds
<1>1. Init => RInv /\ WithdrawalHolds
  BY InitStands DEF Init, WithdrawalHolds, GroupOver
<1>2. RInv /\ WithdrawalHolds /\ [Next]_vars => RInv' /\ WithdrawalHolds'
  BY NextStands, StepKeepsWithdrawal
<1> QED BY <1>1, <1>2, PTL DEF Spec

\* A row fails for good only in a step of its own, which stops the later ones.
LEMMA NewFailureStops ==
  ASSUME RInv, StepKind, ~\E e \in Commitment : DecidedAt(e), NEW c \in Commitment,
         intents[c].status # "permanent_failed", intents'[c].status = "permanent_failed"
  PROVE  FailureStops(c)
<1>1. ~Beside(intents[c], intents'[c])
  BY DEF Beside
<1>2. intents'[c] # intents[c]
  OBVIOUS
<1>3. ~Still /\ ~Noted /\ ~GroupMoves
  BY <1>1, <1>2 DEF Still, Steady, Noted, GroupMoves, RaisedAt
<1>4. ASSUME NEW e \in Commitment, RefusedAt(e) PROVE FailureStops(c)
  BY <1>1, <1>4 DEF RefusedAt, Steady
<1>5. ASSUME NEW e \in Commitment, NEW outcome, NEW by, EndedAt(e, outcome, by) PROVE FailureStops(c)
  BY <1>1, <1>5 DEF EndedAt
<1>6. ASSUME NEW w \in Worker, NEW e \in Commitment, StartedAt(w, e) PROVE FALSE
  <2>1. e = c
    BY <1>2, <1>6 DEF StartedAt
  <2>2. PICK i, n, endpoint : /\ i = intents[c] /\ n = Len(journal[c]) + 1
                              /\ endpoint = Bound(c, workers[w].endpoint)
    OBVIOUS
  <2>3. i \in IntentType
    BY <2>2, RowFacts DEF RInv
  <2>4. intents'[c] = [i EXCEPT !.status = "sending", !.attempt = n, !.endpoint = endpoint]
    BY <1>6, <2>1, <2>2 DEF StartedAt
  <2> QED BY <2>3, <2>4 DEF IntentType
<1> QED BY <1>3, <1>4, <1>5, <1>6 DEF StepKind

\* What ended a row that stays failed is what ended it before.
LEMMA FailureIsKept ==
  ASSUME RInv, RInv', StepKind, ~\E e \in Commitment : DecidedAt(e), NEW c \in Commitment,
         intents[c].status = "permanent_failed"
  PROVE  Undeliverable(journal[c]) => Undeliverable(journal'[c])
<1>1. /\ journal[c] \in Seq(RecordType) /\ journal'[c] \in Seq(RecordType)
      /\ intents[c].attempt = 0
  BY DEF RInv, BInv, IInv, TypeOK, AttemptFence
<1>2. CASE Still \/ GroupMoves
  BY <1>2 DEF Still, GroupMoves, RaisedAt
<1>3. ASSUME Noted PROVE Undeliverable(journal'[c]) <=> Undeliverable(journal[c])
  <2>1. SameButLate(journal[c], journal'[c])
    BY <1>3 DEF Noted
  <2>2. CASE journal[c] = <<>>
    <3>1. Len(journal'[c]) = 0
      BY <2>1, <2>2 DEF SameButLate
    <3>2. journal'[c] = <<>>
      BY <1>1, <3>1
    <3> QED BY <2>2, <3>2
  <2>3. CASE journal[c] # <<>>
    <3>1. Len(journal[c]) \in DOMAIN journal[c]
      BY <1>1, <2>3
    <3> QED BY <2>1, <3>1 DEF SameButLate, Undeliverable
  <2> QED BY <2>2, <2>3
<1>4. ASSUME NEW e \in Commitment, RefusedAt(e) PROVE journal'[c] = journal[c]
  BY <1>4 DEF RefusedAt
<1>5. ASSUME NEW w \in Worker, NEW e \in Commitment, StartedAt(w, e) PROVE journal'[c] = journal[c]
  BY <1>5 DEF StartedAt
<1>6. ASSUME NEW e \in Commitment, NEW outcome, NEW by, EndedAt(e, outcome, by)
      PROVE  journal'[c] = journal[c]
  BY <1>1, <1>6 DEF EndedAt
<1> QED BY <1>2, <1>3, <1>4, <1>5, <1>6 DEF StepKind

\* Nothing escapes a step of the machine that failed for good.
LEMMA StepHoldsStop ==
  ASSUME RInv, RInv', StepKind, NEW c \in Stopping, NEW d \in Commitment, EscapesTheStop(c, d)'
  PROVE  EscapesTheStop(c, d) \/ budget'.decisions # budget.decisions
<1>1. CASE \E e \in Commitment : DecidedAt(e)
  BY <1>1 DEF DecidedAt
<1>2. CASE ~\E e \in Commitment : DecidedAt(e)
  <2>1. /\ c \in Commitment /\ StopsEscalation(c) /\ intents'[c].status = "permanent_failed"
        /\ ~Undeliverable(journal'[c])
        /\ Plan[d].step > Plan[c].step /\ Withdrawable(intents', d)
        /\ Underway(intents'[d]) /\ intents'[d].status # "idle"
    BY DEF Stopping, EscapesTheStop, Undeliverable, Satellite, Withdrawable, Underway
  <2>2. Owes(intents, d)
    BY <1>2, <2>1, NothingNewOwed DEF Owes
  <2>3. intents[d].status # "idle"
    BY <2>2, OwedIsNotParked
  <2>4. CASE intents[c].status = "permanent_failed"
    <3>1. ~Undeliverable(journal[c])
      BY <1>2, <2>1, <2>4, FailureIsKept
    <3> QED BY <2>1, <2>2, <2>3, <2>4, <3>1 DEF EscapesTheStop, Owes, Underway, Undeliverable
  <2>5. CASE intents[c].status # "permanent_failed"
    <3>1. FailureStops(c)
      BY <1>2, <2>1, <2>5, NewFailureStops
    <3> QED BY <2>1, <3>1 DEF FailureStops, LaterStepsStop
  <2> QED BY <2>4, <2>5
<1> QED BY <1>1, <1>2

\* A policy that stops at a failed step sends nothing of a later one, whichever
\* transaction writes the provider's or the worker's failure and whatever the
\* others do meanwhile: only a person's decision brings something back
\* (stopEscalationTx).  A commitment the store itself cannot deliver stops nothing
\* (refuseAttempt), and is not such a failure.
THEOREM EscalationStops == Spec => StopHolds
<1> DEFINE Stands == \A c \in Stopping, d \in Commitment :
             EscapesTheStop(c, d)' => EscapesTheStop(c, d) \/ budget'.decisions # budget.decisions
<1>1. Init => RInv
  BY InitStands
<1>2. RInv /\ [Next]_vars => RInv' /\ Stands
  BY NextStands, StepHoldsStop
<1>3. RInv /\ [Next]_vars => [Stands]_vars
  BY <1>2
<1>4. StopHolds <=> [][Stands]_vars
  BY PTL DEF StopHolds
<1> HIDE DEF Stands
<1> QED BY <1>1, <1>2, <1>3, <1>4, PTL DEF Spec

------------------------------------------------------------------------------
(* No update is lost.                                                         *)

\* The revision a commitment has to show: the last one once it is out, before
\* that the last one its own picture moved at.
Aim(s, c) == IF s.final THEN s.revision ELSE IF Plan[c].thread THEN s.thread ELSE s.card

\* What a row shows of the group's picture.  In flight or in doubt, it is aimed at
\* what it has to show, or the attempt that is out renders it already; parked, it
\* shows it; finished, it shows the last one.
PictureAt(s, c, i, log) ==
  /\ i.status \in {"sending", "manual_review"} =>
       /\ Len(log) \in DOMAIN log
       /\ Plan[c].form = "editable" =>
            i.desired >= Aim(s, c) \/ log[Len(log)].revision >= Aim(s, c)
  /\ i.status = "idle" => Plan[c].form = "editable" /\ ~s.final /\ i.applied >= Aim(s, c)
  /\ Plan[c].form = "editable" /\ i.status = "succeeded" => s.final /\ i.applied = s.revision

\* Nothing shows a revision the group has not had.
NothingAhead(s, log) == \A n \in DOMAIN log : log[n].revision <= s.revision

PicturesHold ==
  /\ snapshot.card <= snapshot.revision /\ snapshot.thread <= snapshot.revision
  /\ \A c \in Commitment :
       PictureAt(snapshot, c, intents[c], journal[c]) /\ NothingAhead(snapshot, journal[c])

\* A row beside somebody's step shows what it did.
LEMMA BesidePicture ==
  ASSUME NEW s, NEW c, NEW i, NEW j, NEW log, PictureAt(s, c, i, log),
         Beside(i, j), SameAim(i, j)
  PROVE  PictureAt(s, c, j, log)
BY DEF PictureAt, Beside, SameMessage, SameAim

\* An observation shows nothing.
LEMMA LatePicture ==
  ASSUME NEW s, NEW c, NEW i, NEW log, NEW new, PictureAt(s, c, i, log), NothingAhead(s, log),
         SameButLate(log, new)
  PROVE  PictureAt(s, c, i, new) /\ NothingAhead(s, new)
BY DEF PictureAt, NothingAhead, SameButLate

\* The end of an attempt: a row is parked only on what it had to show, and not on
\* the last revision.
LEMMA EndedPicture ==
  ASSUME snapshot \in SnapshotType, NEW c \in Commitment, NEW log \in Seq(RecordType), NEW new,
         intents[c] \in IntentType, log = journal[c],
         PictureAt(snapshot, c, intents[c], log), NothingAhead(snapshot, log),
         intents[c].status \in {"sending", "manual_review"},
         intents'[c].status # "sending",
         intents'[c].status = "manual_review" => intents'[c].desired = intents[c].desired,
         Shows(c, log[Len(log)].revision),
         DOMAIN new = DOMAIN log, Len(new) = Len(log),
         \A n \in DOMAIN log : new[n].revision = log[n].revision
  PROVE  PictureAt(snapshot, c, intents'[c], new) /\ NothingAhead(snapshot, new)
<1>1. NothingAhead(snapshot, new)
  BY DEF NothingAhead
<1>2. PICK i, j, r, aim : /\ i = intents[c] /\ j = intents'[c] /\ aim = Aim(snapshot, c)
                          /\ r = log[Len(log)].revision
  OBVIOUS
<1>3. Len(log) \in DOMAIN log /\ log[Len(log)] \in RecordType
  BY DEF PictureAt
<1>4. /\ r \in Int /\ i.desired \in Int /\ aim \in Nat /\ snapshot.revision \in Nat
      /\ r <= snapshot.revision
      /\ Plan[c].form = "editable" => i.desired >= aim \/ r >= aim
      /\ snapshot.final => aim = snapshot.revision
  BY <1>2, <1>3 DEF PictureAt, NothingAhead, RecordType, IntentType, SnapshotType, Aim
<1>5. /\ j.status = "idle" =>
           /\ Plan[c].form = "editable" /\ r >= i.desired /\ j.applied = r
           /\ ~(snapshot.final /\ r = snapshot.revision)
      /\ Plan[c].form = "editable" /\ j.status = "succeeded" =>
           snapshot.final /\ r = snapshot.revision /\ j.applied = r
      /\ j.status # "sending" /\ (j.status = "manual_review" => j.desired = i.desired)
  BY <1>2 DEF Shows
<1>6. new[Len(new)].revision = r
  BY <1>2, <1>3
<1>7. j.status = "idle" => ~snapshot.final /\ j.applied >= aim
  BY <1>4, <1>5
<1>8. PictureAt(snapshot, c, j, new)
  BY <1>2, <1>3, <1>4, <1>5, <1>6, <1>7 DEF PictureAt
<1> QED BY <1>1, <1>2, <1>8

\* The picture moves: what shows it is aimed at the new revision.
LEMMA RaisedPicture ==
  ASSUME TypeOK, PicturesHold, NEW cards \in BOOLEAN, NEW threads \in BOOLEAN,
         NEW final \in BOOLEAN, NEW withdrawing, final => cards /\ threads,
         RaisedAt(cards, threads, final, withdrawing)
  PROVE  PicturesHold'
<1>1. PICK s, t : s = snapshot /\ t = snapshot'
  OBVIOUS
<1>2. s \in SnapshotType /\ UNCHANGED journal /\ s.card <= s.revision /\ s.thread <= s.revision
  BY <1>1 DEF TypeOK, RaisedAt, PicturesHold
<1>3. ASSUME NEW c \in Commitment
      PROVE  PictureAt(t, c, intents'[c], journal'[c]) /\ NothingAhead(t, journal'[c])
  <2>1. PICK i, j, log : i = intents[c] /\ j = intents'[c] /\ log = journal[c]
    OBVIOUS
  <2>2. /\ PictureAt(s, c, i, log) /\ NothingAhead(s, log) /\ Beside(i, j)
        /\ s.final \/ ~ShownBy(c, cards, threads) => SameAim(i, j)
        /\ ~s.final /\ ShownBy(c, cards, threads) =>
             /\ j.status # "idle"
             /\ j.status \in {"sending", "manual_review"} => j.desired = t.revision
    BY <1>1, <2>1 DEF PicturesHold, RaisedAt
  <2>3. journal'[c] = log /\ log \in Seq(RecordType) /\ \A n \in DOMAIN log : log[n].revision \in Int
    <3>1. journal'[c] = log /\ log \in Seq(RecordType)
      BY <1>2, <2>1 DEF TypeOK
    <3>2. \A n \in DOMAIN log : log[n] \in RecordType
      BY <3>1
    <3> QED BY <3>1, <3>2 DEF RecordType
  <2>4. CASE s.final
    <3>1. t = s
      BY <1>1, <2>4 DEF RaisedAt
    <3> QED BY <2>1, <2>2, <2>3, <2>4, <3>1, BesidePicture
  <2>5. CASE ~s.final
    <3>1. /\ t.revision = s.revision + 1 /\ t.final = final
          /\ t.card = IF cards THEN s.revision + 1 ELSE s.card
          /\ t.thread = IF threads THEN s.revision + 1 ELSE s.thread
          /\ s.revision \in Nat /\ s.card \in Nat /\ s.thread \in Nat
      BY <1>1, <1>2, <2>5 DEF RaisedAt, SnapshotType
    <3>2. NothingAhead(t, log)
      BY <2>2, <2>3, <3>1 DEF NothingAhead
    <3>3. CASE ShownBy(c, cards, threads)
      <4>1. t.revision >= Aim(t, c)
        BY <1>2, <3>1 DEF Aim
      <4>2. PictureAt(t, c, j, log)
        BY <2>2, <2>5, <3>3, <4>1 DEF PictureAt, Beside, SameMessage
      <4> QED BY <2>1, <2>3, <3>2, <4>2
    <3>4. CASE ~ShownBy(c, cards, threads)
      <4>1. Plan[c].form = "editable" => ~final /\ Aim(t, c) = Aim(s, c)
        BY <2>5, <3>1, <3>4 DEF ShownBy, Aim
      <4>2. PictureAt(s, c, j, log)
        BY <2>2, <3>4, BesidePicture
      <4>3. PictureAt(t, c, j, log)
        BY <2>5, <3>1, <4>1, <4>2 DEF PictureAt
      <4> QED BY <2>1, <2>3, <3>2, <4>3
    <3> QED BY <3>3, <3>4
  <2> QED BY <2>4, <2>5
<1>4. t.card <= t.revision /\ t.thread <= t.revision
  BY <1>1, <1>2 DEF RaisedAt, SnapshotType
<1> QED BY <1>1, <1>3, <1>4 DEF PicturesHold

\* Every step leaves every row with its picture.
LEMMA StepKeepsPictures ==
  ASSUME RInv, StepKind, PicturesHold
  PROVE  PicturesHold'
<1>0. BInv /\ RowsStand /\ TypeOK /\ snapshot \in SnapshotType
  BY DEF RInv, BInv, IInv, TypeOK
<1>1. CASE GroupMoves
  <2>1. CASE \E final \in BOOLEAN : RaisedAt(TRUE, TRUE, final, TRUE)
    BY <1>0, <2>1, RaisedPicture
  <2>2. CASE \E cards, threads \in BOOLEAN : RaisedAt(cards, threads, FALSE, FALSE)
    BY <1>0, <2>2, RaisedPicture
  <2> QED BY <1>1, <2>1, <2>2 DEF GroupMoves
<1>2. ASSUME UNCHANGED snapshot,
             \A c \in Commitment : /\ PictureAt(snapshot, c, intents'[c], journal'[c])
                                   /\ NothingAhead(snapshot, journal'[c])
      PROVE  PicturesHold'
  BY <1>2 DEF PicturesHold
<1>3. ASSUME NEW c \in Commitment, journal'[c] = journal[c],
             Beside(intents[c], intents'[c]), SameAim(intents[c], intents'[c])
      PROVE  /\ PictureAt(snapshot, c, intents'[c], journal'[c])
             /\ NothingAhead(snapshot, journal'[c])
  BY <1>3, BesidePicture DEF PicturesHold
<1>4. CASE Still
  BY <1>2, <1>3, <1>4 DEF Still, Steady
<1>5. CASE Noted
  <2>1. ASSUME NEW c \in Commitment
        PROVE  /\ PictureAt(snapshot, c, intents'[c], journal'[c])
               /\ NothingAhead(snapshot, journal'[c])
    <3>1. SameButLate(journal[c], journal'[c]) /\ intents'[c] = intents[c]
      BY <1>5 DEF Noted
    <3> QED BY <3>1, LatePicture DEF PicturesHold
  <2> QED BY <1>2, <1>5, <2>1 DEF Noted
<1>6. ASSUME NEW c \in Commitment, RefusedAt(c) PROVE PicturesHold'
  <2>1. PICK r : OneMore(journal[c], journal'[c], r) /\ r.revision = NoRevision
    BY <1>6 DEF RefusedAt
  <2>2. PICK s, j, log, new : /\ s = snapshot /\ j = intents'[c]
                              /\ log = journal[c] /\ new = journal'[c]
    OBVIOUS
  <2>3. j.status \in {"pending", "permanent_failed"}
    BY <1>6, <2>2 DEF RefusedAt
  <2>4. /\ NothingAhead(s, log) /\ OneMore(log, new, r) /\ s.revision \in Nat
    BY <1>0, <2>1, <2>2 DEF PicturesHold, SnapshotType
  <2>5. PictureAt(s, c, j, new) /\ NothingAhead(s, new)
    BY <2>1, <2>3, <2>4 DEF PictureAt, NothingAhead, OneMore, NoRevision
  <2>6. \A d \in Commitment \ {c} : /\ journal'[d] = journal[d]
                                    /\ Beside(intents[d], intents'[d])
                                    /\ SameAim(intents[d], intents'[d])
    BY <1>6 DEF RefusedAt, Steady
  <2>7. UNCHANGED snapshot
    BY <1>6 DEF RefusedAt
  <2> QED BY <1>2, <1>3, <2>2, <2>5, <2>6, <2>7
<1>7. ASSUME NEW w \in Worker, NEW c \in Commitment, StartedAt(w, c) PROVE PicturesHold'
  <2>1. PICK s, i, j, log, new, endpoint, n, r :
          /\ s = snapshot /\ i = intents[c] /\ j = intents'[c]
          /\ log = journal[c] /\ new = journal'[c]
          /\ endpoint = Bound(c, workers[w].endpoint) /\ n = Len(log) + 1
          /\ r = Record(c, Kind(c), ContentRevision(c), endpoint, workers[w].token, "open", "none")
    OBVIOUS
  <2>2. r.revision = ContentRevision(c)
    BY <2>1 DEF Record
  <2>3. /\ s.revision \in Nat /\ r.revision <= s.revision
        /\ Plan[c].form = "editable" => r.revision = s.revision
        /\ s.revision >= Aim(s, c)
    <3>1. s \in SnapshotType /\ s.card <= s.revision /\ s.thread <= s.revision
      BY <1>0, <2>1 DEF PicturesHold
    <3> QED BY <2>1, <2>2, <3>1 DEF ContentRevision, SnapshotType, Aim
  <2>4. OneMore(log, new, r) /\ NothingAhead(s, log)
        /\ j = [i EXCEPT !.status = "sending", !.attempt = n, !.endpoint = endpoint]
    BY <1>7, <2>1 DEF StartedAt, PicturesHold
  <2>5. j.status = "sending"
    <3>1. i \in IntentType
      BY <1>0, <2>1, RowFacts
    <3> QED BY <2>4, <3>1 DEF IntentType
  <2>6. PictureAt(s, c, j, new) /\ NothingAhead(s, new)
    BY <2>3, <2>4, <2>5 DEF PictureAt, NothingAhead, OneMore
  <2>7. \A d \in Commitment \ {c} : /\ journal'[d] = journal[d]
                                    /\ Beside(intents[d], intents'[d])
                                    /\ SameAim(intents[d], intents'[d])
    BY <1>7, SteadySelf DEF StartedAt, Steady
  <2>8. UNCHANGED snapshot
    BY <1>7 DEF StartedAt
  <2> QED BY <1>2, <1>3, <2>1, <2>6, <2>7, <2>8
<1>8. ASSUME NEW c \in Commitment, NEW outcome, NEW by, EndedAt(c, outcome, by) PROVE PicturesHold'
  <2>1. PICK log, new, n : log = journal[c] /\ new = journal'[c] /\ n = intents[c].attempt
    OBVIOUS
  <2>2. /\ log \in Seq(RecordType) /\ intents[c] \in IntentType /\ n = Len(log)
        /\ intents[c].status = "sending"
    BY <1>0, <1>8, <2>1, RowFacts DEF EndedAt, RowAt, Ends
  <2>3. /\ intents'[c].status # "sending" /\ intents'[c].desired = intents[c].desired
        /\ Shows(c, log[Len(log)].revision) /\ OneClosed(log, new, n, outcome, by)
    BY <1>8, <2>1, <2>2 DEF EndedAt, Ends
  <2>4. /\ DOMAIN new = DOMAIN log /\ Len(new) = Len(log)
        /\ \A k \in DOMAIN log : new[k].revision = log[k].revision
    BY <2>3 DEF OneClosed
  <2>5. PictureAt(snapshot, c, intents[c], log) /\ NothingAhead(snapshot, log)
    BY <2>1 DEF PicturesHold
  <2>6. PictureAt(snapshot, c, intents'[c], new) /\ NothingAhead(snapshot, new)
    BY <1>0, <2>1, <2>2, <2>3, <2>4, <2>5, EndedPicture
  <2>7. \A d \in Commitment \ {c} : /\ journal'[d] = journal[d]
                                    /\ Beside(intents[d], intents'[d])
                                    /\ SameAim(intents[d], intents'[d])
    BY <1>8 DEF EndedAt
  <2>8. UNCHANGED snapshot
    BY <1>8 DEF EndedAt
  <2> QED BY <1>2, <1>3, <2>1, <2>6, <2>7, <2>8
<1>9. ASSUME NEW c \in Commitment, DecidedAt(c) PROVE PicturesHold'
  <2>1. UNCHANGED <<snapshot, journal>>
    BY <1>9 DEF DecidedAt
  <2>2. PictureAt(snapshot, c, intents[c], journal[c]) /\ NothingAhead(snapshot, journal[c])
    BY DEF PicturesHold
  <2>3. PictureAt(snapshot, c, intents'[c], journal[c])
    <3>1. CASE intents'[c].status \in {"pending", "canceled"}
      BY <3>1 DEF PictureAt
    <3>2. CASE /\ intents[c].status = "manual_review" /\ intents'[c].status # "manual_review"
               /\ Shows(c, journal[c][Len(journal[c])].revision)
      <4>1. PICK log : log = journal[c]
        OBVIOUS
      <4>2. /\ log \in Seq(RecordType) /\ intents[c] \in IntentType
            /\ intents'[c].status # "sending"
        BY <1>0, <1>9, <4>1, RowFacts DEF DecidedAt, Judged
      <4>3. PictureAt(snapshot, c, intents'[c], log) /\ NothingAhead(snapshot, log)
        BY <1>0, <2>2, <3>2, <4>1, <4>2, EndedPicture
      <4> QED BY <4>1, <4>3
    <3> QED BY <1>9, <3>1, <3>2 DEF DecidedAt
  <2>4. \A d \in Commitment \ {c} : Beside(intents[d], intents'[d]) /\ SameAim(intents[d], intents'[d])
    BY <1>9 DEF DecidedAt
  <2> QED BY <1>2, <1>3, <2>1, <2>2, <2>3, <2>4
<1> QED BY <1>1, <1>4, <1>5, <1>6, <1>7, <1>8, <1>9 DEF StepKind

\* No update is lost: whatever is in flight while the group's picture moves, a
\* parked card or thread has applied the last revision its picture moved at, and
\* nothing is parked or finished against the last one (setDesiredStateTx, settleApplied).
THEOREM NoUpdateIsLost == Spec => []CaughtUp
<1>1. Init => RInv /\ PicturesHold
  <2>1. ASSUME Init PROVE PicturesHold
    <3>1. \A c \in Commitment : DOMAIN journal[c] = {} /\ intents[c].status = "pending"
      BY <2>1 DEF Init
    <3>2. snapshot.card = 0 /\ snapshot.thread = 0 /\ snapshot.revision = 0
      BY <2>1 DEF Init
    <3> QED BY <3>1, <3>2 DEF PicturesHold, PictureAt, NothingAhead
  <2> QED BY <2>1, InitStands
<1>2. RInv /\ PicturesHold /\ [Next]_vars => RInv' /\ PicturesHold'
  BY NextStands, StepKeepsPictures
<1>3. PicturesHold => CaughtUp
  <2> SUFFICES ASSUME PicturesHold, NEW c \in Commitment
               PROVE  /\ intents[c].status = "idle" =>
                           /\ ~snapshot.final
                           /\ intents[c].applied >= IF Plan[c].thread THEN snapshot.thread
                                                                      ELSE snapshot.card
                      /\ Plan[c].form = "editable" /\ intents[c].status = "succeeded" =>
                           snapshot.final /\ intents[c].applied = snapshot.revision
    BY DEF CaughtUp
  <2>1. PictureAt(snapshot, c, intents[c], journal[c])
    BY DEF PicturesHold
  <2> QED BY <2>1 DEF PictureAt, Aim
<1> QED BY <1>1, <1>2, <1>3, PTL DEF Spec

------------------------------------------------------------------------------
(* Records and the slots in flight.                                           *)

\* A journal whose records stand for the calls they stood for.
LogGrows(log, new) ==
  \A n \in DOMAIN log :
    /\ n \in DOMAIN new
    /\ new[n].gen = log[n].gen /\ new[n].kind = log[n].kind
    /\ new[n].revision = log[n].revision /\ new[n].endpoint = log[n].endpoint
    /\ OfACall(new[n]) <=> OfACall(log[n])

\* Every journal does.
LEMMA LogsGrow ==
  ASSUME RInv, StepKind, NEW c \in Commitment
  PROVE  LogGrows(journal[c], journal'[c])
<1>1. CASE journal'[c] = journal[c]
  BY <1>1 DEF LogGrows
<1>2. CASE SameButLate(journal[c], journal'[c])
  BY <1>2 DEF LogGrows, SameButLate, OfACall
<1>3. CASE \E r : OneMore(journal[c], journal'[c], r)
  BY <1>3 DEF LogGrows, OneMore
<1>4. ASSUME NEW n, NEW outcome, NEW by \in {"worker", "lease_lost"},
             OneClosed(journal[c], journal'[c], n, outcome, by)
      PROVE  LogGrows(journal[c], journal'[c])
  BY <1>4 DEF LogGrows, OneClosed, OfACall
<1>5. ASSUME NEW e \in Commitment, NEW outcome, NEW by, EndedAt(e, outcome, by)
      PROVE  LogGrows(journal[c], journal'[c])
  BY <1>1, <1>4, <1>5 DEF EndedAt
<1>6. ASSUME NEW e \in Commitment, RefusedAt(e) PROVE LogGrows(journal[c], journal'[c])
  BY <1>1, <1>3, <1>6 DEF RefusedAt
<1>7. ASSUME NEW w \in Worker, NEW e \in Commitment, StartedAt(w, e)
      PROVE  LogGrows(journal[c], journal'[c])
  BY <1>1, <1>3, <1>7 DEF StartedAt
<1>8. Still \/ GroupMoves \/ (\E e \in Commitment : DecidedAt(e)) => journal' = journal
  BY DEF Still, GroupMoves, RaisedAt, DecidedAt
<1> QED BY <1>1, <1>2, <1>5, <1>6, <1>7, <1>8 DEF StepKind, Noted

\* A record answered, or given up, in this step.
AnsweredNow(c, n) ==
  \/ EndedAt(c, "ambiguous", "lease_lost") /\ UNCHANGED workers /\ n = intents[c].attempt
  \/ \E w \in Worker : /\ Finalize(w) /\ c = workers[w].intent
                       /\ n = workers[w].attempt /\ n = intents[c].attempt
                       /\ EndedAt(c, workers[w].answer, "worker")

\* Any other keeps its answer.
LEMMA AnswersKept ==
  ASSUME RInv, StepKind, NEW c \in Commitment, NEW n \in DOMAIN journal[c], ~AnsweredNow(c, n)
  PROVE  journal'[c][n].by = journal[c][n].by /\ journal'[c][n].outcome = journal[c][n].outcome
<1>1. CASE journal'[c] = journal[c]
  BY <1>1
<1>2. CASE SameButLate(journal[c], journal'[c])
  BY <1>2 DEF SameButLate
<1>3. CASE \E r : OneMore(journal[c], journal'[c], r)
  BY <1>3 DEF OneMore
<1>4. ASSUME NEW e \in Commitment, NEW outcome, NEW by, EndedAt(e, outcome, by),
             e = c => n # intents[c].attempt
      PROVE  journal'[c][n].by = journal[c][n].by /\ journal'[c][n].outcome = journal[c][n].outcome
  BY <1>1, <1>4 DEF EndedAt, OneClosed
<1>5. ASSUME NEW e \in Commitment, EndedAt(e, "ambiguous", "lease_lost"), UNCHANGED workers
      PROVE  journal'[c][n].by = journal[c][n].by /\ journal'[c][n].outcome = journal[c][n].outcome
  BY <1>4, <1>5 DEF AnsweredNow
<1>6. ASSUME NEW w \in Worker, Finalize(w), workers[w].intent \in Commitment,
             intents[workers[w].intent].attempt = workers[w].attempt,
             EndedAt(workers[w].intent, workers[w].answer, "worker")
      PROVE  journal'[c][n].by = journal[c][n].by /\ journal'[c][n].outcome = journal[c][n].outcome
  <2>1. PICK e, answer : e = workers[w].intent /\ answer = workers[w].answer
    OBVIOUS
  <2>2. e = c => n # intents[c].attempt
    BY <1>6, <2>1 DEF AnsweredNow
  <2> QED BY <1>4, <1>6, <2>1, <2>2
<1>7. ASSUME NEW e \in Commitment, RefusedAt(e)
      PROVE  journal'[c][n].by = journal[c][n].by /\ journal'[c][n].outcome = journal[c][n].outcome
  BY <1>1, <1>3, <1>7 DEF RefusedAt
<1>8. ASSUME NEW w \in Worker, NEW e \in Commitment, StartedAt(w, e)
      PROVE  journal'[c][n].by = journal[c][n].by /\ journal'[c][n].outcome = journal[c][n].outcome
  BY <1>1, <1>3, <1>8 DEF StartedAt
<1>9. Still \/ GroupMoves \/ (\E e \in Commitment : DecidedAt(e)) => journal' = journal
  BY DEF Still, GroupMoves, RaisedAt, DecidedAt
<1> QED BY <1>1, <1>2, <1>5, <1>6, <1>7, <1>8, <1>9 DEF StepKind, Noted

\* An accepted create is the last of its generation: the next call is a change.
NoSecond(log) ==
  \A n, m \in CreatesIn(log) :
    n < m /\ log[n].gen = log[m].gen => log[n].outcome # "accepted"

\* A create is opened only where none was accepted, and answered where none follows.
LEMMA StepKeepsNoSecond ==
  ASSUME RInv, StepKind, NEW c \in Commitment, NoSecond(journal[c])
  PROVE  NoSecond(journal'[c])
<1>0. /\ intents[c] \in IntentType /\ journal[c] \in Seq(RecordType)
      /\ RowAt(intents[c], journal[c]) /\ LogAt(journal[c])
      /\ intents[c].status = "sending" => intents[c].attempt \in DOMAIN journal[c]
  BY RowFacts DEF RInv
<1>1. CASE journal'[c] = journal[c]
  BY <1>1
<1>2. CASE SameButLate(journal[c], journal'[c])
  <2>1. CreatesIn(journal'[c]) = CreatesIn(journal[c]) /\ CreatesIn(journal[c]) \subseteq DOMAIN journal[c]
    BY <1>2 DEF SameButLate, CreatesIn, OfACall
  <2> QED BY <1>2, <2>1 DEF NoSecond, SameButLate
<1>3. ASSUME NEW e \in Commitment, RefusedAt(e) PROVE NoSecond(journal'[c])
  <2>1. CASE e = c
    <3>1. PICK r : OneMore(journal[c], journal'[c], r) /\ ~OfACall(r)
      BY <1>3, <2>1 DEF RefusedAt
    <3>2. CreatesIn(journal'[c]) = CreatesIn(journal[c])
      BY <3>1 DEF CreatesIn, OneMore
    <3>3. CreatesIn(journal[c]) \subseteq DOMAIN journal[c]
      BY DEF CreatesIn
    <3> QED BY <3>1, <3>2, <3>3 DEF NoSecond, OneMore
  <2> QED BY <1>1, <1>3, <2>1 DEF RefusedAt
<1>4. ASSUME NEW w \in Worker, NEW e \in Commitment, StartedAt(w, e) PROVE NoSecond(journal'[c])
  <2>1. CASE e = c
    <3>1. PICK i, log, new, r :
            /\ i = intents[c] /\ log = journal[c] /\ new = journal'[c]
            /\ r = Record(c, Kind(c), ContentRevision(c), Bound(c, workers[w].endpoint),
                          workers[w].token, "open", "none")
      OBVIOUS
    <3>2. /\ OneMore(log, new, r) /\ r.gen = i.gen
          /\ r.kind = IF i.receipt = 0 THEN "create" ELSE "mutation"
      BY <1>4, <2>1, <3>1 DEF StartedAt, Record, Kind
    <3>3. \A n \in CreatesIn(log) :
            log[n].outcome = "accepted" /\ log[n].gen = i.gen => i.receipt # 0
      BY <1>0, <3>1 DEF RowAt
    <3>4. \A n \in CreatesIn(new) :
            \/ n \in CreatesIn(log) /\ new[n] = log[n] /\ n \in 1 .. Len(log)
            \/ n = Len(log) + 1 /\ new[n] = r /\ r.kind = "create"
      BY <3>2 DEF CreatesIn, OneMore
    <3>5. NoSecond(log) /\ Len(log) \in Nat
      BY <3>1, <3>2 DEF OneMore
    <3>6. NoSecond(new)
      BY <3>2, <3>3, <3>4, <3>5 DEF NoSecond
    <3> QED BY <3>1, <3>6
  <2> QED BY <1>1, <1>4, <2>1 DEF StartedAt
<1>5. ASSUME NEW e \in Commitment, NEW outcome, NEW by, EndedAt(e, outcome, by)
      PROVE  NoSecond(journal'[c])
  <2>1. CASE e = c
    <3>1. PICK k, log, new : k = intents[c].attempt /\ log = journal[c] /\ new = journal'[c]
      OBVIOUS
    <3>2. OneClosed(log, new, k, outcome, by) /\ by \in {"worker", "lease_lost"} /\ k = Len(log)
      BY <1>0, <1>5, <2>1, <3>1 DEF EndedAt, Ends, RowAt
    <3>3. CreatesIn(new) = CreatesIn(log) /\ CreatesIn(log) \subseteq 1 .. Len(log)
          /\ Len(log) \in Nat
      <4>1. DOMAIN log = 1 .. Len(log) /\ Len(log) \in Nat
        BY <1>0, <3>1
      <4> QED BY <3>2, <4>1 DEF OneClosed, CreatesIn, OfACall
    <3>4. \A n \in CreatesIn(log) : n # k => new[n] = log[n]
      BY <3>2, <3>3 DEF OneClosed, CreatesIn
    <3>5. \A n \in CreatesIn(log) : new[n].gen = log[n].gen
      BY <3>2, <3>4 DEF OneClosed
    <3>6. NoSecond(log)
      BY <3>1
    <3>7. NoSecond(new)
      BY <3>2, <3>3, <3>4, <3>5, <3>6 DEF NoSecond
    <3> QED BY <3>1, <3>7
  <2> QED BY <1>1, <1>5, <2>1 DEF EndedAt
<1>6. Still \/ GroupMoves \/ (\E e \in Commitment : DecidedAt(e)) => journal' = journal
  BY DEF Still, GroupMoves, RaisedAt, DecidedAt
<1> QED BY <1>1, <1>2, <1>3, <1>4, <1>5, <1>6 DEF StepKind, Noted

\* Nobody takes off, and nothing happens at the provider.
QuietSlots ==
  UNCHANGED made /\ \A w \in Worker : workers'[w] = workers[w] \/ ~InFlight(workers'[w])

\* The call of slot w ends, answered or not, with an effect at the provider or
\* without.  An acceptance has one; a refusal has none.
CallEnded(w, c, n, effect) ==
  /\ workers[w].pc = "calling" /\ c = workers[w].intent /\ n = workers[w].attempt
  /\ c \in Commitment /\ n \in DOMAIN journal[c]
  /\ \A d \in Commitment : made'[d] = IF d = c /\ effect THEN made[d] \cup {n} ELSE made[d]
  /\ \A v \in Worker \ {w} : workers'[v] = workers[v]
  /\ InFlight(workers'[w]) =>
       /\ workers'[w].pc = "answered" /\ workers'[w].intent = c /\ workers'[w].attempt = n
       /\ workers'[w].answer = "accepted" => effect
       /\ effect => workers'[w].answer \in {"accepted", "ambiguous"}

\* Steps beside the journal leave the slots quiet, or end a call.
LEMMA BesideFlights ==
  ASSUME IInv, BesideJournal
  PROVE  QuietSlots \/ \E w \in Worker, effect \in BOOLEAN :
                         CallEnded(w, workers[w].intent, workers[w].attempt, effect)
<1>0. TypeOK /\ \A w \in Worker : workers[w] \in WorkerType
  BY DEF IInv, TypeOK
<1>1. ASSUME NEW w \in Worker, NEW slot, workers' = [workers EXCEPT ![w] = slot],
             ~InFlight(slot), UNCHANGED made
      PROVE  QuietSlots
  BY <1>0, <1>1 DEF QuietSlots, TypeOK
<1>2. CASE UNCHANGED <<workers, made>>
  BY <1>2 DEF QuietSlots
<1>3. ~InFlight(Idle)
  BY DEF Idle, InFlight
<1>4. ASSUME NEW w \in Worker, NEW c \in Commitment, Claim(w, c) PROVE QuietSlots
  <2>1. PICK t : t = intents[c].claims + 1
    OBVIOUS
  <2>2. PICK slot : slot = [workers[w] EXCEPT !.pc = "leased", !.intent = c, !.token = t]
    OBVIOUS
  <2>3. ~InFlight(slot)
    BY <1>0, <2>2 DEF WorkerType, InFlight
  <2>4. workers' = [workers EXCEPT ![w] = slot] /\ UNCHANGED made
    BY <1>0, <1>4, <2>1, <2>2 DEF Claim, TypeOK
  <2> QED BY <1>1, <2>3, <2>4
<1>5. ASSUME NEW w \in Worker, PrepareEnds(w) PROVE QuietSlots
  <2>1. ASSUME NEW prep, NEW endpoint, Prepared(w, prep, endpoint) PROVE QuietSlots
    <3>1. PICK slot : slot = [workers[w] EXCEPT !.pc = "prepared", !.prep = prep,
                                                !.endpoint = endpoint]
      OBVIOUS
    <3>2. ~InFlight(slot)
      BY <1>0, <3>1 DEF WorkerType, InFlight
    <3>3. workers' = [workers EXCEPT ![w] = slot] /\ UNCHANGED made
      BY <1>0, <2>1, <3>1 DEF Prepared, TypeOK
    <3> QED BY <1>1, <3>2, <3>3
  <2>2. CASE PrepareSkips(w)
    BY <1>1, <1>3, <2>2 DEF PrepareSkips
  <2> QED BY <1>5, <2>1, <2>2 DEF PrepareEnds, PrepareReady, PrepareOrphaned, PrepareRefuses
<1>6. ASSUME NEW w \in Worker, BeginDenied(w) \/ BeginStale(w) \/ Crash(w) PROVE QuietSlots
  BY <1>1, <1>3, <1>6 DEF BeginDenied, BeginStale, Crash
<1>7. ASSUME NEW w \in Worker, workers[w].pc = "calling", NEW slot, NEW effect \in BOOLEAN,
             workers' = [workers EXCEPT ![w] = slot],
             made' = IF effect
                     THEN [made EXCEPT ![workers[w].intent] = @ \cup {workers[w].attempt}]
                     ELSE made,
             InFlight(slot) =>
               /\ slot.pc = "answered"
               /\ slot.intent = workers[w].intent /\ slot.attempt = workers[w].attempt
               /\ slot.answer = "accepted" => effect
               /\ effect => slot.answer \in {"accepted", "ambiguous"}
      PROVE  CallEnded(w, workers[w].intent, workers[w].attempt, effect)
  <2>1. PICK c, n : c = workers[w].intent /\ n = workers[w].attempt
    OBVIOUS
  <2>2. c \in Commitment /\ n \in DOMAIN journal[c]
    BY <1>7, <2>1 DEF IInv, SlotsHold
  <2>3. made' = IF effect THEN [made EXCEPT ![c] = @ \cup {n}] ELSE made
    BY <1>7, <2>1
  <2>4. \A d \in Commitment : made'[d] = IF d = c /\ effect THEN made[d] \cup {n} ELSE made[d]
    BY <1>0, <2>2, <2>3 DEF TypeOK
  <2>5. workers'[w] = slot /\ \A v \in Worker \ {w} : workers'[v] = workers[v]
    BY <1>0, <1>7 DEF TypeOK
  <2> QED BY <1>7, <2>1, <2>2, <2>4, <2>5 DEF CallEnded
<1>8. ASSUME NEW w \in Worker, NEW answer, NEW effect \in BOOLEAN, Answered(w, answer, effect),
             answer = "accepted" => effect, effect => answer \in {"accepted", "ambiguous"}
      PROVE  CallEnded(w, workers[w].intent, workers[w].attempt, effect)
  <2>1. PICK slot : slot = [workers[w] EXCEPT !.pc = "answered", !.answer = answer]
    OBVIOUS
  <2>2. /\ slot.pc = "answered" /\ slot.answer = answer
        /\ slot.intent = workers[w].intent /\ slot.attempt = workers[w].attempt
    BY <1>0, <2>1 DEF WorkerType
  <2>3. workers' = [workers EXCEPT ![w] = slot] /\ workers[w].pc = "calling"
    BY <1>0, <1>8, <2>1 DEF Answered, TypeOK
  <2>4. made' = IF effect
                THEN [made EXCEPT ![workers[w].intent] = @ \cup {workers[w].attempt}]
                ELSE made
    BY <1>8 DEF Answered
  <2> QED BY <1>7, <1>8, <2>2, <2>3, <2>4
<1>9. ASSUME NEW w \in Worker, CallEnds(w)
      PROVE  \E effect \in BOOLEAN : CallEnded(w, workers[w].intent, workers[w].attempt, effect)
  <2>1. CASE CallAccepted(w)
    BY <1>8, <2>1 DEF CallAccepted
  <2>2. CASE CallFindsNothing(w)
    BY <1>8, <2>2 DEF CallFindsNothing
  <2>3. CASE \E answer \in {"retryable", "permanent"} : CallRejected(w, answer)
    BY <1>8, <2>3 DEF CallRejected
  <2>4. CASE \E effect \in BOOLEAN : CallInDoubt(w, effect)
    BY <1>8, <2>4 DEF CallInDoubt
  <2> QED BY <1>9, <2>1, <2>2, <2>3, <2>4 DEF CallEnds
<1>10. ASSUME NEW w \in Worker, CrashAfterEffect(w)
       PROVE  CallEnded(w, workers[w].intent, workers[w].attempt, TRUE)
  BY <1>3, <1>7, <1>10 DEF CrashAfterEffect
<1>11. BesideJournal => \/ UNCHANGED <<workers, made>>
                        \/ \E w \in Worker :
                             \/ \E c \in Commitment : Claim(w, c)
                             \/ PrepareEnds(w) \/ BeginDenied(w) \/ BeginStale(w)
                             \/ CallEnds(w) \/ Crash(w) \/ CrashAfterEffect(w)
  BY DEF BesideJournal, LeaseExpires, LeaseOverruns, Lapse, DeadlinePasses, BackoffElapses, Expire,
         Relink, vars
<1> QED BY <1>2, <1>4, <1>5, <1>6, <1>9, <1>10, <1>11

\* What a step does to the slots in flight and at the provider.
FlightMoves ==
  \/ QuietSlots
  \/ /\ UNCHANGED journal
     /\ \E w \in Worker, effect \in BOOLEAN :
          CallEnded(w, workers[w].intent, workers[w].attempt, effect)
  \/ \E w \in Worker : workers[w].intent \in Commitment /\ StartedAt(w, workers[w].intent)

\* Every step does one of them.
LEMMA StepFlights == ASSUME IInv, StepKind PROVE FlightMoves
<1>1. CASE BesideJournal /\ Still
  BY <1>1, BesideFlights DEF FlightMoves, Still
<1>2. ASSUME NEW w \in Worker, workers' = [workers EXCEPT ![w] = Idle], UNCHANGED made
      PROVE  QuietSlots
  BY <1>2 DEF IInv, TypeOK, QuietSlots, InFlight, Idle
<1>3. ASSUME NEW w \in Worker, FinalizeLate(w), Noted PROVE QuietSlots
  BY <1>2, <1>3 DEF FinalizeLate
<1>4. ASSUME NEW w \in Worker, Refusal(w) PROVE QuietSlots
  BY <1>2, <1>4 DEF Refusal, Refused
<1>5. ASSUME NEW w \in Worker, Finalize(w) PROVE QuietSlots
  BY <1>2, <1>5 DEF Finalize
<1>6. ASSUME UNCHANGED <<workers, made>> PROVE QuietSlots
  BY <1>6 DEF QuietSlots
<1>7. ASSUME NEW c \in Commitment, EndedAt(c, "ambiguous", "lease_lost") /\ UNCHANGED workers
      PROVE  QuietSlots
  BY <1>6, <1>7 DEF EndedAt
<1>8. ASSUME GroupMoves \/ \E c \in Commitment : DecidedAt(c) PROVE QuietSlots
  BY <1>6, <1>8 DEF GroupMoves, RaisedAt, DecidedAt
<1> QED BY <1>1, <1>3, <1>4, <1>5, <1>7, <1>8 DEF StepKind, FlightMoves

\* A slot in flight works on an open record, or on one recovery gave up; what it
\* was told is what happened.
FlightAt(slot, log, m) ==
  InFlight(slot) =>
    /\ \/ log[slot.attempt].by = "none"
       \/ log[slot.attempt].by = "lease_lost" /\ log[slot.attempt].outcome = "ambiguous"
    /\ slot.pc = "answered" /\ slot.answer = "accepted" => slot.attempt \in m
    /\ slot.pc = "calling" \/ slot.answer \notin {"accepted", "ambiguous"} => slot.attempt \notin m

\* What exists at the provider: calls on record that were not refused; a receipt
\* names one of them, a create.
MessagesAt(i, log, m) ==
  /\ \A n \in m : n \in DOMAIN log /\ log[n].outcome \in {"open", "accepted", "ambiguous"}
  /\ i.receipt # 0 => i.receipt \in CreatesIn(log) \cap m

FlightsHold ==
  /\ \A w \in Worker : FlightAt(workers[w], journal[workers[w].intent], made[workers[w].intent])
  /\ \A c \in Commitment : /\ MessagesAt(intents[c], journal[c], made[c])
                           /\ NoSecond(journal[c])

FInv == RInv /\ SlotsApart /\ FlightsHold

\* The slot that answers a record now was the one in flight with it.
LEMMA AnswererFlies ==
  ASSUME IInv, NEW w \in Worker, Finalize(w)
  PROVE  InFlight(workers[w]) /\ workers'[w] = Idle /\ ~InFlight(workers'[w])
BY DEF IInv, TypeOK, Finalize, InFlight, Idle

\* What is at the provider only grows, by the attempts in flight.
LEMMA MadeGrows ==
  ASSUME FlightMoves, NEW c \in Commitment
  PROVE  /\ made[c] \subseteq made'[c]
         /\ \A n \in made'[c] : n \in made[c] \/ \E w \in Worker :
              /\ workers[w].pc = "calling" /\ workers[w].intent = c /\ workers[w].attempt = n
              /\ n \in DOMAIN journal[c] /\ UNCHANGED journal
<1>1. CASE UNCHANGED made
  BY <1>1
<1>2. CASE \E w \in Worker, effect \in BOOLEAN :
             CallEnded(w, workers[w].intent, workers[w].attempt, effect) /\ UNCHANGED journal
  BY <1>2 DEF CallEnded
<1> QED BY <1>1, <1>2 DEF FlightMoves, QuietSlots, StartedAt

\* A slot that stays in flight knows what it knew.
LEMMA FlightStays ==
  ASSUME FInv, StepKind, FlightMoves, NEW w \in Worker, InFlight(workers[w]),
         workers'[w] = workers[w]
  PROVE  FlightAt(workers'[w], journal'[workers'[w].intent], made'[workers'[w].intent])
<1>1. PICK c, n : c = workers[w].intent /\ n = workers[w].attempt
  OBVIOUS
<1>2. c \in Commitment /\ n \in DOMAIN journal[c] /\ IInv
  BY <1>1 DEF FInv, RInv, BInv, IInv, SlotsHold, InFlight
<1>3. FlightAt(workers[w], journal[c], made[c])
  BY <1>1 DEF FInv, FlightsHold
<1>4. \A v \in Worker \ {w} : InFlight(workers[v]) => workers[v].intent # c \/ workers[v].attempt # n
  BY <1>1 DEF FInv, SlotsApart
<1>5. \/ journal'[c][n].by = "none"
      \/ journal'[c][n].by = "lease_lost" /\ journal'[c][n].outcome = "ambiguous"
  <2>1. CASE ~AnsweredNow(c, n)
    <3>1. journal'[c][n].by = journal[c][n].by /\ journal'[c][n].outcome = journal[c][n].outcome
      BY <1>2, <2>1, AnswersKept DEF FInv
    <3> QED BY <1>1, <1>3, <3>1 DEF FlightAt
  <2>2. CASE EndedAt(c, "ambiguous", "lease_lost") /\ n = intents[c].attempt
    BY <2>2 DEF EndedAt, OneClosed
  <2>3. ASSUME NEW v \in Worker, Finalize(v), c = workers[v].intent, n = workers[v].attempt
        PROVE  FALSE
    <3>1. InFlight(workers[v]) /\ ~InFlight(workers'[v])
      BY <1>2, <2>3, AnswererFlies
    <3> QED BY <1>4, <2>3, <3>1
  <2> QED BY <2>1, <2>2, <2>3 DEF AnsweredNow
<1>6. n \in made'[c] <=> n \in made[c]
  <2>1. made[c] \subseteq made'[c]
    BY <1>2, MadeGrows
  <2>2. ASSUME n \in made'[c], n \notin made[c] PROVE FALSE
    <3>1. CASE QuietSlots \/ \E v \in Worker : StartedAt(v, workers[v].intent)
      BY <2>2, <3>1 DEF QuietSlots, StartedAt
    <3>2. ASSUME NEW v \in Worker, NEW effect \in BOOLEAN,
                 CallEnded(v, workers[v].intent, workers[v].attempt, effect)
          PROVE  FALSE
      <4>1. workers[v].pc = "calling" /\ InFlight(workers[v])
            /\ workers[v].intent = c /\ workers[v].attempt = n
        BY <1>2, <2>2, <3>2 DEF CallEnded, InFlight
      <4>2. v = w
        BY <1>4, <4>1
      <4>3. workers'[w].pc = "answered"
        BY <3>2, <4>2 DEF CallEnded
      <4> QED BY <4>1, <4>2, <4>3
    <3> QED BY <3>1, <3>2 DEF FlightMoves
  <2> QED BY <2>1, <2>2
<1>7. PICK slot, log, m : slot = workers[w] /\ log = journal'[c] /\ m = made'[c]
  OBVIOUS
<1>8. FlightAt(slot, log, m)
  BY <1>1, <1>3, <1>5, <1>6, <1>7 DEF FlightAt
<1> QED BY <1>1, <1>7, <1>8

\* Every slot in flight after a step knows what it has to.
LEMMA StepKeepsFlights ==
  ASSUME FInv, StepKind, FlightMoves, NEW w \in Worker
  PROVE  FlightAt(workers'[w], journal'[workers'[w].intent], made'[workers'[w].intent])
<1>0. IInv /\ \A c \in Commitment : \A n \in made[c] : n \in DOMAIN journal[c]
  BY DEF FInv, RInv, BInv, FlightsHold, MessagesAt
<1> SUFFICES ASSUME InFlight(workers'[w])
             PROVE  FlightAt(workers'[w], journal'[workers'[w].intent], made'[workers'[w].intent])
  BY DEF FlightAt
<1>1. CASE workers'[w] = workers[w]
  BY <1>1, FlightStays
<1>2. CASE workers'[w] # workers[w]
  <2>1. ASSUME NEW v \in Worker, NEW effect \in BOOLEAN, UNCHANGED journal,
               CallEnded(v, workers[v].intent, workers[v].attempt, effect)
        PROVE  FlightAt(workers'[w], journal'[workers'[w].intent], made'[workers'[w].intent])
    <3>1. PICK c, n, old, slot : /\ c = workers[w].intent /\ n = workers[w].attempt
                                 /\ old = workers[w] /\ slot = workers'[w]
      OBVIOUS
    <3>2. v = w
      BY <1>2, <2>1 DEF CallEnded
    <3>3. /\ old.pc = "calling" /\ slot.pc = "answered" /\ slot.intent = c /\ slot.attempt = n
          /\ slot.answer = "accepted" => effect
          /\ effect => slot.answer \in {"accepted", "ambiguous"}
          /\ made'[c] = IF effect THEN made[c] \cup {n} ELSE made[c]
      BY <2>1, <3>1, <3>2 DEF CallEnded
    <3>4. FlightAt(old, journal[c], made[c]) /\ old.attempt = n
      BY <3>1 DEF FInv, FlightsHold
    <3>5. journal'[c] = journal[c]
      BY <2>1
    <3>6. FlightAt(slot, journal[c], made'[c])
      BY <3>3, <3>4 DEF FlightAt, InFlight
    <3> QED BY <3>1, <3>3, <3>5, <3>6
  <2>2. ASSUME NEW v \in Worker, workers[v].intent \in Commitment, StartedAt(v, workers[v].intent)
        PROVE  FlightAt(workers'[w], journal'[workers'[w].intent], made'[workers'[w].intent])
    <3>1. PICK c, n, r : /\ c = workers[v].intent /\ n = Len(journal[c]) + 1
                         /\ r = Record(c, Kind(c), ContentRevision(c), Bound(c, workers[v].endpoint),
                                       workers[v].token, "open", "none")
      OBVIOUS
    <3>2. workers' = [workers EXCEPT ![v].pc = "calling", ![v].attempt = n]
      BY <2>2, <3>1 DEF StartedAt
    <3>3. w = v
      BY <1>0, <1>2, <3>2 DEF IInv, TypeOK
    <3>4. workers'[w].intent = c /\ workers'[w].attempt = n /\ workers'[w].pc = "calling"
      BY <1>0, <3>1, <3>2, <3>3 DEF IInv, TypeOK, WorkerType
    <3>5. OneMore(journal[c], journal'[c], r) /\ UNCHANGED made
      BY <2>2, <3>1 DEF StartedAt
    <3>6. journal'[c][n].by = "none" /\ n \notin DOMAIN journal[c]
      BY <3>1, <3>5 DEF OneMore, Record
    <3>7. n \notin made'[c]
      BY <1>0, <2>2, <3>1, <3>5, <3>6
    <3> QED BY <3>4, <3>6, <3>7 DEF FlightAt
  <2>3. ~QuietSlots
    BY <1>2 DEF QuietSlots
  <2> QED BY <2>1, <2>2, <2>3 DEF FlightMoves
<1> QED BY <1>1, <1>2

\* Creates stay creates.
LEMMA CreatesGrow ==
  ASSUME RInv, StepKind, NEW c \in Commitment
  PROVE  CreatesIn(journal[c]) \subseteq CreatesIn(journal'[c])
BY LogsGrow DEF LogGrows, CreatesIn

\* A new receipt names the attempt that was accepted, a create.
LEMMA ReceiptMoves ==
  ASSUME RInv, StepKind, NEW c \in Commitment
  PROVE  \/ intents'[c].receipt \in {0, intents[c].receipt}
         \/ \E w \in Worker :
              /\ Finalize(w) /\ workers[w].intent = c /\ workers[w].answer = "accepted"
              /\ intents'[c].receipt = workers[w].attempt
              /\ workers[w].attempt \in CreatesIn(journal[c])
<1>0. BInv /\ RowsStand
  BY DEF RInv
<1>1. ASSUME Beside(intents[c], intents'[c]) PROVE intents'[c].receipt = intents[c].receipt
  BY <1>1 DEF Beside, SameMessage
<1>2. CASE Still \/ Noted \/ GroupMoves
  BY <1>1, <1>2 DEF Still, Steady, Noted, GroupMoves, RaisedAt
<1>3. ASSUME NEW e \in Commitment, RefusedAt(e) PROVE intents'[c].receipt = intents[c].receipt
  BY <1>1, <1>3 DEF RefusedAt, SameMessage, Steady
<1>4. ASSUME NEW w \in Worker, NEW e \in Commitment, StartedAt(w, e)
      PROVE  intents'[c].receipt = intents[c].receipt
  <2>1. PICK i, n, endpoint : /\ i = intents[c] /\ n = Len(journal[e]) + 1
                              /\ endpoint = Bound(e, workers[w].endpoint)
    OBVIOUS
  <2>2. i \in IntentType
    BY <1>0, <2>1, RowFacts
  <2>3. \/ intents'[c] = i
        \/ intents'[c] = [i EXCEPT !.status = "sending", !.attempt = n, !.endpoint = endpoint]
    BY <1>4, <2>1 DEF StartedAt
  <2> QED BY <2>1, <2>2, <2>3 DEF IntentType
<1>5. ASSUME NEW e \in Commitment, NEW outcome, NEW by, EndedAt(e, outcome, by),
             e # c \/ outcome # "accepted"
      PROVE  intents'[c].receipt = intents[c].receipt
  BY <1>1, <1>5 DEF EndedAt, Ends
<1>6. ASSUME NEW w \in Worker, Finalize(w), workers[w].intent \in Commitment,
             intents[workers[w].intent].attempt = workers[w].attempt,
             EndedAt(workers[w].intent, workers[w].answer, "worker")
      PROVE  \/ intents'[c].receipt = intents[c].receipt
             \/ /\ workers[w].intent = c /\ workers[w].answer = "accepted"
                /\ intents'[c].receipt = workers[w].attempt
                /\ workers[w].attempt \in CreatesIn(journal[c])
  <2>1. PICK e, n, answer : /\ e = workers[w].intent /\ n = workers[w].attempt
                            /\ answer = workers[w].answer
    OBVIOUS
  <2>2. EndedAt(e, answer, "worker") /\ intents[e].attempt = n /\ e \in Commitment
    BY <1>6, <2>1
  <2>3. CASE e = c /\ answer = "accepted"
    <3>1. /\ Ends(intents[c], intents'[c], journal[c][n].kind, n, answer)
          /\ n \in DOMAIN journal[c] /\ journal[c][n].by = "none"
      BY <2>2, <2>3 DEF EndedAt, OneClosed
    <3>2. CASE journal[c][n].kind = "create"
      <4>1. n \in CreatesIn(journal[c])
        BY <3>1, <3>2 DEF CreatesIn, OfACall
      <4> QED BY <2>1, <2>3, <3>1, <3>2, <4>1 DEF Ends
    <3>3. CASE journal[c][n].kind # "create"
      BY <3>1, <3>3 DEF Ends
    <3> QED BY <3>2, <3>3
  <2>4. CASE ~(e = c /\ answer = "accepted")
    BY <1>5, <2>2, <2>4
  <2> QED BY <2>3, <2>4
<1>7. ASSUME NEW e \in Commitment, DecidedAt(e)
      PROVE  intents'[c].receipt \in {0, intents[c].receipt}
  BY <1>1, <1>7 DEF DecidedAt
<1>8. ASSUME NEW e \in Commitment, EndedAt(e, "ambiguous", "lease_lost")
      PROVE  intents'[c].receipt = intents[c].receipt
  BY <1>5, <1>8
<1> QED BY <1>2, <1>3, <1>4, <1>6, <1>7, <1>8 DEF StepKind

\* What exists at the provider stays on record, and receipts name what exists.
LEMMA StepKeepsMessages ==
  ASSUME FInv, StepKind, FlightMoves, NEW c \in Commitment
  PROVE  MessagesAt(intents'[c], journal'[c], made'[c])
<1>0. /\ IInv /\ RInv /\ MessagesAt(intents[c], journal[c], made[c]) /\ LogAt(journal[c])
      /\ \A w \in Worker : FlightAt(workers[w], journal[workers[w].intent], made[workers[w].intent])
  BY DEF FInv, RInv, BInv, FlightsHold, RowsStand
<1>1. CreatesIn(journal[c]) \subseteq CreatesIn(journal'[c]) /\ made[c] \subseteq made'[c]
  BY <1>0, CreatesGrow, MadeGrows
<1>2. ASSUME NEW n \in made'[c]
      PROVE  n \in DOMAIN journal'[c] /\ journal'[c][n].outcome \in {"open", "accepted", "ambiguous"}
  <2>1. CASE n \in made[c]
    <3>1. n \in DOMAIN journal[c] /\ journal[c][n].outcome \in {"open", "accepted", "ambiguous"}
      BY <1>0, <2>1 DEF MessagesAt
    <3>2. n \in DOMAIN journal'[c]
      BY <1>0, <3>1, LogsGrow DEF LogGrows
    <3>3. CASE ~AnsweredNow(c, n)
      BY <1>0, <3>1, <3>2, <3>3, AnswersKept
    <3>4. CASE EndedAt(c, "ambiguous", "lease_lost") /\ n = intents[c].attempt
      BY <3>2, <3>4 DEF EndedAt, OneClosed
    <3>5. ASSUME NEW w \in Worker, Finalize(w), c = workers[w].intent, n = workers[w].attempt,
                 n = intents[c].attempt, EndedAt(c, workers[w].answer, "worker")
          PROVE  journal'[c][n].outcome \in {"open", "accepted", "ambiguous"}
      <4>1. InFlight(workers[w]) /\ workers[w].pc = "answered"
        BY <1>0, <3>5, AnswererFlies DEF Finalize
      <4>2. workers[w].answer \in {"accepted", "ambiguous"}
        BY <1>0, <2>1, <3>5, <4>1 DEF FlightAt
      <4>3. journal'[c][n].outcome = workers[w].answer
        BY <3>5 DEF EndedAt, OneClosed
      <4> QED BY <4>2, <4>3
    <3> QED BY <3>2, <3>3, <3>4, <3>5 DEF AnsweredNow
  <2>2. CASE n \notin made[c]
    <3>1. PICK w \in Worker : /\ workers[w].pc = "calling" /\ workers[w].intent = c
                              /\ workers[w].attempt = n /\ n \in DOMAIN journal[c]
                              /\ UNCHANGED journal
      BY <2>2, MadeGrows
    <3>2. \/ journal[c][n].by = "none"
          \/ journal[c][n].by = "lease_lost" /\ journal[c][n].outcome = "ambiguous"
      BY <1>0, <3>1 DEF FlightAt, InFlight
    <3> QED BY <1>0, <3>1, <3>2 DEF LogAt
  <2> QED BY <2>1, <2>2
<1>3. ASSUME intents'[c].receipt # 0
      PROVE  intents'[c].receipt \in CreatesIn(journal'[c]) \cap made'[c]
  <2>1. CASE intents'[c].receipt = intents[c].receipt
    BY <1>0, <1>1, <1>3, <2>1 DEF MessagesAt
  <2>2. ASSUME NEW w \in Worker, Finalize(w), workers[w].intent = c,
               workers[w].answer = "accepted", workers[w].attempt \in CreatesIn(journal[c])
        PROVE  workers[w].attempt \in CreatesIn(journal'[c]) \cap made'[c]
    <3>1. InFlight(workers[w]) /\ workers[w].pc = "answered"
      BY <1>0, <2>2, AnswererFlies DEF Finalize
    <3>2. workers[w].attempt \in made[c]
      BY <1>0, <2>2, <3>1 DEF FlightAt
    <3> QED BY <1>1, <2>2, <3>2
  <2> QED BY <1>0, <1>3, <2>1, <2>2, ReceiptMoves
<1> QED BY <1>2, <1>3 DEF MessagesAt

\* The slots in flight, the journal and the provider agree, always.
LEMMA InitFlies == Init => FInv
<1> SUFFICES ASSUME Init PROVE FInv
  OBVIOUS
<1>1. RInv
  BY InitStands
<1>2. \A w \in Worker : ~InFlight(workers[w])
  BY DEF Init, Idle, InFlight
<1>3. \A c \in Commitment : /\ DOMAIN journal[c] = {} /\ made[c] = {}
                            /\ intents[c].receipt = 0 /\ CreatesIn(journal[c]) = {}
  BY DEF Init, CreatesIn
<1>4. SlotsApart
  BY <1>2 DEF SlotsApart
<1>5. FlightsHold
  BY <1>2, <1>3 DEF FlightsHold, FlightAt, MessagesAt, NoSecond
<1> QED BY <1>1, <1>4, <1>5 DEF FInv

\* Every step keeps the journal's account of the calls in flight, is one of the eight kinds, and says what it does to a flight.
LEMMA NextFlies == FInv /\ [Next]_vars => FInv' /\ StepKind /\ FlightMoves
<1> SUFFICES ASSUME FInv, [Next]_vars PROVE FInv' /\ StepKind /\ FlightMoves
  OBVIOUS
<1>1. RInv /\ IInv /\ HInv
  BY DEF FInv, RInv, BInv, HInv
<1>2. RInv' /\ StepKind
  BY <1>1, NextStands
<1>3. FlightMoves
  BY <1>1, <1>2, StepFlights
<1>4. SlotsApart'
  BY <1>1, StepIsHistory
<1>5. \A w \in Worker :
        FlightAt(workers'[w], journal'[workers'[w].intent], made'[workers'[w].intent])
  BY <1>2, <1>3, StepKeepsFlights
<1>6. \A c \in Commitment : /\ MessagesAt(intents'[c], journal'[c], made'[c])
                            /\ NoSecond(journal'[c])
  BY <1>1, <1>2, <1>3, StepKeepsMessages, StepKeepsNoSecond DEF FInv, FlightsHold
<1>7. FlightsHold'
  BY <1>5, <1>6 DEF FlightsHold
<1> QED BY <1>2, <1>3, <1>4, <1>7 DEF FInv

\* A second message is never made quietly: whichever workers died or overran, and
\* whatever recovery and people decided since, the call that made the first one is
\* on record as doubtful, or lies in a generation replaced with the risk on record
\* (beginAttemptTx, FinalizeDeliveryAttempt, recoverOne, decideOperator).
THEOREM DuplicatesStandExplained == Spec => []DuplicatesAreExplained
<1>1. ASSUME FInv, NEW c \in Commitment, NEW n \in Creates(c), NEW m \in Creates(c),
             n < m, n \in made[c]
      PROVE  IF journal[c][n].gen = journal[c][m].gen
             THEN journal[c][n].outcome = "ambiguous"
             ELSE journal[c][n].outcome = "ambiguous" => intents[c].risk
  <2>1. PICK i, log : i = intents[c] /\ log = journal[c]
    OBVIOUS
  <2>2. /\ i \in IntentType /\ log \in Seq(RecordType) /\ RowAt(i, log) /\ LogAt(log)
        /\ BoundAt(i, log) /\ NoSecond(log) /\ MessagesAt(i, log, made[c])
        /\ i.status = "sending" <=> i.attempt # 0
    BY <1>1, <2>1, RowFacts DEF FInv, RInv, FlightsHold
  <2>3. \A k \in DOMAIN log : log[k].by = "none" <=> k = i.attempt
    BY <1>1, <2>1 DEF FInv, RInv, BInv, IInv, AttemptFence
  <2>4. /\ n \in CreatesIn(log) /\ m \in CreatesIn(log)
        /\ n \in DOMAIN log /\ m \in DOMAIN log
    BY <1>1, <2>1 DEF Creates, CreatesIn, Call, OfACall
  <2>5. DOMAIN log = 1 .. Len(log) /\ Len(log) \in Nat
    BY <2>2
  <2>6. CASE log[n].gen = log[m].gen
    <3>1. log[n].outcome # "accepted"
      BY <1>1, <2>2, <2>4, <2>6 DEF NoSecond
    <3>2. log[n].outcome # "open"
      <4>1. n # i.attempt
        BY <1>1, <2>2, <2>4, <2>5 DEF RowAt
      <4> QED BY <2>2, <2>3, <2>4, <4>1 DEF LogAt
    <3> QED BY <1>1, <2>1, <2>2, <2>6, <3>1, <3>2 DEF MessagesAt
  <2>7. CASE log[n].gen # log[m].gen
    <3>1. log[n] \in RecordType /\ log[m] \in RecordType
      BY <2>2, <2>4
    <3>2. log[n].gen \in Nat /\ log[m].gen \in Nat /\ i.gen \in Nat
      BY <2>2, <3>1 DEF RecordType, IntentType
    <3>3. log[n].gen < i.gen
      BY <1>1, <2>2, <2>4, <2>7, <3>2 DEF LogAt, BoundAt
    <3> QED BY <2>1, <2>2, <2>4, <2>7, <3>3 DEF RowAt
  <2> QED BY <2>1, <2>6, <2>7
<1>2. FInv => DuplicatesAreExplained
  BY <1>1 DEF DuplicatesAreExplained
<1> QED BY <1>2, InitFlies, NextFlies, PTL DEF Spec

------------------------------------------------------------------------------
(* Satellites and their cards.                                                *)

\* The messages of a commitment at the provider, with their attempts on record.
Messages(c) == CreatesIn(journal[c]) \cap made[c]

\* What a satellite's row, journal and slot know of its card: where they send is a
\* message of the card's, and the closing reply has the last revision.
SatelliteRow(c) ==
  Satellite(c) => intents[c].endpoint = 0 \/ intents[c].endpoint \in Messages(Plan[c].parent)

SatelliteLog(c) ==
  Satellite(c) =>
    \A n \in DOMAIN journal[c] : OfACall(journal[c][n]) =>
      /\ journal[c][n].endpoint \in Messages(Plan[c].parent)
      /\ Plan[c].reply => snapshot.final /\ journal[c][n].revision = snapshot.revision

SatelliteSlot(w, c) ==
  workers[w].pc # "idle" /\ workers[w].intent = c /\ Satellite(c) =>
    /\ workers[w].pc = "prepared" /\ workers[w].prep = "ready" =>
         workers[w].endpoint \in Messages(Plan[c].parent)
    /\ Plan[c].reply => snapshot.final

SatellitesHold ==
  \A c \in Commitment : /\ SatelliteRow(c) /\ SatelliteLog(c)
                        /\ \A w \in Worker : SatelliteSlot(w, c)

\* What a step may make of a slot: it goes on with what it serves, or takes what
\* may go; it is ready with what it was, or with what its commitment proposes.
SlotGoes(w) ==
  workers'[w].pc # "idle" =>
    /\ \/ workers[w].pc # "idle" /\ workers'[w].intent = workers[w].intent
       \/ SatelliteMayGo(workers'[w].intent)
    /\ workers'[w].pc = "prepared" /\ workers'[w].prep = "ready" =>
         \/ workers'[w] = workers[w]
         \/ Asked(workers'[w].intent) /\ workers'[w].endpoint = Proposed(workers'[w].intent)

\* Every step goes so with every slot.
LEMMA SlotsGo == ASSUME IInv, StepKind PROVE \A w \in Worker : SlotGoes(w)
<1>0. workers \in [Worker -> WorkerType]
  BY DEF IInv, TypeOK
<1>1. ASSUME NEW w \in Worker, NEW slot, workers' = [workers EXCEPT ![w] = slot],
             slot.pc # "idle" =>
               /\ \/ workers[w].pc # "idle" /\ slot.intent = workers[w].intent
                  \/ SatelliteMayGo(slot.intent)
               /\ slot.pc = "prepared" /\ slot.prep = "ready" =>
                    Asked(slot.intent) /\ slot.endpoint = Proposed(slot.intent)
      PROVE  \A v \in Worker : SlotGoes(v)
  BY <1>0, <1>1 DEF SlotGoes
<1>2. CASE UNCHANGED workers
  BY <1>2 DEF SlotGoes
<1>3. ASSUME NEW w \in Worker, workers' = [workers EXCEPT ![w] = Idle]
      PROVE  \A v \in Worker : SlotGoes(v)
  BY <1>1, <1>3 DEF Idle
<1>4. ASSUME NEW w \in Worker, NEW c \in Commitment, Claim(w, c)
      PROVE  \A v \in Worker : SlotGoes(v)
  <2>1. PICK t, old : t = intents[c].claims + 1 /\ old = workers[w]
    OBVIOUS
  <2>2. PICK slot : slot = [old EXCEPT !.pc = "leased", !.intent = c, !.token = t]
    OBVIOUS
  <2>3. slot.pc = "leased" /\ slot.intent = c
    BY <1>0, <2>1, <2>2 DEF WorkerType
  <2>4. workers' = [workers EXCEPT ![w] = slot] /\ SatelliteMayGo(c)
    BY <1>0, <1>4, <2>1, <2>2 DEF Claim
  <2> QED BY <1>1, <2>3, <2>4
<1>5. ASSUME NEW w \in Worker, PrepareEnds(w) PROVE \A v \in Worker : SlotGoes(v)
  <2>1. ASSUME NEW prep, NEW endpoint, Prepared(w, prep, endpoint), workers[w].pc = "leased",
               prep = "ready" => /\ Asked(workers[w].intent)
                                 /\ endpoint = Proposed(workers[w].intent)
        PROVE  \A v \in Worker : SlotGoes(v)
    <3>1. PICK old : old = workers[w]
      OBVIOUS
    <3>2. PICK slot : slot = [old EXCEPT !.pc = "prepared", !.prep = prep, !.endpoint = endpoint]
      OBVIOUS
    <3>3. /\ slot.pc = "prepared" /\ slot.intent = old.intent /\ slot.prep = prep
          /\ slot.endpoint = endpoint
      BY <1>0, <3>1, <3>2 DEF WorkerType
    <3>4. workers' = [workers EXCEPT ![w] = slot]
      BY <1>0, <2>1, <3>1, <3>2 DEF Prepared
    <3> QED BY <1>1, <2>1, <3>1, <3>3, <3>4
  <2>2. CASE PrepareReady(w)
    <3>1. PICK endpoint : endpoint = Proposed(workers[w].intent)
      OBVIOUS
    <3> QED BY <2>1, <2>2, <3>1 DEF PrepareReady
  <2>3. CASE PrepareOrphaned(w)
    BY <2>1, <2>3 DEF PrepareOrphaned
  <2>4. CASE \E prep \in {"permanent", "transient"} : PrepareRefuses(w, prep)
    BY <2>1, <2>4 DEF PrepareRefuses
  <2>5. CASE PrepareSkips(w)
    BY <1>3, <2>5 DEF PrepareSkips
  <2> QED BY <1>5, <2>2, <2>3, <2>4, <2>5 DEF PrepareEnds
<1>6. ASSUME NEW w \in Worker, CallEnds(w) PROVE \A v \in Worker : SlotGoes(v)
  <2>1. ASSUME NEW answer, NEW effect, Answered(w, answer, effect)
        PROVE  \A v \in Worker : SlotGoes(v)
    <3>1. PICK old : old = workers[w]
      OBVIOUS
    <3>2. PICK slot : slot = [old EXCEPT !.pc = "answered", !.answer = answer]
      OBVIOUS
    <3>3. slot.pc = "answered" /\ slot.intent = old.intent
      BY <1>0, <3>1, <3>2 DEF WorkerType
    <3>4. workers' = [workers EXCEPT ![w] = slot] /\ old.pc = "calling"
      BY <1>0, <2>1, <3>1, <3>2 DEF Answered
    <3> QED BY <1>1, <3>1, <3>3, <3>4
  <2> QED BY <1>6, <2>1 DEF CallEnds, CallAccepted, CallFindsNothing, CallRejected, CallInDoubt
<1>7. ASSUME NEW w \in Worker, NEW c \in Commitment, StartedAt(w, c)
      PROVE  \A v \in Worker : SlotGoes(v)
  <2>1. PICK old, n : old = workers[w] /\ n = Len(journal[c]) + 1
    OBVIOUS
  <2>2. PICK slot : slot = [old EXCEPT !.pc = "calling", !.attempt = n]
    OBVIOUS
  <2>3. slot.pc = "calling" /\ slot.intent = old.intent
    BY <1>0, <2>1, <2>2 DEF WorkerType
  <2>4. workers' = [workers EXCEPT ![w] = slot] /\ old.pc = "prepared"
    BY <1>0, <1>7, <2>1, <2>2 DEF StartedAt
  <2> QED BY <1>1, <2>1, <2>3, <2>4
<1>8. BesideJournal => \/ UNCHANGED workers
                       \/ \E w \in Worker :
                            \/ \E c \in Commitment : Claim(w, c)
                            \/ PrepareEnds(w) \/ CallEnds(w)
                            \/ workers' = [workers EXCEPT ![w] = Idle]
  BY DEF BesideJournal, LeaseExpires, LeaseOverruns, Lapse, DeadlinePasses, BackoffElapses, Expire,
         Relink, vars, BeginDenied, BeginStale, Crash, CrashAfterEffect
<1>9. GroupMoves \/ (\E c \in Commitment : DecidedAt(c)) => UNCHANGED workers
  BY DEF GroupMoves, RaisedAt, DecidedAt
<1> QED BY <1>2, <1>3, <1>4, <1>5, <1>6, <1>7, <1>8, <1>9
        DEF StepKind, FinalizeLate, Refusal, Refused, Finalize

\* The last revision is the last.
LEMMA FinalStays == ASSUME StepKind, snapshot.final PROVE UNCHANGED snapshot
BY DEF StepKind, Still, Noted, RefusedAt, StartedAt, EndedAt, GroupMoves, RaisedAt, DecidedAt

\* A row is bound by the slot that starts its attempt, or left unbound.
LEMMA EndpointMoves ==
  ASSUME RInv, StepKind, NEW c \in Commitment
  PROVE  \/ intents'[c].endpoint \in {0, intents[c].endpoint}
         \/ \E w \in Worker : /\ workers[w].pc = "prepared" /\ workers[w].prep = "ready"
                              /\ workers[w].intent = c
                              /\ intents'[c].endpoint = workers[w].endpoint
<1>0. BInv /\ RowsStand
  BY DEF RInv
<1>1. ASSUME Beside(intents[c], intents'[c]) PROVE intents'[c].endpoint = intents[c].endpoint
  BY <1>1 DEF Beside, SameMessage
<1>2. CASE Still \/ Noted \/ GroupMoves
  BY <1>1, <1>2 DEF Still, Steady, Noted, GroupMoves, RaisedAt
<1>3. ASSUME NEW e \in Commitment, RefusedAt(e) PROVE intents'[c].endpoint = intents[c].endpoint
  BY <1>1, <1>3 DEF RefusedAt, SameMessage, Steady
<1>4. ASSUME NEW w \in Worker, NEW e \in Commitment, StartedAt(w, e)
      PROVE  \/ intents'[c].endpoint = intents[c].endpoint
             \/ /\ workers[w].pc = "prepared" /\ workers[w].prep = "ready"
                /\ workers[w].intent = c /\ intents'[c].endpoint = workers[w].endpoint
  <2>1. PICK i, n, endpoint : /\ i = intents[c] /\ n = Len(journal[e]) + 1
                              /\ endpoint = Bound(e, workers[w].endpoint)
    OBVIOUS
  <2>2. i \in IntentType
    BY <1>0, <2>1, RowFacts
  <2>3. CASE e = c
    <3>1. intents'[c] = [i EXCEPT !.status = "sending", !.attempt = n, !.endpoint = endpoint]
      BY <1>4, <2>1, <2>3 DEF StartedAt
    <3>2. intents'[c].endpoint = endpoint
      BY <2>2, <3>1 DEF IntentType
    <3> QED BY <1>4, <2>1, <2>3, <3>2 DEF StartedAt, Bound
  <2>4. CASE e # c
    BY <1>4, <2>4 DEF StartedAt
  <2> QED BY <2>3, <2>4
<1>5. ASSUME NEW e \in Commitment, NEW outcome, NEW by, EndedAt(e, outcome, by)
      PROVE  intents'[c].endpoint = intents[c].endpoint
  BY <1>1, <1>5 DEF EndedAt, Ends
<1>6. ASSUME NEW e \in Commitment, DecidedAt(e)
      PROVE  intents'[c].endpoint \in {0, intents[c].endpoint}
  BY <1>1, <1>6 DEF DecidedAt
<1> QED BY <1>2, <1>3, <1>4, <1>5, <1>6 DEF StepKind

\* A call is added by the slot that starts it, where its row is then bound.
LEMMA NewCalls ==
  ASSUME RInv, StepKind, NEW c \in Commitment, NEW n \in DOMAIN journal'[c],
         n \notin DOMAIN journal[c], OfACall(journal'[c][n])
  PROVE  /\ \E w \in Worker : workers[w].pc = "prepared" /\ workers[w].intent = c
         /\ journal'[c][n].endpoint = intents'[c].endpoint /\ journal'[c][n].endpoint # 0
         /\ journal'[c][n].revision = ContentRevision(c) /\ UNCHANGED snapshot
<1>0. BInv /\ RowsStand
  BY DEF RInv
<1>1. journal'[c] # journal[c] /\ ~Noted
  BY DEF Noted, SameButLate
<1>2. ASSUME NEW e \in Commitment, RefusedAt(e) PROVE FALSE
  BY <1>1, <1>2 DEF RefusedAt, OneMore
<1>3. ASSUME NEW e \in Commitment, NEW outcome, NEW by, EndedAt(e, outcome, by) PROVE FALSE
  BY <1>1, <1>3 DEF EndedAt, OneClosed
<1>4. Still \/ GroupMoves \/ (\E e \in Commitment : DecidedAt(e)) => journal' = journal
  BY DEF Still, GroupMoves, RaisedAt, DecidedAt
<1>5. PICK w \in Worker, e \in Commitment : StartedAt(w, e)
  BY <1>1, <1>2, <1>3, <1>4 DEF StepKind
<1>6. e = c
  BY <1>1, <1>5 DEF StartedAt
<1>7. PICK i, k, endpoint, r :
        /\ i = intents[c] /\ k = Len(journal[c]) + 1 /\ endpoint = Bound(c, workers[w].endpoint)
        /\ r = Record(c, Kind(c), ContentRevision(c), endpoint, workers[w].token, "open", "none")
  OBVIOUS
<1>8. /\ OneMore(journal[c], journal'[c], r)
      /\ intents'[c] = [i EXCEPT !.status = "sending", !.attempt = k, !.endpoint = endpoint]
      /\ workers[w].pc = "prepared" /\ workers[w].prep = "ready" /\ workers[w].intent = c
      /\ UNCHANGED snapshot
  BY <1>5, <1>6, <1>7 DEF StartedAt
<1>9. journal'[c][n] = r /\ r.endpoint = endpoint /\ r.revision = ContentRevision(c)
  BY <1>7, <1>8 DEF OneMore, Record
<1>10. intents'[c].endpoint = endpoint
  <2>1. i \in IntentType
    BY <1>0, <1>7, RowFacts
  <2> QED BY <1>8, <2>1 DEF IntentType
<1>11. endpoint # 0
  BY <1>0, <1>7, <1>8 DEF BInv, ReadyKnowsWhere, Bound
<1> QED BY <1>8, <1>9, <1>10, <1>11

\* Every step leaves every satellite under its card.
LEMMA StepKeepsSatellites ==
  ASSUME FInv, StepKind, FlightMoves, SatellitesHold
  PROVE  SatellitesHold'
<1>0. RInv /\ IInv
  BY DEF FInv, RInv, BInv
<1>1. ASSUME NEW p \in Commitment PROVE Messages(p) \subseteq Messages(p)'
  BY <1>0, <1>1, CreatesGrow, MadeGrows DEF Messages
<1>2. \A c \in Commitment : Satellite(c) => Plan[c].parent \in Commitment
  BY PlanAssumption DEF Satellite, PlanType
<1>3. ASSUME NEW c \in Commitment PROVE SatelliteRow(c)'
  <2> SUFFICES ASSUME Satellite(c), intents'[c].endpoint # 0
               PROVE  intents'[c].endpoint \in Messages(Plan[c].parent)'
    BY DEF SatelliteRow, Satellite
  <2>1. Messages(Plan[c].parent) \subseteq Messages(Plan[c].parent)'
    BY <1>1, <1>2
  <2>2. CASE intents'[c].endpoint = intents[c].endpoint
    BY <2>1, <2>2 DEF SatellitesHold, SatelliteRow
  <2>3. ASSUME NEW w \in Worker, workers[w].pc = "prepared", workers[w].prep = "ready",
               workers[w].intent = c
        PROVE  workers[w].endpoint \in Messages(Plan[c].parent)
    BY <2>3 DEF SatellitesHold, SatelliteSlot
  <2> QED BY <1>0, <2>1, <2>2, <2>3, EndpointMoves
<1>4. ASSUME NEW c \in Commitment PROVE SatelliteLog(c)'
  <2> SUFFICES ASSUME Satellite(c), NEW n \in DOMAIN journal'[c], OfACall(journal'[c][n])
               PROVE  /\ journal'[c][n].endpoint \in Messages(Plan[c].parent)'
                      /\ Plan[c].reply => /\ snapshot'.final
                                          /\ journal'[c][n].revision = snapshot'.revision
    BY DEF SatelliteLog, Satellite
  <2>1. Messages(Plan[c].parent) \subseteq Messages(Plan[c].parent)'
    BY <1>1, <1>2
  <2>2. CASE n \in DOMAIN journal[c]
    <3>1. /\ OfACall(journal[c][n]) /\ journal'[c][n].endpoint = journal[c][n].endpoint
          /\ journal'[c][n].revision = journal[c][n].revision
      BY <1>0, <2>2, LogsGrow DEF LogGrows
    <3>2. /\ journal[c][n].endpoint \in Messages(Plan[c].parent)
          /\ Plan[c].reply => snapshot.final /\ journal[c][n].revision = snapshot.revision
      BY <2>2, <3>1 DEF SatellitesHold, SatelliteLog
    <3> QED BY <2>1, <3>1, <3>2, FinalStays
  <2>3. CASE n \notin DOMAIN journal[c]
    <3>1. PICK w \in Worker : workers[w].pc = "prepared" /\ workers[w].intent = c
      BY <1>0, <2>3, NewCalls
    <3>2. /\ journal'[c][n].endpoint = intents'[c].endpoint /\ journal'[c][n].endpoint # 0
          /\ journal'[c][n].revision = ContentRevision(c) /\ UNCHANGED snapshot
      BY <1>0, <2>3, NewCalls
    <3>3. intents'[c].endpoint \in Messages(Plan[c].parent)'
      BY <1>3, <3>2 DEF SatelliteRow, Satellite
    <3>4. Plan[c].reply => snapshot.final
      BY <3>1 DEF SatellitesHold, SatelliteSlot
    <3>5. Plan[c].reply => ContentRevision(c) = snapshot.revision
      BY DEF ContentRevision
    <3> QED BY <3>2, <3>3, <3>4, <3>5
  <2> QED BY <2>2, <2>3
<1>5. ASSUME NEW c \in Commitment, NEW w \in Worker PROVE SatelliteSlot(w, c)'
  <2> SUFFICES ASSUME workers'[w].pc # "idle", workers'[w].intent = c, Satellite(c)
               PROVE  /\ workers'[w].pc = "prepared" /\ workers'[w].prep = "ready" =>
                           workers'[w].endpoint \in Messages(Plan[c].parent)'
                      /\ Plan[c].reply => snapshot'.final
    BY DEF SatelliteSlot, Satellite
  <2>1. PICK p : p = Plan[c].parent
    OBVIOUS
  <2>2. p \in Commitment /\ Messages(p) \subseteq Messages(p)'
    BY <1>1, <1>2, <2>1
  <2>3. SlotGoes(w)
    BY <1>0, SlotsGo
  <2>4. ASSUME workers'[w].pc = "prepared", workers'[w].prep = "ready"
        PROVE  workers'[w].endpoint \in Messages(p)'
    <3>1. CASE workers'[w] = workers[w]
      <4>1. workers[w].endpoint \in Messages(p)
        BY <2>1, <2>4, <3>1 DEF SatellitesHold, SatelliteSlot
      <4> QED BY <2>2, <3>1, <4>1
    <3>2. CASE Asked(c) /\ workers'[w].endpoint = Proposed(c)
      <4>1. workers'[w].endpoint = intents[p].receipt /\ intents[p].receipt # 0
        BY <2>1, <3>2 DEF Asked, Proposed
      <4>2. intents[p].receipt \in Messages(p)
        BY <2>2, <4>1 DEF FInv, FlightsHold, MessagesAt, Messages
      <4> QED BY <2>2, <4>1, <4>2
    <3> QED BY <2>3, <2>4, <3>1, <3>2 DEF SlotGoes
  <2>5. Plan[c].reply => snapshot'.final
    <3>1. CASE workers[w].pc # "idle" /\ workers[w].intent = c
      BY <3>1, FinalStays DEF SatellitesHold, SatelliteSlot
    <3>2. CASE SatelliteMayGo(c)
      BY <3>2, FinalStays DEF SatelliteMayGo
    <3> QED BY <2>3, <3>1, <3>2 DEF SlotGoes
  <2> QED BY <2>1, <2>4, <2>5
<1> QED BY <1>3, <1>4, <1>5 DEF SatellitesHold

\* A satellite is only ever posted under a message its card made, and the reply that
\* closes a thread only at the last revision, whatever happens to the card between
\* the claim, the unlocked read of its receipt and the call (satelliteGate,
\* prepareSatellite, beginAttemptTx).
THEOREM SatellitesStayUnderTheirCard == Spec => []SatelliteUnderItsCard
<1>1. Init => SatellitesHold
  <2>1. ASSUME Init, NEW c \in Commitment
        PROVE  /\ SatelliteRow(c) /\ SatelliteLog(c)
               /\ \A w \in Worker : SatelliteSlot(w, c)
    <3>1. /\ intents[c].endpoint = 0 /\ DOMAIN journal[c] = {}
          /\ \A w \in Worker : workers[w].pc = "idle"
      BY <2>1 DEF Init, Idle
    <3> QED BY <3>1 DEF SatelliteRow, SatelliteLog, SatelliteSlot
  <2> QED BY <2>1 DEF SatellitesHold
<1>2. FInv /\ SatellitesHold /\ [Next]_vars => FInv' /\ SatellitesHold'
  BY NextFlies, StepKeepsSatellites
<1>3. SatellitesHold => SatelliteUnderItsCard
  <2>1. \A c \in Commitment : Messages(c) = Creates(c) \cap made[c]
    BY DEF Messages, Creates, CreatesIn, Call, OfACall
  <2>2. \A c \in Commitment : Satellite(c) => Plan[c].parent \in Commitment
    BY PlanAssumption DEF Satellite, PlanType
  <2> QED BY <2>1, <2>2 DEF SatellitesHold, SatelliteLog, SatelliteUnderItsCard, Call, OfACall
<1> QED BY <1>1, <1>2, <1>3, InitFlies, PTL DEF Spec

------------------------------------------------------------------------------
(* The promise.                                                               *)

\* Every record, open or closed, stays in doubt or out of it.
DoubtStands(log, new) ==
  /\ Len(new) = Len(log) /\ DOMAIN new = DOMAIN log
  /\ \A n \in DOMAIN log : new[n].outcome = log[n].outcome

\* What Promise reads of c's journal, its open attempt and the provider stays.
LEMMA JournalReadsTheSame ==
  ASSUME NEW c \in Commitment, DoubtStands(journal[c], journal'[c]), made'[c] = made[c],
         intents'[c].attempt = intents[c].attempt
  PROVE  Contract!SameJournal(c)
<1>1. Doubted(c)' = Doubted(c)
  BY DEF Doubted, DoubtStands
<1> QED BY <1>1 DEF Contract!SameJournal, Contract!Silent, DoubtStands

\* A row beside somebody's transition is left, queued again or let go.
LEMMA BesideIsPromised ==
  ASSUME NEW c \in Commitment, Beside(intents[c], intents'[c]),
         DoubtStands(journal[c], journal'[c]), made'[c] = made[c]
  PROVE  Contract!Step(c) \/ Contract!Rests(c)
<1>1. Contract!SameJournal(c)
  BY JournalReadsTheSame DEF Beside, SameMessage
<1>2. CASE StageOf(intents'[c].status) = StageOf(intents[c].status)
  BY <1>1, <1>2 DEF Contract!Rests
<1>3. CASE StageOf(intents'[c].status) # StageOf(intents[c].status)
  <2>1. \/ /\ StageOf(intents[c].status) \in {"owed", "asked"}
           /\ StageOf(intents'[c].status) = "over"
        \/ /\ StageOf(intents[c].status) \in {"asked", "over", "kept"}
           /\ StageOf(intents'[c].status) = "owed"
    BY <1>3 DEF Beside, StageOf
  <2>2. \/ Contract!LetGo(c) \/ Contract!Reopens(c) \/ Contract!FallsBehind(c)
    BY <1>1, <2>1 DEF Contract!LetGo, Contract!Reopens, Contract!FallsBehind, Contract!Moves
  <2> QED BY <2>2 DEF Contract!Step
<1> QED BY <1>2, <1>3

\* A preparation refused is an attempt nobody called for.
LEMMA RefusalIsPromised ==
  ASSUME NEW c \in Commitment, RefusedAt(c)
  PROVE  Contract!Declines(c)
<1>1. PICK r : OneMore(journal[c], journal'[c], r) /\ r.outcome \in {"retryable", "permanent"}
  BY DEF RefusedAt
<1>2. Doubted(c)' = Doubted(c)
  <2>1. /\ DOMAIN journal[c] = 1 .. Len(journal[c]) /\ Len(journal[c]) \in Nat
        /\ DOMAIN journal'[c] = 1 .. Len(journal[c]) + 1
        /\ \A n \in DOMAIN journal[c] : journal'[c][n] = journal[c][n]
        /\ journal'[c][Len(journal[c]) + 1].outcome # "ambiguous"
    BY <1>1 DEF OneMore
  <2> QED BY <2>1 DEF Doubted
<1>3. /\ intents[c].status = "pending" /\ intents'[c].status \in {"pending", "permanent_failed"}
      /\ intents'[c].attempt = intents[c].attempt /\ made'[c] = made[c]
      /\ Len(journal'[c]) = Len(journal[c]) + 1
  BY <1>1 DEF RefusedAt, SameMessage, OneMore
<1>4. StageOf(intents[c].status) = "owed" /\ StageOf(intents'[c].status) \in {"owed", "over"}
  BY <1>3 DEF StageOf
<1> QED BY <1>2, <1>3, <1>4 DEF Contract!Declines, Contract!Moves, Contract!Silent

\* The attempt is on record before its call goes out.
LEMMA StartIsPromised ==
  ASSUME NEW w \in Worker, NEW c \in Commitment, intents[c] \in IntentType, StartedAt(w, c)
  PROVE  Contract!TakesUp(c)
<1>1. PICK r : OneMore(journal[c], journal'[c], r) /\ r.outcome = "open"
  BY DEF StartedAt, Record
<1>2. Doubted(c)' = Doubted(c)
  <2>1. /\ DOMAIN journal[c] = 1 .. Len(journal[c]) /\ Len(journal[c]) \in Nat
        /\ DOMAIN journal'[c] = 1 .. Len(journal[c]) + 1
        /\ \A n \in DOMAIN journal[c] : journal'[c][n] = journal[c][n]
        /\ journal'[c][Len(journal[c]) + 1].outcome # "ambiguous"
    BY <1>1 DEF OneMore
  <2> QED BY <2>1 DEF Doubted
<1>3. /\ intents[c].status = "pending" /\ intents'[c].status = "sending"
      /\ intents[c].attempt = 0 /\ intents'[c].attempt = Len(journal[c]) + 1
      /\ made'[c] = made[c] /\ Len(journal'[c]) = Len(journal[c]) + 1
  BY <1>1 DEF StartedAt, OneMore, IntentType
<1>4. StageOf(intents[c].status) = "owed" /\ StageOf(intents'[c].status) = "trying"
  BY <1>3 DEF StageOf
<1> QED BY <1>2, <1>3, <1>4 DEF Contract!TakesUp, Contract!Moves, Contract!Silent

\* An attempt ends as a success over an effect, as a failure over none, and
\* otherwise as a doubt.
LEMMA EndIsPromised ==
  ASSUME NEW c \in Commitment, NEW outcome \in Answers, NEW by, EndedAt(c, outcome, by),
         LogAt(journal[c]), intents'[c].attempt = 0,
         outcome = "accepted" => intents[c].attempt \in made[c],
         outcome \notin {"accepted", "ambiguous"} => intents[c].attempt \notin made[c]
  PROVE  Contract!Step(c)
<1>1. PICK n : n = intents[c].attempt
  OBVIOUS
<1>2. /\ OneClosed(journal[c], journal'[c], n, outcome, by) /\ made'[c] = made[c]
      /\ intents[c].status = "sending" /\ intents'[c].status # "sending"
      /\ outcome = "accepted" => intents'[c].status \in {"succeeded", "idle", "pending"}
      /\ outcome \in {"retryable", "permanent", "absent"} =>
           intents'[c].status \in {"pending", "permanent_failed", "canceled"}
  BY <1>1 DEF EndedAt, Ends
<1>3. Doubted(c)' = IF outcome = "ambiguous" THEN Doubted(c) \cup {n} ELSE Doubted(c)
  <2>1. journal[c][n].outcome = "open"
    BY <1>2 DEF OneClosed, LogAt
  <2> QED BY <1>2, <2>1 DEF Doubted, OneClosed
<1>4. StageOf(intents[c].status) = "trying"
      /\ StageOf(intents'[c].status) \in {"owed", "asked", "over", "kept"}
  BY <1>2 DEF StageOf
<1>5. Len(journal'[c]) = Len(journal[c])
  BY <1>2 DEF OneClosed
<1>6. CASE outcome = "ambiguous"
  <2>1. Contract!Doubts(c)
    BY <1>1, <1>2, <1>3, <1>4, <1>5, <1>6
       DEF Contract!Doubts, Contract!Closes, Contract!Moves, Contract!Silent
  <2> QED BY <2>1 DEF Contract!Step
<1>7. CASE outcome = "accepted"
  <2>1. StageOf(intents'[c].status) \in {"kept", "owed"}
    BY <1>2, <1>7 DEF StageOf
  <2>2. Contract!Succeeds(c)
    BY <1>1, <1>2, <1>3, <1>4, <1>5, <1>7, <2>1
       DEF Contract!Succeeds, Contract!Closes, Contract!Moves, Contract!Silent
  <2> QED BY <2>2 DEF Contract!Step
<1>8. CASE outcome \in {"retryable", "permanent", "absent"}
  <2>1. StageOf(intents'[c].status) \in {"owed", "over"}
    BY <1>2, <1>8 DEF StageOf
  <2>2. Contract!Fails(c)
    BY <1>1, <1>2, <1>3, <1>4, <1>5, <1>8, <2>1
       DEF Contract!Fails, Contract!Closes, Contract!Moves, Contract!Silent
  <2> QED BY <2>2 DEF Contract!Step
<1> QED BY <1>6, <1>7, <1>8 DEF Answers

\* A person sends again, gives up or vouches; only what nobody could confirm can
\* be vouched for.
LEMMA DecisionIsPromised ==
  ASSUME NEW c \in Commitment, DecidedAt(c), intents'[c].attempt = intents[c].attempt
  PROVE  Contract!Step(c) \/ Contract!Rests(c)
<1>1. Contract!SameJournal(c)
  <2>1. journal'[c] = journal[c] /\ made'[c] = made[c]
    BY DEF DecidedAt
  <2> QED BY <2>1, JournalReadsTheSame DEF DoubtStands
<1>2. /\ intents[c].status \in {"manual_review", "permanent_failed", "expired"}
      /\ \/ intents'[c].status \in {"pending", "canceled"}
         \/ intents[c].status = "manual_review" /\ intents'[c].status \in {"succeeded", "idle"}
  BY DEF DecidedAt, Judged
<1>3. CASE intents'[c].status = "pending"
  <2>1. Contract!Reopens(c)
    BY <1>1, <1>2, <1>3 DEF Contract!Reopens, Contract!Moves, StageOf
  <2> QED BY <2>1 DEF Contract!Step
<1>4. CASE intents'[c].status = "canceled"
  <2>1. Contract!LetGo(c) \/ Contract!Rests(c)
    BY <1>1, <1>2, <1>4 DEF Contract!LetGo, Contract!Rests, Contract!Moves, StageOf
  <2> QED BY <2>1 DEF Contract!Step
<1>5. CASE intents[c].status = "manual_review" /\ intents'[c].status \in {"succeeded", "idle"}
  <2>1. Contract!Vouched(c)
    BY <1>1, <1>5 DEF Contract!Vouched, Contract!Moves, StageOf
  <2> QED BY <2>1 DEF Contract!Step
<1> QED BY <1>2, <1>3, <1>4, <1>5

\* A call has its effect under the attempt that is open, or one that was put in
\* doubt meanwhile.
LEMMA EffectIsPromised ==
  ASSUME FInv, NEW w \in Worker, workers[w].pc = "calling", UNCHANGED <<intents, journal>>,
         made' = [made EXCEPT ![workers[w].intent] = @ \cup {workers[w].attempt}],
         NEW c \in Commitment
  PROVE  Contract!Step(c) \/ Contract!Rests(c)
<1>1. PICK n : n = workers[w].attempt
  OBVIOUS
<1>2. made \in [Commitment -> SUBSET Nat]
  BY DEF FInv, RInv, BInv, IInv, TypeOK
<1>3. CASE c # workers[w].intent
  <2>1. DoubtStands(journal[c], journal'[c]) /\ made'[c] = made[c]
        /\ intents'[c] = intents[c]
    BY <1>2, <1>3 DEF DoubtStands
  <2>2. Contract!SameJournal(c)
    BY <2>1, JournalReadsTheSame
  <2> QED BY <2>1, <2>2 DEF Contract!Rests
<1>4. CASE c = workers[w].intent
  <2>1. /\ made'[c] = made[c] \cup {n} /\ journal'[c] = journal[c] /\ intents'[c] = intents[c]
        /\ Doubted(c)' = Doubted(c)
    BY <1>1, <1>2, <1>4 DEF Doubted
  <2>2. n \in DOMAIN journal[c] /\ n # 0
    <3>1. journal[c] \in Seq(RecordType)
      BY DEF FInv, RInv, BInv, IInv, TypeOK
    <3>2. n \in DOMAIN journal[c]
      BY <1>1, <1>4 DEF FInv, RInv, BInv, IInv, SlotsHold
    <3> QED BY <3>1, <3>2
  <2>3. journal[c][n].by = "none" \/ journal[c][n].outcome = "ambiguous"
    BY <1>1, <1>4 DEF FInv, FlightsHold, FlightAt, InFlight
  <2>4. n = intents[c].attempt \/ n \in Doubted(c)
    BY <2>2, <2>3 DEF FInv, RInv, BInv, IInv, AttemptFence, Doubted
  <2>5. Contract!Happens(c)
    BY <2>1, <2>2, <2>4 DEF Contract!Happens
  <2> QED BY <2>5 DEF Contract!Step
<1> QED BY <1>3, <1>4

\* Beside the journal, only a call that ends moves anything at the provider.
EffectOf(w) ==
  /\ workers[w].pc = "calling" /\ UNCHANGED <<intents, journal>>
  /\ made' = [made EXCEPT ![workers[w].intent] = @ \cup {workers[w].attempt}]

\* No other step does.
LEMMA EffectsAreOfCalls ==
  ASSUME BesideJournal
  PROVE  UNCHANGED made \/ \E w \in Worker : EffectOf(w)
<1>1. CASE \E c \in Commitment : \/ LeaseExpires(c) \/ LeaseOverruns(c) \/ DeadlinePasses(c)
                                 \/ BackoffElapses(c) \/ Expire(c)
  BY <1>1 DEF LeaseExpires, LeaseOverruns, Lapse, DeadlinePasses, BackoffElapses, Expire
<1>2. CASE \E w \in Worker : \/ \E c \in Commitment : Claim(w, c)
                             \/ PrepareEnds(w) \/ BeginDenied(w) \/ BeginStale(w) \/ Crash(w)
  BY <1>2 DEF Claim, PrepareEnds, PrepareReady, PrepareOrphaned, PrepareSkips, PrepareRefuses,
              Prepared, BeginDenied, BeginStale, Crash
<1>3. CASE \E w \in Worker : CallEnds(w) \/ CrashAfterEffect(w)
  <2>1. PICK w \in Worker : CallEnds(w) \/ CrashAfterEffect(w)
    BY <1>3
  <2>2. CASE CrashAfterEffect(w)
    BY <2>2 DEF CrashAfterEffect, EffectOf
  <2>3. CASE CallEnds(w)
    <3>1. \E answer, effect : Answered(w, answer, effect)
      BY <2>3 DEF CallEnds, CallAccepted, CallFindsNothing, CallRejected, CallInDoubt
    <3> QED BY <3>1 DEF Answered, EffectOf
  <2> QED BY <2>1, <2>2, <2>3
<1>4. CASE \E c \in Commitment, to \in Address : Relink(c, to)
  BY <1>4 DEF Relink
<1>5. CASE UNCHANGED vars
  BY <1>5 DEF vars
<1> QED BY <1>1, <1>2, <1>3, <1>4, <1>5 DEF BesideJournal

\* Every step is, for every commitment, a step of its promise or none.
LEMMA StepIsPromised ==
  ASSUME FInv, FInv', StepKind
  PROVE  Contract!Next
<1> SUFFICES ASSUME NEW c \in Commitment PROVE Contract!Rests(c) \/ Contract!Step(c)
  BY DEF Contract!Next
<1>0. /\ intents[c] \in IntentType /\ LogAt(journal[c])
      /\ intents[c].status # "sending" => intents[c].attempt = 0
      /\ intents'[c].status # "sending" => intents'[c].attempt = 0
  BY DEF FInv, RInv, BInv, IInv, TypeOK, AttemptFence, RowsStand
<1>1. CASE BesideJournal /\ Still
  <2>1. CASE UNCHANGED made
    BY <1>1, <2>1, BesideIsPromised DEF Still, Steady, DoubtStands
  <2>2. CASE \E w \in Worker : EffectOf(w)
    BY <2>2, EffectIsPromised DEF EffectOf
  <2> QED BY <1>1, <2>1, <2>2, EffectsAreOfCalls
<1>2. CASE \E w \in Worker : FinalizeLate(w) /\ Noted
  <2>1. Beside(intents[c], intents'[c]) /\ DoubtStands(journal[c], journal'[c]) /\ made'[c] = made[c]
    BY <1>2 DEF Noted, Beside, SameMessage, SameButLate, DoubtStands
  <2> QED BY <2>1, BesideIsPromised
<1>3. CASE \E w \in Worker : /\ Refusal(w) /\ workers[w].intent \in Commitment
                             /\ RefusedAt(workers[w].intent)
  <2>1. PICK d \in Commitment : RefusedAt(d)
    BY <1>3
  <2>2. CASE c = d
    BY <2>1, <2>2, RefusalIsPromised DEF Contract!Step
  <2>3. CASE c # d
    <3>1. Beside(intents[c], intents'[c]) /\ DoubtStands(journal[c], journal'[c]) /\ made'[c] = made[c]
      BY <2>1, <2>3 DEF RefusedAt, Steady, DoubtStands
    <3> QED BY <3>1, BesideIsPromised
  <2> QED BY <2>2, <2>3
<1>4. CASE \E w \in Worker : workers[w].intent \in Commitment /\ StartedAt(w, workers[w].intent)
  <2>1. PICK w \in Worker, d \in Commitment : StartedAt(w, d)
    BY <1>4
  <2>2. CASE c = d
    BY <1>0, <2>1, <2>2, StartIsPromised DEF Contract!Step
  <2>3. CASE c # d
    <3>1. Beside(intents[c], intents'[c]) /\ DoubtStands(journal[c], journal'[c]) /\ made'[c] = made[c]
      BY <2>1, <2>3 DEF StartedAt, Beside, SameMessage, DoubtStands
    <3> QED BY <3>1, BesideIsPromised
  <2> QED BY <2>2, <2>3
<1>5. ASSUME NEW d \in Commitment, NEW outcome, NEW by, EndedAt(d, outcome, by),
             outcome = "accepted" => intents[d].attempt \in made[d],
             outcome \notin {"accepted", "ambiguous"} => intents[d].attempt \notin made[d]
      PROVE  Contract!Step(c) \/ Contract!Rests(c)
  <2>1. CASE c = d
    <3>1. intents'[c].attempt = 0 /\ outcome \in Answers
      BY <1>0, <1>5, <2>1 DEF EndedAt, Ends
    <3> QED BY <1>0, <1>5, <2>1, <3>1, EndIsPromised
  <2>2. CASE c # d
    <3>1. Beside(intents[c], intents'[c]) /\ DoubtStands(journal[c], journal'[c]) /\ made'[c] = made[c]
      BY <1>5, <2>2 DEF EndedAt, DoubtStands
    <3> QED BY <3>1, BesideIsPromised
  <2> QED BY <2>1, <2>2
<1>6. CASE \E d \in Commitment : EndedAt(d, "ambiguous", "lease_lost") /\ UNCHANGED workers
  BY <1>5, <1>6
<1>7. CASE \E w \in Worker : /\ Finalize(w) /\ workers[w].intent \in Commitment
                             /\ intents[workers[w].intent].attempt = workers[w].attempt
                             /\ EndedAt(workers[w].intent, workers[w].answer, "worker")
  <2>1. PICK w \in Worker : /\ Finalize(w) /\ workers[w].intent \in Commitment
                            /\ intents[workers[w].intent].attempt = workers[w].attempt
                            /\ EndedAt(workers[w].intent, workers[w].answer, "worker")
    BY <1>7
  <2>2. PICK d \in Commitment : d = workers[w].intent
    BY <2>1
  <2>3. workers[w].pc = "answered"
    BY <2>1 DEF Finalize
  <2>4. /\ workers[w].answer = "accepted" => workers[w].attempt \in made[d]
        /\ workers[w].answer \notin {"accepted", "ambiguous"} => workers[w].attempt \notin made[d]
    BY <2>2, <2>3 DEF FInv, FlightsHold, FlightAt, InFlight
  <2> QED BY <1>5, <2>1, <2>2, <2>4
<1>8. CASE GroupMoves
  <2>1. PICK cards, threads, final, withdrawing : RaisedAt(cards, threads, final, withdrawing)
    BY <1>8 DEF GroupMoves
  <2>2. Beside(intents[c], intents'[c]) /\ DoubtStands(journal[c], journal'[c]) /\ made'[c] = made[c]
    BY <2>1 DEF RaisedAt, DoubtStands
  <2> QED BY <2>2, BesideIsPromised
<1>9. CASE \E d \in Commitment : DecidedAt(d)
  <2>1. PICK d \in Commitment : DecidedAt(d)
    BY <1>9
  <2>2. CASE c = d
    <3>1. intents[c].attempt = 0 /\ intents'[c].attempt = 0
      BY <1>0, <2>1, <2>2 DEF DecidedAt, Judged
    <3> QED BY <2>1, <2>2, <3>1, DecisionIsPromised
  <2>3. CASE c # d
    <3>1. Beside(intents[c], intents'[c]) /\ DoubtStands(journal[c], journal'[c]) /\ made'[c] = made[c]
      BY <2>1, <2>3 DEF DecidedAt, DoubtStands
    <3> QED BY <3>1, BesideIsPromised
  <2> QED BY <2>2, <2>3
<1> QED BY <1>1, <1>2, <1>3, <1>4, <1>6, <1>7, <1>8, <1>9 DEF StepKind

\* The delivery implements Promise: an effect is on record before it happens, a lost
\* attempt is a doubt and never a failure, only an effect is reported as a success,
\* and nothing that was promised is let go while it may be going out.
THEOREM DeliveryKeepsItsPromise == Spec => KeepsThePromise
<1>1. Init => Contract!Init
  BY DEF Init, Contract!Init, Doubted, StageOf
<1>2. FInv /\ FInv' /\ StepKind => Contract!Next
  BY StepIsPromised
<1> QED BY <1>1, <1>2, InitFlies, NextFlies, PTL DEF Spec, KeepsThePromise, Contract!Spec

============================================================================
