--------------------------- MODULE DeliveryMachine ---------------------------
(***************************************************************************)
(* The decision table of one outbound commitment: internal/outbound/       *)
(* machine.go.  Pure operators: what a commitment does next is a function  *)
(* of its own record and of what has just been learned about it.           *)
(*                                                                         *)
(* A commitment is read through the record the machine reads (Intent):     *)
(*   status, form, completion, policy, bound, cancel, withdrawn, desired,  *)
(*   receipt, satellite, door.                                             *)
(* A move says where the commitment goes, which effects the store has to   *)
(* write with it, and the line the alert's history gets.  ErrInvalid-      *)
(* Transition is the move Invalid: the store writes nothing.               *)
(***************************************************************************)
EXTENDS Integers

Statuses == {"pending", "sending", "idle", "manual_review", "awaiting_receipt",
             "succeeded", "permanent_failed", "expired", "no_contact", "canceled"}

Terminal == {"succeeded", "permanent_failed", "expired", "no_contact", "canceled"}

Forms       == {"one_shot", "editable"}
Completions == {"on_acceptance", "on_provider_receipt"}
Policies    == {"retry", "manual_review", "assume_accepted", "reconcile_then_retry"}
Outcomes    == {"accepted", "retryable", "permanent", "ambiguous", "canceled"}
Decisions   == {"assume_accepted", "cancel", "retry_current", "retry_new"}
Verdicts    == {"happened", "not_placed", "unknown", "still_going"}

Effects == {"OpenGeneration", "NewGeneration", "ClearLease", "ClearCurrentAttempt",
            "ConsumeCancellation", "ScheduleRetry", "ScheduleNow", "ResetFailureStreak",
            "BumpFailureStreak", "ApplyRevision", "StoreReceipt", "TriggerGroup",
            "RecordDuplicateRisk", "RaiseFailureSignal", "AwaitReceipt", "WithdrawObligation"}

\* The revision of an attempt that applies none (AttemptRevision == nil).
NoRevision == -1

Move(to, effects, line) == [to |-> to, effects |-> effects, line |-> line]

Invalid == Move("invalid", {}, "none")

Valid(move) == move.to # "invalid"

With(move, effects, line) ==
  IF Valid(move) THEN Move(move.to, move.effects \cup effects, line) ELSE move

------------------------------------------------------------------------------
(* What several rows of the table share.                                   *)

\* Mutant: the open attempt outlives its lease.
ReleasedLeaseOnly == {"ClearLease"}

\* Leaving "sending": the lease and the open attempt go together.
Released == {"ClearLease", "ClearCurrentAttempt"}

Repeat(line) == Move("pending", Released \cup {"BumpFailureStreak", "ScheduleRetry"}, line)

ToReview(line) == Move("manual_review", Released \cup {"BumpFailureStreak"}, line)

Settled == Released \cup {"ResetFailureStreak", "ApplyRevision", "StoreReceipt", "TriggerGroup"}

ProofLine(proof) ==
  CASE proof = "accepted"           -> "sent"
    [] proof = "provider_confirmed" -> "provider_confirmed"
    [] proof = "assumed"            -> "assumed_accepted"

SettleApplied(i, proof, revision, final) ==
  LET effects == Settled \cup (IF proof = "assumed" THEN {"RecordDuplicateRisk"} ELSE {})
      line    == ProofLine(proof)
  IN CASE i.form = "one_shot"     -> Move("succeeded", effects, line)
       [] i.form = "editable" /\ revision = NoRevision -> Invalid
       [] i.form = "editable" /\ revision # NoRevision /\ final ->
            Move("succeeded", effects, line)
       [] i.form = "editable" /\ revision # NoRevision /\ ~final /\ revision >= i.desired ->
            Move("idle", effects, line)
       [] OTHER -> Move("pending", effects \cup {"ScheduleNow"}, line)

\* An acceptance that only means "queued".
AwaitReceipt(i) ==
  IF i.form # "one_shot" THEN Invalid
  ELSE Move("awaiting_receipt",
            Released \cup {"ResetFailureStreak", "StoreReceipt", "AwaitReceipt"}, "handed_over")

\* The provider says the call did not take place: a new generation, at once.
CallAgain(released) ==
  Move("pending", released \cup {"NewGeneration", "ScheduleNow", "BumpFailureStreak"}, "not_placed")

------------------------------------------------------------------------------
(* One operator per trigger.                                               *)

DecidePreparation(i, outcome) ==
  IF i.status # "pending" THEN Invalid
  ELSE CASE outcome = "ready" ->
              Move("sending", IF i.bound THEN {} ELSE {"OpenGeneration"}, "none")
         [] outcome = "permanent" ->
              Move("permanent_failed",
                   {"ClearLease", "BumpFailureStreak", "RaiseFailureSignal"}, "failed")
         [] outcome = "transient" ->
              Move("pending", {"ClearLease", "BumpFailureStreak", "ScheduleRetry"}, "none")
         [] outcome = "no_contact" -> Move("no_contact", {"ClearLease"}, "no_contact")
         [] OTHER -> Invalid

\* A withdrawal beats every outcome but the one that produced an effect.
FinishWithdrawn(i, outcome, revision, final) ==
  CASE outcome = "accepted" /\ i.completion = "on_provider_receipt" ->
         With(AwaitReceipt(i), {"ConsumeCancellation", "WithdrawObligation"}, "handed_over")
    [] outcome = "accepted" /\ i.completion = "on_acceptance" ->
         With(SettleApplied(i, "accepted", revision, final), {"ConsumeCancellation"},
              "sent_alongside_cancel")
    [] outcome \in Outcomes \ {"accepted"} ->
         Move("canceled", Released \cup {"ConsumeCancellation"}, "canceled")
    [] OTHER -> Invalid

\* The fork on "nobody knows": the policy decides which way to be wrong.
DecideAmbiguous(i, revision, final) ==
  CASE i.policy \in {"retry", "reconcile_then_retry"} -> Repeat("none")
    [] i.policy = "manual_review" -> ToReview("none")
    [] i.policy = "assume_accepted" /\ i.form = "one_shot" ->
         SettleApplied(i, "assumed", revision, final)
    [] OTHER -> Invalid

\* A refused call: in doubt, wait for the doubt; settled, the next integration.
RefusedCall(doubt) ==
  IF doubt THEN Move("awaiting_receipt",
                     Released \cup {"BumpFailureStreak", "AwaitReceipt"}, "none")
           ELSE CallAgain(Released)

DecideFinish(i, outcome, revision, final, doubt) ==
  CASE i.status # "sending" -> Invalid
    [] i.status = "sending" /\ i.cancel -> FinishWithdrawn(i, outcome, revision, final)
    [] i.status = "sending" /\ ~i.cancel /\ outcome = "accepted" ->
         IF i.completion = "on_acceptance" THEN SettleApplied(i, "accepted", revision, final)
                                           ELSE AwaitReceipt(i)
    [] i.status = "sending" /\ ~i.cancel /\ outcome = "retryable" -> Repeat("none")
    [] i.status = "sending" /\ ~i.cancel /\ outcome = "permanent" ->
         IF i.completion = "on_provider_receipt" /\ i.form = "one_shot"
         THEN RefusedCall(doubt)
         ELSE Move("permanent_failed",
                   Released \cup {"BumpFailureStreak", "RaiseFailureSignal"}, "failed")
    [] i.status = "sending" /\ ~i.cancel /\ outcome = "ambiguous" ->
         DecideAmbiguous(i, revision, final)
    [] OTHER -> Invalid

\* Mutant: recovery leaves a commitment that was asked to stop to its worker.
DecideRecoverUnasked(i, expired, revision, final) ==
  IF i.cancel THEN Invalid ELSE Repeat("lease_lost")

\* A worker died, or lost its lease, with an attempt open.
DecideRecover(i, expired, revision, final) ==
  CASE i.status # "sending" -> Invalid
    [] i.status = "sending" /\ i.cancel ->
         Move("canceled", Released \cup {"ConsumeCancellation", "BumpFailureStreak"}, "canceled")
    [] i.status = "sending" /\ ~i.cancel /\ i.policy = "manual_review" -> ToReview("lease_lost")
    [] i.status = "sending" /\ ~i.cancel /\ i.policy = "assume_accepted" /\ i.form = "one_shot" ->
         SettleApplied(i, "assumed", revision, final)
    [] i.status = "sending" /\ ~i.cancel /\ i.policy \in {"retry", "reconcile_then_retry"} ->
         IF expired THEN Move("expired", Released \cup {"BumpFailureStreak"}, "expired")
                    ELSE Repeat("lease_lost")
    [] OTHER -> Invalid

DecideVerdict(i, verdict) ==
  LET confirmed == SettleApplied(i, "provider_confirmed", NoRevision, FALSE)
  IN CASE i.completion # "on_provider_receipt" \/ i.form # "one_shot" -> Invalid
       [] i.status \in {"awaiting_receipt", "pending"} /\ verdict = "happened" -> confirmed
       [] i.status = "sending" /\ verdict = "happened" ->
            With(confirmed, IF i.cancel THEN {"ConsumeCancellation"} ELSE {}, confirmed.line)
       [] i.status = "awaiting_receipt" /\ verdict = "not_placed" ->
            IF i.withdrawn THEN Move("canceled", {}, "canceled") ELSE CallAgain({})
       [] i.status = "awaiting_receipt" /\ verdict = "unknown" ->
            SettleApplied(i, "assumed", NoRevision, FALSE)
       [] i.status = "awaiting_receipt" /\ verdict = "still_going" ->
            Move("awaiting_receipt", {"AwaitReceipt"}, "none")
       [] i.status = "pending" /\ verdict = "still_going" ->
            Move("awaiting_receipt", {"ClearLease", "StoreReceipt", "AwaitReceipt"}, "none")
       [] i.status = "pending" /\ verdict = "not_placed" ->
            IF i.withdrawn THEN Move("canceled", {"ClearLease"}, "canceled")
                           ELSE CallAgain({"ClearLease"})
       [] OTHER -> Invalid

\* The facts a person's decision is guarded by (Input's operator fields):
\*   create    the last attempt of the generation was a create
\*   ambiguous some attempt of the generation ended in doubt
\*   risk      the person accepted a duplicate
\*   lost      the external object is known to be gone
\*   deadline  the person gave a new deadline
DecideOperator(i, decision, f, revision, final) ==
  LET deadlineOk == i.status = "expired" => f.deadline
      doorOk     == i.door = "resolve_ambiguity"
  IN CASE i.status \notin {"manual_review", "permanent_failed", "expired"} -> Invalid
       [] decision = "assume_accepted" /\ i.status = "manual_review"
            /\ (i.form = "one_shot" \/ i.receipt) ->
            SettleApplied(i, "assumed", revision, final)
       [] decision = "cancel" /\ i.status \in {"manual_review", "permanent_failed"} ->
            Move("canceled", {}, "canceled")
       [] decision = "retry_current" /\ i.status \in {"manual_review", "permanent_failed", "expired"}
            /\ doorOk /\ deadlineOk ->
            Move("pending", {"ScheduleNow", "ResetFailureStreak"}, "none")
       [] decision = "retry_new" /\ i.status \in {"manual_review", "permanent_failed", "expired"}
            /\ doorOk /\ (f.create \/ f.lost) /\ (f.ambiguous => f.risk) /\ deadlineOk ->
            Move("pending", {"NewGeneration", "ScheduleNow", "ResetFailureStreak"}
                              \cup (IF f.risk THEN {"RecordDuplicateRisk"} ELSE {}), "none")
       [] OTHER -> Invalid

\* A satellite mirrors the alert's history and does not write to it.
ForSatellite(i, move) ==
  IF i.satellite THEN Move(move.to, move.effects \ {"TriggerGroup"}, "none") ELSE move

==============================================================================
