--------------------------- MODULE DeliveryContract ---------------------------
(* What Delivery keeps of Promise: the stage of a commitment is read off its  *)
(* row, what was tried off its journal.                                       *)
EXTENDS Delivery

\* "awaiting_receipt" and "no_contact" belong to calls, which are Calls'.
StageOf(status) ==
  IF status = "pending" THEN "owed"
  ELSE IF status = "sending" THEN "trying"
  ELSE IF status \in {"idle", "succeeded"} THEN "kept"
  ELSE IF status = "manual_review" THEN "asked"
  ELSE "over"

Doubted(c) == {n \in DOMAIN journal[c] : journal[c][n].outcome = "ambiguous"}

Contract ==
  INSTANCE Promise WITH
    stage   <- [c \in Commitment |-> StageOf(intents[c].status)],
    tries   <- [c \in Commitment |-> Len(journal[c])],
    open    <- [c \in Commitment |-> intents[c].attempt],
    doubted <- [c \in Commitment |-> Doubted(c)],
    effects <- made

\* The worker, recovery, withdrawals and people together keep the contract of
\* every commitment: an effect is always on record before it happens, an attempt
\* somebody lost is a doubt and never a failure, and only an effect is reported as
\* a success - although the answer, the recovery and the withdrawal of one attempt
\* come in any order.
KeepsThePromise == Contract!Spec

==============================================================================
