-------------------------------- MODULE Promise --------------------------------
(***************************************************************************)
(* What the delivery promises of a commitment, whoever reads its history:  *)
(* the contract of internal/outbound/intent.go and machine.go, free of     *)
(* leases, slots, revisions, addresses and policies.                       *)
(*                                                                         *)
(* A commitment is tried one attempt at a time.  An effect at the provider *)
(* belongs to the attempt that is open or to one the record says nobody    *)
(* knows about; an attempt is closed as a success only over an effect, as  *)
(* a failure only over none, and otherwise as a doubt.  One transaction    *)
(* may move several commitments.                                           *)
(***************************************************************************)
EXTENDS Integers

CONSTANT Commitment

VARIABLES
  stage,    \* where the commitment stands
  tries,    \* how many attempts its journal has, calls or not
  open,     \* the attempt whose call may be out, 0 for none
  doubted,  \* the attempts that were closed without knowing what they did
  effects   \* the attempts that had an effect

vars == <<stage, tries, open, doubted, effects>>

\* owed: queued; trying: a call may be out; kept: as promised, so far; asked: a
\* person has to decide; over: nothing more is owed.
Stages == {"owed", "trying", "kept", "asked", "over"}

Init ==
  /\ stage   = [c \in Commitment |-> "owed"]
  /\ tries   = [c \in Commitment |-> 0]
  /\ open    = [c \in Commitment |-> 0]
  /\ doubted = [c \in Commitment |-> {}]
  /\ effects = [c \in Commitment |-> {}]

Moves(c, from, to) == stage[c] \in from /\ stage'[c] \in to

Silent(c) == effects'[c] = effects[c]

\* Closing the open attempt, the last one of the journal.
Closes(c, to, doubt) ==
  /\ Moves(c, {"trying"}, to)
  /\ open'[c] = 0
  /\ doubted'[c] = IF doubt THEN doubted[c] \cup {open[c]} ELSE doubted[c]
  /\ tries'[c] = tries[c]
  /\ Silent(c)

SameJournal(c) ==
  tries'[c] = tries[c] /\ open'[c] = open[c] /\ doubted'[c] = doubted[c] /\ Silent(c)

\* Begin: the attempt is on record before its call goes out.
TakesUp(c) ==
  /\ Moves(c, {"owed"}, {"trying"}) /\ open[c] = 0
  /\ tries'[c] = tries[c] + 1
  /\ open'[c] = tries'[c]
  /\ doubted'[c] = doubted[c]
  /\ Silent(c)

\* No call was made, and the record says so.
Declines(c) ==
  /\ Moves(c, {"owed"}, {"owed", "over"})
  /\ tries'[c] = tries[c] + 1
  /\ open'[c] = open[c] /\ doubted'[c] = doubted[c]
  /\ Silent(c)

\* The provider acts on a call, whoever still waits for its answer.
Happens(c) ==
  /\ \E n \in doubted[c] \cup ({open[c]} \ {0}) : effects'[c] = effects[c] \cup {n}
  /\ stage'[c] = stage[c]
  /\ tries'[c] = tries[c] /\ open'[c] = open[c] /\ doubted'[c] = doubted[c]

\* Owed again at once when the picture has moved meanwhile.
Succeeds(c) == open[c] \in effects[c] /\ Closes(c, {"kept", "owed"}, FALSE)

Fails(c) == open[c] \notin effects[c] /\ Closes(c, {"owed", "over"}, FALSE)

\* Tried again, left to a person, given up, or taken for a success: the policy's
\* choice, and the doubt stays on record.
Doubts(c) == Closes(c, {"owed", "asked", "over", "kept"}, TRUE)

\* A withdrawal or a deadline: only what is not in flight is let go.
LetGo(c) == Moves(c, {"owed", "asked"}, {"over"}) /\ SameJournal(c)

\* A person's decision, or a card that brings its satellites back.
Reopens(c) == Moves(c, {"asked", "over"}, {"owed"}) /\ SameJournal(c)

\* A parked card is behind the alert again.
FallsBehind(c) == Moves(c, {"kept"}, {"owed"}) /\ SameJournal(c)

\* A person vouches for an effect nobody could confirm.  A card behind the alert
\* by then is owed its update.
Vouched(c) == Moves(c, {"asked"}, {"kept", "owed"}) /\ SameJournal(c)

Rests(c) == stage'[c] = stage[c] /\ SameJournal(c)

Step(c) ==
  \/ TakesUp(c) \/ Declines(c) \/ Happens(c)
  \/ Succeeds(c) \/ Fails(c) \/ Doubts(c)
  \/ LetGo(c) \/ Reopens(c) \/ FallsBehind(c) \/ Vouched(c)

\* Every other commitment is left as it is.
Next == \A c \in Commitment : Rests(c) \/ Step(c)

Spec == Init /\ [][Next]_vars

==============================================================================
