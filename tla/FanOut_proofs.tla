----------------------------- MODULE FanOut_proofs -----------------------------
(***************************************************************************)
(* What FanOut keeps for any number of subscribers, events, requests,      *)
(* loops and operators, whatever events are damaged and whoever hears them. *)
(***************************************************************************)
EXTENDS FanOut, TLAPS

\* The statuses of this family: nobody waits for a receipt or for a person.
FamilyStatuses == {"pending", "sending"} \cup Terminal

Rows  == [status : FamilyStatuses, cancel : BOOLEAN, tried : BOOLEAN, old : BOOLEAN, original : Commitment]

FanOuts == [pc : {"held"}, event : Event, audience : SUBSET Subscriber]
Commands == [pc : {"withdrawing"}, subscriber : Subscriber, to : {"off", "gone"},
             taken : SUBSET Commitment]
Replays == [pc : {"asked", "replaying"}, original : Commitment, request : RequestId]
Sweeps == [pc : {"chosen"}, chosen : SUBSET Commitment]

Typed ==
  /\ rows \in [Subscriber -> {"on", "off", "gone"}]
  /\ outbox \in [Event -> [status : {"none", "pending", "damaged", "fanned_out", "removed"}, old : BOOLEAN]]
  /\ claims \subseteq Claim
  /\ owed \in [Commitment -> Rows \cup {None}]
  /\ made \in [Commitment -> Nat]
  /\ fanouts \in [Instance -> FanOuts \cup {Idle}]
  /\ operators \in [Operator -> Commands \cup Replays \cup {Idle}]
  /\ sweep \in Sweeps \cup {Idle}

\* What was made is claimed, once; what is claimed has left the queue.
Claimed ==
  /\ \A c \in Commitment : made[c] # 0 \/ owed[c] # None => c[1] \in claims
  /\ \A e \in Event : FanOutOf(e) \in claims => outbox[e].status \in {"fanned_out", "removed"}
  /\ \A e \in Event : outbox[e].old => outbox[e].status = "fanned_out"

Tried == \A c \in Commitment : owed[c].status = "sending" => owed[c].tried

\* A loop holds an event of its own that is waiting, for subscribers nobody can change.
Taking(i) ==
  fanouts[i].pc = "held" =>
    /\ fanouts[i].event \in Waiting
    /\ \A j \in Instance \ {i} : fanouts[j].pc = "held" => fanouts[j].event # fanouts[i].event
    /\ \A s \in fanouts[i].audience : s \in Hears[fanouts[i].event] /\ rows[s] = "on" /\ ~Changing(s)

\* A withdrawal has what was waiting; what waits since was tried before.
Withdrawing(o) ==
  operators[o].pc = "withdrawing" =>
    /\ \A p \in Operator \ {o} :
         operators[p].pc = "withdrawing" => operators[p].subscriber # operators[o].subscriber
    /\ \A c \in operators[o].taken : c[2] = operators[o].subscriber /\ owed[c].status = "pending"
    /\ \A c \in Commitment : c[2] = operators[o].subscriber /\ owed[c].status = "pending" =>
         c \in operators[o].taken \/ owed[c].tried

\* A replay holds what it repeats.
Replaying(o) ==
  operators[o].pc = "replaying" =>
    LET c == operators[o].original
    IN /\ rows[c[2]] = "on" /\ ~Changing(c[2])
       /\ owed[c] # None /\ (sweep.pc = "chosen" => c \notin sweep.chosen)

\* What the sweep chose stays over.
Sweeping == sweep.pc = "chosen" => \A c \in sweep.chosen : owed[c].status \in Terminal

LocksHold ==
  /\ \A i \in Instance : Taking(i)
  /\ \A o \in Operator : Withdrawing(o) /\ Replaying(o)
  /\ Sweeping

IInv ==
  /\ Typed /\ Claimed /\ Tried /\ LocksHold
  /\ NothingMadeForTheGone /\ EventOutlivesItsCommitments /\ RepeatMakesNothingNew

------------------------------------------------------------------------------
(* Commitments and rows.                                                      *)

\* A commitment has a claim, a subscriber and an event.
LEMMA Commitments ==
  /\ \A c \in Commitment : c[1] \in Claim /\ c[2] \in Subscriber /\ EventOf(c) \in Event
  /\ \A e \in Event, s \in Subscriber :
       /\ FanOutOf(e) \in Claim /\ EventOf(<<FanOutOf(e), s>>) = e
       /\ s \in Hears[e] => <<FanOutOf(e), s>> \in Commitment
  /\ \A e \in Event, s \in Subscriber, k \in RequestId :
       /\ ReplayOf(e, s, k) \in Claim /\ EventOf(<<ReplayOf(e, s, k), s>>) = e
       /\ <<ReplayOf(e, s, k), s>> \in Commitment
       /\ \A d \in Event : FanOutOf(d) # ReplayOf(e, s, k)
  /\ \A e, d \in Event : FanOutOf(e) = FanOutOf(d) => e = d
<1>1. ASSUME NEW e \in Event, NEW s \in Subscriber
      PROVE  /\ FanOutOf(e) \in Claim /\ EventOf(<<FanOutOf(e), s>>) = e
             /\ s \in Hears[e] => <<FanOutOf(e), s>> \in Commitment
  <2>1. FanOutOf(e) \in Claim /\ FanOutOf(e).kind = "event" /\ FanOutOf(e).event = e
    BY DEF Claim, FanOutOf
  <2> QED BY <2>1 DEF Commitment, EventOf
<1>2. ASSUME NEW e \in Event, NEW s \in Subscriber, NEW k \in RequestId
      PROVE  /\ ReplayOf(e, s, k) \in Claim /\ EventOf(<<ReplayOf(e, s, k), s>>) = e
             /\ <<ReplayOf(e, s, k), s>> \in Commitment
             /\ \A d \in Event : FanOutOf(d) # ReplayOf(e, s, k)
  <2>1. /\ ReplayOf(e, s, k) \in Claim /\ ReplayOf(e, s, k).kind = "replay"
        /\ ReplayOf(e, s, k).event = e /\ ReplayOf(e, s, k).subscriber = s
    BY DEF Claim, ReplayOf
  <2>2. \A d \in Event : FanOutOf(d).kind = "event"
    BY DEF FanOutOf
  <2> QED BY <2>1, <2>2 DEF Commitment, EventOf
<1>3. ASSUME NEW c \in Commitment
      PROVE  c[1] \in Claim /\ c[2] \in Subscriber /\ EventOf(c) \in Event
  <2>1. c[1] \in Claim /\ c[2] \in Subscriber
    BY DEF Commitment
  <2>2. \A claim \in Claim : claim.event \in Event
    BY DEF Claim, FanOutOf, ReplayOf
  <2> QED BY <2>1, <2>2 DEF EventOf
<1>4. \A e, d \in Event : FanOutOf(e) = FanOutOf(d) => e = d
  BY DEF FanOutOf
<1> QED BY <1>1, <1>2, <1>3, <1>4

\* What there is is a row, and nothing else has a status of it.
LEMMA RowsAreRows ==
  ASSUME NEW r \in Rows \cup {None}
  PROVE  /\ r # None <=> r \in Rows
         /\ r # None <=> r.status \in FamilyStatuses
         /\ r.status \in {"pending", "sending"} \cup Terminal => r # None
BY DEF Rows, None, FamilyStatuses, Terminal

\* What a request of a loop, of an operator or of the sweep is.
LEMMA StepsOfTransactions ==
  ASSUME Typed
  PROVE  /\ \A i \in Instance :
              \/ fanouts[i] = Idle /\ fanouts[i].pc = "idle"
              \/ fanouts[i] \in FanOuts /\ fanouts[i].pc = "held"
         /\ \A o \in Operator :
              \/ operators[o] = Idle /\ operators[o].pc = "idle"
              \/ operators[o] \in Commands /\ operators[o].pc = "withdrawing"
              \/ operators[o] \in Replays /\ operators[o].pc \in {"asked", "replaying"}
         /\ \/ sweep = Idle /\ sweep.pc = "idle"
            \/ sweep \in Sweeps /\ sweep.pc = "chosen"
BY DEF Typed, FanOuts, Commands, Replays, Sweeps, Idle

------------------------------------------------------------------------------
(* An attempt moves one commitment.                                           *)

\* What a step of an attempt leaves of a commitment: over, or tried.
Onward(c, row) ==
  /\ owed' = [owed EXCEPT ![c] = row]
  /\ row \in Rows /\ (row.status \in Terminal \/ row.tried)
  /\ owed[c].status \in {"pending", "sending"} /\ ~Taken(c)
  /\ UNCHANGED <<rows, outbox, claims, made, fanouts, operators, sweep>>

\* Whatever moves one commitment along the table and touches nothing else keeps the invariant.
LEMMA OnwardKeeps ==
  ASSUME IInv, NEW c \in Commitment, NEW row, Onward(c, row)
  PROVE  IInv'
<1>1. /\ \A d \in Commitment : owed'[d] = IF d = c THEN row ELSE owed[d]
      /\ owed' \in [Commitment -> Rows \cup {None}]
  BY DEF Onward, IInv, Typed
<1>2. owed[c] # None /\ row # None /\ row.status \in FamilyStatuses
  BY RowsAreRows DEF Onward, IInv, Typed
<1>3. Typed'
  BY <1>1 DEF IInv, Typed, Onward
<1>4. Claimed' /\ EventOutlivesItsCommitments' /\ RepeatMakesNothingNew'
  BY <1>1, <1>2 DEF IInv, Onward, Claimed, EventOutlivesItsCommitments, RepeatMakesNothingNew, Kept
<1>5. Tried' /\ NothingMadeForTheGone'
  BY <1>1, <1>2 DEF IInv, Onward, Tried, NothingMadeForTheGone, Live, Terminal
<1>6. ASSUME NEW o \in Operator
      PROVE  Withdrawing(o)' /\ Replaying(o)'
  <2>1. Withdrawing(o) /\ Replaying(o)
    BY DEF IInv, LocksHold
  <2>2. operators[o].pc = "withdrawing" => c \notin operators[o].taken
    BY DEF Onward, Taken
  <2>3. Withdrawing(o)'
    BY <1>1, <2>1, <2>2 DEF Withdrawing, Onward, Terminal
  <2>4. Replaying(o)'
    BY <1>1, <1>2, <2>1 DEF Replaying, Onward, Changing
  <2> QED BY <2>3, <2>4
<1>7. Sweeping' /\ \A i \in Instance : Taking(i)'
  BY <1>1 DEF IInv, LocksHold, Sweeping, Taking, Onward, Taken, Changing, Waiting
<1> QED BY <1>3, <1>4, <1>5, <1>6, <1>7 DEF IInv, LocksHold

\* The table, for a one-shot commitment that is repeated when in doubt (batch.Admit).
LEMMA MovesOfTheTable ==
  ASSUME NEW c, NEW outcome \in {"accepted", "retryable", "permanent"}
  PROVE  /\ owed[c].status = "pending" =>
              /\ DecidePreparation(Intent(c), "ready").to = "sending"
              /\ DecidePreparation(Intent(c), "permanent").to = "permanent_failed"
         /\ owed[c].status = "sending" =>
              /\ DecideFinish(Intent(c), outcome, NoRevision, FALSE, FALSE).to
                   \in {"pending", "succeeded", "permanent_failed", "canceled"}
              /\ DecideRecover(Intent(c), FALSE, NoRevision, FALSE).to \in {"pending", "canceled"}
<1> DEFINE i == Intent(c)
<1>1. /\ i.status = owed[c].status /\ i.form = "one_shot" /\ i.completion = "on_acceptance"
      /\ i.policy = "retry" /\ i.cancel = owed[c].cancel
  BY DEF Intent
<1> HIDE DEF i
<1>2. i.status = "pending" => /\ DecidePreparation(i, "ready").to = "sending"
                              /\ DecidePreparation(i, "permanent").to = "permanent_failed"
  BY DEF DecidePreparation, Move
<1>3. i.status = "sending" => DecideRecover(i, FALSE, NoRevision, FALSE).to \in {"pending", "canceled"}
  BY <1>1 DEF DecideRecover, Move, Repeat
<1>4. SettleApplied(i, "accepted", NoRevision, FALSE).to = "succeeded"
  BY <1>1 DEF SettleApplied, Move
<1>5. i.status = "sending" => DecideFinish(i, outcome, NoRevision, FALSE, FALSE).to
                               \in {"pending", "succeeded", "permanent_failed", "canceled"}
  BY <1>1, <1>4 DEF DecideFinish, FinishWithdrawn, With, Valid, Move, Repeat, Outcomes
<1> QED BY <1>1, <1>2, <1>3, <1>5 DEF i

\* The attempts of a commitment (serve, RecoverStaleAttempts, ExpireDueIntents).
LEMMA AttemptsKeep ==
  ASSUME IInv, NEW c \in Commitment,
         Begin(c) \/ Recover(c) \/ Expire(c)
           \/ \E outcome \in {"accepted", "retryable", "permanent"} : Finish(c, outcome)
  PROVE  IInv'
<1>1. owed[c].status \in {"pending", "sending"}
  BY DEF Begin, Recover, Expire, Finish
<1>2. owed[c] \in Rows
  BY <1>1, RowsAreRows DEF IInv, Typed
<1> DEFINE Begun(to) == [owed[c] EXCEPT !.status = to, !.old = FALSE, !.tried = TRUE]
           Moved(to) == [owed[c] EXCEPT !.status = to, !.old = FALSE,
                                        !.cancel = to = "sending" /\ @]
<1>3. ASSUME NEW to \in FamilyStatuses
      PROVE  /\ Begun(to) \in Rows /\ Begun(to).status = to /\ Begun(to).tried
             /\ Moved(to) \in Rows /\ Moved(to).status = to /\ Moved(to).tried = owed[c].tried
  BY <1>2 DEF Rows
<1>4. owed \in [Commitment -> Rows \cup {None}]
  BY DEF IInv, Typed
<1>5. owed[c].status = "sending" => ~Taken(c) /\ owed[c].tried
  <2>1. ASSUME owed[c].status = "sending", NEW o \in Operator, operators[o].pc = "withdrawing"
        PROVE  c \notin operators[o].taken
    BY <2>1 DEF IInv, LocksHold, Withdrawing
  <2>2. owed[c].status = "sending" /\ sweep.pc = "chosen" => c \notin sweep.chosen
    BY DEF IInv, LocksHold, Sweeping, Terminal
  <2> QED BY <2>1, <2>2 DEF Taken, IInv, Tried
<1>6. CASE Begin(c)
  <2>1. PICK to \in {"sending", "permanent_failed"} : owed' = [owed EXCEPT ![c] = Begun(to)]
    BY <1>6, MovesOfTheTable DEF Begin
  <2>2. Onward(c, Begun(to))
    BY <1>1, <1>3, <1>6, <2>1 DEF Onward, Begin, OnlyOwed, FamilyStatuses, Terminal
  <2> QED BY <2>2, OnwardKeeps
<1>7. CASE Recover(c) \/ \E outcome \in {"accepted", "retryable", "permanent"} : Finish(c, outcome)
  <2>1. PICK to \in {"pending", "succeeded", "permanent_failed", "canceled"} : Moves(c, to)
    BY <1>7, MovesOfTheTable DEF Recover, Finish
  <2>2. owed[c].status = "sending" /\ OnlyOwed
    BY <1>7 DEF Recover, Finish
  <2>3. owed' = [owed EXCEPT ![c] = Moved(to)]
    BY <1>4, <2>1 DEF Moves
  <2>4. Onward(c, Moved(to))
    BY <1>3, <1>5, <2>2, <2>3 DEF Onward, OnlyOwed, FamilyStatuses, Terminal
  <2> QED BY <2>4, OnwardKeeps
<1>8. CASE Expire(c)
  <2>1. owed' = [owed EXCEPT ![c] = Moved("expired")]
    BY <1>4, <1>8 DEF Expire, Moves
  <2>2. Onward(c, Moved("expired"))
    BY <1>1, <1>3, <1>8, <2>1 DEF Onward, Expire, OnlyOwed, FamilyStatuses, Terminal
  <2> QED BY <2>2, OnwardKeeps
<1> QED BY <1>6, <1>7, <1>8

------------------------------------------------------------------------------
(* The queue.                                                                 *)

\* An event arrives, or is mended (insertOutboxEventTx).
LEMMA ArrivalsKeep ==
  ASSUME IInv, NEW e \in Event, Arrive(e) \/ Mend(e)
  PROVE  IInv'
<1>1. PICK to \in {"pending", "damaged"} :
        outbox[e].status \in {"none", "damaged"} /\ outbox' = [outbox EXCEPT ![e].status = to]
  BY DEF Arrive, Mend
<1>2. \A d \in Event : /\ outbox'[d].status = (IF d = e THEN to ELSE outbox[d].status)
                       /\ outbox'[d].old = outbox[d].old
  BY <1>1 DEF IInv, Typed
<1>3. UNCHANGED <<rows, claims, owed, made, fanouts, operators, sweep>>
  BY DEF Arrive, Mend, OnlyOutbox
<1>4. Typed'
  BY <1>1, <1>3 DEF IInv, Typed
<1>5. Claimed' /\ EventOutlivesItsCommitments'
  BY <1>1, <1>2, <1>3, Commitments DEF IInv, Claimed, EventOutlivesItsCommitments, Kept
<1>6. \A i \in Instance : Taking(i)'
  <2>1. \A d \in Waiting : d \in Waiting'
    BY <1>2 DEF Waiting
  <2> QED BY <1>3, <2>1 DEF IInv, LocksHold, Taking, Changing
<1>7. Tried' /\ NothingMadeForTheGone' /\ RepeatMakesNothingNew' /\ Sweeping'
      /\ \A o \in Operator : Withdrawing(o)' /\ Replaying(o)'
  BY <1>3 DEF IInv, Tried, NothingMadeForTheGone, Live, RepeatMakesNothingNew, LocksHold, Sweeping,
              Withdrawing, Replaying, Changing
<1> QED BY <1>4, <1>5, <1>6, <1>7 DEF IInv, LocksHold

\* A loop takes the oldest event nobody holds (FanOutNextEvent).
LEMMA TakesKeeps ==
  ASSUME IInv, NEW i \in Instance, NEW e \in Event, FanOutTakes(i, e)
  PROVE  IInv'
<1> DEFINE heard == {s \in Hears[e] : rows[s] = "on"}
           held == [pc |-> "held", event |-> e, audience |-> heard]
<1>1. /\ \A j \in Instance : fanouts'[j] = IF j = i THEN held ELSE fanouts[j]
      /\ UNCHANGED <<rows, outbox, claims, owed, made, operators, sweep>>
      /\ e \in Waiting /\ ~Held(e)
      /\ \A s \in heard : rows[s] = "on" /\ ~Changing(s) /\ s \in Hears[e]
  BY DEF FanOutTakes, HeadOfQueue, AudienceCanBeRead, IInv, Typed
<1>2. Typed'
  <2>1. held \in FanOuts
    BY FanOutAssumption DEF FanOuts
  <2>2. fanouts' \in [Instance -> FanOuts \cup {Idle}]
    BY <2>1 DEF FanOutTakes, IInv, Typed
  <2> QED BY <1>1, <2>2 DEF IInv, Typed
<1>3. held.pc = "held" /\ held.event = e /\ held.audience = heard
  OBVIOUS
<1> HIDE DEF held, heard
<1>4. \A j \in Instance : Taking(j)'
  BY <1>1, <1>3 DEF IInv, LocksHold, Taking, Changing, Waiting, Held
<1>5. Claimed' /\ Tried' /\ NothingMadeForTheGone' /\ RepeatMakesNothingNew' /\ Sweeping'
      /\ EventOutlivesItsCommitments' /\ \A o \in Operator : Withdrawing(o)' /\ Replaying(o)'
  BY <1>1 DEF IInv, Claimed, Tried, NothingMadeForTheGone, Live, RepeatMakesNothingNew, LocksHold,
              Sweeping, EventOutlivesItsCommitments, Kept, Withdrawing, Replaying, Changing
<1> QED BY <1>2, <1>4, <1>5 DEF IInv, LocksHold

\* It commits: every subscriber it read is owed the event, unless nobody can read it.
LEMMA FanOutCommitsKeeps ==
  ASSUME IInv, NEW i \in Instance, FanOutCommits(i)
  PROVE  IInv'
<1> DEFINE e == fanouts[i].event
           fresh == {<<FanOutOf(e), s>> : s \in fanouts[i].audience}
<1>1. fanouts[i] \in FanOuts /\ fanouts[i].pc = "held"
  BY StepsOfTransactions DEF FanOutCommits, IInv, Idle
<1>2. /\ e \in Event /\ e \in Waiting
      /\ \A j \in Instance \ {i} : fanouts[j].pc = "held" => fanouts[j].event # e
      /\ \A s \in fanouts[i].audience :
           s \in Subscriber /\ s \in Hears[e] /\ rows[s] = "on" /\ ~Changing(s)
  BY <1>1 DEF FanOuts, IInv, LocksHold, Taking
<1>3. /\ fresh \subseteq Commitment
      /\ \A c \in fresh : c[1] = FanOutOf(e) /\ EventOf(c) = e /\ rows[c[2]] = "on" /\ ~Changing(c[2])
  BY <1>2, Commitments
<1>4. FanOutOf(e) \notin claims /\ \A c \in fresh : made[c] = 0 /\ owed[c] = None
  BY <1>2, <1>3 DEF IInv, Claimed, Waiting
<1>5. /\ \A j \in Instance : fanouts'[j] = IF j = i THEN Idle ELSE fanouts[j]
      /\ fanouts' \in [Instance -> FanOuts \cup {Idle}]
      /\ UNCHANGED <<rows, operators, sweep>>
  BY DEF FanOutCommits, IInv, Typed
<1>6. \A j \in Instance : fanouts'[j].pc = "held" => j # i /\ fanouts'[j] = fanouts[j]
  BY <1>5 DEF Idle
<1>7. CASE UNCHANGED <<outbox, claims, owed, made>>
  <2>1. Typed'
    BY <1>5, <1>7 DEF IInv, Typed
  <2>2. \A j \in Instance : Taking(j)'
    BY <1>5, <1>6, <1>7 DEF IInv, LocksHold, Taking, Changing, Waiting
  <2>3. Claimed' /\ Tried' /\ NothingMadeForTheGone' /\ RepeatMakesNothingNew' /\ Sweeping'
        /\ EventOutlivesItsCommitments' /\ \A o \in Operator : Withdrawing(o)' /\ Replaying(o)'
    BY <1>5, <1>7 DEF IInv, Claimed, Tried, NothingMadeForTheGone, Live, RepeatMakesNothingNew,
                      LocksHold, Sweeping, EventOutlivesItsCommitments, Kept, Withdrawing,
                      Replaying, Changing
  <2> QED BY <2>1, <2>2, <2>3 DEF IInv, LocksHold
<1>8. CASE ~UNCHANGED <<outbox, claims, owed, made>>
  <2>1. /\ claims' = claims \cup {FanOutOf(e)}
        /\ owed' = [c \in Commitment |-> IF c \in fresh THEN Fresh(c) ELSE owed[c]]
        /\ made' = [c \in Commitment |-> IF c \in fresh THEN made[c] + 1 ELSE made[c]]
        /\ outbox' = [outbox EXCEPT ![e] = [status |-> "fanned_out", old |-> FALSE]]
    BY <1>8 DEF FanOutCommits
  <2> HIDE DEF fresh, e
  <2>2. \A c \in Commitment : Fresh(c) \in Rows /\ Fresh(c).status = "pending"
    BY DEF Fresh, Rows, FamilyStatuses
  <2>3. /\ \A c \in Commitment : owed'[c] = IF c \in fresh THEN Fresh(c) ELSE owed[c]
        /\ \A c \in Commitment : made'[c] = IF c \in fresh THEN 1 ELSE made[c]
        /\ \A d \in Event : /\ outbox'[d].status = (IF d = e THEN "fanned_out" ELSE outbox[d].status)
                            /\ outbox'[d].old = IF d = e THEN FALSE ELSE outbox[d].old
    BY <1>2, <1>4, <2>1 DEF IInv, Typed
  <2>4. Typed'
    <3>1. owed' \in [Commitment -> Rows \cup {None}]
      BY <2>1, <2>2 DEF IInv, Typed
    <3>2. made' \in [Commitment -> Nat] /\ claims' \subseteq Claim
      BY <1>2, <2>1, Commitments DEF IInv, Typed, Claim
    <3>3. outbox' \in [Event -> [status : {"none", "pending", "damaged", "fanned_out", "removed"},
                                 old : BOOLEAN]]
      BY <2>1 DEF IInv, Typed
    <3> QED BY <1>5, <3>1, <3>2, <3>3 DEF IInv, Typed
  <2>5. Claimed'
    <3>1. ASSUME NEW c \in Commitment, made'[c] # 0 \/ owed'[c] # None
          PROVE  c[1] \in claims'
      BY <1>3, <2>1, <2>3, <3>1 DEF IInv, Claimed
    <3>2. ASSUME NEW d \in Event, FanOutOf(d) \in claims'
          PROVE  outbox'[d].status \in {"fanned_out", "removed"}
      BY <1>2, <2>1, <2>3, <3>2, Commitments DEF IInv, Claimed
    <3>3. ASSUME NEW d \in Event, outbox'[d].old
          PROVE  outbox'[d].status = "fanned_out"
      BY <2>3, <3>3 DEF IInv, Claimed
    <3> QED BY <3>1, <3>2, <3>3 DEF Claimed
  <2>6. Tried' /\ RepeatMakesNothingNew' /\ Sweeping'
    <3>1. sweep.pc = "chosen" => \A c \in sweep.chosen : c \notin fresh /\ c \in Commitment
      BY <1>4, StepsOfTransactions DEF IInv, LocksHold, Sweeping, Sweeps, None, Terminal
    <3> QED BY <1>5, <2>2, <2>3, <3>1 DEF IInv, Tried, RepeatMakesNothingNew, LocksHold, Sweeping
  <2>7. NothingMadeForTheGone' /\ EventOutlivesItsCommitments'
    <3>1. ASSUME NEW c \in Commitment, Live(c)', rows'[c[2]] # "on"
          PROVE  owed'[c].tried
      BY <1>3, <1>5, <2>3, <3>1 DEF IInv, NothingMadeForTheGone, Live
    <3>2. ASSUME NEW c \in Commitment, owed'[c] # None
          PROVE  outbox'[EventOf(c)].status # "removed"
      <4>1. EventOf(c) \in Event
        BY Commitments
      <4>2. EventOf(c) # e => c \notin fresh
        BY <1>3
      <4> QED BY <2>3, <3>2, <4>1, <4>2 DEF IInv, EventOutlivesItsCommitments, Kept
    <3> QED BY <3>1, <3>2 DEF NothingMadeForTheGone, EventOutlivesItsCommitments, Kept, EventOf
  <2>8. \A j \in Instance : Taking(j)'
    <3>1. \A j \in Instance : fanouts'[j].pc = "held" => fanouts'[j].event \in Waiting'
      <4>1. ASSUME NEW j \in Instance, fanouts'[j].pc = "held"
            PROVE  fanouts'[j].event \in Waiting'
        <5>1. fanouts'[j].event \in Waiting /\ fanouts'[j].event # e
          BY <1>2, <1>6, <4>1 DEF IInv, LocksHold, Taking
        <5> QED BY <2>3, <5>1 DEF Waiting
      <4> QED BY <4>1
    <3> QED BY <1>5, <1>6, <3>1 DEF IInv, LocksHold, Taking, Changing
  <2>9. ASSUME NEW o \in Operator
        PROVE  Withdrawing(o)' /\ Replaying(o)'
    <3>1. Withdrawing(o) /\ Replaying(o)
      BY DEF IInv, LocksHold
    <3>2. operators[o].pc = "withdrawing" => \A c \in fresh : c[2] # operators[o].subscriber
      BY <1>3 DEF Changing
    <3>3. operators[o].pc = "withdrawing" => operators[o].taken \subseteq Commitment
      BY StepsOfTransactions DEF IInv, Commands
    <3>4. Withdrawing(o)'
      BY <1>5, <2>3, <3>1, <3>2, <3>3 DEF Withdrawing
    <3>5. operators[o].pc = "replaying" => operators[o].original \in Commitment
      BY StepsOfTransactions DEF IInv, Replays
    <3>6. Replaying(o)'
      BY <1>4, <1>5, <2>3, <3>1, <3>5 DEF Replaying, Changing
    <3> QED BY <3>4, <3>6
  <2> QED BY <2>4, <2>5, <2>6, <2>7, <2>8, <2>9 DEF IInv, LocksHold
<1> QED BY <1>7, <1>8

\* It is rolled back, and the event is anybody's again.
LEMMA FanOutAbortsKeeps ==
  ASSUME IInv, NEW i \in Instance, FanOutAborts(i)
  PROVE  IInv'
<1>1. /\ \A j \in Instance : fanouts'[j] = IF j = i THEN Idle ELSE fanouts[j]
      /\ fanouts' \in [Instance -> FanOuts \cup {Idle}]
      /\ UNCHANGED <<rows, outbox, claims, owed, made, operators, sweep>>
  BY DEF FanOutAborts, IInv, Typed
<1>2. \A j \in Instance : fanouts'[j].pc = "held" => j # i /\ fanouts'[j] = fanouts[j]
  BY <1>1 DEF Idle
<1>3. Typed'
  BY <1>1 DEF IInv, Typed
<1>4. \A j \in Instance : Taking(j)'
  BY <1>1, <1>2 DEF IInv, LocksHold, Taking, Changing, Waiting
<1>5. Claimed' /\ Tried' /\ NothingMadeForTheGone' /\ RepeatMakesNothingNew' /\ Sweeping'
      /\ EventOutlivesItsCommitments' /\ \A o \in Operator : Withdrawing(o)' /\ Replaying(o)'
  BY <1>1 DEF IInv, Claimed, Tried, NothingMadeForTheGone, Live, RepeatMakesNothingNew, LocksHold,
              Sweeping, EventOutlivesItsCommitments, Kept, Withdrawing, Replaying, Changing
<1> QED BY <1>3, <1>4, <1>5 DEF IInv, LocksHold

------------------------------------------------------------------------------
(* The operators.                                                             *)

\* What follows where only the request of one operator moves.
OneOperator(o) ==
  /\ operators' = [operators EXCEPT ![o] = operators'[o]]
  /\ operators'[o] \in Commands \cup Replays \cup {Idle}
  /\ UNCHANGED <<rows, outbox, claims, owed, made, fanouts, sweep>>

\* Whatever moves one operator and nothing else keeps it, if what the operator holds is so.
LEMMA OneOperatorKeeps ==
  ASSUME IInv, NEW o \in Operator, OneOperator(o), Withdrawing(o)', Replaying(o)',
         operators'[o].pc = "withdrawing" =>
           ~Sharing(operators'[o].subscriber) /\ ~Changing(operators'[o].subscriber)
  PROVE  IInv'
<1>1. /\ \A p \in Operator \ {o} : operators'[p] = operators[p]
      /\ operators' \in [Operator -> Commands \cup Replays \cup {Idle}]
      /\ UNCHANGED <<rows, outbox, claims, owed, made, fanouts, sweep>>
  BY DEF OneOperator, IInv, Typed
<1>2. Typed'
  BY <1>1 DEF IInv, Typed
<1>3. ASSUME NEW s, Changing(s)'
      PROVE  Changing(s) \/ (operators'[o].pc = "withdrawing" /\ s = operators'[o].subscriber)
  BY <1>1, <1>3 DEF Changing
<1>4. ASSUME NEW i \in Instance
      PROVE  Taking(i)'
  <2>1. Taking(i)
    BY DEF IInv, LocksHold
  <2>2. fanouts[i].pc = "held" => \A s \in fanouts[i].audience : Sharing(s)
    BY DEF Sharing
  <2>3. fanouts[i].pc = "held" => \A s \in fanouts[i].audience : ~Changing(s)'
    BY <1>3, <2>1, <2>2 DEF Taking
  <2> QED BY <1>1, <2>1, <2>3 DEF Taking, Waiting
<1>5. ASSUME NEW p \in Operator \ {o}
      PROVE  Withdrawing(p)' /\ Replaying(p)'
  <2>1. Withdrawing(p) /\ Replaying(p) /\ operators'[p] = operators[p]
    BY <1>1 DEF IInv, LocksHold
  <2>2. operators[p].pc = "withdrawing" /\ operators'[o].pc = "withdrawing" =>
          operators'[o].subscriber # operators[p].subscriber
    BY DEF Changing
  <2>3. Withdrawing(p)'
    BY <1>1, <2>1, <2>2 DEF Withdrawing
  <2>4. operators[p].pc = "replaying" => ~Changing(operators[p].original[2])'
    <3>1. operators[p].pc = "replaying" => Sharing(operators[p].original[2])
      BY DEF Sharing
    <3> QED BY <1>3, <2>1, <3>1 DEF Replaying
  <2>5. Replaying(p)'
    BY <1>1, <2>1, <2>4 DEF Replaying
  <2> QED BY <2>3, <2>5
<1>6. Claimed' /\ Tried' /\ NothingMadeForTheGone' /\ RepeatMakesNothingNew' /\ Sweeping'
      /\ EventOutlivesItsCommitments'
  BY <1>1 DEF IInv, Claimed, Tried, NothingMadeForTheGone, Live, RepeatMakesNothingNew, LocksHold,
              Sweeping, EventOutlivesItsCommitments, Kept
<1> QED BY <1>2, <1>4, <1>5, <1>6 DEF IInv, LocksHold

\* A command takes the row of its subscriber, and what waits of it (UpdateIntegration,
\* DeleteIntegration).
LEMMA WithdrawKeeps ==
  ASSUME IInv, NEW o \in Operator, NEW s \in Subscriber, NEW to \in {"off", "gone"}, Withdraw(o, s, to)
  PROVE  IInv'
<1> DEFINE waits == {c \in Kept : c[2] = s /\ owed[c].status = "pending" /\ ~Taken(c)}
           command == [pc |-> "withdrawing", subscriber |-> s, to |-> to, taken |-> waits]
<1>1. /\ operators' = [operators EXCEPT ![o] = command]
      /\ UNCHANGED <<rows, outbox, claims, owed, made, fanouts, sweep>>
      /\ ~Sharing(s) /\ ~Changing(s)
  BY DEF Withdraw, OnlyOperators
<1>2. command \in Commands
  BY DEF Commands, Kept
<1>3. /\ operators'[o] = command /\ \A p \in Operator \ {o} : operators'[p] = operators[p]
  BY <1>1 DEF IInv, Typed
<1>4. /\ command.pc = "withdrawing" /\ command.subscriber = s /\ command.taken = waits
  OBVIOUS
<1>5. OneOperator(o)
  BY <1>1, <1>2, <1>3 DEF OneOperator
<1>6. Withdrawing(o)'
  <2>1. \A p \in Operator \ {o} : operators[p].pc = "withdrawing" => operators[p].subscriber # s
    BY <1>1 DEF Changing
  <2>2. ASSUME NEW c \in Commitment, c[2] = s, owed[c].status = "pending"
        PROVE  c \in waits
    <3>1. c \in Kept
      BY <2>2 DEF Kept, None
    <3>2. \A p \in Operator : operators[p].pc = "withdrawing" => c \notin operators[p].taken
      BY <1>1, <2>2 DEF Changing, IInv, LocksHold, Withdrawing
    <3>3. sweep.pc = "chosen" => c \notin sweep.chosen
      BY <2>2 DEF IInv, LocksHold, Sweeping, Terminal
    <3> QED BY <2>2, <3>1, <3>2, <3>3 DEF Taken
  <2>3. \A c \in waits : c[2] = s /\ owed[c].status = "pending"
    OBVIOUS
  <2> HIDE DEF waits, command
  <2> QED BY <1>1, <1>3, <1>4, <2>1, <2>2, <2>3 DEF Withdrawing
<1>7. Replaying(o)'
  BY <1>3, <1>4 DEF Replaying
<1> HIDE DEF command, waits
<1> QED BY <1>1, <1>3, <1>4, <1>5, <1>6, <1>7, OneOperatorKeeps

\* A person asks for a replay (ReplayWebhookDelivery).
LEMMA ReplayBeginsKeeps ==
  ASSUME IInv, NEW o \in Operator, NEW c \in Commitment, NEW k \in RequestId, ReplayBegins(o, c, k)
  PROVE  IInv'
<1> DEFINE asked == [pc |-> "asked", original |-> c, request |-> k]
<1>1. /\ operators' = [operators EXCEPT ![o] = asked]
      /\ UNCHANGED <<rows, outbox, claims, owed, made, fanouts, sweep>>
  BY DEF ReplayBegins, OnlyOperators
<1>2. asked \in Replays /\ asked.pc = "asked"
  BY DEF Replays
<1> HIDE DEF asked
<1>3. operators'[o] = asked
  BY <1>1 DEF IInv, Typed
<1> QED BY <1>1, <1>2, <1>3, OneOperatorKeeps DEF OneOperator, Withdrawing, Replaying

\* It takes its subscriber and its original, or finds one of them gone.
LEMMA ReplayLocksKeeps ==
  ASSUME IInv, NEW o \in Operator, ReplayLocks(o)
  PROVE  IInv'
<1> DEFINE taken == [operators[o] EXCEPT !.pc = "replaying"]
<1>0. PICK c : c = operators[o].original
  OBVIOUS
<1>1. /\ operators[o] \in Replays /\ ~Changing(c[2]) /\ ~Taken(c)
      /\ UNCHANGED <<rows, outbox, claims, owed, made, fanouts, sweep>>
  BY <1>0, StepsOfTransactions DEF ReplayLocks, OnlyOperators, IInv, Idle, Commands
<1>2. taken \in Replays /\ taken.pc = "replaying" /\ taken.original = c
  BY <1>0, <1>1 DEF Replays
<1> HIDE DEF taken
<1>3. \/ operators' = [operators EXCEPT ![o] = Idle]
      \/ rows[c[2]] = "on" /\ owed[c] # None /\ operators' = [operators EXCEPT ![o] = taken]
  BY <1>0 DEF ReplayLocks, IInv, Typed, taken
<1>4. \/ operators'[o] = Idle
      \/ rows[c[2]] = "on" /\ owed[c] # None /\ operators'[o] = taken
  BY <1>3 DEF IInv, Typed
<1>5. OneOperator(o)
  BY <1>1, <1>2, <1>3, <1>4 DEF OneOperator
<1>6. Withdrawing(o)' /\ operators'[o].pc # "withdrawing"
  BY <1>2, <1>4 DEF Withdrawing, Idle
<1>7. Replaying(o)'
  <2>1. CASE operators'[o] = Idle
    BY <2>1 DEF Replaying, Idle
  <2>2. CASE rows[c[2]] = "on" /\ owed[c] # None /\ operators'[o] = taken
    <3>1. ~Changing(c[2])'
      <4>1. \A p \in Operator : p # o => operators'[p] = operators[p]
        BY <1>5 DEF OneOperator, IInv, Typed
      <4> QED BY <1>1, <1>2, <2>2, <4>1 DEF Changing
    <3>2. sweep.pc = "chosen" => c \notin sweep.chosen
      BY <1>1 DEF Taken
    <3> QED BY <1>1, <1>2, <2>2, <3>1, <3>2 DEF Replaying
  <2> QED BY <1>4, <2>1, <2>2
<1> QED BY <1>5, <1>6, <1>7, OneOperatorKeeps

\* Whatever a person asked for fails, and its locks are gone.
LEMMA OperatorAbortsKeeps ==
  ASSUME IInv, NEW o \in Operator, OperatorAborts(o)
  PROVE  IInv'
<1>1. /\ operators' = [operators EXCEPT ![o] = Idle] /\ operators'[o] = Idle
      /\ UNCHANGED <<rows, outbox, claims, owed, made, fanouts, sweep>>
  BY DEF OperatorAborts, OnlyOperators, IInv, Typed
<1>2. OneOperator(o) /\ Idle.pc = "idle"
  BY <1>1 DEF OneOperator, Idle
<1> QED BY <1>1, <1>2, OneOperatorKeeps DEF Withdrawing, Replaying

\* The command commits: what waited is canceled, what is on its way is flagged.
LEMMA WithdrawCommitsKeeps ==
  ASSUME IInv, NEW o \in Operator, WithdrawCommits(o)
  PROVE  IInv'
<1>0. PICK s, taken, to : s = operators[o].subscriber /\ taken = operators[o].taken /\ to = operators[o].to
  OBVIOUS
<1>1. operators[o] \in Commands /\ operators[o].pc = "withdrawing" /\ Changing(s)
  BY <1>0, StepsOfTransactions DEF WithdrawCommits, IInv, Idle, Replays, Changing
<1>2. s \in Subscriber /\ to \in {"off", "gone"} /\ taken \subseteq Commitment
  BY <1>0, <1>1 DEF Commands
<1>3. /\ \A c \in taken : c[2] = s /\ owed[c].status = "pending" /\ owed[c] \in Rows
      /\ \A c \in Commitment : c[2] = s /\ owed[c].status = "pending" => c \in taken \/ owed[c].tried
  <2>1. Withdrawing(o)
    BY DEF IInv, LocksHold
  <2>2. /\ \A c \in taken : c[2] = s /\ owed[c].status = "pending"
        /\ \A c \in Commitment : c[2] = s /\ owed[c].status = "pending" => c \in taken \/ owed[c].tried
    BY <1>0, <1>1, <2>1 DEF Withdrawing
  <2> QED BY <1>2, <2>2, RowsAreRows DEF IInv, Typed
<1> DEFINE ended(c) == [owed[c] EXCEPT !.status = "canceled", !.old = FALSE]
           flagged(c) == [owed[c] EXCEPT !.cancel = TRUE]
           next(c) == IF c \in taken THEN ended(c)
                      ELSE IF c[2] = s /\ owed[c].status = "sending" THEN flagged(c) ELSE owed[c]
<1>4. owed' = [c \in Commitment |-> next(c)]
  BY <1>0 DEF WithdrawCommits
<1>5. ASSUME NEW c \in Commitment
      PROVE  /\ next(c) \in Rows \cup {None} /\ (next(c) # None <=> owed[c] # None)
             /\ next(c).status = IF c \in taken THEN "canceled" ELSE owed[c].status
             /\ owed[c] # None => next(c).tried = owed[c].tried
  <2>1. owed[c] \in Rows \cup {None}
    BY DEF IInv, Typed
  <2>2. CASE c \in taken
    <3>1. owed[c] \in Rows
      BY <1>3, <2>2
    <3>2. ended(c) \in Rows /\ ended(c).status = "canceled" /\ ended(c).tried = owed[c].tried
      BY <3>1 DEF Rows, FamilyStatuses, Terminal
    <3> HIDE DEF ended
    <3> QED BY <2>2, <3>1, <3>2, RowsAreRows
  <2>3. CASE c \notin taken /\ c[2] = s /\ owed[c].status = "sending"
    <3>1. owed[c] \in Rows
      BY <2>1, <2>3, RowsAreRows
    <3>2. flagged(c) \in Rows /\ flagged(c).status = owed[c].status /\ flagged(c).tried = owed[c].tried
      BY <3>1 DEF Rows
    <3> HIDE DEF flagged
    <3> QED BY <2>3, <3>1, <3>2, RowsAreRows
  <2>4. CASE c \notin taken /\ ~(c[2] = s /\ owed[c].status = "sending")
    BY <2>1, <2>4
  <2> QED BY <2>2, <2>3, <2>4
<1> HIDE DEF next
<1>6. \A c \in Commitment :
        /\ owed'[c] # None <=> owed[c] # None
        /\ owed'[c].status = IF c \in taken THEN "canceled" ELSE owed[c].status
        /\ owed[c] # None => owed'[c].tried = owed[c].tried
  BY <1>4, <1>5
<1>7. /\ \A p \in Operator : operators'[p] = IF p = o THEN Idle ELSE operators[p]
      /\ \A t \in Subscriber : rows'[t] = IF t = s THEN to ELSE rows[t]
      /\ UNCHANGED <<outbox, claims, made, fanouts, sweep>>
  BY <1>0 DEF WithdrawCommits, OnlyOperators, IInv, Typed
<1>8. Typed'
  <2>1. owed' \in [Commitment -> Rows \cup {None}]
    BY <1>4, <1>5
  <2>2. operators' \in [Operator -> Commands \cup Replays \cup {Idle}]
    BY DEF WithdrawCommits, IInv, Typed
  <2>3. rows' \in [Subscriber -> {"on", "off", "gone"}]
    BY <1>0, <1>2 DEF WithdrawCommits, IInv, Typed
  <2> QED BY <1>7, <2>1, <2>2, <2>3 DEF IInv, Typed
<1>9. Claimed' /\ EventOutlivesItsCommitments' /\ RepeatMakesNothingNew'
  <2>1. Claimed'
    BY <1>6, <1>7 DEF IInv, Claimed
  <2>2. EventOutlivesItsCommitments'
    BY <1>6, <1>7 DEF IInv, EventOutlivesItsCommitments, Kept, EventOf
  <2> QED BY <1>7, <2>1, <2>2 DEF IInv, RepeatMakesNothingNew
<1>10. Tried' /\ Sweeping'
  <2>1. \A c \in Commitment : owed[c].status = "sending" => owed[c] # None
    BY DEF None
  <2>2. Tried'
    BY <1>6, <2>1 DEF IInv, Tried
  <2>3. sweep.pc = "chosen" => sweep.chosen \subseteq Commitment
    BY StepsOfTransactions DEF IInv, Sweeps
  <2>4. Sweeping'
    BY <1>6, <1>7, <2>3 DEF IInv, LocksHold, Sweeping, Terminal
  <2> QED BY <2>2, <2>4
<1>11. NothingMadeForTheGone'
  <2>1. ASSUME NEW c \in Commitment, Live(c)', rows'[c[2]] # "on"
        PROVE  owed'[c].tried
    <3>1. owed[c] # None /\ owed[c] \in Rows /\ c \notin taken /\ owed[c].status \notin Terminal
      BY <1>6, <2>1 DEF Live, Terminal, IInv, Typed
    <3>2. owed[c].status \in {"pending", "sending"}
      BY <3>1 DEF Rows, FamilyStatuses
    <3>3. c[2] \in Subscriber
      BY Commitments
    <3>4. CASE c[2] = s
      BY <1>3, <1>6, <3>1, <3>2, <3>4 DEF IInv, Tried
    <3>5. CASE c[2] # s
      BY <1>6, <1>7, <2>1, <3>1, <3>3, <3>5 DEF IInv, NothingMadeForTheGone, Live
    <3> QED BY <3>4, <3>5
  <2> QED BY <2>1 DEF NothingMadeForTheGone
<1>12. \A t : Changing(t)' => Changing(t) /\ t # s
  <2>1. \A p \in Operator \ {o} : operators[p].pc = "withdrawing" => operators[p].subscriber # s
    BY <1>0, <1>1 DEF IInv, LocksHold, Withdrawing
  <2> QED BY <1>7, <2>1 DEF Changing, Idle
<1>13. ASSUME NEW i \in Instance
       PROVE  Taking(i)'
  <2>1. Taking(i)
    BY DEF IInv, LocksHold
  <2>2. fanouts[i].pc = "held" => fanouts[i].audience \subseteq Subscriber
    BY StepsOfTransactions DEF IInv, FanOuts
  <2>3. fanouts[i].pc = "held" => \A t \in fanouts[i].audience : t # s /\ ~Changing(t)'
    BY <1>1, <1>12, <2>1 DEF Taking
  <2>4. fanouts[i].pc = "held" => \A t \in fanouts[i].audience : rows'[t] = "on"
    BY <1>7, <2>1, <2>2, <2>3 DEF Taking
  <2> QED BY <1>7, <2>1, <2>3, <2>4 DEF Taking, Waiting
<1>14. ASSUME NEW p \in Operator
       PROVE  Withdrawing(p)' /\ Replaying(p)'
  <2>1. CASE p = o
    BY <1>7, <2>1 DEF Withdrawing, Replaying, Idle
  <2>2. CASE p # o
    <3>1. Withdrawing(p) /\ Replaying(p) /\ operators'[p] = operators[p]
      BY <1>7, <2>2 DEF IInv, LocksHold
    <3>2. operators[p].pc = "withdrawing" => operators[p].subscriber # s
      BY <1>0, <1>1, <2>2 DEF IInv, LocksHold, Withdrawing
    <3>3. operators[p].pc = "withdrawing" => operators[p].taken \subseteq Commitment
      BY StepsOfTransactions DEF IInv, Commands
    <3>4. operators[p].pc = "withdrawing" =>
            /\ \A q \in Operator \ {p} :
                 operators'[q].pc = "withdrawing" => operators'[q].subscriber # operators[p].subscriber
            /\ \A c \in operators[p].taken : c[2] = operators[p].subscriber /\ owed'[c].status = "pending"
      BY <1>3, <1>6, <1>7, <3>1, <3>2, <3>3 DEF Withdrawing, Idle
    <3>5. operators[p].pc = "withdrawing" =>
            \A c \in Commitment : c[2] = operators[p].subscriber /\ owed'[c].status = "pending" =>
              c \in operators[p].taken \/ owed'[c].tried
      <4>1. \A c \in Commitment : owed[c].status = "pending" => owed[c] # None
        BY DEF None
      <4> QED BY <1>6, <3>1, <4>1 DEF Withdrawing
    <3>6. Withdrawing(p)'
      BY <3>1, <3>4, <3>5 DEF Withdrawing
    <3>7. operators[p].pc = "replaying" => operators[p].original \in Commitment
      BY StepsOfTransactions DEF IInv, Replays
    <3>8. operators[p].pc = "replaying" =>
            /\ operators[p].original[2] # s /\ operators[p].original[2] \in Subscriber
            /\ ~Changing(operators[p].original[2])
      BY <1>1, <3>1, <3>7, Commitments DEF Replaying
    <3>9. Replaying(p)'
      BY <1>6, <1>7, <1>12, <3>1, <3>7, <3>8 DEF Replaying
    <3> QED BY <3>6, <3>9
  <2> QED BY <2>1, <2>2
<1> QED BY <1>8, <1>9, <1>10, <1>11, <1>13, <1>14 DEF IInv, LocksHold

\* A subscriber is switched on again.
LEMMA SwitchOnKeeps ==
  ASSUME IInv, NEW o \in Operator, NEW s \in Subscriber, SwitchOn(o, s)
  PROVE  IInv'
<1>1. /\ \A t \in Subscriber : rows'[t] = IF t = s THEN "on" ELSE rows[t]
      /\ rows' \in [Subscriber -> {"on", "off", "gone"}]
      /\ UNCHANGED <<outbox, claims, owed, made, fanouts, operators, sweep>>
  BY DEF SwitchOn, OnlyOperators, IInv, Typed
<1>2. Typed'
  BY <1>1 DEF IInv, Typed
<1>3. NothingMadeForTheGone'
  BY <1>1, Commitments DEF IInv, NothingMadeForTheGone, Live
<1>4. ASSUME NEW i \in Instance
      PROVE  Taking(i)'
  <2>1. fanouts[i].pc = "held" => fanouts[i].audience \subseteq Subscriber
    BY StepsOfTransactions DEF IInv, FanOuts
  <2> QED BY <1>1, <2>1 DEF IInv, LocksHold, Taking, Waiting, Changing
<1>5. ASSUME NEW p \in Operator
      PROVE  Withdrawing(p)' /\ Replaying(p)'
  <2>1. Withdrawing(p) /\ Replaying(p)
    BY DEF IInv, LocksHold
  <2>2. operators[p].pc = "replaying" => operators[p].original[2] \in Subscriber
    BY StepsOfTransactions, Commitments DEF IInv, Replays
  <2> QED BY <1>1, <2>1, <2>2 DEF Withdrawing, Replaying, Changing
<1>6. Claimed' /\ Tried' /\ RepeatMakesNothingNew' /\ Sweeping' /\ EventOutlivesItsCommitments'
  BY <1>1 DEF IInv, Claimed, Tried, RepeatMakesNothingNew, LocksHold, Sweeping,
              EventOutlivesItsCommitments, Kept
<1> QED BY <1>2, <1>3, <1>4, <1>5, <1>6 DEF IInv, LocksHold

\* A replay commits: what it repeats is owed again, unless the request was answered before.
LEMMA ReplayCommitsKeeps ==
  ASSUME IInv, NEW o \in Operator, ReplayCommits(o)
  PROVE  IInv'
<1>0. PICK c, k : c = operators[o].original /\ k = operators[o].request
  OBVIOUS
<1>1. operators[o] \in Replays /\ operators[o].pc = "replaying"
  BY StepsOfTransactions DEF ReplayCommits, IInv, Idle, Commands
<1>2. c \in Commitment /\ k \in RequestId /\ EventOf(c) \in Event /\ c[2] \in Subscriber
  BY <1>0, <1>1, Commitments DEF Replays
<1>3. /\ rows[c[2]] = "on" /\ ~Changing(c[2]) /\ owed[c] # None
  BY <1>0, <1>1 DEF IInv, LocksHold, Replaying
<1>4. PICK claim, fresh : claim = ReplayOf(EventOf(c), c[2], k) /\ fresh = <<claim, c[2]>>
  OBVIOUS
<1>5. /\ claim \in Claim /\ fresh \in Commitment /\ fresh[1] = claim /\ fresh[2] = c[2]
      /\ EventOf(fresh) = EventOf(c) /\ \A d \in Event : FanOutOf(d) # claim
  BY <1>2, <1>4, Commitments
<1>6. /\ \A p \in Operator : operators'[p] = IF p = o THEN Idle ELSE operators[p]
      /\ operators' \in [Operator -> Commands \cup Replays \cup {Idle}]
      /\ claims' = claims \cup {claim}
      /\ UNCHANGED <<rows, outbox, fanouts, sweep>>
  BY <1>0, <1>4 DEF ReplayCommits, IInv, Typed
<1>7. /\ Fresh(c) \in Rows /\ Fresh(c).status = "pending"
  BY <1>2 DEF Fresh, Rows, FamilyStatuses
<1>8. \/ UNCHANGED <<owed, made>>
      \/ /\ claim \notin claims
         /\ owed' = [owed EXCEPT ![fresh] = Fresh(c)] /\ made' = [made EXCEPT ![fresh] = @ + 1]
  BY <1>0, <1>4 DEF ReplayCommits
<1>9. PICK new \in BOOLEAN :
        /\ new => made[fresh] = 0 /\ owed[fresh] = None
        /\ \A d \in Commitment : /\ owed'[d] = IF new /\ d = fresh THEN Fresh(c) ELSE owed[d]
                                 /\ made'[d] = IF new /\ d = fresh THEN 1 ELSE made[d]
        /\ owed' \in [Commitment -> Rows \cup {None}] /\ made' \in [Commitment -> Nat]
  <2>1. CASE UNCHANGED <<owed, made>>
    BY <2>1 DEF IInv, Typed
  <2>2. CASE /\ claim \notin claims
             /\ owed' = [owed EXCEPT ![fresh] = Fresh(c)] /\ made' = [made EXCEPT ![fresh] = @ + 1]
    <3>1. made[fresh] = 0 /\ owed[fresh] = None
      BY <1>5, <2>2 DEF IInv, Claimed
    <3>2. /\ owed' \in [Commitment -> Rows \cup {None}] /\ made' \in [Commitment -> Nat]
          /\ \A d \in Commitment : /\ owed'[d] = IF d = fresh THEN Fresh(c) ELSE owed[d]
                                   /\ made'[d] = IF d = fresh THEN 1 ELSE made[d]
      BY <1>5, <1>7, <2>2, <3>1 DEF IInv, Typed
    <3> QED BY <3>1, <3>2
  <2> QED BY <1>8, <2>1, <2>2
<1>10. Typed'
  BY <1>5, <1>6, <1>9 DEF IInv, Typed
<1>11. Claimed'
  <2>1. \A d \in Commitment : made'[d] # 0 \/ owed'[d] # None => d[1] \in claims'
    BY <1>5, <1>6, <1>9 DEF IInv, Claimed
  <2>2. \A e \in Event : FanOutOf(e) \in claims' => FanOutOf(e) \in claims
    BY <1>5, <1>6
  <2> QED BY <1>6, <2>1, <2>2 DEF IInv, Claimed
<1>12. Tried' /\ RepeatMakesNothingNew'
  BY <1>7, <1>9 DEF IInv, Tried, RepeatMakesNothingNew
<1>13. NothingMadeForTheGone'
  BY <1>3, <1>5, <1>6, <1>9 DEF IInv, NothingMadeForTheGone, Live
<1>14. EventOutlivesItsCommitments'
  <2>1. outbox[EventOf(c)].status # "removed"
    BY <1>2, <1>3 DEF IInv, EventOutlivesItsCommitments, Kept
  <2>2. ASSUME NEW d \in Commitment, owed'[d] # None
        PROVE  outbox[EventOf(d)].status # "removed"
    BY <1>5, <1>9, <2>1, <2>2 DEF IInv, EventOutlivesItsCommitments, Kept
  <2> QED BY <1>6, <2>2 DEF EventOutlivesItsCommitments, Kept, EventOf
<1>15. Sweeping'
  <2>1. sweep.pc = "chosen" => sweep.chosen \subseteq Commitment
    BY StepsOfTransactions DEF IInv, Sweeps
  <2>2. ~(None.status \in Terminal)
    BY DEF None, Terminal
  <2> QED BY <1>6, <1>9, <2>1, <2>2 DEF IInv, LocksHold, Sweeping
<1>16. \A t : Changing(t)' => Changing(t)
  BY <1>6 DEF Changing, Idle
<1>17. ASSUME NEW i \in Instance
       PROVE  Taking(i)'
  BY <1>6, <1>16 DEF IInv, LocksHold, Taking, Waiting
<1>18. ASSUME NEW p \in Operator
       PROVE  Withdrawing(p)' /\ Replaying(p)'
  <2>1. CASE p = o
    BY <1>6, <2>1 DEF Withdrawing, Replaying, Idle
  <2>2. CASE p # o
    <3>1. Withdrawing(p) /\ Replaying(p) /\ operators'[p] = operators[p]
      BY <1>6, <2>2 DEF IInv, LocksHold
    <3>2. operators[p].pc = "withdrawing" =>
            operators[p].taken \subseteq Commitment /\ operators[p].subscriber # fresh[2]
      BY <1>3, <1>5, StepsOfTransactions DEF IInv, Commands, Changing
    <3>3. operators[p].pc = "withdrawing" =>
            \A q \in Operator \ {p} :
              operators'[q].pc = "withdrawing" => operators'[q].subscriber # operators[p].subscriber
      BY <1>6, <3>1 DEF Withdrawing, Idle
    <3>4. Withdrawing(p)'
      BY <1>9, <3>1, <3>2, <3>3 DEF Withdrawing
    <3>5. operators[p].pc = "replaying" => operators[p].original \in Commitment
      BY StepsOfTransactions DEF IInv, Replays
    <3>6. operators[p].pc = "replaying" => owed'[operators[p].original] # None
      BY <1>7, <1>9, <3>1, <3>5, RowsAreRows DEF Replaying, IInv, Typed
    <3>7. Replaying(p)'
      BY <1>6, <1>16, <3>1, <3>6 DEF Replaying
    <3> QED BY <3>4, <3>7
  <2> QED BY <2>1, <2>2
<1> QED BY <1>10, <1>11, <1>12, <1>13, <1>14, <1>15, <1>17, <1>18 DEF IInv, LocksHold

------------------------------------------------------------------------------
(* Retention.                                                                 *)

\* Everything that stands becomes old.
LEMMA WindowKeeps ==
  ASSUME IInv, WindowPasses
  PROVE  IInv'
<1>1. /\ \A e \in Event : /\ outbox'[e].status = outbox[e].status
                          /\ outbox'[e].old = (outbox[e].status = "fanned_out")
      /\ outbox' \in [Event -> [status : {"none", "pending", "damaged", "fanned_out", "removed"},
                                old : BOOLEAN]]
      /\ UNCHANGED <<rows, claims, made, fanouts, operators, sweep>>
  BY DEF WindowPasses, IInv, Typed
<1> DEFINE aged(c) == [owed[c] EXCEPT !.old = TRUE]
<1>2. ASSUME NEW c \in Commitment, owed[c] # None
      PROVE  aged(c) \in Rows /\ aged(c).status = owed[c].status /\ aged(c).tried = owed[c].tried
  <2>1. owed[c] \in Rows
    BY <1>2 DEF IInv, Typed
  <2> QED BY <2>1 DEF Rows
<1>3. owed' = [c \in Commitment |-> IF owed[c] = None THEN None ELSE aged(c)]
  BY DEF WindowPasses
<1> HIDE DEF aged
<1>4. \A c \in Commitment :
        /\ owed'[c] # None <=> owed[c] # None
        /\ owed'[c].status = owed[c].status
        /\ owed[c] # None => owed'[c].tried = owed[c].tried
  BY <1>2, <1>3, RowsAreRows
<1>5. owed' \in [Commitment -> Rows \cup {None}]
  BY <1>2, <1>3
<1>6. Typed'
  BY <1>1, <1>5 DEF IInv, Typed
<1>7. Claimed' /\ RepeatMakesNothingNew'
  BY <1>1, <1>4 DEF IInv, Claimed, RepeatMakesNothingNew
<1>8. EventOutlivesItsCommitments'
  <2>1. \A c \in Commitment : owed'[c] # None => outbox'[EventOf(c)].status # "removed"
    BY <1>1, <1>4, Commitments DEF IInv, EventOutlivesItsCommitments, Kept
  <2> QED BY <2>1 DEF EventOutlivesItsCommitments, Kept, EventOf
<1>9. \A c \in Commitment : owed[c].status \in {"pending", "sending"} => owed[c] # None
  BY DEF None
<1>10. Tried' /\ NothingMadeForTheGone'
  BY <1>1, <1>4, <1>9 DEF IInv, Tried, NothingMadeForTheGone, Live
<1>11. Sweeping'
  <2>1. sweep.pc = "chosen" => sweep.chosen \subseteq Commitment
    BY StepsOfTransactions DEF IInv, Sweeps
  <2> QED BY <1>1, <1>4, <2>1 DEF IInv, LocksHold, Sweeping
<1>12. \A i \in Instance : Taking(i)'
  BY <1>1 DEF IInv, LocksHold, Taking, Waiting, Changing
<1>13. ASSUME NEW p \in Operator
       PROVE  Withdrawing(p)' /\ Replaying(p)'
  <2>1. Withdrawing(p) /\ Replaying(p)
    BY DEF IInv, LocksHold
  <2>2. /\ operators[p].pc = "withdrawing" => operators[p].taken \subseteq Commitment
        /\ operators[p].pc = "replaying" => operators[p].original \in Commitment
    BY StepsOfTransactions DEF IInv, Commands, Replays
  <2>3. Withdrawing(p)'
    BY <1>1, <1>4, <1>9, <2>1, <2>2 DEF Withdrawing
  <2>4. Replaying(p)'
    BY <1>1, <1>4, <2>1, <2>2 DEF Replaying, Changing
  <2> QED BY <2>3, <2>4
<1> QED BY <1>6, <1>7, <1>8, <1>10, <1>11, <1>12, <1>13 DEF IInv, LocksHold

\* The sweep chooses what is over and nobody reads, or lets go of it.
LEMMA SweepChoosesKeeps ==
  ASSUME IInv, SweepChooses \/ SweepAborts
  PROVE  IInv'
<1>1. UNCHANGED <<rows, outbox, claims, owed, made, fanouts, operators>>
  BY DEF SweepChooses, SweepAborts
<1>2. \/ sweep' = Idle
      \/ \E chunk \in SUBSET {c \in Kept : owed[c].status \in Terminal /\ ~Reading(c)} :
           sweep' = [pc |-> "chosen", chosen |-> chunk]
  BY DEF SweepChooses, SweepAborts
<1>3. /\ sweep' \in Sweeps \cup {Idle}
      /\ sweep'.pc = "chosen" =>
           \A c \in sweep'.chosen : owed[c].status \in Terminal /\ ~Reading(c)
  BY <1>2 DEF Sweeps, Idle, Kept
<1>4. Typed' /\ Sweeping'
  BY <1>1, <1>3 DEF IInv, Typed, Sweeping
<1>5. \A p \in Operator : Withdrawing(p)' /\ Replaying(p)'
  BY <1>1, <1>3 DEF IInv, LocksHold, Withdrawing, Replaying, Changing, Reading
<1>6. Claimed' /\ Tried' /\ NothingMadeForTheGone' /\ RepeatMakesNothingNew'
      /\ EventOutlivesItsCommitments' /\ \A i \in Instance : Taking(i)'
  BY <1>1 DEF IInv, Claimed, Tried, NothingMadeForTheGone, Live, RepeatMakesNothingNew, LocksHold,
              EventOutlivesItsCommitments, Kept, Taking, Waiting, Changing
<1> QED BY <1>4, <1>5, <1>6 DEF IInv, LocksHold

\* It deletes what it chose, and the old events nothing is left of.
LEMMA SweepCommitsKeeps ==
  ASSUME IInv, SweepCommits
  PROVE  IInv'
<1>0. PICK chosen : chosen = sweep.chosen
  OBVIOUS
<1>1. /\ sweep.pc = "chosen" /\ chosen \subseteq Commitment
      /\ \A c \in chosen : owed[c].status \in Terminal
  BY <1>0, StepsOfTransactions DEF SweepCommits, IInv, LocksHold, Sweeping, Sweeps
<1>2. /\ \A c \in Commitment : owed'[c] = IF c \in chosen THEN None ELSE owed[c]
      /\ sweep' = Idle /\ claims' = claims
      /\ UNCHANGED <<rows, made, fanouts, operators>>
  BY <1>0 DEF SweepCommits, ClaimsAfter
<1>3. \A e \in Event :
        \/ outbox'[e] = outbox[e]
        \/ /\ outbox'[e] = [status |-> "removed", old |-> FALSE] /\ outbox[e].old
           /\ \A c \in Commitment : owed'[c] # None => EventOf(c) # e
  BY <1>0, <1>2 DEF SweepCommits, Unclaimed, Kept
<1>4. \A e \in Event :
        /\ outbox'[e].status = outbox[e].status
             \/ (outbox'[e].status = "removed" /\ outbox[e].status = "fanned_out")
        /\ outbox'[e].old => outbox'[e] = outbox[e]
  BY <1>3 DEF IInv, Claimed
<1>5. Typed'
  <2>1. owed' \in [Commitment -> Rows \cup {None}]
    BY <1>0 DEF SweepCommits, IInv, Typed
  <2>2. outbox' \in [Event -> [status : {"none", "pending", "damaged", "fanned_out", "removed"},
                               old : BOOLEAN]]
    BY DEF SweepCommits, IInv, Typed
  <2> QED BY <1>2, <2>1, <2>2 DEF IInv, Typed
<1>6. Claimed'
  BY <1>2, <1>4 DEF IInv, Claimed
<1>7. EventOutlivesItsCommitments'
  <2>1. ASSUME NEW c \in Commitment, owed'[c] # None
        PROVE  outbox'[EventOf(c)].status # "removed"
    <3>1. EventOf(c) \in Event /\ owed[c] # None
      BY <1>2, <2>1, Commitments
    <3> QED BY <1>3, <2>1, <3>1 DEF IInv, EventOutlivesItsCommitments, Kept
  <2> QED BY <2>1 DEF EventOutlivesItsCommitments, Kept, EventOf
<1>8. Tried' /\ NothingMadeForTheGone' /\ RepeatMakesNothingNew' /\ Sweeping'
  BY <1>2 DEF IInv, Tried, NothingMadeForTheGone, Live, RepeatMakesNothingNew, Sweeping, Idle, None
<1>9. ASSUME NEW i \in Instance
      PROVE  Taking(i)'
  BY <1>2, <1>4 DEF IInv, LocksHold, Taking, Waiting, Changing
<1>10. ASSUME NEW p \in Operator
       PROVE  Withdrawing(p)' /\ Replaying(p)'
  <2>1. Withdrawing(p) /\ Replaying(p)
    BY DEF IInv, LocksHold
  <2>2. /\ operators[p].pc = "withdrawing" => operators[p].taken \subseteq Commitment
        /\ operators[p].pc = "replaying" => operators[p].original \in Commitment
    BY StepsOfTransactions DEF IInv, Commands, Replays
  <2>3. operators[p].pc = "withdrawing" => \A c \in operators[p].taken : c \notin chosen
    BY <1>1, <2>1 DEF Withdrawing, Terminal
  <2>4. Withdrawing(p)'
    BY <1>2, <2>1, <2>2, <2>3 DEF Withdrawing, None
  <2>5. Replaying(p)'
    BY <1>0, <1>1, <1>2, <2>1, <2>2 DEF Replaying, Changing, Idle
  <2> QED BY <2>4, <2>5
<1> QED BY <1>5, <1>6, <1>7, <1>8, <1>9, <1>10 DEF IInv, LocksHold

------------------------------------------------------------------------------
(* The theorems.                                                              *)

\* Nobody is owed anything at first.
LEMMA InitHolds == Init => IInv
<1> SUFFICES ASSUME Init PROVE IInv
  OBVIOUS
<1>1. Typed
  BY DEF Init, Typed
<1>2. \A i \in Instance : fanouts[i].pc = "idle"
  BY DEF Init, Idle
<1>3. \A o \in Operator : operators[o].pc = "idle"
  BY DEF Init, Idle
<1>4. \A c \in Commitment : made[c] = 0 /\ owed[c] = None /\ owed[c].status = "none"
  BY DEF Init, None
<1>5. claims = {} /\ sweep.pc = "idle" /\ \A e \in Event : ~outbox[e].old
  BY DEF Init, Idle
<1>6. Claimed /\ Tried /\ NothingMadeForTheGone /\ EventOutlivesItsCommitments /\ RepeatMakesNothingNew
  BY <1>4, <1>5 DEF Claimed, Tried, NothingMadeForTheGone, Live, EventOutlivesItsCommitments, Kept,
                    RepeatMakesNothingNew
<1>7. LocksHold
  BY <1>2, <1>3, <1>5 DEF LocksHold, Taking, Withdrawing, Replaying, Sweeping
<1> QED BY <1>1, <1>6, <1>7 DEF IInv

\* Every action keeps what the transactions rely on.
LEMMA StepKeeps == IInv /\ [Next]_vars => IInv'
<1> SUFFICES ASSUME IInv, [Next]_vars PROVE IInv'
  OBVIOUS
<1>1. CASE UNCHANGED vars
  BY <1>1 DEF vars, IInv, Typed, Claimed, Tried, NothingMadeForTheGone, Live, RepeatMakesNothingNew,
              LocksHold, Sweeping, EventOutlivesItsCommitments, Kept, Taking, Waiting, Changing,
              Withdrawing, Replaying
<1>2. CASE \E e \in Event : Arrive(e) \/ Mend(e)
  BY <1>2, ArrivalsKeep
<1>3. CASE \E i \in Instance : FanOutStep(i) \/ FanOutAborts(i)
  BY <1>3, TakesKeeps, FanOutCommitsKeeps, FanOutAbortsKeeps DEF FanOutStep
<1>4. CASE \E c \in Commitment : \/ Begin(c) \/ Recover(c) \/ Expire(c)
                                 \/ \E outcome \in {"accepted", "retryable", "permanent"} :
                                      Finish(c, outcome)
  BY <1>4, AttemptsKeep
<1>5. ASSUME NEW o \in Operator,
             \/ \E s \in Subscriber : SwitchOn(o, s) \/ \E to \in {"off", "gone"} : Withdraw(o, s, to)
             \/ \E c \in Commitment, k \in RequestId : ReplayBegins(o, c, k)
             \/ OperatorStep(o) \/ OperatorAborts(o)
      PROVE  IInv'
  BY <1>5, SwitchOnKeeps, WithdrawKeeps, ReplayBeginsKeeps, ReplayLocksKeeps, ReplayCommitsKeeps,
     WithdrawCommitsKeeps, OperatorAbortsKeeps DEF OperatorStep
<1>6. CASE WindowPasses \/ SweepChooses \/ SweepCommits \/ SweepAborts
  BY <1>6, WindowKeeps, SweepChoosesKeeps, SweepCommitsKeeps
<1> QED BY <1>1, <1>2, <1>3, <1>4, <1>5, <1>6 DEF Next

\* The inductive invariant: types, what a claim stands for, and what each transaction's
\* row locks keep true between its statements.
THEOREM Invariance == Spec => []IInv
BY InitHolds, StepKeeps, PTL DEF Spec

\* However fan-outs, replays and the commands on their subscriber interleave, what is left
\* owed to one that is switched off or gone has been tried before (DeleteIntegration).
THEOREM TheGoneAreLeftAlone == Spec => []NothingMadeForTheGone
<1>1. IInv => NothingMadeForTheGone
  BY DEF IInv
<1> QED BY <1>1, Invariance, PTL

\* Retention removes no event before the last commitment of it, however late its replays
\* are (SweepDeliveryHistory).
THEOREM HistoryCanBeRead == Spec => []EventOutlivesItsCommitments
<1>1. IInv => EventOutlivesItsCommitments
  BY DEF IInv
<1> QED BY <1>1, Invariance, PTL

\* A commitment is made once in all of history, also where its event or its request comes
\* again after retention took what was made (existingAdmission).
THEOREM NothingIsMadeTwice == Spec => []RepeatMakesNothingNew
<1>1. IInv => RepeatMakesNothingNew
  BY DEF IInv
<1> QED BY <1>1, Invariance, PTL

================================================================================
