------------------------------ MODULE Calls_proofs ------------------------------
(***************************************************************************)
(* What holds of the calls of a commitment for any number of workers,      *)
(* pollers, integrations and upsets: the news of a call is kept, a call    *)
(* that took place settles the commitment, and nobody is called anew over  *)
(* anything but doubt.                                                     *)
(***************************************************************************)
EXTENDS Calls, TLAPS

Attempt ==
  [gen : Nat, via : Integration, number : Nat,
   outcome : Answers \cup {"open"}, by : {"none", "worker", "lease_lost"}]

Effect == [state : EffectStates \cup {"none"}, sequence : Nat]

\* What was tried, what is known of it and what is true of it go together; what is
\* known is true.
Facts(j, e, p) ==
  /\ j \in Seq(Attempt) /\ e \in Seq(Effect) /\ p \in Seq(EffectStates \cup {"none"})
  /\ Len(e) = Len(j) /\ Len(p) = Len(j)
  /\ \A n \in DOMAIN j :
       /\ j[n].by = "none" <=> j[n].outcome = "open"
       /\ j[n].by = "lease_lost" => j[n].outcome = "ambiguous"
       /\ e[n].state = "none" => e[n] = NoEffect
       /\ e[n].state # "none" => p[n] # "none"
       /\ e[n].state \in Ended => p[n] = e[n].state

RowFields == {"status", "gen", "via", "number", "receipt", "cancel", "withdrawn", "risk",
              "token", "live", "attempt", "deadline", "wait"}

RowOK(i) ==
  /\ DOMAIN i = RowFields
  /\ i.gen \in Nat /\ i.number \in Nat /\ i.via \in Integration \cup {NoIntegration}

SlotOK(s) ==
  /\ DOMAIN s = DOMAIN IdleWorker
  /\ s.pc \in {"idle", "leased", "prepared", "calling", "answered"}
  /\ s.prep \in {"none", "ready", "no_contact", "permanent", "transient"}
  /\ s.pc = "prepared" => s.prep # "none"
  /\ s.via \in Integration \cup {NoIntegration} /\ s.number \in Nat

\* A request on the wire or its answer: the attempt is on record, nobody has closed it but
\* recovery, and what was answered is true.
InFlight(s) == s.pc \in {"calling", "answered"}

FlightOK(s, j, p) ==
  /\ InFlight(s) => s.attempt \in DOMAIN j /\ j[s.attempt].by # "worker"
  /\ s.pc = "calling" => p[s.attempt] = "none"
  /\ s.pc = "answered" =>
       /\ s.answer \in Answers
       /\ s.answer = "accepted" => p[s.attempt] # "none"
       /\ s.answer \in {"retryable", "permanent"} => p[s.attempt] = "none"

SlotsOK(ws, j, p) ==
  /\ DOMAIN ws = Worker
  /\ \A w \in Worker : SlotOK(ws[w]) /\ FlightOK(ws[w], j, p)
  /\ \A w, v \in Worker : InFlight(ws[w]) /\ InFlight(ws[v]) /\ w # v => ws[w].attempt # ws[v].attempt

EventOK(ev, p) ==
  /\ ev.attempt \in DOMAIN p /\ ev.state \in EffectStates /\ ev.sequence \in Nat
  /\ p[ev.attempt] # "none"
  /\ ev.state \in Ended => p[ev.attempt] = ev.state

InboxOK(box, e, p) ==
  /\ DOMAIN box = {"kept", "applied"}
  /\ box.applied \subseteq box.kept
  /\ \A ev \in box.kept : EventOK(ev, p)
  /\ \A ev \in box.applied : ev.state \in Ended => e[ev.attempt].state = ev.state

PollsOK(ps, p) ==
  /\ DOMAIN ps = Poller
  /\ \A o \in Poller : DOMAIN ps[o] = {"pc", "left"} /\ ps[o].left \subseteq DOMAIN p

NInv ==
  /\ RowOK(intent) /\ number \in Nat
  /\ Facts(journal, effects, placed)
  /\ SlotsOK(workers, journal, placed)
  /\ InboxOK(inbox, effects, placed)
  /\ PollsOK(pollers, placed)

------------------------------------------------------------------------------
(* The invariant of a commitment nobody has decided about.                    *)

\* A call that cannot be on any more, nor come to be.
Gone(a, truth) ==
  /\ a.by # "none"
  /\ truth \notin {"in_progress", "happened"}
  /\ a.by = "lease_lost" => truth # "none"

\* What was tried, by generation: one way each, the earlier ones gone; of the last, all
\* that may be on but the latest was answered in doubt.
Tried(i, j, e, p) ==
  /\ \A n \in DOMAIN j :
       /\ j[n].outcome \in {"retryable", "permanent"} => p[n] = "none"
       /\ j[n].outcome = "accepted" => e[n] # NoEffect
       /\ j[n].gen <= i.gen
       /\ j[n].gen = i.gen => j[n].via = i.via /\ j[n].number = i.number
       /\ j[n].gen < i.gen => Gone(j[n], p[n])
       /\ n < Len(j) /\ p[n] \in {"in_progress", "happened"} => j[n].outcome = "ambiguous"
  /\ \A n, m \in DOMAIN j : n < m => j[n].gen <= j[m].gen

\* Exactly a commitment that is sending has a request open, the latest.
Closed(j) == \A n \in DOMAIN j : j[n].by # "none"
Open(i, j) ==
  /\ Len(j) > 0 /\ i.attempt = Len(j)
  /\ j[Len(j)].by = "none" /\ j[Len(j)].gen = i.gen
  /\ \A n \in DOMAIN j : n # Len(j) => j[n].by # "none"

Steady(i, j, e, p) ==
  /\ i.status \in {"pending", "sending", "awaiting_receipt"} \cup Terminal
  /\ i.status \in {"pending", "sending"} => i.wait = "none"
  /\ i.status = "sending" => Open(i, j)
  /\ i.status # "sending" => Closed(j)
  /\ Tried(i, j, e, p)

\* No call of its generation is on while it waits to be made, and none has taken place
\* while it waits for anything.
Calm(i, j, e) ==
  /\ i.status \in {"pending", "awaiting_receipt"} => Happened(e) = {}
  /\ i.status = "pending" => KnownLive(i, j, e) = {}

CInv == NInv /\ (~decided => Steady(intent, journal, effects, placed) /\ Calm(intent, journal, effects))

------------------------------------------------------------------------------
(* What the invariant is for.                                                 *)

\* The news that was kept is true, and so is what is made of it.
LEMMA NewsFollows == NInv => NewsIsKept
<1>. SUFFICES ASSUME NInv PROVE NewsIsKept
  OBVIOUS
<1>1. DOMAIN effects = DOMAIN journal
  BY DEF NInv, Facts
<1>2. \A n \in DOMAIN effects : effects[n].state \in Ended => effects[n].state = placed[n]
  BY <1>1 DEF NInv, Facts
<1>3. \A ev \in inbox.applied : ev.state \in Ended => effects[ev.attempt].state = ev.state
  BY DEF NInv, InboxOK
<1>. QED  BY <1>2, <1>3 DEF NewsIsKept

\* A repeat is of the same generation, and the earlier call was answered in doubt.
LEMMA RepeatsFollow == CInv => NobodyIsCalledAnew
<1>. SUFFICES ASSUME CInv, ~decided PROVE QueuedMeansQuiet /\ DoubtIsRepeatedAsMade
  BY DEF NobodyIsCalledAnew, QueuedMeansQuiet, DoubtIsRepeatedAsMade
<1>1. Steady(intent, journal, effects, placed) /\ Calm(intent, journal, effects)
      /\ Facts(journal, effects, placed) /\ RowOK(intent)
  BY DEF CInv, NInv
<1>2. QueuedMeansQuiet
  BY <1>1 DEF QueuedMeansQuiet, Calm
<1>3. ASSUME NEW n \in DOMAIN journal, NEW m \in DOMAIN journal, n < m,
             placed[n] \in {"in_progress", "happened"}
      PROVE  /\ journal[n].outcome = "ambiguous"
             /\ journal[n].gen = journal[m].gen
             /\ journal[n].via = journal[m].via /\ journal[n].number = journal[m].number
  <2>1. /\ DOMAIN journal = 1..Len(journal) /\ Len(journal) \in Nat
        /\ journal[n].gen \in Nat /\ journal[m].gen \in Nat /\ intent.gen \in Nat
    <3>1. journal \in Seq(Attempt)
      BY <1>1 DEF Facts
    <3>2. journal[n] \in Attempt /\ journal[m] \in Attempt
      BY <3>1
    <3>. QED  BY <1>1, <3>1, <3>2 DEF RowOK, Attempt
  <2>2. n < Len(journal)
    BY <1>3, <2>1
  <2>3. ~(journal[n].gen < intent.gen)
    BY <1>1, <1>3 DEF Steady, Tried, Gone
  <2>4. journal[n].gen <= journal[m].gen /\ journal[m].gen <= intent.gen
    BY <1>1, <1>3 DEF Steady, Tried
  <2>5. journal[n].gen = intent.gen /\ journal[m].gen = intent.gen
    BY <2>1, <2>3, <2>4
  <2>. QED  BY <1>1, <1>3, <2>2, <2>5 DEF Steady, Tried
<1>. QED  BY <1>2, <1>3 DEF DoubtIsRepeatedAsMade

------------------------------------------------------------------------------
(* The moves of a call.                                                       *)

\* What a transition writes of the fields that matter here.
LEMMA WrittenRow ==
  ASSUME NEW i, RowOK(i), NEW m, NEW receipt
  PROVE  LET w == Written(i, m, receipt)
             fresh == "NewGeneration" \in m.effects
         IN /\ RowOK(w)
            /\ w.status = m.to
            /\ w.gen = IF fresh THEN i.gen + 1 ELSE i.gen
            /\ w.via = IF fresh THEN NoIntegration ELSE i.via
            /\ w.number = IF fresh THEN 0 ELSE i.number
            /\ w.attempt = IF "ClearCurrentAttempt" \in m.effects THEN 0 ELSE i.attempt
            /\ w.wait = IF fresh THEN "none"
                        ELSE IF "AwaitReceipt" \in m.effects /\ i.wait = "none" THEN "running" ELSE i.wait
<1>. DEFINE w == Written(i, m, receipt)
            fresh == "NewGeneration" \in m.effects
<1>1. DOMAIN w = RowFields
  BY DEF Written, RowOK
<1>2. w.status = m.to
  BY DEF Written, RowOK, RowFields
<1>3. w.gen = IF fresh THEN i.gen + 1 ELSE i.gen
  BY DEF Written, RowOK, RowFields
<1>4. w.via = IF fresh THEN NoIntegration ELSE i.via
  BY DEF Written, RowOK, RowFields
<1>5. w.number = IF fresh THEN 0 ELSE i.number
  BY DEF Written, RowOK, RowFields
<1>6. w.attempt = IF "ClearCurrentAttempt" \in m.effects THEN 0 ELSE i.attempt
  BY DEF Written, RowOK, RowFields
<1>7. w.wait = IF fresh THEN "none"
               ELSE IF "AwaitReceipt" \in m.effects /\ i.wait = "none" THEN "running" ELSE i.wait
  BY DEF Written, RowOK, RowFields
<1>. HIDE DEF w
<1>8. RowOK(w)
  BY <1>1, <1>3, <1>4, <1>5 DEF RowOK
<1>. QED  BY <1>2, <1>3, <1>4, <1>5, <1>6, <1>7, <1>8 DEF w

\* How the machine sees a call.
IsCall(v) == v.form = "one_shot" /\ v.completion = "on_provider_receipt" /\ v.policy = "retry"

LEMMA ViewIsCall == \A i : IsCall(View(i)) /\ View(i).status = i.status
BY DEF View, IsCall

\* The answer to a call: never settled by the answer, repeated in its generation over
\* doubt, and in a new one only where it was refused beyond doubt.
LEMMA FinishMoves ==
  ASSUME NEW v, IsCall(v), v.status = "sending", NEW answer \in Answers, NEW doubt
  PROVE  LET m == DecideFinish(v, answer, NoRevision, FALSE, doubt) IN
         /\ m.to \in {"pending", "awaiting_receipt", "canceled"}
         /\ answer = "accepted" => m.to = "awaiting_receipt"
         /\ "NewGeneration" \in m.effects => answer = "permanent"
         /\ "NewGeneration" \in m.effects => ~doubt
         /\ "AwaitReceipt" \in m.effects => m.to = "awaiting_receipt"
<1>0. PICK m : m = DecideFinish(v, answer, NoRevision, FALSE, doubt)
  OBVIOUS
<1>. SUFFICES /\ m.to \in {"pending", "awaiting_receipt", "canceled"}
              /\ answer = "accepted" => m.to = "awaiting_receipt"
              /\ "NewGeneration" \in m.effects => answer = "permanent"
              /\ "NewGeneration" \in m.effects => ~doubt
              /\ "AwaitReceipt" \in m.effects => m.to = "awaiting_receipt"
  BY <1>0, Zenon
<1>1. CASE v.cancel
  <2>1. CASE answer = "accepted"
    <3>1. m =
            With(AwaitReceipt(v), {"ConsumeCancellation", "WithdrawObligation"}, "handed_over")
      BY <1>0, <1>1, <2>1 DEF DecideFinish, FinishWithdrawn, IsCall
    <3>. QED  BY <2>1, <3>1 DEF AwaitReceipt, With, Valid, Move, Released, IsCall
  <2>2. CASE answer # "accepted"
    <3>1. m =
            Move("canceled", Released \cup {"ConsumeCancellation"}, "canceled")
      BY <1>0, <1>1, <2>2 DEF DecideFinish, FinishWithdrawn, Outcomes, Answers
    <3>. QED  BY <2>2, <3>1 DEF Move, Released
  <2>. QED  BY <2>1, <2>2
<1>2. CASE ~v.cancel /\ answer = "accepted"
  <2>1. m = AwaitReceipt(v)
    BY <1>0, <1>2 DEF DecideFinish, IsCall
  <2>. QED  BY <1>2, <2>1 DEF AwaitReceipt, Move, Released, IsCall
<1>3. CASE ~v.cancel /\ answer \in {"retryable", "ambiguous"}
  <2>1. m = Repeat("none")
    BY <1>0, <1>3 DEF DecideFinish, DecideAmbiguous, IsCall
  <2>. QED  BY <1>3, <2>1 DEF Repeat, Move, Released
<1>4. CASE ~v.cancel /\ answer = "permanent"
  <2>1. m = RefusedCall(doubt)
    BY <1>0, <1>4 DEF DecideFinish, IsCall
  <2>. QED  BY <1>4, <2>1 DEF RefusedCall, CallAgain, Move, Released
<1>. QED  BY <1>1, <1>2, <1>3, <1>4 DEF Answers

\* A worker that died: the call is repeated in its generation, or given up.
LEMMA RecoverMoves ==
  ASSUME NEW v, IsCall(v), v.status = "sending", NEW expired
  PROVE  LET m == DecideRecover(v, expired, NoRevision, FALSE) IN
         /\ m.to \in {"pending", "canceled", "expired"}
         /\ "NewGeneration" \notin m.effects /\ "AwaitReceipt" \notin m.effects
<1>0. PICK m : m = DecideRecover(v, expired, NoRevision, FALSE)
  OBVIOUS
<1>. SUFFICES /\ m.to \in {"pending", "canceled", "expired"}
              /\ "NewGeneration" \notin m.effects /\ "AwaitReceipt" \notin m.effects
  BY <1>0, Zenon
<1>1. CASE v.cancel
  BY <1>0, <1>1 DEF DecideRecover, IsCall, Move, Released
<1>2. CASE ~v.cancel
  <2>1. m =
          IF expired THEN Move("expired", Released \cup {"BumpFailureStreak"}, "expired")
                     ELSE Repeat("lease_lost")
    BY <1>0, <1>2 DEF DecideRecover, IsCall
  <2>. QED  BY <2>1 DEF Repeat, Move, Released
<1>. QED  BY <1>1, <1>2

\* A call that took place settles the commitment, whatever its state.
LEMMA HappenedSettles ==
  ASSUME NEW v, IsCall(v), v.status \in {"pending", "sending", "awaiting_receipt"}
  PROVE  LET m == DecideVerdict(v, "happened") IN
         m.to = "succeeded" /\ "NewGeneration" \notin m.effects /\ "AwaitReceipt" \notin m.effects
<1>1. PICK confirmed : confirmed = SettleApplied(v, "provider_confirmed", NoRevision, FALSE)
  OBVIOUS
<1>2. /\ confirmed.to = "succeeded"
      /\ "NewGeneration" \notin confirmed.effects /\ "AwaitReceipt" \notin confirmed.effects
  BY <1>1 DEF SettleApplied, IsCall, Move, Settled, Released
<1>3. CASE v.status = "sending"
  <2>1. DecideVerdict(v, "happened") =
          With(confirmed, IF v.cancel THEN {"ConsumeCancellation"} ELSE {}, confirmed.line)
    BY <1>1, <1>3 DEF DecideVerdict, IsCall
  <2>. QED  BY <1>2, <2>1 DEF With, Valid, Move
<1>4. CASE v.status # "sending"
  <2>1. DecideVerdict(v, "happened") = confirmed
    BY <1>1, <1>4 DEF DecideVerdict, IsCall
  <2>. QED  BY <1>2, <2>1
<1>. QED  BY <1>3, <1>4

\* The other verdicts over a commitment that has no request open.
LEMMA VerdictMoves ==
  ASSUME NEW v, IsCall(v), v.status \in {"pending", "awaiting_receipt"},
         NEW verdict \in {"not_placed", "unknown", "still_going"},
         verdict = "unknown" => v.status = "awaiting_receipt"
  PROVE  LET m == DecideVerdict(v, verdict) IN
         /\ verdict = "not_placed" => m.to = "canceled" \/ (m.to = "pending" /\ "NewGeneration" \in m.effects)
         /\ verdict = "unknown" => m.to = "succeeded"
         /\ verdict = "still_going" => m.to = "awaiting_receipt"
         /\ "NewGeneration" \in m.effects => verdict = "not_placed"
<1>1. CASE verdict = "not_placed"
  <2>1. PICK released : DecideVerdict(v, verdict) =
          IF v.withdrawn THEN Move("canceled", released, "canceled") ELSE CallAgain(released)
    BY <1>1 DEF DecideVerdict, IsCall
  <2>. QED  BY <1>1, <2>1 DEF CallAgain, Move
<1>2. CASE verdict = "still_going"
  BY <1>2 DEF DecideVerdict, IsCall, Move
<1>3. CASE verdict = "unknown"
  <2>1. DecideVerdict(v, verdict) = SettleApplied(v, "assumed", NoRevision, FALSE)
    BY <1>3 DEF DecideVerdict, IsCall
  <2>. QED  BY <1>3, <2>1 DEF SettleApplied, IsCall, Move, Settled, Released
<1>. QED  BY <1>1, <1>2, <1>3

------------------------------------------------------------------------------
(* The question every door asks.                                              *)

\* What is known of each attempt, one at a time.
LEMMA FactsAt ==
  ASSUME NEW j, NEW e, NEW p, Facts(j, e, p)
  PROVE  /\ Len(j) \in Nat /\ DOMAIN j = 1..Len(j) /\ DOMAIN e = DOMAIN j /\ DOMAIN p = DOMAIN j
         /\ \A n \in DOMAIN j : j[n] \in Attempt /\ e[n] \in Effect /\ p[n] \in EffectStates \cup {"none"}
BY DEF Facts

\* A generation no call of which is on, took place or is in doubt, is gone.
LEMMA GenerationIsGone ==
  ASSUME NEW i, NEW j, NEW e, NEW p, Facts(j, e, p), Tried(i, j, e, p), Closed(j),
         Happened(e) = {}, KnownLive(i, j, e) = {}, Unaccounted(i, j, e) = {}
  PROVE  \A n \in DOMAIN j : j[n].gen = i.gen => Gone(j[n], p[n])
<1>. SUFFICES ASSUME NEW n \in DOMAIN j, j[n].gen = i.gen PROVE Gone(j[n], p[n])
  OBVIOUS
<1>1. /\ n \in DOMAIN e /\ n \in OfGeneration(i.gen, j)
      /\ j[n] \in Attempt /\ e[n] \in Effect /\ j[n].by # "none"
  BY FactsAt DEF OfGeneration, Closed
<1>2. e[n].state \notin {"happened", "in_progress"}
  BY <1>1 DEF Happened, KnownLive
<1>3. CASE e[n].state = "none"
  <2>1. e[n] = NoEffect
    BY <1>3 DEF Facts
  <2>2. j[n].outcome # "ambiguous" /\ j[n].outcome # "accepted" /\ j[n].outcome # "open"
    BY <1>1, <2>1 DEF Unaccounted, Doubtful, Tried, Facts
  <2>3. j[n].outcome \in {"retryable", "permanent"}
    BY <1>1, <2>2 DEF Attempt, Answers
  <2>4. p[n] = "none" /\ j[n].by # "lease_lost"
    BY <2>2, <2>3 DEF Tried, Facts
  <2>. QED  BY <1>1, <2>4 DEF Gone
<1>4. CASE e[n].state # "none"
  <2>1. e[n].state \in {"not_placed", "withdrawn"}
    BY <1>1, <1>2, <1>4 DEF Effect, EffectStates
  <2>2. p[n] = e[n].state
    BY <2>1 DEF Facts, Ended
  <2>. QED  BY <1>1, <2>1, <2>2 DEF Gone
<1>. QED  BY <1>3, <1>4

\* What was tried is told the same way by a row that changes none of that, and by a new
\* generation once the last one is gone.
LEMMA TriedStays ==
  ASSUME NEW i, NEW k, NEW j, NEW e, NEW p, Facts(j, e, p), Tried(i, j, e, p), RowOK(i),
         \/ k.gen = i.gen /\ k.via = i.via /\ k.number = i.number
         \/ /\ k.gen = i.gen + 1
            /\ \A n \in DOMAIN j : j[n].gen = i.gen => Gone(j[n], p[n])
  PROVE  Tried(k, j, e, p)
<1>1. CASE k.gen = i.gen /\ k.via = i.via /\ k.number = i.number
  BY <1>1 DEF Tried
<1>2. CASE /\ k.gen = i.gen + 1
           /\ \A n \in DOMAIN j : j[n].gen = i.gen => Gone(j[n], p[n])
  <2>1. \A n \in DOMAIN j : j[n].gen \in Nat /\ j[n].gen <= i.gen
    BY FactsAt DEF Attempt, Tried
  <2>2. i.gen \in Nat
    BY DEF RowOK
  <2>3. \A n \in DOMAIN j : Gone(j[n], p[n])
    BY <1>2, <2>1, <2>2 DEF Tried
  <2>4. \A n \in DOMAIN j : j[n].gen < k.gen
    BY <1>2, <2>1, <2>2
  <2>5. \A n \in DOMAIN j : j[n].gen <= k.gen /\ j[n].gen # k.gen
    BY <1>2, <2>1, <2>2
  <2>. QED  BY <2>3, <2>4, <2>5 DEF Tried
<1>. QED  BY <1>1, <1>2

\* A generation that has not begun has no call.
LEMMA NewGenerationIsQuiet ==
  ASSUME NEW i, NEW k, NEW j, NEW e, NEW p, Facts(j, e, p), Tried(i, j, e, p), RowOK(i),
         k.gen = i.gen + 1
  PROVE  KnownLive(k, j, e) = {}
<1>1. \A n \in DOMAIN j : j[n].gen \in Nat /\ j[n].gen <= i.gen
  BY FactsAt DEF Attempt, Tried
<1>2. i.gen \in Nat
  BY DEF RowOK
<1>3. \A n \in DOMAIN j : j[n].gen # k.gen
  BY <1>1, <1>2
<1>. QED  BY <1>3 DEF KnownLive, OfGeneration

\* What the question is answered with.
LEMMA VerdictIs ==
  ASSUME NEW i, NEW j, NEW e, i.status # "sending"
  PROVE  LET v == GenerationVerdict(i, j, e) IN
         \/ v = "happened" /\ Happened(e) # {}
         \/ /\ v = "not_placed" /\ Happened(e) = {} /\ Unaccounted(i, j, e) = {}
            /\ \A n \in Named(i, j, e) : e[n].state \in {"not_placed", "withdrawn"}
         \/ v = "unknown" /\ Happened(e) = {} /\ i.wait = "over"
         \/ v = "still_going" /\ Happened(e) = {}
BY DEF GenerationVerdict

\* A commitment without an open request is steady and calm once the question was asked,
\* and settled if a call took place.
LEMMA ReviewKeeps ==
  ASSUME NEW i, NEW j, NEW e, NEW p, NEW polled,
         Facts(j, e, p), RowOK(i), Steady(i, j, e, p), i.status \in {"pending", "awaiting_receipt"}
  PROVE  LET w == Reviewed(i, j, e, polled) IN
         /\ RowOK(w) /\ Steady(w, j, e, p) /\ Calm(w, j, e)
         /\ w.status # "sending"
         /\ Happened(e) # {} => w.status = "succeeded"
<1>1. PICK w, v : w = Reviewed(i, j, e, polled) /\ v = GenerationVerdict(i, j, e)
  OBVIOUS
<1>2. PICK heeds : heeds = ReviewHeeds(i, j, e, v, polled)
  OBVIOUS
<1>3. PICK m, receipt : m = DecideVerdict(View(i), v) /\ receipt = ReceiptEffect(i, j, e, v)
  OBVIOUS
<1>4. w = IF heeds THEN Written(i, m, receipt) ELSE i
  BY <1>1, <1>2, <1>3 DEF Reviewed
<1>5. Closed(j) /\ Tried(i, j, e, p) /\ (i.status = "pending" => i.wait = "none")
  BY DEF Steady
<1>6. IsCall(View(i)) /\ View(i).status = i.status
  BY ViewIsCall
<1>. SUFFICES /\ RowOK(w) /\ Steady(w, j, e, p) /\ Calm(w, j, e)
              /\ w.status # "sending"
              /\ Happened(e) # {} => w.status = "succeeded"
  BY <1>1, Zenon
<1>7. CASE v = "happened" /\ Happened(e) # {}
  <2>1. heeds
    BY <1>2, <1>7 DEF ReviewHeeds
  <2>2. m.to = "succeeded" /\ "NewGeneration" \notin m.effects
    BY <1>3, <1>6, <1>7, HappenedSettles
  <2>3. RowOK(w) /\ w.status = "succeeded" /\ w.gen = i.gen /\ w.via = i.via /\ w.number = i.number
    BY <1>4, <2>1, <2>2, WrittenRow
  <2>4. Tried(w, j, e, p)
    BY <1>5, <2>3, TriedStays
  <2>. QED  BY <1>5, <2>3, <2>4 DEF Steady, Calm, Terminal
<1>8. CASE /\ v = "not_placed" /\ Happened(e) = {} /\ Unaccounted(i, j, e) = {}
           /\ \A n \in Named(i, j, e) : e[n].state \in {"not_placed", "withdrawn"}
  <2>1. heeds
    BY <1>2, <1>8 DEF ReviewHeeds
  <2>2. m.to = "canceled" \/ (m.to = "pending" /\ "NewGeneration" \in m.effects)
    BY <1>3, <1>6, <1>8, VerdictMoves
  <2>3. KnownLive(i, j, e) = {}
    BY <1>8 DEF KnownLive, Named, NoEffect
  <2>4. CASE "NewGeneration" \in m.effects
    <3>1. RowOK(w) /\ w.status = m.to /\ w.gen = i.gen + 1 /\ w.wait = "none"
      BY <1>4, <2>1, <2>4, WrittenRow
    <3>2. \A n \in DOMAIN j : j[n].gen = i.gen => Gone(j[n], p[n])
      BY <1>5, <1>8, <2>3, GenerationIsGone
    <3>3. Tried(w, j, e, p) /\ KnownLive(w, j, e) = {}
      BY <1>5, <3>1, <3>2, TriedStays, NewGenerationIsQuiet
    <3>. QED  BY <1>5, <1>8, <2>2, <3>1, <3>3 DEF Steady, Calm, Terminal
  <2>5. CASE "NewGeneration" \notin m.effects
    <3>1. RowOK(w) /\ w.status = "canceled" /\ w.gen = i.gen /\ w.via = i.via /\ w.number = i.number
      BY <1>4, <2>1, <2>2, <2>5, WrittenRow
    <3>2. Tried(w, j, e, p)
      BY <1>5, <3>1, TriedStays
    <3>. QED  BY <1>5, <1>8, <3>1, <3>2 DEF Steady, Calm, Terminal
  <2>. QED  BY <2>4, <2>5
<1>9. CASE v = "unknown" /\ Happened(e) = {} /\ i.wait = "over"
  <2>1. i.status = "awaiting_receipt"
    BY <1>5, <1>9
  <2>2. heeds
    BY <1>2, <1>9, <2>1 DEF ReviewHeeds
  <2>3. m.to = "succeeded" /\ "NewGeneration" \notin m.effects
    BY <1>3, <1>6, <1>9, <2>1, VerdictMoves
  <2>4. RowOK(w) /\ w.status = "succeeded" /\ w.gen = i.gen /\ w.via = i.via /\ w.number = i.number
    BY <1>4, <2>2, <2>3, WrittenRow
  <2>5. Tried(w, j, e, p)
    BY <1>5, <2>4, TriedStays
  <2>. QED  BY <1>5, <1>9, <2>4, <2>5 DEF Steady, Calm, Terminal
<1>10. CASE v = "still_going" /\ Happened(e) = {}
  <2>1. CASE heeds
    <3>1. m.to = "awaiting_receipt" /\ "NewGeneration" \notin m.effects
      BY <1>3, <1>6, <1>10, VerdictMoves
    <3>2. RowOK(w) /\ w.status = "awaiting_receipt" /\ w.gen = i.gen /\ w.via = i.via /\ w.number = i.number
      BY <1>4, <2>1, <3>1, WrittenRow
    <3>3. Tried(w, j, e, p)
      BY <1>5, <3>2, TriedStays
    <3>. QED  BY <1>5, <1>10, <3>2, <3>3 DEF Steady, Calm, Terminal
  <2>2. CASE ~heeds
    <3>1. w = i
      BY <1>4, <2>2
    <3>2. i.status = "pending" => KnownLive(i, j, e) = {}
      BY <1>2, <1>10, <2>2 DEF ReviewHeeds
    <3>. QED  BY <1>10, <3>1, <3>2 DEF Calm
  <2>. QED  BY <2>1, <2>2
<1>11. i.status # "sending"
  OBVIOUS
<1>. QED  BY <1>1, <1>7, <1>8, <1>9, <1>10, <1>11, VerdictIs

------------------------------------------------------------------------------
(* Steps.                                                                     *)

\* What the step does to a call known to have taken place.
SettlesNow ==
  ~decided /\ Happened(effects') # {} /\ intent.status \notin Terminal =>
    intent'.status \in {"sending", "succeeded"}

Kept == CInv' /\ SettlesNow

\* A row the question was asked of is still a row.
LEMMA ReviewedRow ==
  \A i, j, e, polled : RowOK(i) => RowOK(Reviewed(i, j, e, polled))
<1>. SUFFICES ASSUME NEW i, NEW j, NEW e, NEW polled, RowOK(i) PROVE RowOK(Reviewed(i, j, e, polled))
  OBVIOUS
<1>1. \A m, r : RowOK(Written(i, m, r))
  BY WrittenRow
<1>2. \/ Reviewed(i, j, e, polled) = i
      \/ \E m, r : Reviewed(i, j, e, polled) = Written(i, m, r)
  BY DEF Reviewed
<1>. QED  BY <1>1, <1>2

\* A row that changes nothing of what was tried, and at most ends with no request open.
LEMMA RowKeeps ==
  ASSUME NEW i, NEW k, NEW j, NEW e, NEW p,
         Steady(i, j, e, p), Calm(i, j, e),
         k.gen = i.gen, k.via = i.via, k.number = i.number,
         i.status = "sending" => k.attempt = i.attempt,
         \/ k.status = i.status /\ (k.wait = i.wait \/ i.status \notin {"pending", "sending"})
         \/ k.status \in Terminal /\ i.status # "sending"
  PROVE  Steady(k, j, e, p) /\ Calm(k, j, e)
<1>1. Tried(k, j, e, p)
  BY DEF Steady, Tried
<1>2. KnownLive(k, j, e) = KnownLive(i, j, e)
  BY DEF KnownLive
<1>3. Open(i, j) /\ i.status = "sending" => Open(k, j)
  BY DEF Open
<1>. QED  BY <1>1, <1>2, <1>3 DEF Steady, Calm, Terminal

\* A slot that remembers no request, or goes on with its own.
LEMMA SlotMoves ==
  ASSUME NEW ws, NEW j, NEW p, NEW k, NEW q, SlotsOK(ws, j, p), NEW w \in Worker, NEW s,
         SlotOK(s), FlightOK(s, k, q),
         InFlight(s) => \/ InFlight(ws[w]) /\ s.attempt = ws[w].attempt
                        \/ s.attempt \notin DOMAIN j,
         \A v \in Worker : v # w => FlightOK(ws[v], k, q)
  PROVE  SlotsOK([ws EXCEPT ![w] = s], k, q)
<1>. DEFINE new == [ws EXCEPT ![w] = s]
<1>1. DOMAIN new = Worker /\ new[w] = s /\ \A v \in Worker : v # w => new[v] = ws[v]
  BY DEF SlotsOK
<1>. HIDE DEF new
<1>2. \A v \in Worker : SlotOK(ws[v])
  BY DEF SlotsOK
<1>3. ASSUME NEW v \in Worker PROVE SlotOK(new[v]) /\ FlightOK(new[v], k, q)
  <2>1. CASE v = w
    BY <1>1, <2>1
  <2>2. CASE v # w
    BY <1>1, <1>2, <2>2
  <2>. QED  BY <2>1, <2>2
<1>4. \A v \in Worker : InFlight(ws[v]) => ws[v].attempt \in DOMAIN j
  BY DEF SlotsOK, FlightOK
<1>5. \A v \in Worker : v # w /\ InFlight(s) /\ InFlight(ws[v]) => s.attempt # ws[v].attempt
  BY <1>4 DEF SlotsOK
<1>6. \A u, v \in Worker : InFlight(new[u]) /\ InFlight(new[v]) /\ u # v => new[u].attempt # new[v].attempt
  BY <1>1, <1>5 DEF SlotsOK
<1>7. SlotsOK(new, k, q)
  BY <1>1, <1>3, <1>6 DEF SlotsOK
<1>. QED  BY <1>7 DEF new

\* A slot that lets go.
LEMMA SlotIdles ==
  ASSUME NEW ws, NEW j, NEW p, SlotsOK(ws, j, p), NEW w \in Worker
  PROVE  SlotsOK([ws EXCEPT ![w] = IdleWorker], j, p)
<1>1. SlotOK(IdleWorker) /\ ~InFlight(IdleWorker) /\ FlightOK(IdleWorker, j, p)
  BY DEF SlotOK, IdleWorker, InFlight, FlightOK
<1>2. \A v \in Worker : FlightOK(ws[v], j, p)
  BY DEF SlotsOK
<1>. QED  BY <1>1, <1>2, SlotMoves

\* A step that writes at most the row, the slots, the pollers and the number.
LEMMA RowStep ==
  ASSUME CInv, UNCHANGED <<journal, effects, placed>>,
         RowOK(intent'), number' \in Nat,
         SlotsOK(workers', journal, placed), PollsOK(pollers', placed), InboxOK(inbox', effects, placed),
         ~decided' => ~decided,
         ~decided => /\ intent'.gen = intent.gen /\ intent'.via = intent.via
                     /\ intent'.number = intent.number
                     /\ intent.status = "sending" => intent'.attempt = intent.attempt
                     /\ \/ /\ intent'.status = intent.status
                           /\ intent'.wait = intent.wait \/ intent.status \notin {"pending", "sending"}
                        \/ intent'.status \in Terminal /\ intent.status # "sending"
  PROVE  Kept
<1>1. PICK i, k, j, e, p : i = intent /\ k = intent' /\ j = journal /\ e = effects /\ p = placed
  OBVIOUS
<1>2. NInv'
  BY DEF CInv, NInv
<1>3. ASSUME ~decided
      PROVE  Steady(k, j, e, p) /\ Calm(k, j, e)
  <2>1. Steady(i, j, e, p) /\ Calm(i, j, e)
    BY <1>1, <1>3 DEF CInv
  <2>2. /\ k.gen = i.gen /\ k.via = i.via /\ k.number = i.number
        /\ i.status = "sending" => k.attempt = i.attempt
        /\ \/ k.status = i.status /\ (k.wait = i.wait \/ i.status \notin {"pending", "sending"})
           \/ k.status \in Terminal /\ i.status # "sending"
    BY <1>1, <1>3
  <2>. QED  BY <2>1, <2>2, RowKeeps
<1>4. ~decided' => Steady(intent', journal', effects', placed') /\ Calm(intent', journal', effects')
  BY <1>1, <1>3
<1>5. SettlesNow
  <2>. SUFFICES ASSUME ~decided, Happened(effects) # {}, intent.status \notin Terminal
                PROVE  intent'.status = "sending"
    BY DEF SettlesNow
  <2>1. Steady(intent, journal, effects, placed) /\ Calm(intent, journal, effects)
    BY DEF CInv
  <2>2. intent.status = "sending"
    BY <2>1 DEF Steady, Calm
  <2>. QED  BY <2>2
<1>. QED  BY <1>2, <1>4, <1>5 DEF Kept, CInv

\* Time passes over the row.
LEMMA ClockStep == CInv /\ Clock => Kept
<1>. SUFFICES ASSUME CInv, Clock PROVE Kept
  OBVIOUS
<1>1. /\ RowOK(intent) /\ number \in Nat /\ SlotsOK(workers, journal, placed)
      /\ PollsOK(pollers, placed) /\ InboxOK(inbox, effects, placed)
  BY DEF CInv, NInv
<1>2. OnlyTheRow
  BY DEF Clock, LeaseExpires, LeaseOverruns, Lapse, DeadlinePasses, WaitRunsOut
<1>3. \/ intent' = [intent EXCEPT !.live = FALSE]
      \/ intent' = [intent EXCEPT !.deadline = "past"]
      \/ intent.wait = "running" /\ intent' = [intent EXCEPT !.wait = "over"]
  BY DEF Clock, LeaseExpires, LeaseOverruns, Lapse, DeadlinePasses, WaitRunsOut
<1>4. /\ RowOK(intent') /\ intent'.gen = intent.gen /\ intent'.via = intent.via
      /\ intent'.number = intent.number /\ intent'.attempt = intent.attempt
      /\ intent'.status = intent.status
  BY <1>1, <1>3 DEF RowOK, RowFields
<1>5. intent'.wait = intent.wait \/ intent.wait = "running"
  BY <1>1, <1>3 DEF RowOK, RowFields
<1>6. ~decided => intent'.wait = intent.wait \/ intent.status \notin {"pending", "sending"}
  BY <1>5 DEF CInv, Steady
<1>. QED  BY <1>1, <1>2, <1>4, <1>6, RowStep DEF OnlyTheRow

\* The deadline passes over a call waiting to be made.
LEMMA ExpireStep == CInv /\ Expire => Kept
<1>. SUFFICES ASSUME CInv, Expire PROVE Kept
  OBVIOUS
<1>1. /\ RowOK(intent) /\ number \in Nat /\ SlotsOK(workers, journal, placed)
      /\ PollsOK(pollers, placed) /\ InboxOK(inbox, effects, placed)
  BY DEF CInv, NInv
<1>2. /\ OnlyTheRow /\ intent.status = "pending"
      /\ intent' = [intent EXCEPT !.status = "expired", !.token = 0, !.live = FALSE]
  BY DEF Expire
<1>3. /\ RowOK(intent') /\ intent'.gen = intent.gen /\ intent'.via = intent.via
      /\ intent'.number = intent.number /\ intent'.attempt = intent.attempt
      /\ intent'.status \in Terminal
  BY <1>1, <1>2 DEF RowOK, RowFields, Terminal
<1>. QED  BY <1>1, <1>2, <1>3, RowStep DEF OnlyTheRow

\* The alert is acknowledged: a queued call ends, one in flight is asked to stop.
LEMMA AcknowledgeStep == CInv /\ Acknowledge => Kept
<1>. SUFFICES ASSUME CInv, Acknowledge PROVE Kept
  OBVIOUS
<1>1. /\ RowOK(intent) /\ number \in Nat /\ SlotsOK(workers, journal, placed)
      /\ PollsOK(pollers, placed) /\ InboxOK(inbox, effects, placed)
  BY DEF CInv, NInv
<1>2. /\ UNCHANGED <<journal, effects, inbox, placed, workers, pollers, number, decided>>
      /\ \/ intent.status = "pending" /\ intent' = [intent EXCEPT !.status = "canceled", !.token = 0, !.live = FALSE]
         \/ intent' = [intent EXCEPT !.cancel = TRUE]
         \/ intent' = [intent EXCEPT !.withdrawn = TRUE]
         \/ intent' = intent
  BY DEF Acknowledge, Withdrawn
<1>3. /\ RowOK(intent') /\ intent'.gen = intent.gen /\ intent'.via = intent.via
      /\ intent'.number = intent.number /\ intent'.attempt = intent.attempt
      /\ intent'.wait = intent.wait
  BY <1>1, <1>2 DEF RowOK, RowFields
<1>4. intent'.status = intent.status \/ (intent'.status \in Terminal /\ intent.status # "sending")
  BY <1>1, <1>2 DEF RowOK, RowFields, Terminal
<1>. QED  BY <1>1, <1>2, <1>3, <1>4, RowStep

\* The person's number is replaced.
LEMMA RenumberStep == CInv /\ Renumber => Kept
<1>. SUFFICES ASSUME CInv, Renumber PROVE Kept
  OBVIOUS
<1>1. /\ RowOK(intent) /\ number \in Nat /\ SlotsOK(workers, journal, placed)
      /\ PollsOK(pollers, placed) /\ InboxOK(inbox, effects, placed)
  BY DEF CInv, NInv
<1>2. /\ number' \in Nat
      /\ UNCHANGED <<intent, journal, effects, inbox, placed, workers, pollers, decided>>
  BY <1>1 DEF Renumber
<1>. QED  BY <1>1, <1>2, RowStep

\* The pollers' own steps.
LEMMA PollerStep ==
  ASSUME CInv, NEW o \in Poller,
         UNCHANGED <<intent, journal, effects, inbox, placed, workers, number, decided>>,
         \E s : /\ pollers' = [pollers EXCEPT ![o] = s]
                /\ DOMAIN s = {"pc", "left"} /\ s.left \subseteq DOMAIN placed
  PROVE  Kept
<1>1. /\ RowOK(intent) /\ number \in Nat /\ SlotsOK(workers, journal, placed)
      /\ PollsOK(pollers, placed) /\ InboxOK(inbox, effects, placed)
  BY DEF CInv, NInv
<1>2. PollsOK(pollers', placed)
  BY <1>1 DEF PollsOK
<1>. QED  BY <1>1, <1>2, RowStep

\* A poll takes the calls to ask about, asks in vain, or dies.
LEMMA LookStep == \A o \in Poller : CInv /\ ClaimLook(o) => Kept
<1>. SUFFICES ASSUME NEW o \in Poller, CInv, ClaimLook(o) PROVE Kept
  OBVIOUS
<1>1. PICK l : l = {n \in DOMAIN effects : effects[n].state = "in_progress"}
  OBVIOUS
<1>2. l \subseteq DOMAIN placed
  BY <1>1, FactsAt DEF CInv, NInv
<1>3. PICK s : s = [pc |-> "asking", left |-> l]
  OBVIOUS
<1>4. DOMAIN s = {"pc", "left"} /\ s.left \subseteq DOMAIN placed
  BY <1>2, <1>3
<1>5. /\ pollers' = [pollers EXCEPT ![o] = s]
      /\ UNCHANGED <<intent, journal, effects, inbox, placed, workers, number, decided>>
  BY <1>1, <1>3 DEF ClaimLook
<1>. QED  BY <1>4, <1>5, PollerStep

LEMMA PollerDies == \A o \in Poller : CInv /\ PollerCrash(o) => Kept
<1>. SUFFICES ASSUME NEW o \in Poller, CInv, PollerCrash(o) PROVE Kept
  OBVIOUS
<1>1. DOMAIN IdlePoller = {"pc", "left"} /\ IdlePoller.left \subseteq DOMAIN placed
  BY DEF IdlePoller
<1>2. /\ pollers' = [pollers EXCEPT ![o] = IdlePoller]
      /\ UNCHANGED <<intent, journal, effects, inbox, placed, workers, number, decided>>
  BY DEF PollerCrash
<1>. QED  BY <1>1, <1>2, PollerStep

\* A question is off the poller's list.
LEMMA Asked ==
  \A o \in Poller : \A n : PollsOK(pollers, placed) =>
    PollsOK([pollers EXCEPT ![o].left = @ \ {n}], placed)
BY DEF PollsOK

LEMMA AskFailsStep == \A o \in Poller : \A n : CInv /\ AskFails(o, n) => Kept
<1>. SUFFICES ASSUME NEW o \in Poller, NEW n, CInv, AskFails(o, n) PROVE Kept
  OBVIOUS
<1>1. /\ RowOK(intent) /\ number \in Nat /\ SlotsOK(workers, journal, placed)
      /\ PollsOK(pollers, placed) /\ InboxOK(inbox, effects, placed)
  BY DEF CInv, NInv
<1>2. /\ pollers' = [pollers EXCEPT ![o].left = @ \ {n}]
      /\ UNCHANGED <<intent, journal, effects, inbox, placed, workers, number, decided>>
  BY DEF AskFails
<1>3. PollsOK(pollers', placed)
  BY <1>1, <1>2, Asked
<1>. QED  BY <1>1, <1>2, <1>3, RowStep

\* The wait is looked at.
LEMMA ReviewWaitStep == \A o \in Poller : CInv /\ ReviewWait(o) => Kept
<1>. SUFFICES ASSUME NEW o \in Poller, CInv, ReviewWait(o) PROVE Kept
  OBVIOUS
<1>1. /\ RowOK(intent) /\ number \in Nat /\ SlotsOK(workers, journal, placed)
      /\ PollsOK(pollers, placed) /\ InboxOK(inbox, effects, placed) /\ Facts(journal, effects, placed)
  BY DEF CInv, NInv
<1>2. /\ pollers' = [pollers EXCEPT ![o] = IdlePoller]
      /\ UNCHANGED <<journal, effects, inbox, placed, workers, number, decided>>
      /\ intent' = IF intent.status = "awaiting_receipt"
                   THEN Reviewed(intent, journal, effects, TRUE) ELSE intent
  BY DEF ReviewWait
<1>3. PollsOK(pollers', placed)
  BY <1>1, <1>2 DEF PollsOK, IdlePoller
<1>4. RowOK(intent')
  BY <1>1, <1>2, ReviewedRow
<1>5. CASE intent.status = "awaiting_receipt"
  <2>1. PICK k, polled : k = Reviewed(intent, journal, effects, polled) /\ intent' = k
    BY <1>2, <1>5
  <2>2. ~decided => Steady(intent, journal, effects, placed)
    BY DEF CInv
  <2>3. ~decided => /\ Steady(k, journal, effects, placed) /\ Calm(k, journal, effects)
                    /\ Happened(effects) # {} => k.status = "succeeded"
    BY <1>1, <1>5, <2>1, <2>2, ReviewKeeps
  <2>4. NInv'
    BY <1>1, <1>2, <1>3, <1>4 DEF NInv
  <2>. QED  BY <1>2, <2>1, <2>3, <2>4 DEF Kept, CInv, SettlesNow
<1>6. CASE intent.status # "awaiting_receipt"
  <2>1. intent' = intent
    BY <1>2, <1>6
  <2>. QED  BY <1>1, <1>2, <1>3, <2>1, RowStep
<1>. QED  BY <1>5, <1>6

\* A slot's step that holds no request.
LEMMA SlotStep ==
  ASSUME CInv, NEW w \in Worker, NEW s, SlotOK(s), ~InFlight(s),
         workers' = [workers EXCEPT ![w] = s],
         UNCHANGED <<journal, effects, inbox, placed, pollers, number, decided>>,
         RowOK(intent'),
         ~decided => /\ intent'.gen = intent.gen /\ intent'.via = intent.via
                     /\ intent'.number = intent.number
                     /\ intent.status = "sending" => intent'.attempt = intent.attempt
                     /\ \/ /\ intent'.status = intent.status
                           /\ intent'.wait = intent.wait \/ intent.status \notin {"pending", "sending"}
                        \/ intent'.status \in Terminal /\ intent.status # "sending"
  PROVE  Kept
<1>1. /\ number \in Nat /\ SlotsOK(workers, journal, placed)
      /\ PollsOK(pollers, placed) /\ InboxOK(inbox, effects, placed)
  BY DEF CInv, NInv
<1>2. FlightOK(s, journal, placed)
  BY DEF InFlight, FlightOK
<1>3. \A v \in Worker : FlightOK(workers[v], journal, placed)
  BY <1>1 DEF SlotsOK
<1>4. SlotsOK([workers EXCEPT ![w] = s], journal, placed)
  BY <1>1, <1>2, <1>3, SlotMoves
<1>5. SlotsOK(workers', journal, placed)
  BY <1>4
<1>. QED  BY <1>1, <1>5, RowStep

LEMMA IdleIsQuiet == SlotOK(IdleWorker) /\ ~InFlight(IdleWorker)
BY DEF SlotOK, IdleWorker, InFlight

\* A queued call is claimed.
LEMMA ClaimStep == \A w \in Worker : CInv /\ Claim(w) => Kept
<1>. SUFFICES ASSUME NEW w \in Worker, CInv, Claim(w) PROVE Kept
  OBVIOUS
<1>1. RowOK(intent)
  BY DEF CInv, NInv
<1>2. PICK token : /\ intent' = [intent EXCEPT !.token = token, !.live = TRUE]
                   /\ workers' = [workers EXCEPT ![w] = [IdleWorker EXCEPT !.pc = "leased", !.token = token]]
  BY DEF Claim
<1>3. UNCHANGED <<journal, effects, inbox, placed, pollers, number, decided>>
  BY DEF Claim
<1>4. PICK s : s = [IdleWorker EXCEPT !.pc = "leased", !.token = token]
  OBVIOUS
<1>5. SlotOK(s) /\ ~InFlight(s)
  BY <1>4 DEF SlotOK, IdleWorker, InFlight
<1>6. /\ RowOK(intent') /\ intent'.gen = intent.gen /\ intent'.via = intent.via
      /\ intent'.number = intent.number /\ intent'.attempt = intent.attempt
      /\ intent'.status = intent.status /\ intent'.wait = intent.wait
  BY <1>1, <1>2 DEF RowOK, RowFields
<1>7. workers' = [workers EXCEPT ![w] = s]
  BY <1>2, <1>4
<1>. QED  BY <1>3, <1>5, <1>6, <1>7, SlotStep

\* A preparation ends.
LEMMA ProposedStep ==
  ASSUME CInv, NEW w \in Worker,
         NEW prep \in {"ready", "no_contact", "permanent", "transient"},
         NEW via \in Integration \cup {NoIntegration}, Proposed(w, prep, via)
  PROVE  Kept
<1>1. /\ RowOK(intent) /\ number \in Nat /\ SlotsOK(workers, journal, placed)
  BY DEF CInv, NInv
<1>2. PICK s : s = [workers[w] EXCEPT !.pc = "prepared", !.prep = prep, !.via = via, !.number = number]
  OBVIOUS
<1>3. SlotOK(workers[w]) /\ DOMAIN workers = Worker
  BY <1>1 DEF SlotsOK
<1>4. DOMAIN s = DOMAIN IdleWorker
  BY <1>2, <1>3 DEF SlotOK
<1>5. s.pc = "prepared" /\ s.prep = prep /\ s.via = via /\ s.number = number
  BY <1>2, <1>3 DEF SlotOK, IdleWorker
<1>6. SlotOK(s) /\ ~InFlight(s)
  BY <1>1, <1>4, <1>5 DEF SlotOK, InFlight
<1>7. workers' = [workers EXCEPT ![w] = s]
  BY <1>2, <1>3 DEF Proposed
<1>8. UNCHANGED <<intent, journal, effects, inbox, placed, pollers, number, decided>>
  BY DEF Proposed
<1>. QED  BY <1>1, <1>6, <1>7, <1>8, SlotStep

LEMMA PrepareStep == \A w \in Worker : CInv /\ PrepareEnds(w) => Kept
<1>. SUFFICES ASSUME NEW w \in Worker, CInv, PrepareEnds(w) PROVE Kept
  OBVIOUS
<1>1. \E prep \in {"ready", "no_contact", "permanent", "transient"},
         via \in Integration \cup {NoIntegration} : Proposed(w, prep, via)
  <2>1. CASE PrepareNoContact(w)
    BY <2>1 DEF PrepareNoContact
  <2>2. CASE PrepareReady(w)
    BY <2>2 DEF PrepareReady
  <2>3. CASE PrepareExhausted(w)
    BY <2>3 DEF PrepareExhausted
  <2>4. CASE PrepareNotNow(w)
    BY <2>4 DEF PrepareNotNow
  <2>. QED  BY <2>1, <2>2, <2>3, <2>4 DEF PrepareEnds
<1>. QED  BY <1>1, ProposedStep

\* What a preparation that is not ready makes of a queued call.
LEMMA PreparationMoves ==
  ASSUME NEW v, v.status = "pending", NEW outcome \in {"no_contact", "permanent", "transient"}
  PROVE  LET m == DecidePreparation(v, outcome) IN
         /\ m.to = "pending" \/ m.to \in Terminal
         /\ "NewGeneration" \notin m.effects /\ "AwaitReceipt" \notin m.effects
BY DEF DecidePreparation, Move, Terminal

\* A slot that no longer holds the lease, and one that prepared in vain.
LEMMA BeginDeniedStep == \A w \in Worker : CInv /\ BeginDenied(w) => Kept
<1>. SUFFICES ASSUME NEW w \in Worker, CInv, BeginDenied(w) PROVE Kept
  OBVIOUS
<1>1. RowOK(intent)
  BY DEF CInv, NInv
<1>2. /\ workers' = [workers EXCEPT ![w] = IdleWorker]
      /\ UNCHANGED <<intent, journal, effects, inbox, placed, pollers, number, decided>>
  BY DEF BeginDenied
<1>. QED  BY <1>1, <1>2, IdleIsQuiet, SlotStep

LEMMA BeginRefusedStep == \A w \in Worker : CInv /\ BeginRefused(w) => Kept
<1>. SUFFICES ASSUME NEW w \in Worker, CInv, BeginRefused(w) PROVE Kept
  OBVIOUS
<1>1. RowOK(intent) /\ SlotsOK(workers, journal, placed)
  BY DEF CInv, NInv
<1>2. PICK m : m = DecidePreparation(View(intent), workers[w].prep)
  OBVIOUS
<1>3. /\ intent.status = "pending" /\ workers[w].pc = "prepared" /\ workers[w].prep # "ready"
      /\ intent' = Written(intent, m, 0)
      /\ workers' = [workers EXCEPT ![w] = IdleWorker]
      /\ UNCHANGED <<journal, effects, inbox, placed, pollers, number, decided>>
  BY <1>2 DEF BeginRefused, Holds
<1>4. workers[w].prep \in {"no_contact", "permanent", "transient"}
  BY <1>1, <1>3 DEF SlotsOK, SlotOK
<1>5. View(intent).status = "pending"
  BY <1>3, ViewIsCall
<1>6. /\ m.to = "pending" \/ m.to \in Terminal
      /\ "NewGeneration" \notin m.effects /\ "AwaitReceipt" \notin m.effects
  BY <1>2, <1>4, <1>5, PreparationMoves
<1>7. PICK k : k = Written(intent, m, 0) /\ intent' = k
  BY <1>3
<1>8. /\ RowOK(k) /\ k.gen = intent.gen /\ k.via = intent.via
      /\ k.number = intent.number /\ k.status = m.to /\ k.wait = intent.wait
  BY <1>1, <1>6, <1>7, WrittenRow
<1>9. k.status = intent.status \/ k.status \in Terminal
  BY <1>3, <1>6, <1>8
<1>. QED  BY <1>3, <1>7, <1>8, <1>9, IdleIsQuiet, SlotStep

\* An answer that came too late, and a slot that dies.
LEMMA FinalizeLateStep == \A w \in Worker : CInv /\ FinalizeLate(w) => Kept
<1>. SUFFICES ASSUME NEW w \in Worker, CInv, FinalizeLate(w) PROVE Kept
  OBVIOUS
<1>1. RowOK(intent)
  BY DEF CInv, NInv
<1>2. /\ workers' = [workers EXCEPT ![w] = IdleWorker]
      /\ UNCHANGED <<intent, journal, effects, inbox, placed, pollers, number, decided>>
  BY DEF FinalizeLate
<1>. QED  BY <1>1, <1>2, IdleIsQuiet, SlotStep

LEMMA CrashStep == \A w \in Worker : CInv /\ Crash(w) => Kept
<1>. SUFFICES ASSUME NEW w \in Worker, CInv, Crash(w) PROVE Kept
  OBVIOUS
<1>1. RowOK(intent)
  BY DEF CInv, NInv
<1>2. /\ workers' = [workers EXCEPT ![w] = IdleWorker]
      /\ UNCHANGED <<intent, journal, effects, inbox, placed, pollers, number, decided>>
  BY DEF Crash
<1>. QED  BY <1>1, <1>2, IdleIsQuiet, SlotStep

\* A call that is made, or ends: what was said of the others stays true, and nothing was
\* said of it that is not true any more.
LEMMA TruthMoves ==
  ASSUME NEW i, NEW j, NEW e, NEW p, NEW box, NEW ps, NEW n \in DOMAIN p, NEW t,
         Facts(j, e, p), RowOK(i), InboxOK(box, e, p), PollsOK(ps, p),
         \/ p[n] = "none" /\ t \in {"none", "in_progress"} /\ j[n].by # "worker"
         \/ p[n] = "in_progress" /\ t \in {"happened", "not_placed"}
  PROVE  LET q == [p EXCEPT ![n] = t] IN
         /\ Facts(j, e, q) /\ InboxOK(box, e, q) /\ PollsOK(ps, q)
         /\ Steady(i, j, e, p) => Steady(i, j, e, q)
<1>1. PICK q : q = [p EXCEPT ![n] = t]
  OBVIOUS
<1>. SUFFICES /\ Facts(j, e, q) /\ InboxOK(box, e, q) /\ PollsOK(ps, q)
              /\ Steady(i, j, e, p) => Steady(i, j, e, q)
  BY <1>1
<1>2. /\ Len(j) \in Nat /\ DOMAIN j = 1..Len(j) /\ DOMAIN e = DOMAIN j /\ DOMAIN p = DOMAIN j
      /\ \A m \in DOMAIN j : j[m] \in Attempt /\ e[m] \in Effect /\ p[m] \in EffectStates \cup {"none"}
  BY FactsAt
<1>3. DOMAIN q = DOMAIN p /\ q[n] = t /\ \A m \in DOMAIN p : m # n => q[m] = p[m]
  BY <1>1
<1>4. e[n].state \notin Ended /\ (p[n] = "none" => e[n].state = "none")
  BY <1>2 DEF Facts, Ended
<1>5. q \in Seq(EffectStates \cup {"none"}) /\ Len(q) = Len(p)
  <2>1. p \in Seq(EffectStates \cup {"none"}) /\ t \in EffectStates \cup {"none"}
    BY DEF Facts, EffectStates
  <2>. QED  BY <1>1, <2>1
<1>6. \A m \in DOMAIN j : /\ e[m].state # "none" => q[m] # "none"
                          /\ e[m].state \in Ended => q[m] = e[m].state
  BY <1>2, <1>3, <1>4 DEF Facts
<1>7. Facts(j, e, q)
  BY <1>5, <1>6 DEF Facts
<1>8. \A ev \in box.kept : EventOK(ev, q)
  <2>. SUFFICES ASSUME NEW ev \in box.kept PROVE EventOK(ev, q)
    OBVIOUS
  <2>1. EventOK(ev, p)
    BY DEF InboxOK
  <2>. QED  BY <1>3, <2>1 DEF EventOK, Ended
<1>9. InboxOK(box, e, q)
  BY <1>8 DEF InboxOK
<1>10. PollsOK(ps, q)
  BY <1>3 DEF PollsOK
<1>11. ASSUME Steady(i, j, e, p) PROVE Tried(i, j, e, q)
  <2>1. Tried(i, j, e, p)
    BY <1>11 DEF Steady
  <2>2. p[n] = "none" => j[n].outcome \in {"open", "ambiguous"}
    BY <1>2 DEF Facts, Attempt
  <2>3. \A m \in DOMAIN j : j[m].outcome \in {"retryable", "permanent"} => q[m] = "none"
    BY <1>2, <1>3, <2>1, <2>2 DEF Tried
  <2>4. ~(j[n].gen < i.gen)
    <3>. SUFFICES ASSUME j[n].gen < i.gen PROVE FALSE
      OBVIOUS
    <3>1. Gone(j[n], p[n])
      BY <1>2, <2>1 DEF Tried
    <3>. QED  BY <1>2, <3>1 DEF Gone, Attempt
  <2>5. \A m \in DOMAIN j : j[m].gen < i.gen => Gone(j[m], q[m])
    BY <1>2, <1>3, <2>1, <2>4 DEF Tried
  <2>6. p[n] = "none" /\ n < Len(j) => j[n].outcome = "ambiguous"
    <3>. SUFFICES ASSUME p[n] = "none", n < Len(j) PROVE j[n].by # "none"
      BY <1>2, <2>2 DEF Facts
    <3>1. n \in DOMAIN j /\ n # Len(j)
      BY <1>2
    <3>. QED  BY <1>11, <3>1 DEF Steady, Closed, Open
  <2>7. \A m \in DOMAIN j : m < Len(j) /\ q[m] \in {"in_progress", "happened"} => j[m].outcome = "ambiguous"
    BY <1>2, <1>3, <2>1, <2>6 DEF Tried
  <2>. QED  BY <2>1, <2>3, <2>5, <2>7 DEF Tried
<1>12. Steady(i, j, e, p) => Steady(i, j, e, q)
  BY <1>11 DEF Steady
<1>. QED  BY <1>7, <1>9, <1>10, <1>12

\* A step of a call, and at most of the slot that makes it.
LEMMA TruthStep ==
  ASSUME CInv, NEW n \in DOMAIN placed, NEW t, placed' = [placed EXCEPT ![n] = t],
         UNCHANGED <<intent, journal, effects, inbox, pollers, number, decided>>,
         SlotsOK(workers', journal, placed'),
         \/ placed[n] = "none" /\ t \in {"none", "in_progress"} /\ journal[n].by # "worker"
         \/ placed[n] = "in_progress" /\ t \in {"happened", "not_placed"}
  PROVE  Kept
<1>1. /\ RowOK(intent) /\ number \in Nat /\ Facts(journal, effects, placed)
      /\ PollsOK(pollers, placed) /\ InboxOK(inbox, effects, placed)
  BY DEF CInv, NInv
<1>2. PICK q : q = [placed EXCEPT ![n] = t] /\ placed' = q
  OBVIOUS
<1>3. /\ Facts(journal, effects, q) /\ InboxOK(inbox, effects, q) /\ PollsOK(pollers, q)
      /\ Steady(intent, journal, effects, placed) => Steady(intent, journal, effects, q)
  BY <1>1, <1>2, TruthMoves
<1>4. NInv'
  BY <1>1, <1>2, <1>3 DEF NInv
<1>5. ~decided => Steady(intent, journal, effects, q) /\ Calm(intent, journal, effects)
  BY <1>3 DEF CInv
<1>6. SettlesNow
  BY <1>5 DEF SettlesNow, Steady, Calm
<1>. QED  BY <1>2, <1>4, <1>5, <1>6 DEF Kept, CInv

\* The call an open request is about.
LEMMA InTheAir ==
  ASSUME NInv, NEW w \in Worker, InFlight(workers[w])
  PROVE  /\ workers[w].attempt \in DOMAIN journal /\ workers[w].attempt \in DOMAIN placed
         /\ workers[w].attempt \in DOMAIN effects
         /\ journal[workers[w].attempt].by # "worker"
         /\ workers[w].pc = "calling" => placed[workers[w].attempt] = "none"
         /\ \A v \in Worker : InFlight(workers[v]) /\ v # w => workers[v].attempt # workers[w].attempt
<1>1. FlightOK(workers[w], journal, placed) /\ Facts(journal, effects, placed)
  BY DEF NInv, SlotsOK
<1>2. DOMAIN placed = DOMAIN journal /\ DOMAIN effects = DOMAIN journal
  BY <1>1 DEF Facts
<1>. QED  BY <1>1, <1>2 DEF NInv, SlotsOK, FlightOK

\* The others' requests are about other calls.
LEMMA OthersFly ==
  ASSUME NInv, NEW w \in Worker, InFlight(workers[w]), NEW t
  PROVE  \A v \in Worker : v # w =>
           FlightOK(workers[v], journal, [placed EXCEPT ![workers[w].attempt] = t])
<1>. SUFFICES ASSUME NEW v \in Worker, v # w
              PROVE  FlightOK(workers[v], journal, [placed EXCEPT ![workers[w].attempt] = t])
  OBVIOUS
<1>1. FlightOK(workers[v], journal, placed)
  BY DEF NInv, SlotsOK
<1>2. InFlight(workers[v]) => workers[v].attempt # workers[w].attempt
  BY InTheAir
<1>3. DOMAIN placed = DOMAIN journal
  BY DEF NInv, Facts
<1>4. InFlight(workers[v]) =>
        [placed EXCEPT ![workers[w].attempt] = t][workers[v].attempt] = placed[workers[v].attempt]
  BY <1>1, <1>2, <1>3 DEF FlightOK
<1>. QED  BY <1>1, <1>4 DEF FlightOK, InFlight

\* The provider answers.
LEMMA AnsweredStep ==
  ASSUME CInv, NEW w \in Worker, NEW answer \in Answers, NEW truth \in {"none", "in_progress"},
         answer = "accepted" => truth = "in_progress",
         answer \in {"retryable", "permanent"} => truth = "none",
         Answered(w, answer, truth)
  PROVE  Kept
<1>1. PICK s, n, q : /\ s = [workers[w] EXCEPT !.pc = "answered", !.answer = answer]
                     /\ n = workers[w].attempt
                     /\ q = [placed EXCEPT ![n] = truth]
  OBVIOUS
<1>2. InFlight(workers[w]) /\ workers[w].pc = "calling" /\ NInv
  BY DEF Answered, InFlight, CInv
<1>3. n \in DOMAIN journal /\ n \in DOMAIN placed /\ journal[n].by # "worker" /\ placed[n] = "none"
  BY <1>1, <1>2, InTheAir
<1>4. SlotOK(workers[w]) /\ DOMAIN workers = Worker
  BY <1>2 DEF NInv, SlotsOK
<1>5. DOMAIN s = DOMAIN IdleWorker
  BY <1>1, <1>4 DEF SlotOK
<1>6. /\ s.pc = "answered" /\ s.answer = answer /\ s.attempt = n
      /\ s.prep = workers[w].prep /\ s.via = workers[w].via /\ s.number = workers[w].number
  BY <1>1, <1>4 DEF SlotOK, IdleWorker
<1>7. SlotOK(s)
  BY <1>4, <1>5, <1>6 DEF SlotOK
<1>8. q[n] = truth
  BY <1>1, <1>3
<1>9. FlightOK(s, journal, q)
  BY <1>3, <1>6, <1>8 DEF FlightOK
<1>10. \A v \in Worker : v # w => FlightOK(workers[v], journal, q)
  BY <1>1, <1>2, OthersFly
<1>11. SlotsOK([workers EXCEPT ![w] = s], journal, q)
  <2>1. SlotsOK(workers, journal, placed)
    BY <1>2 DEF NInv
  <2>2. InFlight(s) => InFlight(workers[w]) /\ s.attempt = workers[w].attempt
    BY <1>1, <1>2, <1>6
  <2>. QED  BY <1>7, <1>9, <1>10, <2>1, <2>2, SlotMoves
<1>12. workers' = [workers EXCEPT ![w] = s] /\ placed' = q
  BY <1>1, <1>4 DEF Answered
<1>13. UNCHANGED <<intent, journal, effects, inbox, pollers, number, decided>>
  BY DEF Answered
<1>14. placed' = [placed EXCEPT ![n] = truth] /\ SlotsOK(workers', journal, placed')
  BY <1>1, <1>11, <1>12
<1>. QED  BY <1>3, <1>13, <1>14, TruthStep

LEMMA RequestStep == \A w \in Worker : CInv /\ RequestEnds(w) => Kept
<1>. SUFFICES ASSUME NEW w \in Worker, CInv, RequestEnds(w) PROVE Kept
  OBVIOUS
<1>1. \E answer \in Answers, truth \in {"none", "in_progress"} :
        /\ answer = "accepted" => truth = "in_progress"
        /\ answer \in {"retryable", "permanent"} => truth = "none"
        /\ Answered(w, answer, truth)
  <2>1. CASE RequestAccepted(w)
    BY <2>1 DEF RequestAccepted, Answers
  <2>2. ASSUME NEW answer \in {"retryable", "permanent"}, RequestRejected(w, answer)
        PROVE  Answered(w, answer, "none") /\ answer \in Answers /\ answer # "accepted"
    BY <2>2 DEF RequestRejected, Answers
  <2>3. ASSUME NEW made \in BOOLEAN, RequestInDoubt(w, made)
        PROVE  \E truth \in {"none", "in_progress"} : Answered(w, "ambiguous", truth)
    BY <2>3 DEF RequestInDoubt
  <2>. QED  BY <2>1, <2>2, <2>3 DEF RequestEnds, Answers
<1>. QED  BY <1>1, AnsweredStep

\* The process dies with the call made.
LEMMA CrashAfterPlacingStep == \A w \in Worker : CInv /\ CrashAfterPlacing(w) => Kept
<1>. SUFFICES ASSUME NEW w \in Worker, CInv, CrashAfterPlacing(w) PROVE Kept
  OBVIOUS
<1>1. PICK n, q : n = workers[w].attempt /\ q = [placed EXCEPT ![n] = "in_progress"]
  OBVIOUS
<1>2. InFlight(workers[w]) /\ workers[w].pc = "calling" /\ NInv
  BY DEF CrashAfterPlacing, InFlight, CInv
<1>3. n \in DOMAIN placed /\ journal[n].by # "worker" /\ placed[n] = "none"
  BY <1>1, <1>2, InTheAir
<1>4. \A v \in Worker : v # w => FlightOK(workers[v], journal, q)
  BY <1>1, <1>2, OthersFly
<1>5. SlotsOK([workers EXCEPT ![w] = IdleWorker], journal, q)
  <2>1. SlotsOK(workers, journal, placed)
    BY <1>2 DEF NInv
  <2>2. FlightOK(IdleWorker, journal, q)
    BY DEF FlightOK, IdleWorker, InFlight
  <2>. QED  BY <1>4, <2>1, <2>2, IdleIsQuiet, SlotMoves
<1>6. /\ workers' = [workers EXCEPT ![w] = IdleWorker] /\ placed' = [placed EXCEPT ![n] = "in_progress"]
      /\ UNCHANGED <<intent, journal, effects, inbox, pollers, number, decided>>
  BY <1>1 DEF CrashAfterPlacing
<1>7. SlotsOK(workers', journal, placed')
  BY <1>1, <1>5, <1>6
<1>. QED  BY <1>3, <1>6, <1>7, TruthStep

\* A call ends, or is not put through.
LEMMA CallEndsStep ==
  \A n : \A state \in {"happened", "not_placed"} : CInv /\ CallEnds(n, state) => Kept
<1>. SUFFICES ASSUME NEW n, NEW state \in {"happened", "not_placed"}, CInv, CallEnds(n, state) PROVE Kept
  OBVIOUS
<1>1. /\ n \in DOMAIN placed /\ placed[n] = "in_progress" /\ placed' = [placed EXCEPT ![n] = state]
      /\ UNCHANGED <<intent, journal, effects, inbox, workers, pollers, number, decided>>
  BY DEF CallEnds
<1>2. SlotsOK(workers, journal, placed) /\ DOMAIN placed = DOMAIN journal
  BY DEF CInv, NInv, Facts
<1>3. PICK q : q = [placed EXCEPT ![n] = state]
  OBVIOUS
<1>4. q[n] = state /\ \A m \in DOMAIN placed : m # n => q[m] = placed[m]
  BY <1>1, <1>3
<1>5. ASSUME NEW v \in Worker PROVE FlightOK(workers[v], journal, q)
  <2>1. FlightOK(workers[v], journal, placed)
    BY <1>2 DEF SlotsOK
  <2>. QED  BY <1>1, <1>2, <1>4, <2>1 DEF FlightOK, InFlight
<1>6. SlotsOK(workers, journal, q)
  BY <1>2, <1>5 DEF SlotsOK
<1>7. SlotsOK(workers', journal, placed')
  BY <1>1, <1>3, <1>6
<1>. QED  BY <1>1, <1>7, TruthStep

\* A request is put on record before it is made.
LEMMA BeginStartedStep == \A w \in Worker : CInv /\ BeginStarted(w) => Kept
<1>. SUFFICES ASSUME NEW w \in Worker, CInv, BeginStarted(w) PROVE Kept
  OBVIOUS
<1>1. /\ RowOK(intent) /\ number \in Nat /\ Facts(journal, effects, placed)
      /\ SlotsOK(workers, journal, placed)
      /\ PollsOK(pollers, placed) /\ InboxOK(inbox, effects, placed)
  BY DEF CInv, NInv
<1>2. PICK m : m = DecidePreparation(View(intent), "ready")
  OBVIOUS
<1>3. PICK via, to, n : /\ via = IF "OpenGeneration" \in m.effects THEN workers[w].via ELSE intent.via
                        /\ to = IF "OpenGeneration" \in m.effects THEN workers[w].number ELSE intent.number
                        /\ n = Len(journal) + 1
  OBVIOUS
<1>4. PICK i, k, j, a, e, p : /\ i = intent /\ j = journal /\ e = effects /\ p = placed
                              /\ k = [Written(intent, m, 0) EXCEPT !.via = via, !.number = to, !.attempt = n]
                              /\ a = [gen |-> intent.gen, via |-> via, number |-> to,
                                      outcome |-> "open", by |-> "none"]
  OBVIOUS
<1>5. PICK s : s = [workers[w] EXCEPT !.pc = "calling", !.attempt = n]
  OBVIOUS
<1>6. /\ intent.status = "pending" /\ workers[w].pc = "prepared"
      /\ via # NoIntegration
      /\ intent' = k
      /\ journal' = Append(j, a) /\ effects' = Append(e, NoEffect) /\ placed' = Append(p, "none")
      /\ workers' = [workers EXCEPT ![w].pc = "calling", ![w].attempt = n]
      /\ UNCHANGED <<inbox, pollers, number, decided>>
  BY <1>2, <1>3, <1>4 DEF BeginStarted, Holds
<1>7. SlotOK(workers[w]) /\ DOMAIN workers = Worker
  BY <1>1 DEF SlotsOK
<1>8. a \in Attempt
  <2>1. intent.via \in Integration \cup {NoIntegration} /\ intent.number \in Nat /\ intent.gen \in Nat
    BY <1>1 DEF RowOK
  <2>2. via \in Integration /\ to \in Nat
    BY <1>3, <1>6, <1>7, <2>1 DEF SlotOK
  <2>. QED  BY <1>4, <2>1, <2>2 DEF Attempt
<1>9. PICK j2, e2, p2 : j2 = Append(j, a) /\ e2 = Append(e, NoEffect) /\ p2 = Append(p, "none")
  OBVIOUS
<1>10. /\ Len(j) \in Nat /\ DOMAIN j = 1..Len(j) /\ DOMAIN e = DOMAIN j /\ DOMAIN p = DOMAIN j
       /\ j \in Seq(Attempt) /\ e \in Seq(Effect) /\ p \in Seq(EffectStates \cup {"none"})
       /\ Len(e) = Len(j) /\ Len(p) = Len(j)
  BY <1>1, <1>4, FactsAt DEF Facts
<1>11. /\ j2 \in Seq(Attempt) /\ Len(j2) = n /\ DOMAIN j2 = 1..n /\ j2[n] = a
       /\ \A x \in DOMAIN j : j2[x] = j[x] /\ x \in DOMAIN j2
  BY <1>3, <1>4, <1>8, <1>9, <1>10
<1>12. /\ e2 \in Seq(Effect) /\ Len(e2) = n /\ e2[n] = NoEffect /\ DOMAIN e2 = 1..n
       /\ \A x \in DOMAIN j : e2[x] = e[x]
  <2>1. NoEffect \in Effect
    BY DEF NoEffect, Effect
  <2>. QED  BY <1>3, <1>4, <1>9, <1>10, <2>1
<1>13. /\ p2 \in Seq(EffectStates \cup {"none"}) /\ Len(p2) = n /\ p2[n] = "none" /\ DOMAIN p2 = 1..n
       /\ \A x \in DOMAIN j : p2[x] = p[x]
  BY <1>3, <1>4, <1>9, <1>10
<1>14. /\ DOMAIN j2 = DOMAIN j \cup {n} /\ n \notin DOMAIN j /\ n \in Nat
       /\ \A x \in DOMAIN j : x < n
  BY <1>3, <1>4, <1>10, <1>11
<1>15. a.gen = i.gen /\ a.via = via /\ a.number = to /\ a.outcome = "open" /\ a.by = "none"
  BY <1>4
<1>16. Facts(j2, e2, p2)
  <2>1. ASSUME NEW x \in DOMAIN j2
        PROVE  /\ j2[x].by = "none" <=> j2[x].outcome = "open"
               /\ j2[x].by = "lease_lost" => j2[x].outcome = "ambiguous"
               /\ e2[x].state = "none" => e2[x] = NoEffect
               /\ e2[x].state # "none" => p2[x] # "none"
               /\ e2[x].state \in Ended => p2[x] = e2[x].state
    <3>1. CASE x = n
      BY <1>11, <1>12, <1>13, <1>15, <3>1 DEF NoEffect, Ended
    <3>2. CASE x \in DOMAIN j
      BY <1>1, <1>4, <1>11, <1>12, <1>13, <3>2 DEF Facts
    <3>. QED  BY <1>14, <3>1, <3>2
  <2>. QED  BY <1>11, <1>12, <1>13, <2>1 DEF Facts
<1>17. SlotsOK([workers EXCEPT ![w] = s], j2, p2)
  <2>1. DOMAIN s = DOMAIN IdleWorker
    BY <1>5, <1>7 DEF SlotOK
  <2>2. /\ s.pc = "calling" /\ s.attempt = n
        /\ s.prep = workers[w].prep /\ s.via = workers[w].via /\ s.number = workers[w].number
    BY <1>5, <1>7 DEF SlotOK, IdleWorker
  <2>3. SlotOK(s)
    BY <1>7, <2>1, <2>2 DEF SlotOK
  <2>4. FlightOK(s, j2, p2)
    BY <1>11, <1>13, <1>14, <1>15, <2>2 DEF FlightOK
  <2>5. \A v \in Worker : FlightOK(workers[v], j, p)
    BY <1>1, <1>4 DEF SlotsOK
  <2>6. \A v \in Worker : FlightOK(workers[v], j2, p2)
    BY <1>11, <1>13, <1>14, <2>5 DEF FlightOK, InFlight
  <2>7. SlotsOK(workers, j, p) /\ s.attempt \notin DOMAIN j
    BY <1>1, <1>4, <1>14, <2>2
  <2>. QED  BY <2>3, <2>4, <2>6, <2>7, SlotMoves
<1>18. InboxOK(inbox, e2, p2)
  <2>1. InboxOK(inbox, e, p)
    BY <1>1, <1>4
  <2>2. ASSUME NEW ev \in inbox.kept
        PROVE  EventOK(ev, p2) /\ e2[ev.attempt] = e[ev.attempt]
    <3>1. EventOK(ev, p)
      BY <2>1 DEF InboxOK
    <3>2. ev.attempt \in DOMAIN j
      BY <1>10, <3>1 DEF EventOK
    <3>. QED  BY <1>11, <1>12, <1>13, <3>1, <3>2 DEF EventOK
  <2>. QED  BY <2>1, <2>2 DEF InboxOK
<1>19. PollsOK(pollers, p2)
  BY <1>1, <1>4, <1>10, <1>13, <1>14 DEF PollsOK
<1>20. /\ m.to = "sending"
       /\ "OpenGeneration" \in m.effects <=> intent.via = NoIntegration
       /\ "NewGeneration" \notin m.effects /\ "AwaitReceipt" \notin m.effects
  <2>1. View(intent).status = "pending" /\ (View(intent).bound <=> intent.via # NoIntegration)
    BY <1>6 DEF View
  <2>2. m = Move("sending", IF View(intent).bound THEN {} ELSE {"OpenGeneration"}, "none")
    BY <1>2, <2>1 DEF DecidePreparation
  <2>. QED  BY <2>1, <2>2 DEF Move
<1>21. RowOK(k) /\ k.status = "sending" /\ k.gen = i.gen /\ k.wait = i.wait
       /\ k.via = via /\ k.number = to /\ k.attempt = n
  <2>1. PICK r : r = Written(intent, m, 0)
    OBVIOUS
  <2>2. RowOK(r) /\ r.status = "sending" /\ r.gen = i.gen /\ r.wait = i.wait
    BY <1>1, <1>4, <1>20, <2>1, WrittenRow
  <2>3. k = [r EXCEPT !.via = via, !.number = to, !.attempt = n]
    BY <1>4, <2>1
  <2>4. /\ DOMAIN k = RowFields /\ k.status = r.status /\ k.gen = r.gen /\ k.wait = r.wait
        /\ k.via = via /\ k.number = to /\ k.attempt = n
    BY <2>2, <2>3 DEF RowOK, RowFields
  <2>5. via \in Integration \cup {NoIntegration} /\ to \in Nat
    BY <1>8, <1>15 DEF Attempt
  <2>. QED  BY <2>2, <2>4, <2>5 DEF RowOK
<1>22. NInv'
  <2>1. workers' = [workers EXCEPT ![w] = s]
    BY <1>5, <1>6, <1>7
  <2>. QED  BY <1>1, <1>6, <1>9, <1>16, <1>17, <1>18, <1>19, <1>21, <2>1 DEF NInv
<1>23. ASSUME ~decided PROVE Steady(k, j2, e2, p2) /\ Calm(k, j2, e2)
  <2>1. Steady(i, j, e, p) /\ Calm(i, j, e) /\ i.status = "pending" /\ Facts(j, e, p)
    BY <1>1, <1>4, <1>6, <1>23 DEF CInv
  <2>2. Closed(j) /\ Tried(i, j, e, p) /\ i.wait = "none" /\ Happened(e) = {} /\ KnownLive(i, j, e) = {}
    BY <2>1 DEF Steady, Calm
  <2>3. Open(k, j2)
    <3>1. Len(j2) > 0
      BY <1>3, <1>4, <1>10, <1>11
    <3>2. \A x \in DOMAIN j2 : x # n => j2[x].by # "none"
      BY <1>11, <1>14, <2>2 DEF Closed
    <3>. QED  BY <1>11, <1>15, <1>21, <3>1, <3>2 DEF Open
  <2>4. \A x \in DOMAIN j : /\ j[x] \in Attempt /\ e[x] \in Effect /\ p[x] \in EffectStates \cup {"none"}
                            /\ j[x].gen \in Nat /\ j[x].gen <= i.gen
    BY <2>1, <2>2, FactsAt DEF Attempt, Tried
  <2>5. i.gen \in Nat
    BY <1>1, <1>4 DEF RowOK
  <2>6. ASSUME NEW x \in DOMAIN j, p[x] \in {"in_progress", "happened"}
        PROVE  j[x].outcome = "ambiguous"
    <3>1. x \in DOMAIN e /\ e[x].state # "happened"
      BY <1>10, <2>2 DEF Happened
    <3>2. j[x].gen = i.gen
      <4>1. ~(j[x].gen < i.gen)
        BY <2>2, <2>6 DEF Tried, Gone
      <4>. QED  BY <2>4, <2>5, <4>1
    <3>3. e[x].state # "in_progress"
      BY <2>2, <3>2 DEF KnownLive, OfGeneration
    <3>4. e[x].state \notin Ended
      BY <2>1, <2>6, <3>1 DEF Facts, Ended
    <3>5. e[x] = NoEffect
      BY <2>1, <2>4, <3>1, <3>3, <3>4 DEF Facts, Effect, EffectStates, Ended
    <3>6. j[x].outcome \notin {"retryable", "permanent", "accepted", "open"}
      BY <2>1, <2>2, <2>6, <3>5 DEF Tried, Closed, Facts
    <3>. QED  BY <2>4, <3>6 DEF Attempt, Answers
  <2>7. \A x \in DOMAIN j : j[x].gen = i.gen => j[x].via = via /\ j[x].number = to
    <3>1. CASE intent.via = NoIntegration
      <4>1. \A x \in DOMAIN j : j[x].via # i.via
        BY <1>4, <2>4, <3>1, CallsAssumption DEF Attempt
      <4>. QED  BY <2>2, <4>1 DEF Tried
    <3>2. CASE intent.via # NoIntegration
      BY <1>3, <1>4, <1>20, <2>2, <3>2 DEF Tried
    <3>. QED  BY <3>1, <3>2
  <2>8. ASSUME NEW x \in DOMAIN j2
        PROVE  /\ j2[x].outcome \in {"retryable", "permanent"} => p2[x] = "none"
               /\ j2[x].outcome = "accepted" => e2[x] # NoEffect
               /\ j2[x].gen <= k.gen
               /\ j2[x].gen = k.gen => j2[x].via = k.via /\ j2[x].number = k.number
               /\ j2[x].gen < k.gen => Gone(j2[x], p2[x])
               /\ x < Len(j2) /\ p2[x] \in {"in_progress", "happened"} => j2[x].outcome = "ambiguous"
    <3>1. CASE x = n
      BY <1>11, <1>13, <1>15, <1>21, <2>5, <3>1
    <3>2. CASE x \in DOMAIN j
      BY <1>11, <1>12, <1>13, <1>21, <2>2, <2>6, <2>7, <3>2 DEF Tried
    <3>. QED  BY <1>14, <3>1, <3>2
  <2>9. ASSUME NEW x \in DOMAIN j2, NEW y \in DOMAIN j2, x < y
        PROVE  j2[x].gen <= j2[y].gen
    <3>1. x \in DOMAIN j
      <4>1. x \in 1..n /\ y \in 1..n
        BY <1>11
      <4>. QED  BY <1>14, <2>9, <4>1
    <3>2. CASE y = n
      BY <1>11, <1>15, <2>4, <3>1, <3>2
    <3>3. CASE y \in DOMAIN j
      BY <1>11, <2>2, <2>9, <3>1, <3>3 DEF Tried
    <3>. QED  BY <1>14, <3>2, <3>3
  <2>10. Tried(k, j2, e2, p2)
    BY <2>8, <2>9 DEF Tried
  <2>. QED  BY <1>21, <2>2, <2>3, <2>10 DEF Steady, Calm, Terminal
<1>24. SettlesNow
  BY <1>6, <1>21 DEF SettlesNow
<1>. QED  BY <1>6, <1>9, <1>22, <1>23, <1>24 DEF Kept, CInv

\* A move that closes the open request: it starts anew only what is gone, and gives up no
\* call that took place.
ClosesWell(i, j, e, p, m) ==
  /\ Facts(j, e, p) /\ RowOK(i) /\ i.wait = "none" /\ Closed(j) /\ Tried(i, j, e, p)
  /\ m.to \in {"pending", "awaiting_receipt"} \cup Terminal
  /\ "AwaitReceipt" \in m.effects => m.to = "awaiting_receipt"
  /\ "NewGeneration" \in m.effects =>
       Happened(e) = {} /\ KnownLive(i, j, e) = {} /\ Unaccounted(i, j, e) = {}
  /\ Happened(e) # {} => m.to \in {"pending", "awaiting_receipt", "succeeded"}

\* A request that is closed: the row it leaves is steady, and settled if a call took place.
LEMMA RequestCloses ==
  ASSUME NEW i, NEW j, NEW e, NEW p, NEW m, NEW receipt, NEW polled, ClosesWell(i, j, e, p, m),
         NEW r, r = Written(i, m, receipt),
         NEW k, k = IF r.status \in {"awaiting_receipt", "pending"} THEN Reviewed(r, j, e, polled) ELSE r
  PROVE  /\ RowOK(k) /\ Steady(k, j, e, p) /\ Calm(k, j, e)
         /\ Happened(e) # {} => k.status = "succeeded"
<1>0. /\ Facts(j, e, p) /\ RowOK(i) /\ i.wait = "none" /\ Closed(j) /\ Tried(i, j, e, p)
      /\ m.to \in {"pending", "awaiting_receipt"} \cup Terminal
      /\ "AwaitReceipt" \in m.effects => m.to = "awaiting_receipt"
      /\ "NewGeneration" \in m.effects =>
           Happened(e) = {} /\ KnownLive(i, j, e) = {} /\ Unaccounted(i, j, e) = {}
      /\ Happened(e) # {} => m.to \in {"pending", "awaiting_receipt", "succeeded"}
  BY DEF ClosesWell
<1>1. r = Written(i, m, receipt)
  OBVIOUS
<1>2. /\ RowOK(r) /\ r.status = m.to
      /\ r.gen = IF "NewGeneration" \in m.effects THEN i.gen + 1 ELSE i.gen
      /\ r.via = IF "NewGeneration" \in m.effects THEN NoIntegration ELSE i.via
      /\ r.number = IF "NewGeneration" \in m.effects THEN 0 ELSE i.number
      /\ r.wait = IF "NewGeneration" \in m.effects THEN "none"
                  ELSE IF "AwaitReceipt" \in m.effects /\ i.wait = "none" THEN "running" ELSE i.wait
  BY <1>0, <1>1, WrittenRow
<1>3. Tried(r, j, e, p)
  <2>1. CASE "NewGeneration" \in m.effects
    <3>1. \A n \in DOMAIN j : j[n].gen = i.gen => Gone(j[n], p[n])
      BY <1>0, <2>1, GenerationIsGone
    <3>. QED  BY <1>0, <1>2, <2>1, <3>1, TriedStays
  <2>2. CASE "NewGeneration" \notin m.effects
    BY <1>0, <1>2, <2>2, TriedStays
  <2>. QED  BY <2>1, <2>2
<1>4. r.status = "pending" => r.wait = "none"
  BY <1>0, <1>2
<1>5. Steady(r, j, e, p)
  BY <1>0, <1>2, <1>3, <1>4 DEF Steady, Terminal
<1>6. CASE r.status \in {"awaiting_receipt", "pending"}
  <2>1. k = Reviewed(r, j, e, polled)
    BY <1>6
  <2>. QED  BY <1>0, <1>2, <1>5, <1>6, <2>1, ReviewKeeps
<1>7. CASE r.status \notin {"awaiting_receipt", "pending"}
  <2>1. k = r
    BY <1>1, <1>7
  <2>. QED  BY <1>0, <1>2, <1>5, <1>7, <2>1 DEF Calm
<1>. QED  BY <1>6, <1>7

\* An attempt that is closed, by its worker or by the recovery.
ClosedAs(j, n, outcome, by) == [j EXCEPT ![n].outcome = outcome, ![n].by = by]

\* All else of it stays, and of the others.
LEMMA AttemptCloses ==
  ASSUME NEW j, NEW e, NEW p, Facts(j, e, p), NEW n,
         NEW outcome \in Answers, NEW by \in {"worker", "lease_lost"},
         by = "lease_lost" => outcome = "ambiguous",
         NEW c, c = ClosedAs(j, n, outcome, by)
  PROVE  /\ Facts(c, e, p) /\ DOMAIN c = DOMAIN j /\ Len(c) = Len(j)
         /\ \A x \in DOMAIN j :
              /\ c[x].gen = j[x].gen /\ c[x].via = j[x].via /\ c[x].number = j[x].number
              /\ x = n => c[x].outcome = outcome /\ c[x].by = by
              /\ x # n => c[x] = j[x]
<1>0. c = [j EXCEPT ![n].outcome = outcome, ![n].by = by]
  BY DEF ClosedAs
<1>1. DOMAIN c = DOMAIN j /\ Len(c) = Len(j) /\ Len(j) \in Nat /\ DOMAIN j = 1..Len(j)
  BY <1>0, FactsAt DEF Facts
<1>2. ASSUME NEW x \in DOMAIN j
      PROVE  /\ c[x].gen = j[x].gen /\ c[x].via = j[x].via /\ c[x].number = j[x].number
             /\ x = n => c[x].outcome = outcome /\ c[x].by = by
             /\ x # n => c[x] = j[x]
             /\ c[x] \in Attempt
  <2>1. j[x] \in Attempt
    BY FactsAt
  <2>2. CASE x = n
    <3>1. c[x] = [j[x] EXCEPT !.outcome = outcome, !.by = by]
      BY <1>0, <2>2
    <3>. QED  BY <2>1, <2>2, <3>1 DEF Attempt
  <2>3. CASE x # n
    <3>1. c[x] = j[x]
      BY <1>0, <2>3
    <3>. QED  BY <2>1, <2>3, <3>1
  <2>. QED  BY <2>2, <2>3
<1>3. c \in Seq(Attempt)
  <2>1. c = [x \in 1..Len(j) |-> c[x]]
    BY <1>0, <1>1
  <2>2. c \in [1..Len(j) -> Attempt]
    BY <1>1, <1>2, <2>1
  <2>3. Len(j) \in Nat
    BY <1>1
  <2>. QED  BY <2>2, <2>3
<1>4. \A x \in DOMAIN c : /\ c[x].by = "none" <=> c[x].outcome = "open"
                          /\ c[x].by = "lease_lost" => c[x].outcome = "ambiguous"
  <2>. SUFFICES ASSUME NEW x \in DOMAIN j
                PROVE  /\ c[x].by = "none" <=> c[x].outcome = "open"
                       /\ c[x].by = "lease_lost" => c[x].outcome = "ambiguous"
    BY <1>1
  <2>1. CASE x = n
    BY <1>2, <2>1 DEF Answers
  <2>2. CASE x # n
    BY <1>2, <2>2 DEF Facts
  <2>. QED  BY <2>1, <2>2
<1>5. Facts(c, e, p)
  BY <1>1, <1>3, <1>4 DEF Facts
<1>. QED  BY <1>1, <1>2, <1>5

\* The death of a worker: the attempt is closed in doubt.
LEMMA RecoverStep == CInv /\ Recover => Kept
<1>. SUFFICES ASSUME CInv, Recover PROVE Kept
  OBVIOUS
<1>1. /\ RowOK(intent) /\ number \in Nat /\ Facts(journal, effects, placed)
      /\ SlotsOK(workers, journal, placed)
      /\ PollsOK(pollers, placed) /\ InboxOK(inbox, effects, placed)
  BY DEF CInv, NInv
<1>2. PICK n, j, m, d : /\ n = intent.attempt
                        /\ j = [journal EXCEPT ![n].outcome = "ambiguous", ![n].by = "lease_lost"]
                        /\ d = DecideRecover(View(intent), intent.deadline = "past", NoRevision, FALSE)
                        /\ m = Discharged(intent, j, effects, d)
  OBVIOUS
<1>3. PICK r, k : /\ r = Written(intent, m, 0)
                  /\ k = IF r.status = "pending" THEN Reviewed(r, j, effects, FALSE) ELSE r
  OBVIOUS
<1>4. /\ intent.status = "sending" /\ journal' = j /\ intent' = k
      /\ UNCHANGED <<effects, inbox, placed, workers, pollers, number, decided>>
  BY <1>2, <1>3 DEF Recover
<1>5. /\ Facts(j, effects, placed) /\ DOMAIN j = DOMAIN journal /\ Len(j) = Len(journal)
      /\ \A x \in DOMAIN journal :
           /\ j[x].gen = journal[x].gen /\ j[x].via = journal[x].via /\ j[x].number = journal[x].number
           /\ x = n => j[x].outcome = "ambiguous" /\ j[x].by = "lease_lost"
           /\ x # n => j[x] = journal[x]
  <2>1. PICK outcome, by : outcome = "ambiguous" /\ by = "lease_lost"
    OBVIOUS
  <2>2. /\ outcome \in Answers /\ by \in {"worker", "lease_lost"} /\ (by = "lease_lost" => outcome = "ambiguous")
        /\ j = ClosedAs(journal, n, outcome, by)
    BY <1>2, <2>1 DEF Answers, ClosedAs
  <2>. QED  BY <1>1, <2>1, <2>2, AttemptCloses
<1>6. SlotsOK(workers, j, placed)
  <2>1. \A v \in Worker : FlightOK(workers[v], j, placed)
    BY <1>1, <1>5 DEF SlotsOK, FlightOK
  <2>. QED  BY <1>1, <2>1 DEF SlotsOK
<1>7. RowOK(r)
  BY <1>1, <1>3, WrittenRow
<1>8. RowOK(k)
  BY <1>3, <1>7, ReviewedRow
<1>9. NInv'
  BY <1>1, <1>4, <1>5, <1>6, <1>8 DEF NInv
<1>10. ASSUME ~decided
       PROVE  /\ Steady(k, j, effects, placed) /\ Calm(k, j, effects)
              /\ Happened(effects) # {} => k.status = "succeeded"
  <2>1. Steady(intent, journal, effects, placed)
    BY <1>10 DEF CInv
  <2>2. intent.wait = "none" /\ Open(intent, journal) /\ Tried(intent, journal, effects, placed)
    BY <1>4, <2>1 DEF Steady
  <2>3. Len(journal) \in Nat /\ DOMAIN journal = 1..Len(journal)
    BY <1>1, FactsAt
  <2>4. n = Len(journal) /\ n \in DOMAIN journal /\ journal[n].gen = intent.gen
    BY <1>2, <2>2, <2>3 DEF Open
  <2>5. Closed(j)
    BY <1>5, <2>2, <2>4 DEF Closed, Open
  <2>6. Tried(intent, j, effects, placed)
    <3>1. ASSUME NEW x \in DOMAIN journal
          PROVE  /\ j[x].outcome \in {"retryable", "permanent"} => placed[x] = "none"
                 /\ j[x].outcome = "accepted" => effects[x] # NoEffect
                 /\ j[x].gen <= intent.gen
                 /\ j[x].gen = intent.gen => j[x].via = intent.via /\ j[x].number = intent.number
                 /\ j[x].gen < intent.gen => Gone(j[x], placed[x])
                 /\ x < Len(j) /\ placed[x] \in {"in_progress", "happened"} => j[x].outcome = "ambiguous"
      <4>1. CASE x = n
        <5>1. intent.gen \in Nat
          BY <1>1 DEF RowOK
        <5>. QED  BY <1>5, <2>2, <2>4, <4>1, <5>1 DEF Tried
      <4>2. CASE x # n
        BY <1>5, <2>2, <4>2 DEF Tried
      <4>. QED  BY <4>1, <4>2
    <3>2. \A x, y \in DOMAIN journal : x < y => j[x].gen <= j[y].gen
      BY <1>5, <2>2 DEF Tried
    <3>. QED  BY <1>5, <3>1, <3>2 DEF Tried
  <2>7. IsCall(View(intent)) /\ View(intent).status = "sending"
    BY <1>4, ViewIsCall
  <2>8. d.to \in {"pending", "canceled", "expired"}
        /\ "NewGeneration" \notin d.effects /\ "AwaitReceipt" \notin d.effects
    <3>1. PICK expired : expired = (intent.deadline = "past")
      OBVIOUS
    <3>2. d = DecideRecover(View(intent), expired, NoRevision, FALSE)
      BY <1>2, <3>1, Zenon
    <3>. QED  BY <2>7, <3>2, RecoverMoves
  <2>9. /\ m.to \in {"pending"} \cup Terminal
        /\ "NewGeneration" \notin m.effects /\ "AwaitReceipt" \notin m.effects
        /\ Happened(effects) # {} => m.to = "succeeded"
    <3>1. CASE Happened(effects) # {}
      <4>1. m = DecideVerdict(View(intent), "happened")
        BY <1>2, <3>1 DEF Discharged
      <4>2. m.to = "succeeded" /\ "NewGeneration" \notin m.effects /\ "AwaitReceipt" \notin m.effects
        BY <2>7, <4>1, HappenedSettles
      <4>. QED  BY <3>1, <4>2 DEF Terminal
    <3>2. CASE Happened(effects) = {}
      <4>1. m = d
        BY <1>2, <3>2 DEF Discharged
      <4>. QED  BY <2>8, <3>2, <4>1 DEF Terminal
    <3>. QED  BY <3>1, <3>2
  <2>10. r.status = m.to
    BY <1>1, <1>3, WrittenRow
  <2>11. k = IF r.status \in {"awaiting_receipt", "pending"} THEN Reviewed(r, j, effects, FALSE) ELSE r
    BY <1>3, <2>9, <2>10 DEF Terminal
  <2>12. m.to \in {"pending", "awaiting_receipt"} \cup Terminal
    BY <2>9
  <2>13. PICK polled : k = IF r.status \in {"awaiting_receipt", "pending"} THEN Reviewed(r, j, effects, polled) ELSE r
    BY <2>11
  <2>14. ClosesWell(intent, j, effects, placed, m)
    BY <1>1, <1>5, <2>2, <2>5, <2>6, <2>9, <2>12 DEF ClosesWell
  <2>15. r = Written(intent, m, 0)
    BY <1>3
  <2>16. /\ RowOK(k) /\ Steady(k, j, effects, placed) /\ Calm(k, j, effects)
         /\ Happened(effects) # {} => k.status = "succeeded"
    BY <2>13, <2>14, <2>15, RequestCloses
  <2>. QED  BY <2>16
<1>11. SettlesNow
  BY <1>4, <1>10 DEF SettlesNow
<1>. QED  BY <1>4, <1>9, <1>10, <1>11 DEF Kept, CInv

\* The call an accepted request made is known of, and nothing known is lost.
LEMMA AcceptanceKeeps ==
  ASSUME NEW j, NEW e, NEW p, Facts(j, e, p), NEW n \in DOMAIN j, p[n] # "none",
         NEW box, InboxOK(box, e, p), NEW f, f = AcceptedEffect(e, n)
  PROVE  /\ Facts(j, f, p) /\ InboxOK(box, f, p)
         /\ DOMAIN f = DOMAIN e /\ f[n] # NoEffect /\ Happened(f) = Happened(e)
         /\ \A x \in DOMAIN e : e[x] # NoEffect => f[x] = e[x]
<1>1. CASE e[n] # NoEffect
  <2>1. f = e
    BY <1>1 DEF AcceptedEffect
  <2>. QED  BY <1>1, <2>1
<1>2. CASE e[n] = NoEffect
  <2>1. PICK a : a = [state |-> "in_progress", sequence |-> 0]
    OBVIOUS
  <2>2. f = [e EXCEPT ![n] = a]
    BY <1>2, <2>1 DEF AcceptedEffect
  <2>3. a \in Effect /\ a # NoEffect /\ a.state = "in_progress"
    BY <2>1 DEF Effect, EffectStates, NoEffect
  <2>4. e \in Seq(Effect) /\ Len(e) = Len(j) /\ DOMAIN e = DOMAIN j
    BY DEF Facts
  <2>5. f \in Seq(Effect) /\ Len(f) = Len(e)
    BY <2>2, <2>3, <2>4
  <2>6. DOMAIN f = DOMAIN e /\ f[n] = a /\ \A x \in DOMAIN e : x # n => f[x] = e[x]
    BY <2>2, <2>4
  <2>7. ASSUME NEW x \in DOMAIN j
        PROVE  /\ f[x].state = "none" => f[x] = NoEffect
               /\ f[x].state # "none" => p[x] # "none"
               /\ f[x].state \in Ended => p[x] = f[x].state
    <3>1. CASE x = n
      BY <2>3, <2>6, <3>1 DEF Ended
    <3>2. CASE x # n
      BY <2>4, <2>6, <3>2 DEF Facts
    <3>. QED  BY <3>1, <3>2
  <2>8. Facts(j, f, p)
    BY <2>4, <2>5, <2>7 DEF Facts
  <2>9. e[n].state = "none"
    BY <1>2 DEF NoEffect
  <2>10. Happened(f) = Happened(e)
    BY <2>3, <2>6, <2>9 DEF Happened
  <2>11. \A ev \in box.applied : ev.state \in Ended => f[ev.attempt].state = ev.state
    <3>. SUFFICES ASSUME NEW ev \in box.applied, ev.state \in Ended
                  PROVE  f[ev.attempt].state = ev.state
      OBVIOUS
    <3>1. e[ev.attempt].state = ev.state /\ EventOK(ev, p)
      BY DEF InboxOK
    <3>2. ev.attempt # n /\ ev.attempt \in DOMAIN e
      BY <2>4, <2>9, <3>1 DEF EventOK, Ended, Facts
    <3>. QED  BY <2>6, <3>1, <3>2
  <2>12. InboxOK(box, f, p)
    BY <2>11 DEF InboxOK
  <2>. QED  BY <1>2, <2>3, <2>6, <2>8, <2>10, <2>12
<1>. QED  BY <1>1, <1>2

\* The answer to a request is written down.
LEMMA FinalizeStep == \A w \in Worker : CInv /\ Finalize(w) => Kept
<1>. SUFFICES ASSUME NEW w \in Worker, CInv, Finalize(w) PROVE Kept
  OBVIOUS
<1>1. /\ RowOK(intent) /\ number \in Nat /\ Facts(journal, effects, placed)
      /\ SlotsOK(workers, journal, placed)
      /\ PollsOK(pollers, placed) /\ InboxOK(inbox, effects, placed) /\ NInv
  BY DEF CInv, NInv
<1>2. PICK doubt : doubt = Doubt(intent, journal, effects)
  OBVIOUS
<1>3. PICK n, answer, d, m, j, e :
        /\ n = workers[w].attempt /\ answer = workers[w].answer
        /\ d = DecideFinish(View(intent), answer, NoRevision, FALSE, Doubt(intent, journal, effects))
        /\ m = Discharged(intent, journal, effects, d)
        /\ j = ClosedAs(journal, n, answer, "worker")
        /\ e = IF answer = "accepted" THEN AcceptedEffect(effects, n) ELSE effects
  OBVIOUS
<1>4. PICK receipt, r, k :
        /\ receipt = IF answer = "accepted" THEN n ELSE 0
        /\ r = Written(intent, m, receipt)
        /\ k = IF r.status \in {"awaiting_receipt", "pending"} THEN Reviewed(r, j, e, FALSE) ELSE r
  OBVIOUS
<1>5. /\ workers[w].pc = "answered" /\ journal[n].by = "none" /\ intent.attempt = n
      /\ journal' = j /\ effects' = e /\ intent' = k
      /\ workers' = [workers EXCEPT ![w] = IdleWorker]
      /\ UNCHANGED <<inbox, placed, pollers, number, decided>>
  BY <1>3, <1>4 DEF Finalize, ClosedAs
<1>6. /\ n \in DOMAIN journal /\ answer \in Answers
      /\ answer = "accepted" => placed[n] # "none"
      /\ answer \in {"retryable", "permanent"} => placed[n] = "none"
  BY <1>1, <1>3, <1>5 DEF SlotsOK, FlightOK, InFlight
<1>7. /\ Facts(j, effects, placed) /\ DOMAIN j = DOMAIN journal /\ Len(j) = Len(journal)
      /\ \A x \in DOMAIN journal :
           /\ j[x].gen = journal[x].gen /\ j[x].via = journal[x].via /\ j[x].number = journal[x].number
           /\ x = n => j[x].outcome = answer /\ j[x].by = "worker"
           /\ x # n => j[x] = journal[x]
  <2>1. PICK by : by = "worker"
    OBVIOUS
  <2>2. /\ by \in {"worker", "lease_lost"} /\ (by = "lease_lost" => answer = "ambiguous")
        /\ j = ClosedAs(journal, n, answer, by)
    BY <1>3, <2>1
  <2>. QED  BY <1>1, <1>6, <2>1, <2>2, AttemptCloses
<1>8. /\ Facts(j, e, placed) /\ InboxOK(inbox, e, placed)
      /\ DOMAIN e = DOMAIN effects /\ Happened(e) = Happened(effects)
      /\ answer = "accepted" => e[n] # NoEffect
      /\ \A x \in DOMAIN effects : effects[x] # NoEffect => e[x] = effects[x]
  <2>1. CASE answer = "accepted"
    <3>1. e = AcceptedEffect(effects, n) /\ n \in DOMAIN j /\ placed[n] # "none"
      BY <1>3, <1>6, <1>7, <2>1
    <3>. QED  BY <1>1, <1>7, <3>1, AcceptanceKeeps
  <2>2. CASE answer # "accepted"
    BY <1>1, <1>3, <1>7, <2>2
  <2>. QED  BY <2>1, <2>2
<1>9. SlotsOK([workers EXCEPT ![w] = IdleWorker], j, placed)
  <2>1. ASSUME NEW v \in Worker, v # w PROVE FlightOK(workers[v], j, placed)
    <3>1. FlightOK(workers[v], journal, placed)
      BY <1>1 DEF SlotsOK
    <3>2. InFlight(workers[v]) => workers[v].attempt # n
      <4>1. InFlight(workers[w])
        BY <1>5 DEF InFlight
      <4>. QED  BY <1>1, <1>3, <2>1, <4>1 DEF SlotsOK
    <3>3. InFlight(workers[v]) => j[workers[v].attempt] = journal[workers[v].attempt]
      BY <1>7, <3>1, <3>2 DEF FlightOK
    <3>. QED  BY <1>7, <3>1, <3>3 DEF FlightOK, InFlight
  <2>2. FlightOK(IdleWorker, j, placed)
    BY DEF FlightOK, IdleWorker, InFlight
  <2>. QED  BY <1>1, <2>1, <2>2, IdleIsQuiet, SlotMoves
<1>10. RowOK(k)
  <2>1. RowOK(r)
    BY <1>1, <1>4, WrittenRow
  <2>. QED  BY <1>4, <2>1, ReviewedRow
<1>11. NInv'
  BY <1>1, <1>5, <1>8, <1>9, <1>10 DEF NInv
<1>12. ASSUME ~decided
       PROVE  /\ Steady(k, j, e, placed) /\ Calm(k, j, e)
              /\ Happened(e) # {} => k.status = "succeeded"
  <2>1. Steady(intent, journal, effects, placed)
    BY <1>12 DEF CInv
  <2>2. /\ intent.status = "sending" /\ intent.wait = "none" /\ Open(intent, journal)
        /\ Tried(intent, journal, effects, placed)
    BY <1>5, <1>6, <2>1 DEF Steady, Closed
  <2>3. Len(journal) \in Nat /\ DOMAIN journal = 1..Len(journal) /\ DOMAIN effects = DOMAIN journal
    BY <1>1, FactsAt
  <2>4. n = Len(journal) /\ journal[n].gen = intent.gen
    BY <1>5, <2>2 DEF Open
  <2>5. Closed(j)
    BY <1>7, <2>2, <2>4 DEF Closed, Open
  <2>6. Tried(intent, j, e, placed)
    <3>1. ASSUME NEW x \in DOMAIN journal
          PROVE  /\ j[x].outcome \in {"retryable", "permanent"} => placed[x] = "none"
                 /\ j[x].outcome = "accepted" => e[x] # NoEffect
                 /\ j[x].gen <= intent.gen
                 /\ j[x].gen = intent.gen => j[x].via = intent.via /\ j[x].number = intent.number
                 /\ j[x].gen < intent.gen => Gone(j[x], placed[x])
                 /\ x < Len(j) /\ placed[x] \in {"in_progress", "happened"} => j[x].outcome = "ambiguous"
      <4>1. CASE x = n
        <5>1. intent.gen \in Nat
          BY <1>1 DEF RowOK
        <5>. QED  BY <1>6, <1>7, <1>8, <2>2, <2>3, <2>4, <4>1, <5>1 DEF Tried
      <4>2. CASE x # n
        BY <1>7, <1>8, <2>2, <2>3, <4>2 DEF Tried
      <4>. QED  BY <4>1, <4>2
    <3>2. \A x, y \in DOMAIN journal : x < y => j[x].gen <= j[y].gen
      BY <1>7, <2>2 DEF Tried
    <3>. QED  BY <1>7, <3>1, <3>2 DEF Tried
  <2>7. IsCall(View(intent)) /\ View(intent).status = "sending"
    BY <2>2, ViewIsCall
  <2>8. CASE Happened(effects) # {}
    <3>1. m = DecideVerdict(View(intent), "happened")
      BY <1>3, <2>8 DEF Discharged
    <3>2. m.to = "succeeded" /\ "NewGeneration" \notin m.effects /\ "AwaitReceipt" \notin m.effects
      BY <2>7, <3>1, HappenedSettles
    <3>3. ClosesWell(intent, j, e, placed, m)
      BY <1>1, <1>8, <2>2, <2>5, <2>6, <3>2 DEF ClosesWell, Terminal
    <3>4. PICK polled : k = IF r.status \in {"awaiting_receipt", "pending"} THEN Reviewed(r, j, e, polled) ELSE r
      BY <1>4
    <3>. QED  BY <1>4, <3>3, <3>4, RequestCloses
  <2>9. CASE Happened(effects) = {}
    <3>1. m = DecideFinish(View(intent), answer, NoRevision, FALSE, doubt)
      <4>1. m = d
        BY <1>3, <2>9 DEF Discharged
      <4>. QED  BY <1>2, <1>3, <4>1, Zenon
    <3>2. /\ m.to \in {"pending", "awaiting_receipt", "canceled"}
          /\ "NewGeneration" \in m.effects => answer = "permanent"
          /\ "NewGeneration" \in m.effects => ~doubt
          /\ "AwaitReceipt" \in m.effects => m.to = "awaiting_receipt"
      BY <1>6, <2>7, <3>1, FinishMoves
    <3>3. ASSUME "NewGeneration" \in m.effects
          PROVE  KnownLive(intent, j, e) = {} /\ Unaccounted(intent, j, e) = {}
      <4>1. ~Doubt(intent, journal, effects)
        <5>1. ~doubt
          BY <3>2, <3>3
        <5>. QED  BY <1>2, <5>1, Zenon
      <4>2. KnownLive(intent, journal, effects) = {} /\ Unaccounted(intent, journal, effects) = {}
        BY <4>1 DEF Doubt
      <4>3. answer = "permanent" /\ e = effects
        BY <1>3, <3>2, <3>3
      <4>4. \A x \in DOMAIN journal : Doubtful(j[x]) => x # n
        BY <1>7, <4>3 DEF Doubtful
      <4>5. KnownLive(intent, j, e) = {}
        BY <1>7, <4>2, <4>3 DEF KnownLive, OfGeneration
      <4>6. Unaccounted(intent, j, e) = {}
        BY <1>7, <4>2, <4>3, <4>4 DEF Unaccounted, OfGeneration
      <4>. QED  BY <4>5, <4>6
    <3>4. ClosesWell(intent, j, e, placed, m)
      BY <1>1, <1>8, <2>2, <2>5, <2>6, <2>9, <3>2, <3>3 DEF ClosesWell, Terminal
    <3>5. PICK polled : k = IF r.status \in {"awaiting_receipt", "pending"} THEN Reviewed(r, j, e, polled) ELSE r
      BY <1>4
    <3>. QED  BY <1>4, <3>4, <3>5, RequestCloses
  <2>. QED  BY <2>8, <2>9
<1>13. SettlesNow
  BY <1>5, <1>12 DEF SettlesNow
<1>. QED  BY <1>5, <1>11, <1>12, <1>13 DEF Kept, CInv

------------------------------------------------------------------------------
(* News.                                                                      *)

\* The calls once an event was heard.
Heard(e, ev) ==
  [e EXCEPT ![ev.attempt] =
     FoldEffect(IF @ = NoEffect THEN [state |-> "in_progress", sequence |-> 0] ELSE @, ev)]

\* True news leaves what is known true, and what was known of an end known.
LEMMA NewsFolds ==
  ASSUME NEW c \in Effect, c.state # "none", NEW ev, ev.state \in EffectStates, ev.sequence \in Nat
  PROVE  /\ FoldEffect(c, ev) \in Effect /\ FoldEffect(c, ev).state # "none"
         /\ FoldEffect(c, ev).state \in {c.state, ev.state}
         /\ c.state \in Ended => FoldEffect(c, ev) = c
         /\ ev.state \in Ended /\ c.state \notin Ended => FoldEffect(c, ev).state = ev.state
BY DEF FoldEffect, Effect, EffectStates, Ended

LEMMA HearingKeeps ==
  ASSUME NEW j, NEW e, NEW p, Facts(j, e, p), NEW ev, EventOK(ev, p),
         NEW box, InboxOK(box, e, p), NEW late,
         DOMAIN late = {"kept", "applied"}, late.applied \subseteq late.kept,
         late.kept \subseteq box.kept \cup {ev}, late.applied \subseteq box.applied \cup {ev},
         NEW f, f = Heard(e, ev)
  PROVE  /\ Facts(j, f, p) /\ InboxOK(late, f, p)
         /\ \A x \in DOMAIN j : e[x] # NoEffect => f[x] # NoEffect
<1>1. PICK n, c : n = ev.attempt /\ c = IF e[n] = NoEffect THEN [state |-> "in_progress", sequence |-> 0] ELSE e[n]
  OBVIOUS
<1>2. /\ Len(j) \in Nat /\ DOMAIN j = 1..Len(j) /\ DOMAIN e = DOMAIN j /\ DOMAIN p = DOMAIN j
      /\ e \in Seq(Effect) /\ Len(e) = Len(j) /\ n \in DOMAIN j
      /\ p[n] # "none" /\ ev.state \in EffectStates /\ ev.sequence \in Nat
      /\ ev.state \in Ended => p[n] = ev.state
  BY <1>1, FactsAt DEF Facts, EventOK
<1>3. e[n] \in Effect /\ (e[n].state = "none" => e[n] = NoEffect) /\ (e[n].state \in Ended => p[n] = e[n].state)
  BY <1>2 DEF Facts
<1>4. c \in Effect /\ c.state # "none" /\ (c.state \in Ended => c = e[n] /\ p[n] = c.state)
      /\ (e[n].state \in Ended => c = e[n])
  <2>1. CASE e[n] = NoEffect
    <3>1. c = [state |-> "in_progress", sequence |-> 0]
      BY <1>1, <2>1
    <3>. QED  BY <2>1, <3>1 DEF Effect, EffectStates, Ended, NoEffect
  <2>2. CASE e[n] # NoEffect
    <3>1. c = e[n]
      BY <1>1, <2>2
    <3>. QED  BY <1>3, <2>2, <3>1
  <2>. QED  BY <2>1, <2>2
<1>5. PICK a : a = FoldEffect(c, ev)
  OBVIOUS
<1>6. /\ a \in Effect /\ a.state # "none" /\ a.state \in {c.state, ev.state}
      /\ c.state \in Ended => a = c
      /\ ev.state \in Ended /\ c.state \notin Ended => a.state = ev.state
  BY <1>2, <1>4, <1>5, NewsFolds
<1>7. f = [e EXCEPT ![n] = a]
  BY <1>1, <1>2, <1>5 DEF Heard
<1>8. DOMAIN f = DOMAIN e /\ f[n] = a /\ \A x \in DOMAIN e : x # n => f[x] = e[x]
  BY <1>2, <1>7
<1>9. f \in Seq(Effect) /\ Len(f) = Len(e)
  BY <1>2, <1>6, <1>7
<1>10. a.state \in Ended => p[n] = a.state
  BY <1>2, <1>4, <1>6
<1>11. ASSUME NEW x \in DOMAIN j
       PROVE  /\ f[x].state = "none" => f[x] = NoEffect
              /\ f[x].state # "none" => p[x] # "none"
              /\ f[x].state \in Ended => p[x] = f[x].state
  <2>1. CASE x = n
    BY <1>2, <1>6, <1>8, <1>10, <2>1
  <2>2. CASE x # n
    BY <1>2, <1>8, <2>2 DEF Facts
  <2>. QED  BY <2>1, <2>2
<1>12. Facts(j, f, p)
  BY <1>2, <1>9, <1>11 DEF Facts
<1>13. \A x \in DOMAIN j : e[x] # NoEffect => f[x] # NoEffect
  BY <1>2, <1>6, <1>8 DEF NoEffect
<1>14. ASSUME NEW o \in late.applied, o.state \in Ended PROVE f[o.attempt].state = o.state
  <2>1. CASE o = ev
    <3>1. a.state = ev.state
      BY <1>2, <1>4, <1>6, <1>14, <2>1
    <3>. QED  BY <1>1, <1>8, <2>1, <3>1
  <2>2. CASE o \in box.applied
    <3>1. e[o.attempt].state = o.state /\ EventOK(o, p)
      BY <1>14, <2>2 DEF InboxOK
    <3>2. o.attempt \in DOMAIN e
      BY <1>2, <3>1 DEF EventOK
    <3>3. o.attempt = n => a = e[n]
      BY <1>4, <1>6, <1>14, <3>1
    <3>. QED  BY <1>8, <3>1, <3>2, <3>3
  <2>. QED  BY <2>1, <2>2
<1>15. \A o \in late.kept : EventOK(o, p)
  BY DEF InboxOK
<1>16. InboxOK(late, f, p)
  BY <1>14, <1>15 DEF InboxOK
<1>. QED  BY <1>12, <1>13, <1>16

\* An event is applied: the call it is about, and the commitment after it.
LEMMA EventStep ==
  ASSUME CInv, NEW ev, EventOK(ev, placed), EventMoves(ev),
         UNCHANGED <<journal, placed, workers, number, decided>>,
         PollsOK(pollers', placed),
         DOMAIN inbox' = {"kept", "applied"}, inbox'.applied \subseteq inbox'.kept,
         inbox'.kept \subseteq inbox.kept \cup {ev}, inbox'.applied \subseteq inbox.applied \cup {ev}
  PROVE  Kept
<1>1. /\ RowOK(intent) /\ number \in Nat /\ Facts(journal, effects, placed)
      /\ SlotsOK(workers, journal, placed)
      /\ PollsOK(pollers, placed) /\ InboxOK(inbox, effects, placed)
  BY DEF CInv, NInv
<1>2. PICK f, late : f = Heard(effects, ev) /\ late = inbox'
  OBVIOUS
<1>3. PICK k : k = IF intent.status \in Terminal THEN intent ELSE Reviewed(intent, journal, f, FALSE)
  OBVIOUS
<1>4. effects' = f /\ intent' = k
  BY <1>2, <1>3 DEF EventMoves, Heard
<1>5. /\ Facts(journal, f, placed) /\ InboxOK(late, f, placed)
      /\ \A x \in DOMAIN journal : effects[x] # NoEffect => f[x] # NoEffect
  BY <1>1, <1>2, HearingKeeps
<1>6. RowOK(k)
  BY <1>1, <1>3, ReviewedRow
<1>7. NInv'
  BY <1>1, <1>2, <1>4, <1>5, <1>6 DEF NInv
<1>8. ASSUME ~decided
      PROVE  /\ Steady(k, journal, f, placed) /\ Calm(k, journal, f)
             /\ Happened(f) # {} /\ intent.status \notin Terminal => k.status \in {"sending", "succeeded"}
  <2>1. Steady(intent, journal, effects, placed)
    BY <1>8 DEF CInv
  <2>2. Steady(intent, journal, f, placed)
    BY <1>5, <2>1 DEF Steady, Tried
  <2>3. CASE intent.status \in Terminal
    BY <1>3, <2>2, <2>3 DEF Calm, Terminal
  <2>4. CASE intent.status = "sending"
    <3>1. k = intent
      BY <1>3, <2>4 DEF Reviewed, ReviewHeeds
    <3>. QED  BY <2>2, <2>4, <3>1 DEF Calm
  <2>5. CASE intent.status \in {"pending", "awaiting_receipt"}
    <3>1. PICK polled : k = Reviewed(intent, journal, f, polled)
      BY <1>3, <2>5 DEF Terminal
    <3>2. /\ Steady(k, journal, f, placed) /\ Calm(k, journal, f)
          /\ Happened(f) # {} => k.status = "succeeded"
      BY <1>1, <1>5, <2>2, <2>5, <3>1, ReviewKeeps
    <3>. QED  BY <3>2
  <2>. QED  BY <2>1, <2>3, <2>4, <2>5 DEF Steady
<1>9. SettlesNow
  BY <1>4, <1>8 DEF SettlesNow
<1>. QED  BY <1>4, <1>7, <1>8, <1>9 DEF Kept, CInv

\* What the provider says of a call is true of it.
LEMMA SayingsAreTrue ==
  ASSUME NInv, NEW n \in DOMAIN placed, NEW ev \in Says(n)
  PROVE  EventOK(ev, placed)
<1>1. placed[n] # "none"
  BY DEF Says
<1>2. \/ ev = Event(n, "in_progress", 1)
      \/ \E s \in {placed[n]} \cap Ended : ev = Event(n, s, 2)
  BY <1>1 DEF Says
<1>. QED  BY <1>1, <1>2 DEF EventOK, Event, Ended, EffectStates

\* The provider calls back.
LEMMA CallbackStep ==
  \A n \in DOMAIN placed : \A ev \in Says(n) : CInv /\ Callback(ev) => Kept
<1>. SUFFICES ASSUME NEW n \in DOMAIN placed, NEW ev \in Says(n), CInv, Callback(ev) PROVE Kept
  OBVIOUS
<1>1. EventOK(ev, placed) /\ PollsOK(pollers, placed) /\ InboxOK(inbox, effects, placed)
  BY SayingsAreTrue DEF CInv, NInv
<1>2. /\ inbox' = [kept |-> inbox.kept \cup {ev}, applied |-> inbox.applied \cup {ev}]
      /\ EventMoves(ev) /\ UNCHANGED <<journal, placed, workers, pollers, number, decided>>
  BY DEF Callback, Applies
<1>3. /\ DOMAIN inbox' = {"kept", "applied"} /\ inbox'.applied \subseteq inbox'.kept
      /\ inbox'.kept \subseteq inbox.kept \cup {ev} /\ inbox'.applied \subseteq inbox.applied \cup {ev}
  BY <1>1, <1>2 DEF InboxOK
<1>. QED  BY <1>1, <1>2, <1>3, EventStep

\* An event is kept for later.
LEMMA KeepsForLater ==
  ASSUME InboxOK(inbox, effects, placed), NEW ev, EventOK(ev, placed),
         inbox' = [inbox EXCEPT !.kept = @ \cup {ev}]
  PROVE  InboxOK(inbox', effects, placed)
<1>1. DOMAIN inbox' = {"kept", "applied"} /\ inbox'.kept = inbox.kept \cup {ev} /\ inbox'.applied = inbox.applied
  BY DEF InboxOK
<1>. QED  BY <1>1 DEF InboxOK

LEMMA CallbackKeptStep ==
  \A n \in DOMAIN placed : \A ev \in Says(n) : CInv /\ CallbackKept(ev) => Kept
<1>. SUFFICES ASSUME NEW n \in DOMAIN placed, NEW ev \in Says(n), CInv, CallbackKept(ev) PROVE Kept
  OBVIOUS
<1>1. /\ RowOK(intent) /\ number \in Nat /\ SlotsOK(workers, journal, placed) /\ EventOK(ev, placed)
      /\ PollsOK(pollers, placed) /\ InboxOK(inbox, effects, placed)
  BY SayingsAreTrue DEF CInv, NInv
<1>2. /\ inbox' = [inbox EXCEPT !.kept = @ \cup {ev}]
      /\ UNCHANGED <<intent, journal, effects, placed, workers, pollers, number, decided>>
  BY DEF CallbackKept
<1>3. InboxOK(inbox', effects, placed)
  BY <1>1, <1>2, KeepsForLater
<1>. QED  BY <1>1, <1>2, <1>3, RowStep

\* What was kept is applied.
LEMMA ApplyKeptStep == \A ev \in inbox.kept : CInv /\ ApplyKept(ev) => Kept
<1>. SUFFICES ASSUME NEW ev \in inbox.kept, CInv, ApplyKept(ev) PROVE Kept
  OBVIOUS
<1>1. EventOK(ev, placed) /\ PollsOK(pollers, placed) /\ InboxOK(inbox, effects, placed)
  BY DEF CInv, NInv, InboxOK
<1>2. /\ inbox' = [inbox EXCEPT !.applied = @ \cup {ev}]
      /\ EventMoves(ev) /\ UNCHANGED <<journal, placed, workers, pollers, number, decided>>
  BY DEF ApplyKept, Applies
<1>3. /\ DOMAIN inbox' = {"kept", "applied"} /\ inbox'.applied \subseteq inbox'.kept
      /\ inbox'.kept \subseteq inbox.kept \cup {ev} /\ inbox'.applied \subseteq inbox.applied \cup {ev}
  BY <1>1, <1>2 DEF InboxOK
<1>. QED  BY <1>1, <1>2, <1>3, EventStep

\* The provider answers the poll.
LEMMA AskStep == \A o \in Poller : \A n : CInv /\ Ask(o, n) => Kept
<1>. SUFFICES ASSUME NEW o \in Poller, NEW n, CInv, Ask(o, n) PROVE Kept
  OBVIOUS
<1>1. /\ RowOK(intent) /\ number \in Nat /\ SlotsOK(workers, journal, placed)
      /\ PollsOK(pollers, placed) /\ InboxOK(inbox, effects, placed)
  BY DEF CInv, NInv
<1>2. PICK ev : ev = Event(n, placed[n], 0)
  OBVIOUS
<1>3. /\ n \in pollers[o].left /\ placed[n] \in Ended
      /\ pollers' = [pollers EXCEPT ![o].left = @ \ {n}]
      /\ UNCHANGED <<journal, placed, workers, number, decided>>
      /\ \/ /\ inbox' = [kept |-> inbox.kept \cup {ev}, applied |-> inbox.applied \cup {ev}]
            /\ EventMoves(ev)
         \/ /\ inbox' = [inbox EXCEPT !.kept = @ \cup {ev}]
            /\ UNCHANGED <<intent, effects>>
  BY <1>2 DEF Ask
<1>4. n \in DOMAIN placed
  BY <1>1, <1>3 DEF PollsOK
<1>5. EventOK(ev, placed)
  BY <1>2, <1>3, <1>4 DEF EventOK, Event, Ended, EffectStates
<1>6. PollsOK(pollers', placed)
  BY <1>1, <1>3, Asked
<1>7. CASE /\ inbox' = [kept |-> inbox.kept \cup {ev}, applied |-> inbox.applied \cup {ev}]
           /\ EventMoves(ev)
  <2>1. /\ DOMAIN inbox' = {"kept", "applied"} /\ inbox'.applied \subseteq inbox'.kept
        /\ inbox'.kept \subseteq inbox.kept \cup {ev} /\ inbox'.applied \subseteq inbox.applied \cup {ev}
    BY <1>1, <1>7 DEF InboxOK
  <2>. QED  BY <1>3, <1>5, <1>6, <1>7, <2>1, EventStep
<1>8. CASE /\ inbox' = [inbox EXCEPT !.kept = @ \cup {ev}]
           /\ UNCHANGED <<intent, effects>>
  <2>1. InboxOK(inbox', effects, placed)
    BY <1>1, <1>5, <1>8, KeepsForLater
  <2>. QED  BY <1>1, <1>3, <1>6, <1>8, <2>1, RowStep
<1>. QED  BY <1>3, <1>7, <1>8

\* A person decides, over a commitment that has ended.
LEMMA OperatorStep ==
  \A decision : \A risk, deadline \in BOOLEAN :
    CInv /\ OperatorDecides(decision, risk, deadline) => Kept
<1>. SUFFICES ASSUME NEW decision, NEW risk \in BOOLEAN, NEW deadline \in BOOLEAN, CInv,
                     OperatorDecides(decision, risk, deadline)
              PROVE  Kept
  OBVIOUS
<1>1. /\ RowOK(intent) /\ number \in Nat /\ Facts(journal, effects, placed)
      /\ SlotsOK(workers, journal, placed)
      /\ PollsOK(pollers, placed) /\ InboxOK(inbox, effects, placed)
  BY DEF CInv, NInv
<1>2. PICK m, f, last :
        /\ m = DecideOperator(View(intent), decision, f, NoRevision, FALSE) /\ Valid(m)
        /\ intent' = [Written(intent, m, 0) EXCEPT !.deadline = last]
  BY DEF OperatorDecides
<1>3. decided' = TRUE /\ UNCHANGED <<journal, effects, inbox, placed, workers, pollers, number>>
  BY DEF OperatorDecides
<1>4. RowOK(intent')
  <2>1. PICK r : r = Written(intent, m, 0)
    OBVIOUS
  <2>2. RowOK(r)
    BY <1>1, <2>1, WrittenRow
  <2>3. intent' = [r EXCEPT !.deadline = last]
    BY <1>2, <2>1
  <2>. QED  BY <2>2, <2>3 DEF RowOK, RowFields
<1>5. NInv'
  BY <1>1, <1>3, <1>4 DEF NInv
<1>6. intent.status \in {"manual_review", "permanent_failed", "expired"}
  <2>1. View(intent).status = intent.status
    BY ViewIsCall
  <2>2. View(intent).status \notin {"manual_review", "permanent_failed", "expired"} => m = Invalid
    BY <1>2 DEF DecideOperator
  <2>3. ~Valid(Invalid)
    BY DEF Valid, Invalid, Move
  <2>. QED  BY <1>2, <2>1, <2>2, <2>3
<1>7. SettlesNow
  <2>1. ~decided => intent.status # "manual_review"
    BY DEF CInv, Steady, Terminal
  <2>. QED  BY <1>6, <2>1 DEF SettlesNow, Terminal
<1>. QED  BY <1>3, <1>5, <1>7 DEF Kept, CInv

------------------------------------------------------------------------------
(* The theorems.                                                              *)

LEMMA CallsBegin == Init => CInv
<1>. SUFFICES ASSUME Init PROVE CInv
  OBVIOUS
<1>1. /\ DOMAIN journal = {} /\ DOMAIN effects = {} /\ DOMAIN placed = {}
      /\ Len(journal) = 0 /\ Len(effects) = 0 /\ Len(placed) = 0
  BY DEF Init
<1>2. Facts(journal, effects, placed)
  <2>1. /\ journal \in Seq(Attempt) /\ effects \in Seq(Effect)
        /\ placed \in Seq(EffectStates \cup {"none"})
    BY DEF Init
  <2>. QED  BY <1>1, <2>1 DEF Facts
<1>3. RowOK(intent) /\ number \in Nat
  BY DEF Init, RowOK, RowFields
<1>4. SlotsOK(workers, journal, placed)
  <2>1. DOMAIN workers = Worker /\ \A w \in Worker : workers[w] = IdleWorker
    BY DEF Init
  <2>2. SlotOK(IdleWorker) /\ ~InFlight(IdleWorker) /\ FlightOK(IdleWorker, journal, placed)
    BY IdleIsQuiet DEF FlightOK, IdleWorker, InFlight
  <2>. QED  BY <2>1, <2>2 DEF SlotsOK
<1>5. InboxOK(inbox, effects, placed)
  BY DEF Init, InboxOK
<1>6. PollsOK(pollers, placed)
  BY DEF Init, PollsOK, IdlePoller
<1>7. NInv
  BY <1>2, <1>3, <1>4, <1>5, <1>6 DEF NInv
<1>8. intent.status = "pending" /\ intent.wait = "none"
  BY DEF Init
<1>9. Tried(intent, journal, effects, placed) /\ Closed(journal)
  BY <1>1 DEF Tried, Closed
<1>10. Happened(effects) = {} /\ KnownLive(intent, journal, effects) = {}
  BY <1>1 DEF Happened, KnownLive, OfGeneration
<1>. QED  BY <1>7, <1>8, <1>9, <1>10 DEF CInv, Steady, Calm

\* One case for each disjunct of Next.
LEMMA CallsGoOn == CInv /\ [Next]_vars => Kept
<1>. SUFFICES ASSUME CInv, [Next]_vars PROVE Kept
  OBVIOUS
<1>1. CASE Clock
  BY <1>1, ClockStep
<1>2. CASE Expire
  BY <1>2, ExpireStep
<1>3. CASE Recover
  BY <1>3, RecoverStep
<1>4. ASSUME NEW w \in Worker, Serve(w) PROVE Kept
  <2>1. CASE Claim(w)
    BY <2>1, ClaimStep
  <2>2. CASE PrepareEnds(w)
    BY <2>2, PrepareStep
  <2>3. CASE BeginEnds(w)
    BY <2>3, BeginDeniedStep, BeginRefusedStep, BeginStartedStep DEF BeginEnds
  <2>4. CASE RequestEnds(w)
    BY <2>4, RequestStep
  <2>5. CASE Finalize(w)
    BY <2>5, FinalizeStep
  <2>6. CASE FinalizeLate(w)
    BY <2>6, FinalizeLateStep
  <2>7. CASE Crash(w)
    BY <2>7, CrashStep
  <2>8. CASE CrashAfterPlacing(w)
    BY <2>8, CrashAfterPlacingStep
  <2>. QED  BY <1>4, <2>1, <2>2, <2>3, <2>4, <2>5, <2>6, <2>7, <2>8 DEF Serve
<1>5. ASSUME NEW o \in Poller, Poll(o) PROVE Kept
  <2>1. CASE ClaimLook(o)
    BY <2>1, LookStep
  <2>2. CASE AskEnds(o)
    BY <2>2, AskStep, AskFailsStep DEF AskEnds
  <2>3. CASE ReviewWait(o)
    BY <2>3, ReviewWaitStep
  <2>4. CASE PollerCrash(o)
    BY <2>4, PollerDies
  <2>. QED  BY <1>5, <2>1, <2>2, <2>3, <2>4 DEF Poll
<1>6. ASSUME NEW ev \in inbox.kept, ApplyKept(ev) PROVE Kept
  BY <1>6, ApplyKeptStep
<1>7. CASE Provider
  <2>1. ASSUME NEW n \in DOMAIN placed, NEW state \in {"happened", "not_placed"}, CallEnds(n, state)
        PROVE  Kept
    BY <2>1, CallEndsStep
  <2>2. ASSUME NEW n \in DOMAIN placed, NEW ev \in Says(n), Callback(ev) \/ CallbackKept(ev)
        PROVE  Kept
    BY <2>2, CallbackStep, CallbackKeptStep
  <2>. QED  BY <1>7, <2>1, <2>2 DEF Provider
<1>8. CASE People
  <2>1. ASSUME NEW decision \in Decisions, NEW risk \in BOOLEAN, NEW deadline \in BOOLEAN,
               OperatorDecides(decision, risk, deadline)
        PROVE  Kept
    BY <2>1, OperatorStep
  <2>. QED  BY <1>8, <2>1, AcknowledgeStep, RenumberStep DEF People
<1>9. CASE UNCHANGED vars
  <2>1. /\ RowOK(intent) /\ number \in Nat /\ SlotsOK(workers, journal, placed)
        /\ PollsOK(pollers, placed) /\ InboxOK(inbox, effects, placed)
    BY DEF CInv, NInv
  <2>2. UNCHANGED <<intent, journal, effects, inbox, placed, workers, pollers, number, decided>>
    BY <1>9 DEF vars
  <2>. QED  BY <2>1, <2>2, RowStep
<1>. QED  BY <1>1, <1>2, <1>3, <1>4, <1>5, <1>6, <1>7, <1>8, <1>9 DEF Next

\* The invariant holds of every behaviour.
LEMMA CallsInvariant == Spec => []CInv
<1>1. CInv /\ [Next]_vars => CInv'
  BY CallsGoOn DEF Kept
<1>. QED  BY <1>1, CallsBegin, PTL DEF Spec

\* No news is lost, and none is made up, in whatever order the answers and the events come.
THEOREM NewsOfACallIsKept == Spec => []NewsIsKept
<1>1. CInv => NewsIsKept
  BY NewsFollows DEF CInv
<1>. QED  BY <1>1, CallsInvariant, PTL

\* Nobody is called again over a call that is on, nor over anything but doubt.
THEOREM NobodyIsCalledTwiceForNothing == Spec => []NobodyIsCalledAnew
BY RepeatsFollow, CallsInvariant, PTL

\* A call known to have taken place settles the commitment in the step it becomes known.
THEOREM AKnownCallSettles == Spec => KnownCallSettles
<1>1. CInv /\ [Next]_vars =>
        [~decided /\ Happened(effects') # {} /\ intent.status \notin Terminal =>
           intent'.status \in {"sending", "succeeded"}]_vars
  BY CallsGoOn DEF Kept, SettlesNow
<1>. QED  BY <1>1, CallsInvariant, PTL DEF Spec, KnownCallSettles

==============================================================================
