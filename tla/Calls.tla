--------------------------------- MODULE Calls ---------------------------------
(***************************************************************************)
(* A phone call: the one channel whose acceptance only means "queued".     *)
(* internal/outbound/receipt.go and worker_receipts.go, internal/store/    *)
(* outbound_receipt_store.go, the calls' part of begin, finalize, recovery *)
(* and withdrawal, the Twilio channel and the callback route.              *)
(*                                                                         *)
(* One commitment of an alert group.  Worker slots place calls; the        *)
(* provider puts them through, or not, and says so in callbacks that are   *)
(* lost, repeated, late and out of order; pollers ask about the calls      *)
(* nothing was heard of.  An event is kept first and applied afterwards,   *)
(* in a transaction of its own: the callback route applies it at once, and *)
(* when that fails the poll's pass does.  Whatever door a fact comes in    *)
(* through, one question is asked of the same facts: reviewReceiptTx.      *)
(*                                                                         *)
(* Abstracted: a call is named by the number of its attempt; Twilio's words *)
(* for a call on its way are one state; a transient obstacle to a call -   *)
(* an integration switched off, a rate limit - is a retryable answer.  The *)
(* clock is nondeterminism: a backoff and the time of the next look may be *)
(* over at any moment, leases and deadlines run out in steps of their own. *)
(***************************************************************************)
EXTENDS Integers, Sequences, FiniteSets, DeliveryMachine

CONSTANTS
  Integration,   \* the Twilio integrations that cover the person's number, in the
                 \* order they are tried: by priority, then by id
  NoIntegration,
  Worker,        \* slots of the phone worker, over every instance
  Poller,        \* poll passes, one at most per instance
  MaxUpsets      \* bound: crashes, overrun leases, refused, failed and doubtful calls,
                 \* numbers replaced, decisions of a person

ASSUME CallsAssumption ==
  /\ Integration \subseteq Nat /\ Integration # {}
  /\ NoIntegration \notin Integration
  /\ MaxUpsets \in Nat

VARIABLES
  group,    \* alert_groups.status
  intent,   \* the call's row of outbound_intents
  journal,  \* outbound_attempts, by attempt number
  effects,  \* outbound_effects, by the attempt that made the call
  inbox,    \* outbound_provider_events: what is kept, and what of it is applied
  placed,   \* the provider's own truth about the call of each attempt
  workers,  \* what one serve() holds in memory
  pollers,  \* what one poll pass holds in memory
  number,   \* the person's phone: which number, and 0 while it is unverified
  decided,  \* a person has decided about the commitment
  budget    \* what is left of MaxUpsets

vars == <<group, intent, journal, effects, inbox, placed, workers, pollers, number, decided, budget>>

Over == group = "acknowledged"

EffectStates == {"in_progress", "happened", "not_placed", "withdrawn"}
Ended        == {"happened", "not_placed", "withdrawn"}

\* No row of outbound_effects yet.
NoEffect == [state |-> "none", sequence |-> 0]

\* What the provider says about the call of attempt n: sequence 0 is the
\* unnumbered answer to a poll.
Event(n, state, sequence) == [attempt |-> n, state |-> state, sequence |-> sequence]

IdleWorker == [pc |-> "idle", token |-> 0, prep |-> "none", via |-> NoIntegration,
               number |-> 0, attempt |-> 0, answer |-> "none"]

IdlePoller == [pc |-> "idle", left |-> {}]

------------------------------------------------------------------------------
(* receipt.go: the fold of one call, and the verdict over a generation.     *)

\* A terminal state absorbs; between two others the provider's numbers decide,
\* where it numbers; a terminal one wins over both.
FoldEffect(current, event) ==
  IF \/ current.state \in Ended
     \/ /\ event.state \notin Ended
        /\ event.sequence # 0 /\ current.sequence # 0 /\ event.sequence <= current.sequence
  THEN current
  ELSE [state |-> event.state,
        sequence |-> IF event.sequence > current.sequence THEN event.sequence
                                                          ELSE current.sequence]

OfGeneration(gen, j) == {n \in DOMAIN j : j[n].gen = gen}

Doubtful(a) == a.by # "none" /\ a.outcome = "ambiguous"

\* Mutant: doubt is counted only where a worker said so.
UnaccountedAnswered(i, j, e) ==
  {n \in OfGeneration(i.gen, j) : Doubtful(j[n]) /\ j[n].by = "worker" /\ e[n] = NoEffect}

\* Attempts of this generation that may have made a call nobody has named.
Unaccounted(i, j, e) ==
  {n \in OfGeneration(i.gen, j) : Doubtful(j[n]) /\ e[n] = NoEffect}

KnownLive(i, j, e) == {n \in OfGeneration(i.gen, j) : e[n].state = "in_progress"}

Named(i, j, e) == {n \in OfGeneration(i.gen, j) : e[n] # NoEffect}

Happened(e) == {n \in DOMAIN e : e[n].state = "happened"}

\* Mutant: a stale "in progress" keeps the commitment waiting past its deadline.
GenerationVerdictPatient(i, j, e) ==
  CASE Happened(e) # {} -> "happened"
    [] Happened(e) = {} /\ i.status # "sending" /\ Unaccounted(i, j, e) = {}
         /\ Named(i, j, e) # {}
         /\ \A n \in Named(i, j, e) : e[n].state \in {"not_placed", "withdrawn"} -> "not_placed"
    [] OTHER -> IF i.wait = "over" /\ KnownLive(i, j, e) = {} THEN "unknown" ELSE "still_going"

\* The rows in order: a call of any generation took place; a request is open;
\* every call of this generation definitely did not; the wait is over.
GenerationVerdict(i, j, e) ==
  CASE Happened(e) # {} -> "happened"
    [] Happened(e) = {} /\ i.status = "sending" -> "still_going"
    [] Happened(e) = {} /\ i.status # "sending" /\ Unaccounted(i, j, e) = {}
         /\ Named(i, j, e) # {}
         /\ \A n \in Named(i, j, e) : e[n].state \in {"not_placed", "withdrawn"} -> "not_placed"
    [] OTHER -> IF i.wait = "over" THEN "unknown" ELSE "still_going"

------------------------------------------------------------------------------
(* The row: what the machine reads of it, and what a transition writes.     *)

View(i) ==
  [status |-> i.status, form |-> "one_shot", completion |-> "on_provider_receipt",
   policy |-> "retry", bound |-> i.via # NoIntegration, cancel |-> i.cancel,
   withdrawn |-> i.withdrawn, desired |-> 0, receipt |-> i.receipt # 0,
   satellite |-> FALSE, door |-> "resolve_ambiguity"]

Written(i, m, receipt) ==
  LET fresh == "NewGeneration" \in m.effects
      waits == "AwaitReceipt" \in m.effects
  IN [i EXCEPT
        !.status    = m.to,
        !.gen       = IF fresh THEN @ + 1 ELSE @,
        !.via       = IF fresh THEN NoIntegration ELSE @,
        !.number    = IF fresh THEN 0 ELSE @,
        !.receipt   = IF fresh THEN 0
                      ELSE IF "StoreReceipt" \in m.effects /\ receipt # 0 THEN receipt ELSE @,
        !.cancel    = @ /\ "ConsumeCancellation" \notin m.effects,
        !.withdrawn = @ \/ "WithdrawObligation" \in m.effects,
        !.risk      = @ \/ "RecordDuplicateRisk" \in m.effects,
        !.token     = IF "ClearLease" \in m.effects THEN 0 ELSE @,
        !.live      = @ /\ "ClearLease" \notin m.effects,
        !.attempt   = IF "ClearCurrentAttempt" \in m.effects THEN 0 ELSE @,
        !.wait      = IF fresh THEN "none" ELSE IF waits /\ @ = "none" THEN "running" ELSE @]

\* The call a commitment keeps as its receipt when it had none: the one that
\* took place, or the live one it goes on to wait for.
ReceiptEffect(i, j, e, verdict) ==
  LET found == IF verdict = "happened" THEN Happened(e) ELSE KnownLive(i, j, e)
  IN IF i.receipt # 0 \/ found = {} THEN 0 ELSE CHOOSE n \in found : \A m \in found : n <= m

\* Mutant: doubt alone does not stop a repeat, and neither does a ringing call.
ReviewHeedsIfQueuedDeaf(i, j, e, verdict, polled) ==
  CASE i.status = "pending"          -> verdict \in {"happened", "not_placed"}
    [] i.status = "awaiting_receipt" -> verdict # "still_going" \/ polled
    [] OTHER -> FALSE

\* Which verdicts move the commitment.  Doubt alone leaves a repeat to happen;
\* "still going" moves a wait only for the poll, which schedules its next look.
ReviewHeeds(i, j, e, verdict, polled) ==
  CASE i.status = "pending" ->
         \/ verdict \in {"happened", "not_placed"}
         \/ verdict = "still_going" /\ KnownLive(i, j, e) # {}
    [] i.status = "awaiting_receipt" -> verdict # "still_going" \/ polled
    [] OTHER -> FALSE

\* reviewReceiptTx: the row after the question every door asks.
Reviewed(i, j, e, polled) ==
  LET verdict == GenerationVerdict(i, j, e)
  IN IF ReviewHeeds(i, j, e, verdict, polled)
     THEN Written(i, DecideVerdict(View(i), verdict), ReceiptEffect(i, j, e, verdict))
     ELSE i

\* Mutant: only the answer to the open request counts.
DischargedByNothing(i, j, e, m) == m

\* dischargedByEarlierCallTx: a call known to have taken place settles the
\* commitment, whatever its open request came to.
Discharged(i, j, e, m) ==
  IF Happened(e) # {} THEN DecideVerdict(View(i), "happened") ELSE m

\* The one move of the group: its first success.
GroupAfter(i) ==
  IF i.status = "succeeded" /\ intent.status # "succeeded" /\ group = "processing"
  THEN "triggered" ELSE group

------------------------------------------------------------------------------
Init ==
  /\ group = "processing"
  /\ intent = [status |-> "pending", gen |-> 1, via |-> NoIntegration, number |-> 0,
               receipt |-> 0, cancel |-> FALSE, withdrawn |-> FALSE, risk |-> FALSE,
               token |-> 0, live |-> FALSE, attempt |-> 0,
               deadline |-> "ahead", wait |-> "none"]
  /\ journal = <<>> /\ effects = <<>> /\ placed = <<>>
  /\ inbox = [kept |-> {}, applied |-> {}]
  /\ workers = [w \in Worker |-> IdleWorker]
  /\ pollers = [p \in Poller |-> IdlePoller]
  /\ number = 1
  /\ decided = FALSE
  /\ budget = MaxUpsets

Upset == budget > 0 /\ budget' = budget - 1

OnlyTheRow == UNCHANGED <<group, journal, effects, inbox, placed, workers, pollers, number, decided>>

------------------------------------------------------------------------------
(* The clock.                                                              *)

Carried == \E w \in Worker : workers[w].pc # "idle" /\ workers[w].token = intent.token

Lapse == intent.live /\ intent' = [intent EXCEPT !.live = FALSE] /\ OnlyTheRow

LeaseExpires  == ~Carried /\ Lapse /\ UNCHANGED budget
LeaseOverruns == Carried /\ Lapse /\ Upset

\* expires_at, ten minutes after the step.
DeadlinePasses ==
  /\ intent.deadline = "ahead" /\ intent.status \notin Terminal
  /\ intent' = [intent EXCEPT !.deadline = "past"]
  /\ OnlyTheRow /\ UNCHANGED budget

\* receipt_deadline passes.
WaitRunsOut ==
  /\ intent.wait = "running" /\ intent.status \notin Terminal
  /\ intent' = [intent EXCEPT !.wait = "over"]
  /\ OnlyTheRow /\ UNCHANGED budget

------------------------------------------------------------------------------
(* One tick of the phone worker, and its slots.                            *)

Expire ==
  /\ intent.status = "pending" /\ intent.deadline = "past"
  /\ intent' = [intent EXCEPT !.status = "expired", !.token = 0, !.live = FALSE]
  /\ OnlyTheRow /\ UNCHANGED budget

\* Recovery closes the attempt as doubtful, and hears what came in meanwhile.
Recover ==
  LET n == intent.attempt
      j == [journal EXCEPT ![n].outcome = "ambiguous", ![n].by = "lease_lost"]
      m == Discharged(intent, j, effects,
                      DecideRecover(View(intent), intent.deadline = "past", NoRevision, FALSE))
      i == Written(intent, m, 0)
  IN /\ intent.status = "sending" /\ ~intent.live
     /\ journal' = j
     /\ intent' = IF i.status = "pending" THEN Reviewed(i, j, effects, FALSE) ELSE i
     /\ group' = GroupAfter(intent')
     /\ UNCHANGED <<effects, inbox, placed, workers, pollers, number, decided, budget>>

\* A lease's token is random: one that nobody else holds.
Fresh(token) == token # 0 /\ token # intent.token /\ \A w \in Worker : workers[w].token # token

Claim(w) ==
  LET token == CHOOSE t \in 1..(Cardinality(Worker) + 2) : Fresh(t)
  IN /\ workers[w] = IdleWorker
     /\ intent.status = "pending" /\ intent.deadline # "past" /\ ~intent.live
     /\ intent' = [intent EXCEPT !.token = token, !.live = TRUE]
     /\ workers' = [workers EXCEPT ![w] = [IdleWorker EXCEPT !.pc = "leased", !.token = token]]
     /\ UNCHANGED <<group, journal, effects, inbox, placed, pollers, number, decided, budget>>

\* RefusedIntegrations: the ones that said no to the request, or accepted a
\* call they could not place.
Refused ==
  {journal[n].via : n \in {k \in DOMAIN journal :
     journal[k].outcome = "permanent" \/ effects[k].state = "not_placed"}}

Proposed(w, prep, via) ==
  /\ workers' = [workers EXCEPT ![w].pc = "prepared", ![w].prep = prep, ![w].via = via,
                                ![w].number = number]
  /\ UNCHANGED <<group, intent, journal, effects, inbox, placed, pollers, number, decided>>

\* Channel.Prepare: the directory, the integrations and the refusals, unlocked.
\* Inside a generation only the number is judged; the integration is bound.
PrepareNoContact(w) ==
  /\ workers[w].pc = "leased"
  /\ number = 0 \/ (intent.via # NoIntegration /\ intent.number # number)
  /\ Proposed(w, "no_contact", NoIntegration)
  /\ UNCHANGED budget

PrepareReady(w) ==
  /\ workers[w].pc = "leased" /\ number # 0
  /\ IF intent.via # NoIntegration
     THEN intent.number = number /\ Proposed(w, "ready", NoIntegration)
     ELSE \E via \in Integration \ Refused :
            /\ \A other \in Integration \ Refused : via <= other
            /\ Proposed(w, "ready", via)
  /\ UNCHANGED budget

PrepareExhausted(w) ==
  /\ workers[w].pc = "leased" /\ number # 0
  /\ intent.via = NoIntegration /\ Integration \subseteq Refused
  /\ Proposed(w, "permanent", NoIntegration)
  /\ UNCHANGED budget

\* No public address, a directory that does not answer.
PrepareNotNow(w) ==
  /\ workers[w].pc = "leased" /\ Proposed(w, "transient", NoIntegration) /\ Upset

Holds(w) == intent.status = "pending" /\ intent.token = workers[w].token /\ intent.live

BeginDenied(w) ==
  /\ workers[w].pc = "prepared" /\ ~Holds(w)
  /\ workers' = [workers EXCEPT ![w] = IdleWorker]
  /\ UNCHANGED <<group, intent, journal, effects, inbox, placed, pollers, number, decided, budget>>

BeginRefused(w) ==
  LET m == DecidePreparation(View(intent), workers[w].prep)
  IN /\ workers[w].pc = "prepared" /\ Holds(w) /\ workers[w].prep # "ready"
     /\ intent' = Written(intent, m, 0)
     /\ workers' = [workers EXCEPT ![w] = IdleWorker]
     /\ UNCHANGED <<group, journal, effects, inbox, placed, pollers, number, decided, budget>>

\* The first call of a generation binds the number and the integration; every
\* later one goes the same way, whatever was proposed.
BeginStarted(w) ==
  LET m       == DecidePreparation(View(intent), "ready")
      opening == "OpenGeneration" \in m.effects
      via     == IF opening THEN workers[w].via ELSE intent.via
      to      == IF opening THEN workers[w].number ELSE intent.number
      n       == Len(journal) + 1
  IN /\ workers[w].pc = "prepared" /\ Holds(w) /\ workers[w].prep = "ready"
     /\ via # NoIntegration
     /\ intent' = [Written(intent, m, 0) EXCEPT !.via = via, !.number = to, !.attempt = n]
     /\ journal' = Append(journal, [gen |-> intent.gen, via |-> via, number |-> to,
                                    outcome |-> "open", by |-> "none"])
     /\ effects' = Append(effects, NoEffect)
     /\ placed' = Append(placed, "none")
     /\ workers' = [workers EXCEPT ![w].pc = "calling", ![w].attempt = n]
     /\ UNCHANGED <<group, inbox, pollers, number, decided, budget>>

------------------------------------------------------------------------------
(* The request, and what the provider makes of it.                         *)

Answered(w, answer, truth) ==
  /\ workers[w].pc = "calling"
  /\ workers' = [workers EXCEPT ![w].pc = "answered", ![w].answer = answer]
  /\ placed' = [placed EXCEPT ![workers[w].attempt] = truth]
  /\ UNCHANGED <<group, intent, journal, effects, inbox, pollers, number, decided>>

RequestAccepted(w) == Answered(w, "accepted", "in_progress") /\ UNCHANGED budget
RequestRejected(w, answer) == Answered(w, answer, "none") /\ Upset
RequestInDoubt(w, made) == Answered(w, "ambiguous", IF made THEN "in_progress" ELSE "none") /\ Upset

\* The call is put through and ends, or is not put through.  Nothing here takes a
\* call back, so none ends "withdrawn".
CallEnds(n, state) ==
  /\ n \in DOMAIN placed /\ placed[n] = "in_progress"
  /\ placed' = [placed EXCEPT ![n] = state]
  /\ IF state = "happened" THEN UNCHANGED budget ELSE Upset
  /\ UNCHANGED <<group, intent, journal, effects, inbox, workers, pollers, number, decided>>

\* What the provider has to tell about a call: that it is on its way, how it ended.
Says(n) ==
  IF placed[n] = "none" THEN {}
  ELSE {Event(n, "in_progress", 1)}
       \cup {Event(n, s, 2) : s \in {placed[n]} \cap Ended}

------------------------------------------------------------------------------
(* FinalizeDeliveryAttempt, for a call.                                    *)

Doubt(i, j, e) == Unaccounted(i, j, e) # {} \/ KnownLive(i, j, e) # {}

\* Mutant: the answer overwrites what an event said before it.
AcceptedEffectAnew(e, n) == [e EXCEPT ![n] = [state |-> "in_progress", sequence |-> 0]]

\* The object an accepted request made, unless an event overtook the answer.
AcceptedEffect(e, n) ==
  IF e[n] = NoEffect THEN [e EXCEPT ![n] = [state |-> "in_progress", sequence |-> 0]] ELSE e

Finalize(w) ==
  LET n == workers[w].attempt
      answer == workers[w].answer
      m == Discharged(intent, journal, effects,
             DecideFinish(View(intent), answer, NoRevision, FALSE, Doubt(intent, journal, effects)))
      j == [journal EXCEPT ![n].outcome = answer, ![n].by = "worker"]
      e == IF answer = "accepted" THEN AcceptedEffect(effects, n) ELSE effects
      i == Written(intent, m, IF answer = "accepted" THEN n ELSE 0)
  IN /\ workers[w].pc = "answered" /\ journal[n].by = "none"
     /\ intent.attempt = n /\ intent.token = workers[w].token
     /\ journal' = j
     /\ effects' = e
     /\ intent' = IF i.status \in {"awaiting_receipt", "pending"}
                  THEN Reviewed(i, j, e, FALSE) ELSE i
     /\ group' = GroupAfter(intent')
     /\ workers' = [workers EXCEPT ![w] = IdleWorker]
     /\ UNCHANGED <<inbox, placed, pollers, number, decided, budget>>

\* Recovery closed the attempt first: the answer is kept beside it and read by
\* nobody, and the call it names is heard of only from the provider.
FinalizeLate(w) ==
  LET n == workers[w].attempt
  IN /\ workers[w].pc = "answered" /\ journal[n].by = "lease_lost"
     /\ workers' = [workers EXCEPT ![w] = IdleWorker]
     /\ UNCHANGED <<group, intent, journal, effects, inbox, placed, pollers, number, decided, budget>>

Crash(w) ==
  /\ workers[w].pc # "idle"
  /\ workers' = [workers EXCEPT ![w] = IdleWorker]
  /\ Upset
  /\ UNCHANGED <<group, intent, journal, effects, inbox, placed, pollers, number, decided>>

\* The process dies between the provider's answer and its own memory of it.
CrashAfterPlacing(w) ==
  /\ workers[w].pc = "calling"
  /\ placed' = [placed EXCEPT ![workers[w].attempt] = "in_progress"]
  /\ workers' = [workers EXCEPT ![w] = IdleWorker]
  /\ Upset
  /\ UNCHANGED <<group, intent, journal, effects, inbox, pollers, number, decided>>

------------------------------------------------------------------------------
(* The provider's events.                                                  *)

\* ApplyProviderEvent: the call the event is about, and the commitment after it.
EventMoves(ev) ==
  LET folded == [effects EXCEPT ![ev.attempt] =
                   FoldEffect(IF @ = NoEffect THEN [state |-> "in_progress", sequence |-> 0] ELSE @, ev)]
  IN /\ effects' = folded
     /\ intent' = IF intent.status \in Terminal THEN intent
                  ELSE Reviewed(intent, journal, folded, FALSE)
     /\ group' = GroupAfter(intent')

Applies(ev) == EventMoves(ev) /\ UNCHANGED <<journal, placed, workers, pollers, number, decided>>

\* HandleTwilioCallStatus: the event is kept, a repeat of it is the same row, and
\* applied at once.
Callback(ev) ==
  /\ ev \notin inbox.kept
  /\ inbox' = [kept |-> inbox.kept \cup {ev}, applied |-> inbox.applied \cup {ev}]
  /\ Applies(ev) /\ UNCHANGED budget

\* The event is kept and a row it needs is held by somebody else.
CallbackKept(ev) ==
  /\ ev \notin inbox.kept
  /\ inbox' = [inbox EXCEPT !.kept = @ \cup {ev}]
  /\ Upset
  /\ UNCHANGED <<group, intent, journal, effects, placed, workers, pollers, number, decided>>

\* What is kept and not applied, at the end of a poll's pass.
ApplyKept(ev) ==
  /\ ev \in inbox.kept \ inbox.applied
  /\ inbox' = [inbox EXCEPT !.applied = @ \cup {ev}]
  /\ Applies(ev) /\ UNCHANGED budget

------------------------------------------------------------------------------
(* The poll.                                                               *)

\* ClaimDueReceipts: the calls of a wait that came round whose end was not heard.
ClaimLook(p) ==
  /\ pollers[p] = IdlePoller
  /\ intent.status = "awaiting_receipt"
  /\ pollers' = [pollers EXCEPT ![p] =
       [pc |-> "asking", left |-> {n \in DOMAIN effects : effects[n].state = "in_progress"}]]
  /\ UNCHANGED <<group, intent, journal, effects, inbox, placed, workers, number, decided, budget>>

\* pollOne: the provider's answer, true when it was given, is kept and applied
\* like a callback.  "In progress" changes nothing of a call that has a row.
Ask(p, n) ==
  /\ n \in pollers[p].left
  /\ pollers' = [pollers EXCEPT ![p].left = @ \ {n}]
  /\ placed[n] \in Ended
  /\ LET ev == Event(n, placed[n], 0)
     IN \/ /\ inbox' = [kept |-> inbox.kept \cup {ev}, applied |-> inbox.applied \cup {ev}]
           /\ EventMoves(ev) /\ UNCHANGED budget
        \/ /\ inbox' = [inbox EXCEPT !.kept = @ \cup {ev}]
           /\ Upset /\ UNCHANGED <<group, intent, effects>>
  /\ UNCHANGED <<journal, placed, workers, number, decided>>

\* The provider cannot be asked, or says the call is under way: the pass goes on.
AskFails(p, n) ==
  /\ n \in pollers[p].left
  /\ pollers' = [pollers EXCEPT ![p].left = @ \ {n}]
  /\ UNCHANGED <<group, intent, journal, effects, inbox, placed, workers, number, decided, budget>>

\* ReviewReceiptWait: the question only the poll asks - is the wait over.
ReviewWait(p) ==
  /\ pollers[p].pc = "asking" /\ pollers[p].left = {}
  /\ pollers' = [pollers EXCEPT ![p] = IdlePoller]
  /\ intent' = IF intent.status = "awaiting_receipt"
               THEN Reviewed(intent, journal, effects, TRUE) ELSE intent
  /\ group' = GroupAfter(intent')
  /\ UNCHANGED <<journal, effects, inbox, placed, workers, number, decided, budget>>

PollerCrash(p) ==
  /\ pollers[p].pc # "idle"
  /\ pollers' = [pollers EXCEPT ![p] = IdlePoller]
  /\ Upset
  /\ UNCHANGED <<group, intent, journal, effects, inbox, placed, workers, number, decided>>

------------------------------------------------------------------------------
(* The alert, the person called, the person deciding.                      *)

\* cancelIntentsTx: a queued call is withdrawn, one in flight asked to stop; one
\* the provider has is followed to its end and never made again.
Withdrawn(i) ==
  CASE i.status = "pending" /\ i.receipt = 0 ->
         [i EXCEPT !.status = "canceled", !.token = 0, !.live = FALSE]
    [] i.status = "sending" /\ i.receipt = 0 -> [i EXCEPT !.cancel = TRUE]
    [] i.status = "awaiting_receipt" -> [i EXCEPT !.withdrawn = TRUE]
    [] OTHER -> i

Acknowledge ==
  /\ ~Over
  /\ group' = "acknowledged"
  /\ intent' = Withdrawn(intent)
  /\ UNCHANGED <<journal, effects, inbox, placed, workers, pollers, number, decided, budget>>

\* The person replaces their number, unverified until they enter its code.
Renumber ==
  /\ number' \in {0, number + 1}
  /\ Upset
  /\ UNCHANGED <<group, intent, journal, effects, inbox, placed, workers, pollers, decided>>

\* ResolveAmbiguity.  The facts it is judged by do not include the calls.
OperatorDecides(decision, risk, deadline) ==
  LET last == Len(journal)
      mine == OfGeneration(intent.gen, journal)
      f == [create |-> last \in mine, revision |-> NoRevision,
            ambiguous |-> \E n \in mine : Doubtful(journal[n]),
            lost |-> FALSE, risk |-> risk, deadline |-> deadline]
      m == DecideOperator(View(intent), decision, f, NoRevision, FALSE)
  IN /\ ~decided /\ Valid(m) /\ Upset
     /\ ~(Over /\ decision \in {"retry_current", "retry_new"})
     /\ intent' = [Written(intent, m, 0) EXCEPT
                     !.deadline = IF deadline THEN "ahead" ELSE @]
     /\ decided' = TRUE
     /\ UNCHANGED <<group, journal, effects, inbox, placed, workers, pollers, number>>

------------------------------------------------------------------------------
Clock == LeaseExpires \/ LeaseOverruns \/ DeadlinePasses \/ WaitRunsOut

RequestEnds(w) ==
  \/ RequestAccepted(w)
  \/ \E answer \in {"retryable", "permanent"} : RequestRejected(w, answer)
  \/ \E made \in BOOLEAN : RequestInDoubt(w, made)

PrepareEnds(w) == PrepareNoContact(w) \/ PrepareReady(w) \/ PrepareExhausted(w) \/ PrepareNotNow(w)

BeginEnds(w) == BeginDenied(w) \/ BeginRefused(w) \/ BeginStarted(w)

Serve(w) ==
  \/ Claim(w) \/ PrepareEnds(w) \/ BeginEnds(w) \/ RequestEnds(w)
  \/ Finalize(w) \/ FinalizeLate(w) \/ Crash(w) \/ CrashAfterPlacing(w)

AskEnds(p) == \E n \in pollers[p].left : Ask(p, n) \/ AskFails(p, n)

Poll(p) == ClaimLook(p) \/ AskEnds(p) \/ ReviewWait(p) \/ PollerCrash(p)

Provider ==
  \/ \E n \in DOMAIN placed, state \in {"happened", "not_placed"} : CallEnds(n, state)
  \/ \E n \in DOMAIN placed : \E ev \in Says(n) : Callback(ev) \/ CallbackKept(ev)

People ==
  \/ Acknowledge \/ Renumber
  \/ \E decision \in Decisions, risk, deadline \in BOOLEAN :
       OperatorDecides(decision, risk, deadline)

Next ==
  \/ Clock \/ Expire \/ Recover
  \/ \E w \in Worker : Serve(w)
  \/ \E p \in Poller : Poll(p)
  \/ \E ev \in inbox.kept : ApplyKept(ev)
  \/ Provider \/ People

Spec == Init /\ [][Next]_vars

(* Fairness: the wait runs out, a poll comes round, and every question of it *)
(* has a deadline of its own.  Nothing is assumed of the worker, nor of the  *)
(* provider: a call may ring for ever and no callback need come.             *)
Fairness ==
  /\ WF_vars(WaitRunsOut)
  /\ WF_vars(\E p \in Poller : ClaimLook(p))
  /\ \A p \in Poller : WF_vars(AskEnds(p) \/ ReviewWait(p))

FairSpec == Spec /\ Fairness

------------------------------------------------------------------------------
(* Types.                                                                  *)

Answers == {"accepted", "retryable", "permanent", "ambiguous"}

EventType == [attempt : Nat, state : EffectStates, sequence : Nat]

\* The shape of the row, the journal, the calls and what the processes remember.
TypeOK ==
  /\ group \in {"processing", "triggered", "acknowledged"}
  /\ intent \in
       [status : Statuses, gen : Nat, via : Integration \cup {NoIntegration}, number : Nat,
        receipt : Nat, cancel : BOOLEAN, withdrawn : BOOLEAN, risk : BOOLEAN,
        token : Nat, live : BOOLEAN, attempt : Nat, deadline : {"ahead", "past"}, wait : {"none", "running", "over"}]
  /\ journal \in Seq([gen : Nat, via : Integration, number : Nat,
                      outcome : Answers \cup {"open"}, by : {"none", "worker", "lease_lost"}])
  /\ effects \in Seq([state : EffectStates \cup {"none"}, sequence : Nat])
  /\ placed \in Seq(EffectStates \cup {"none"})
  /\ inbox \in [kept : SUBSET EventType, applied : SUBSET EventType]
  /\ workers \in [Worker -> [pc : {"idle", "leased", "prepared", "calling", "answered"},
                             token : Nat, prep : {"none", "ready", "no_contact", "permanent", "transient"},
                             via : Integration \cup {NoIntegration}, number : Nat, attempt : Nat,
                             answer : Answers \cup {"none"}]]
  /\ pollers \in [Poller -> [pc : {"idle", "asking"}, left : SUBSET Nat]]
  /\ number \in Nat
  /\ decided \in BOOLEAN /\ budget \in Nat

------------------------------------------------------------------------------
(* Safety.                                                                 *)

\* receipt.go, row 1: "a call that did take place, late, is not made again".
\* The step after which a call is known to have taken place leaves the
\* commitment settled, or its open request still open, unless it had ended
\* before: neither a refusal of a repeat, nor the death of its worker, nor a
\* withdrawal in between turns it into anything else.
KnownCallSettles ==
  [][~decided /\ Happened(effects') # {} /\ intent.status \notin Terminal =>
       intent'.status \in {"sending", "succeeded"}]_vars

\* A call is not queued to be made again while one of its generation is known to
\* be under way, whichever of the answer, the event and the recovery came first.
QueuedMeansQuiet ==
  ~decided /\ intent.status = "pending" => KnownLive(intent, journal, effects) = {}

\* A second call is placed only over doubt: the earlier one, unless it is known
\* not to have been put through, was answered in doubt, and its repeat goes the
\* very same way - one generation, one integration, one number.
DoubtIsRepeatedAsMade ==
  ~decided =>
    \A n, m \in DOMAIN journal :
      n < m /\ placed[m] # "none" /\ placed[n] \in {"in_progress", "happened"} =>
        /\ journal[n].outcome = "ambiguous"
        /\ journal[n].gen = journal[m].gen
        /\ journal[n].via = journal[m].via /\ journal[n].number = journal[m].number

\* Nobody is called again over a call that is on, nor over anything but doubt.
NobodyIsCalledAnew == QueuedMeansQuiet /\ DoubtIsRepeatedAsMade

\* No news is lost, and none is made up: what the row of a call says it ended as
\* is what the provider made of it, and it says so once any event that says so
\* was applied, in whatever order they came and whenever the answer did.
NewsIsKept ==
  /\ \A n \in DOMAIN effects : effects[n].state \in Ended => effects[n].state = placed[n]
  /\ \A e \in inbox.applied : e.state \in Ended => effects[e.attempt].state = e.state

------------------------------------------------------------------------------
(* Liveness, under Fairness.                                               *)

\* A wait for the provider's word ends, though no callback comes, every poll
\* fails and the last word heard was "in progress".
WaitEnds == intent.status = "awaiting_receipt" ~> intent.status # "awaiting_receipt"

==============================================================================
