--------------------------------- MODULE Intake ---------------------------------
(***************************************************************************)
(* From what Alertmanager sends to what is owed: internal/ingester/http.go, *)
(* internal/alertgroup, internal/store/alert_merge.go, the alert group's    *)
(* own commands in store.go, internal/engine and the admission of an        *)
(* escalation in outbound_store.go.                                         *)
(*                                                                         *)
(* One alert key.  Webhook requests apply what Alertmanager sent to the     *)
(* incident that is open, or open one; engines of several instances read a  *)
(* new incident, plan its escalation from reads of their own and submit it; *)
(* people acknowledge and resolve; duty is handed over and people who left  *)
(* are erased meanwhile.  A transaction is one step: it holds the row of    *)
(* the incident it decides about.                                           *)
(*                                                                         *)
(* Abstracted: an alert is its fingerprint and status; what a message shows *)
(* is the alerts, the marks and whether the incident is open, acknowledged  *)
(* or resolved; the delivery of what is owed is its first success; the      *)
(* events a transaction leaves in the outbox are where FanOut begins.       *)
(***************************************************************************)
EXTENDS Plan, FiniteSets

CONSTANTS
  Alert,      \* fingerprints of one alert group
  Payload,    \* what Alertmanager may send: [says |-> [Alert -> ...], snapshot |-> BOOLEAN]
  Request,    \* webhook requests in flight, and
  Engine,     \* engines, one per instance: numbers, the lowest idle one going first
  Person,     \* the people who press buttons
  Leaver,     \* the people who may be erased
  Policy,     \* the policies the incident may be routed to
  Duty,       \* the answers to "who is on duty"
  FirstDuty,  \* the one at the start
  MaxPayloads,\* bound: webhook requests
  MaxUpsets   \* bound: failed reads, lost plans and requests, erasures, presses

ASSUME IntakeAssumption ==
  /\ \A p \in Payload : /\ p.snapshot \in BOOLEAN
                        /\ p.says \in [Alert -> {"absent", "firing", "resolved"}]
                        /\ \E a \in Alert : p.says[a] # "absent"
  /\ Request \subseteq Nat /\ Engine \subseteq Nat
  /\ FirstDuty \in Duty
  /\ MaxPayloads \in Nat /\ MaxUpsets \in Nat

VARIABLES
  incidents,  \* the rows of alert_groups for the key, in the order they were opened
  reported,   \* history: what Alertmanager last said of each alert and was told "OK" for
  requests,   \* what one request holds between its transactions
  engines,    \* what one engine holds between its reads and its submission
  people,     \* what one press of a button read before it is carried out
  policy,     \* the policy the severity is routed to
  duty,       \* who is on duty
  erased,     \* the people who were erased
  received,   \* webhook requests so far
  budget      \* what is left of MaxUpsets

vars == <<incidents, reported, requests, engines, people, policy, duty, erased, received, budget>>

Terminal == {"resolved"}
NoBatch == [promised |-> {}]
NoPicture == [status |-> "none"]

IdleRequest == [pc |-> "idle"]
IdleEngine  == [pc |-> "idle"]
IdlePerson  == [pc |-> "idle"]

\* One is as good as another.
FirstIdle(slots, x) ==
  slots[x].pc = "idle" /\ \A y \in DOMAIN slots : slots[y].pc = "idle" => x <= y

------------------------------------------------------------------------------
(* merge.go: what a payload does to the alerts an incident holds.           *)

Known(group, a) == group.alerts[a] # "absent"

Firing(group) == {a \in Alert : group.alerts[a] = "firing"}

\* FilterMergeable: only a firing alert introduces itself.
Relevant(group, p) ==
  {a \in Alert : p.says[a] = "firing" \/ (p.says[a] = "resolved" /\ Known(group, a))}

\* Apply: the latest word on each alert wins and clears its mark; what a snapshot
\* does not carry and still fires is marked as no longer reported.
Applied(group, p) ==
  LET merged == [a \in Alert |-> IF a \in Relevant(group, p) THEN p.says[a] ELSE group.alerts[a]]
      silent == {a \in Alert : p.snapshot /\ merged[a] = "firing" /\ p.says[a] = "absent"}
  IN [group EXCEPT !.alerts = merged, !.stale = (@ \ Relevant(group, p)) \cup silent]

\* AllResolved: a silent alert still fires.
AllResolved(group) == Firing(group) = {}

------------------------------------------------------------------------------
(* The incident.                                                           *)

\* What the messages of an escalation show of it.
Picture(group) ==
  [status |-> IF group.status \in {"new", "processing", "triggered"} THEN "open" ELSE group.status,
   alerts |-> group.alerts, stale |-> group.stale]

\* setDesiredStateTx: the picture follows, unless it was the last one.
Shown(group) ==
  IF group.picture = NoPicture \/ group.final THEN group
  ELSE [group EXCEPT !.picture = Picture(group), !.final = group.status = "resolved"]

Moved(group) == [group EXCEPT !.version = @ + 1]

\* cancelIntentsAtTx, for what has not gone out.
CalledOff(group) == [group EXCEPT !.owed = {}]

Resolved(group) == Shown(CalledOff(Moved([group EXCEPT !.status = "resolved"])))

Acknowledged(group) == Shown(CalledOff(Moved([group EXCEPT !.status = "acknowledged"])))

\* The one incident that is open: a partial unique index says there is at most one.
Open == {n \in DOMAIN incidents : incidents[n].status \notin Terminal}

------------------------------------------------------------------------------
(* The webhook.                                                            *)

\* mergeAlertsTx: news moves the version and the messages; a repeat does neither.
Merged(group, p) ==
  LET after == Applied(group, p)
  IN IF after = group THEN group ELSE Shown(Moved(after))

\* ApplyAlertmanagerUpdateAtomic, on the incident that is open.
Updated(group, p) ==
  IF AllResolved(Applied(group, p)) THEN Resolved(Applied(group, p)) ELSE Merged(group, p)

Heard(p) == [a \in Alert |-> IF p.says[a] = "absent" THEN reported[a] ELSE p.says[a]]

Opened(p) ==
  [status |-> "new", alerts |-> [a \in Alert |-> IF p.says[a] = "firing" THEN "firing" ELSE "absent"],
   stale |-> {}, version |-> 0, batch |-> NoBatch, owed |-> {}, picture |-> NoPicture,
   final |-> FALSE]

NothingFires(p) == \A a \in Alert : p.says[a] # "firing"

OnlyRequests == UNCHANGED <<engines, people, policy, duty, erased>>

\* The payload applied to the open incident, and the request answered.
Absorbed(r, p) ==
  /\ incidents' = [n \in DOMAIN incidents |->
                     IF n \in Open THEN Updated(incidents[n], p) ELSE incidents[n]]
  /\ reported' = Heard(p)
  /\ requests' = [requests EXCEPT ![r] = IdleRequest]

\* handleWebhook, up to its first transaction: applied to the open incident;
\* nothing to open one with; or an incident to open.
Receive(r, p) ==
  /\ FirstIdle(requests, r) /\ received < MaxPayloads
  /\ received' = received + 1
  /\ IF Open # {} \/ NothingFires(p) THEN Absorbed(r, p)
     ELSE /\ requests' = [requests EXCEPT ![r] = [pc |-> "creating", payload |-> p]]
          /\ UNCHANGED <<incidents, reported>>
  /\ OnlyRequests /\ UNCHANGED budget

\* CreateAlertGroupAtomic: the partial unique index lets one be open.
Create(r) ==
  /\ requests[r].pc = "creating" /\ Open = {}
  /\ incidents' = Append(incidents, Opened(requests[r].payload))
  /\ reported' = Heard(requests[r].payload)
  /\ requests' = [requests EXCEPT ![r] = IdleRequest]
  /\ OnlyRequests /\ UNCHANGED <<received, budget>>

\* Mutant: the incident somebody else opened is taken for this payload's.
CreateDuplicateTaken(r) ==
  /\ requests[r].pc = "creating" /\ Open # {}
  /\ reported' = Heard(requests[r].payload)
  /\ requests' = [requests EXCEPT ![r] = IdleRequest]
  /\ UNCHANGED incidents /\ OnlyRequests /\ UNCHANGED <<received, budget>>

\* Somebody else opened it meanwhile: the payload belongs to their incident.
CreateDuplicate(r) ==
  /\ requests[r].pc = "creating" /\ Open # {}
  /\ requests' = [requests EXCEPT ![r].pc = "again"]
  /\ UNCHANGED <<incidents, reported>> /\ OnlyRequests /\ UNCHANGED <<received, budget>>

\* Applied to the winner; if that is over already, Alertmanager is asked to come
\* back: nothing of the payload is kept.
ApplyAgain(r) ==
  /\ requests[r].pc = "again"
  /\ IF Open # {} THEN Absorbed(r, requests[r].payload)
     ELSE /\ requests' = [requests EXCEPT ![r] = IdleRequest]
          /\ UNCHANGED <<incidents, reported>>
  /\ OnlyRequests /\ UNCHANGED <<received, budget>>

Upset == budget > 0 /\ budget' = budget - 1

\* The team cannot be read, the database is away, the process dies: 500.
RequestFails(r) ==
  /\ requests[r].pc # "idle" /\ requests' = [requests EXCEPT ![r] = IdleRequest]
  /\ UNCHANGED <<incidents, reported, received>> /\ OnlyRequests /\ Upset

------------------------------------------------------------------------------
(* The engine.                                                             *)

OnlyEngine(e) == UNCHANGED <<reported, requests, people, policy, duty, erased, received>>

\* GetEscalationSources, and buildPlan: who is on duty, the route and the policy, the
\* frozen state, the promises.  (What changes between these reads is no
\* different, at the submission, from what changes after them.)
BuildPlan(e, n) ==
  LET plan == Planned(policy, duty)
  IN /\ FirstIdle(engines, e)
     /\ n \in DOMAIN incidents /\ incidents[n].status = "new"
     /\ engines' = [engines EXCEPT ![e] =
          [pc |-> "built", incident |-> n, version |-> incidents[n].version,
           batch |-> [promised |-> plan.promised, unpromised |-> plan.unpromised,
                      frozen |-> Picture(incidents[n]), policy |-> policy, duty |-> duty]]]
     /\ UNCHANGED incidents /\ OnlyEngine(e) /\ UNCHANGED budget

\* The team, the policy, the schedule or the people could not be read, or the
\* process dies: nothing is admitted.
PlanFails(e) ==
  /\ engines[e].pc # "idle" /\ engines' = [engines EXCEPT ![e] = IdleEngine]
  /\ UNCHANGED incidents /\ OnlyEngine(e) /\ Upset

\* Mutant: whoever was erased since the plan was made is promised all the same.
LockRecipientsOnly(batch) == {}

\* lockRecipients: the promised people who are no longer there.
LockRecipients(batch) == PeopleOf(batch) \cap erased

\* Mutant: the plan is not compared with the version it was made from.
SourceIsCurrentEnough(e, group) == TRUE

SourceIsCurrent(e, group) == engines[e].version = group.version

StillWaiting(group) == group.status \in {"new", "processing"}

\* The fingerprint: the frozen state and the promises, not what was recorded beside.
SameWork(x, y) == x.promised = y.promised /\ x.frozen = y.frozen

\* Admit, and submitEscalation with its answers in order: a plan the grammar refuses
\* is not submitted, and the group comes back with the next tick; what is claimed already, a recipient
\* gone, an incident a person has dealt with, a source that moved; and the claim.
Outcome(e, group) ==
  LET batch == engines[e].batch
  IN CASE ~Admissible(batch) -> "refused"
       [] Admissible(batch) /\ group.batch # NoBatch -> IF SameWork(group.batch, batch) THEN "existing" ELSE "conflict"
       [] Admissible(batch) /\ group.batch = NoBatch /\ LockRecipients(batch) # {} -> "recipient_erased"
       [] /\ Admissible(batch) /\ group.batch = NoBatch /\ LockRecipients(batch) = {}
          /\ ~StillWaiting(group) -> "group_not_admitted"
       [] OTHER -> IF SourceIsCurrent(e, group) THEN "created" ELSE "source_changed"

Admitted(e, group) ==
  LET batch == engines[e].batch
  IN [group EXCEPT !.batch = batch, !.picture = batch.frozen,
                   !.owed = {Key(c) : c \in batch.promised},
                   !.status = IF @ = "new" THEN "processing" ELSE @]

Submit(e) ==
  LET n == engines[e].incident
  IN /\ engines[e].pc = "built"
     /\ incidents' = IF Outcome(e, incidents[n]) = "created"
                     THEN [incidents EXCEPT ![n] = Admitted(e, @)] ELSE incidents
     /\ engines' = [engines EXCEPT ![e] = IdleEngine]
     /\ OnlyEngine(e) /\ UNCHANGED budget

\* The first success: groupEffectsTx.
FirstDelivery(n) ==
  /\ n \in DOMAIN incidents /\ incidents[n].status = "processing"
  /\ \E key \in incidents[n].owed :
       incidents' = [incidents EXCEPT ![n].status = "triggered", ![n].owed = @ \ {key}]
  /\ UNCHANGED <<reported, requests, engines, people, policy, duty, erased, received, budget>>

------------------------------------------------------------------------------
(* People.                                                                 *)

OnlyPeople == UNCHANGED <<requests, engines, policy, duty, erased, received>>

MayAcknowledge(group) == group.status \in {"processing", "triggered"}
MayResolve(group)     == group.status \in {"processing", "triggered", "acknowledged"}

\* Service.Ack and Service.Resolve read the incident before they write.
Press(p, n, button) ==
  /\ people[p].pc = "idle" /\ n \in DOMAIN incidents
  /\ IF button = "ack" THEN MayAcknowledge(incidents[n]) ELSE MayResolve(incidents[n])
  /\ people' = [people EXCEPT ![p] = [pc |-> button, incident |-> n]]
  /\ UNCHANGED <<incidents, reported>> /\ OnlyPeople /\ Upset

\* AckAlertGroupAtomic, single winner.
Ack(p, group) == IF MayAcknowledge(group) THEN Acknowledged(group) ELSE group

\* ResolveAlertGroupAtomic.
Resolve(p, group) == IF MayResolve(group) THEN Resolved(group) ELSE group

CarryOut(p) ==
  LET n == people[p].incident
      after == IF people[p].pc = "ack" THEN Ack(p, incidents[n]) ELSE Resolve(p, incidents[n])
  IN /\ people[p].pc # "idle"
     /\ incidents' = [incidents EXCEPT ![n] = after]
     /\ reported' = IF after.status = "resolved" /\ incidents[n].status # "resolved"
                    THEN [a \in Alert |-> "absent"] ELSE reported
     /\ people' = [people EXCEPT ![p] = IdlePerson]
     /\ OnlyPeople /\ UNCHANGED budget

\* The people a schedule names.
Scheduled(d) == d.users \cup UNION {d.stored[s] : s \in DOMAIN d.stored}

\* A shift ends, or a schedule is saved; erased people are on none.  Bound: once.
Handover(d) ==
  /\ duty = FirstDuty /\ d \in Duty \ {duty} /\ Scheduled(d) \cap erased = {}
  /\ duty' = d
  /\ UNCHANGED <<incidents, reported, requests, engines, people, policy, erased, received, budget>>

\* Erase: refused while the person is on duty; what is owed to them is called off.
Erase(q) ==
  /\ q \in Leaver \ (erased \cup Scheduled(duty))
  /\ erased' = erased \cup {q}
  /\ incidents' = [n \in DOMAIN incidents |->
       [incidents[n] EXCEPT !.owed = {key \in @ : ~(key[3] = "user" /\ key[4] = q)}]]
  /\ UNCHANGED <<reported, requests, engines, people, policy, duty, received>> /\ Upset

------------------------------------------------------------------------------
Init ==
  /\ incidents = <<>>
  /\ reported = [a \in Alert |-> "absent"]
  /\ requests = [r \in Request |-> IdleRequest]
  /\ engines = [e \in Engine |-> IdleEngine]
  /\ people = [p \in Person |-> IdlePerson]
  /\ policy \in Policy
  /\ duty = FirstDuty
  /\ erased = {}
  /\ received = 0
  /\ budget = MaxUpsets

Handle(r) == Create(r) \/ CreateDuplicate(r) \/ ApplyAgain(r)

Tick(e) == (\E n \in DOMAIN incidents : BuildPlan(e, n)) \/ Submit(e)

Next ==
  \/ \E r \in Request : (\E p \in Payload : Receive(r, p)) \/ Handle(r) \/ RequestFails(r)
  \/ \E e \in Engine : Tick(e) \/ PlanFails(e)
  \/ \E n \in DOMAIN incidents : FirstDelivery(n)
  \/ \E p \in Person : CarryOut(p) \/ \E n \in DOMAIN incidents, b \in {"ack", "resolve"} : Press(p, n, b)
  \/ \E d \in Duty : Handover(d)
  \/ \E q \in Leaver : Erase(q)

Spec == Init /\ [][Next]_vars

\* Some engine goes on ticking, every second; whatever else happens is up to others.
FairSpec == Spec /\ WF_vars(\E e \in Engine : Tick(e))

------------------------------------------------------------------------------
(* Safety.                                                                 *)

\* ApplyAlertmanagerUpdateAtomic, and the duplicate key of handleWebhook: an alert
\* Alertmanager last reported firing, and was answered OK for, fires in the open
\* incident - merged, opened or kept silent - until it is reported resolved or a
\* person ends the incident; one reported resolved fires in none.
HeldAsReported ==
  \A a \in Alert :
    /\ reported[a] = "firing" => \E n \in Open : a \in Firing(incidents[n])
    /\ reported[a] = "resolved" => \A n \in Open : a \notin Firing(incidents[n])

\* submitEscalation's SourceVersion, and setDesiredStateTx on every change: what the
\* messages of an admitted escalation show is what the incident holds, whenever it
\* changed relative to the plan.
PictureIsCurrent ==
  \A n \in DOMAIN incidents :
    incidents[n].batch # NoBatch => incidents[n].picture = Picture(incidents[n])

\* cancelIntentsAtTx with the status, lockRecipients, the status check of
\* submitEscalation: nothing waits to go out for an incident a person has taken or
\* that is over, nor to a person who was erased.
NothingOwedInVain ==
  \A n \in DOMAIN incidents :
    /\ incidents[n].owed # {} => incidents[n].status \in {"processing", "triggered"}
    /\ \A key \in incidents[n].owed : ~(key[3] = "user" /\ key[4] \in erased)

\* What an admission left behind is still about the incident as it is.
AdmittedIsCurrent == PictureIsCurrent /\ NothingOwedInVain

\* commitments (plan.go): each step of the policy an incident is escalated by is
\* promised to everyone it names or recorded with a reason, and nobody is promised
\* the same thing twice.
EveryStepIsAnswered ==
  \A n \in DOMAIN incidents : incidents[n].batch # NoBatch =>
    LET batch == incidents[n].batch
        PromisedTo(step, to) ==
          \E c \in batch.promised :
            Key(c) = <<<<"policy", step.index>>, step.provider, to.kind, to.ref>>
        Answered(m) == \E u \in batch.unpromised : u.step = m
    IN /\ Coherent(batch.promised)
       /\ \A m \in DOMAIN batch.policy :
            \/ /\ Recipients(batch.policy[m], batch.duty) # {}
               /\ \A to \in Recipients(batch.policy[m], batch.duty) : PromisedTo(batch.policy[m], to)
            \/ Answered(m)

------------------------------------------------------------------------------
(* Liveness.                                                               *)

\* At most one incident is open, so at most one is new.
New == {n \in DOMAIN incidents : incidents[n].status = "new"}

\* ProcessNewAlertGroups: an incident does not stay new - whatever its policy, whoever
\* is on duty, and however often its alerts moved, a plan was lost or refused.  A policy
\* that names a person who is later erased is the exception: no policy here does.
NewIsTaken == New # {} ~> New = {}

=============================================================================
