# TokayOps in TLA+

TokayOps turns alerts into pages: an incident is planned by an escalation policy, and every channel
card, thread, direct message, call, duty handover and webhook it promises becomes a durable row that
workers deliver. This directory is the formal model of that path, from the webhook Alertmanager sends
to the provider's last word about a call, and of the people it depends on: who is on duty, which
number is theirs, whose account is whose. What an incident pays for is here: a page that is lost, sent
twice without anybody's knowledge, sent after it was called off, sent to somebody who has left, or a
card that keeps showing an incident that is over.

    tlc -workers 2 -config DeliveryCard.cfg MCDelivery      # a run
    tlapm Delivery_proofs.tla                               # the proofs of a module

## 1. Inventory of the system

| Component | State | Operations | Talks to |
|---|---|---|---|
| **Ingestion** `internal/ingester` | none | Alertmanager payloads, whole or truncated | alert group |
| **Alert group** `internal/alertgroup`, `store.go`, `alert_merge.go` | `alert_groups`: status, alerts, timeline, version | create, merge, ack, resolve | raises the picture of its cards and withdraws commitments in its own transaction |
| **Escalation engine** `internal/engine` | none | read a new group, plan it, submit one batch | the schedules, the delivery store |
| **Delivery decisions** `internal/outbound/machine.go`, `intent.go` | none (pure) | `Decide` over its triggers: preparation, finish, recovery, verdict, operator, ... | called by every store transaction below |
| **Delivery store** `internal/store/outbound_*_store.go` | `outbound_intents`, `outbound_attempts` and their observations and events, `outbound_group_snapshots` | admit, expire, claim, begin, finalize, recover, withdraw, stop, raise, decide | PostgreSQL: each operation one transaction that locks the rows it reads |
| **Delivery worker** `worker.go`, `handler.go`, `prepare.go` | slots, each with the lease and the attempt it holds in memory | tick (expire, recover, claim by shares), `serve` (gate, prepare, begin, call, finalize) | the store; the providers |
| **Provider receipts** `receipt.go`, `worker_receipts.go`, `outbound_receipt_store.go` | provider events, effects of attempts, the wait of a call | record, apply, poll, review the wait | Twilio's callbacks; the store |
| **Identities** `internal/outbound/keys` | none (pure) | the codec, keys, claims, fingerprints, payload digests, what an admission refuses | every admission, the worker's calls and answers |
| **Fan-out, replay, retention** `fanout.go`, `outbound_webhook_store.go`, `webhook_delivery_store.go`, `retention.go` | alert outbox, claims, webhook commitments | one event to every subscriber, replay of one, switch a subscriber off, sweep what is over | subscribers |
| **Schedules** `scheduleconfig`, `rotation`, `schedulerender` and their stores | append-only revisions of schedules and overrides | save, delete, override, who is on duty | engine, handover, API |
| **Duty handover** `internal/handoff` | last composition seen, per process | detect a change, submit an announcement | schedules, the delivery store |
| **Erasure** `internal/erasure`, `erasure_store.go` | the marker on a person's row | withdraw, scrub, end duties | every store that names a person |
| **Accounts** `store.go` users, `identity_store.go` | people, roles, links, tokens | create, change role, erase, link, confirm | API, Slack and Telegram handlers, prepare |
| **Phones** `api/phone.go`, `phone_store.go` | numbers, pins, codes, call reservations | set, prove, test, reserve a call, erase | the Twilio channel |
| **Integrations** `integrations`, `integration_*_store.go`, `integration_cache.go`, `outbound_desired_doors.go` | rows; a cache per process | create, edit, delete, test, reload, refresh, verify a sender | ingestion, the buttons of cards, Telegram's webhook, the usergroup sync |
| **Slack directory sync** `internal/slacksync` | one syncer per process: its token, what it sent last | start, restart, sync | schedules, Slack |
| API, rbac, sessions, metrics, config, web console | sessions | - | everything |

What is hard here, and what makes each component correct:

* **Several processes, at-least-once, no provider idempotency to rely on.** A lease is a token and a
  deadline; a slot slower than its lease is not stopped, only refused when it comes back. Correct
  means: one open attempt per row and only its holder closes it; a repeat after doubt goes where the
  first call went; a second message exists only over a recorded doubt or an accepted risk.
* **Three sources of change for one row**: its worker, the alert (raise, withdraw), a person. They
  meet in `sending`, where nobody may simply overwrite. Correct means: a withdrawal reaches what is in
  flight, a raise is never lost, late answers move nothing.
* **Rows that follow rows**: a thread and a closing reply follow a card, a message waits for the cards
  it links to, a failed step stops later ones. Correct means: nothing is posted under a message that
  does not exist, nothing owed is forgotten, nothing waits for ever.
* **A provider's events in any order.** Callbacks are repeated, late, lost, and about a call whose
  attempt is not closed yet. Correct means: whatever order they arrive in, the row settles as the facts
  it has say, and no fact that was acknowledged to the provider is lost.
* **Reads that are used later.** An engine plans from a picture it read; a notifier announces what it
  saw; a request sends a code to a number it read. Correct means: what changed in between is noticed
  under a lock before anything is promised.
* **Effects after a commit.** What follows an edit of an integration - cards, caches, a webhook, a syncer -
  runs in the request, on one instance, in any order with those of another edit. Correct means: whatever
  ran last, the world ends up as the row says.
* **Commands of two people, and the erasure of one of them.** Correct means: nobody who left is
  assigned, owed a page, linked, or the last administrator.
* **Names that are digests.** A commitment, an admission and an answer are recognised by bytes alone. Correct
  means: different things never share them, and a repeat always does.
* **Time zones.** A day whose handover falls into a skipped or repeated hour must still turn the
  rotation once.

PROJECT.json lists every component with what is modelled of it, and every hazard at its line.

## 2. Plan

Order is by what an error would cost. All but the last item are in this version.

1. `DeliveryMachine`, `Delivery`, `MCDelivery` - the decision table and the life of one group's
   commitments.
2. `Promise` and `DeliveryContract` - what a commitment promises, whoever reads its history, with
   `Delivery` as its refinement.
3. `Calls` - the channel whose acceptance only means "queued".
4. `Plan` and `Intake` - from a payload to a batch of promises.
5. `FanOut` - events, subscribers, replay, retention.
6. `Grid`, `Duty`, `Handover` - schedules, rotation, announcements, over one another.
7. `Phone`, `Accounts` - numbers, calls spent, identities, roles, erasure.
   `Integrations` - edits of integrations and everything that follows them on each instance.
   `Keys` - what everything above is recognised by, and `Snapshots` - what its messages are rendered from.
8. `Admission_proofs`, `Delivery_proofs`, `Calls_proofs`, `FanOut_proofs`, `Phone_proofs`, `Duty_proofs`,
   `Accounts_proofs`, `Integrations_proofs`.
9. Next: `Slots` (the shares of a tick, see 4), and the erasure's withdrawal of what a person was promised, which joins `Delivery` and `Phone`.

## 3. Modules

`A -> B` reads "A extends B":

    MCDelivery -> DeliveryContract -> Delivery -> DeliveryMachine,  DeliveryContract -> (INSTANCE) Promise
    MCCalls -> Calls -> DeliveryMachine          MCFanOut -> FanOut -> DeliveryMachine,  MCFanOut -> Snapshots -> Keys
    MCIntake -> Intake -> Plan                   MCDuty -> Handover -> Duty -> Grid
    MCPhone -> Phone                             MCAccounts -> Accounts
    MCIntegrations -> Integrations

A transaction is one step where it takes the row locks it needs before it reads what it decides on, as
most here do. Where the code reads without a lock and uses the answer later, or where two transactions
hold different locks between statements, the parts are steps of their own and the locks are in the guards.

**DeliveryMachine.** `Decide*` return a move: the next status, the set of effects (named as the fields
of `Effects` in machine.go) and the history line. `ErrInvalidTransition` is the move `Invalid`; a store
transaction that gets it writes nothing, so it is a guard of the action. `ForSatellite` is what
`applyTransitionTx` takes away from a satellite's move.

**Delivery.** The life of one admitted group's commitments.

| Code | Action |
|---|---|
| `ExpireDueIntents`, `recoverOne`, `ClaimDueIntents` | `Expire`, `Recover`, `Claim` |
| the satellite gate and `Prepare` | `PrepareReady`, `PrepareRefuses`, `PrepareOrphaned`, `PrepareSkips` |
| `BeginAttempt` | `BeginDenied`, `BeginStale`, `BeginRefused`, `BeginUndeliverable`, `BeginStarted` |
| the provider and `Conclude` (external) | `CallAccepted`, `CallRejected`, `CallFindsNothing`, `CallInDoubt` |
| `FinalizeDeliveryAttempt` | `Finalize`, `FinalizeLate` |
| process death, lost database reply | `Crash`, `CrashAfterEffect` |
| lease, `expires_at`, `next_attempt_at` | `LeaseExpires`, `LeaseOverruns`, `DeadlinePasses`, `BackoffElapses` |
| `AckAlertGroupAtomic`, `ResolveAlertGroupAtomic`, merges, notes | `Acknowledge`, `Resolve`, `StateMoves` |
| identity links | `Relink` |
| `ResolveAmbiguity` | `OperatorDecides` |

There are two ways an attempt ends before its call, and they differ in what follows. `BeginRefused` is
`recordPreparation`, the worker's own word, and its final failure stops a stopping policy's later steps in
the same transaction. `BeginUndeliverable` is `refuseAttempt`: the store finds at `begin` that the payload
is damaged, which comes before whatever the worker had prepared, or, for a call that was ready, that the
state, the binding, its context or the receipt is gone or unreadable. It ends the commitment for good and
stops nothing. What damages a row is not in the code; the action spends a fault.

A row of `outbound_intents` is a record of `intents`; NULL is 0. `Written` is the UPDATE of
`applyTransitionTx`, `Revived` the one of `reviveWithdrawnSatellitesTx` that follows it. `journal` is
`outbound_attempts` with the late observation beside each record. `workers` is what one `serve()`
remembers: which row, under which token, what was prepared, which attempt, what was answered. `made` is
the world: attempts whose call took effect, known to nobody in the system. `snapshot` keeps the revision,
whether it is final, and the last revision at which the card's and the thread's picture moved - all the
code compares of `card_digest` and `thread_digest`. A receipt (the coordinates of a message) is the
number of the attempt that created it, and a satellite's address is its card's receipt, so "posted under
a message that exists" is a fact about numbers.

**Promise, DeliveryContract.** `Promise` is what a reader of a commitment's history may count on, free of
leases, slots, revisions and policies: it is tried one attempt at a time; an effect at the provider
belongs to the attempt that is open or to one the record admits not to know about; an attempt is closed
as a success only over an effect, as a failure only over none, and as a doubt otherwise. `DeliveryContract`
maps the state of `Delivery` to it (`Contract`), and `KeepsThePromise == Contract!Spec` is checked as a
property of the run `group`.

**Calls.** One commitment whose provider only says "queued".

| Code | Action |
|---|---|
| claim, `Prepare` of the Twilio channel (the next integration of the number), `BeginAttempt` | `Claim`, `Prepare*`, `BeginDenied`, `BeginRefused`, `BeginStarted` |
| the create request, its answer | `RequestAccepted`, `RequestRejected`, `RequestInDoubt` |
| `FinalizeDeliveryAttempt`, `recoverOne`, the deadline sweep | `Finalize`, `FinalizeLate`, `Recover`, `Expire` |
| the call itself (external) | `CallEnds` |
| callback route: keep the event, apply it at once, or leave it to the pass | `Callback`, `CallbackKept`, `ApplyKept` |
| `worker_receipts.go`: claim a look, ask, apply, review the wait | `ClaimLook`, `Ask`, `AskFails`, `ReviewWait`, `PollerCrash` |
| ack, a number replaced, a person's decision | `Acknowledge`, `Renumber`, `OperatorDecides` |

`FoldEffect` is the fold of one call's events; `GenerationVerdict` the table of receipt.go;
`Reviewed` the one question every door asks of the same facts (`reviewReceiptTx`); `Discharged` what a
finish becomes when the facts already answer it.

**Plan, Intake.** `Plan` is the pure part: `Planned` is what a policy and the people on duty promise, with
the satellites of a card, the firehose, deduplication (`Repeats`) and the reasons for what is not promised;
`Admissible` is what validate.go and escalation.go let pass. `Intake`:

| Code | Action |
|---|---|
| the webhook handler: merge into what is open | `Receive`; a duplicate created meanwhile: `CreateDuplicate`, `ApplyAgain` |
| `Create` under the unique key | `Create` |
| the engine: read the group, the policy and the duty; plan | `BuildPlan`, `PlanFails` |
| `SubmitEscalation`: recipients locked, version compared, repeats recognised | `Submit` (`Outcome`, `Admitted`, `LockRecipients`, `SourceIsCurrent`) |
| a button: reads the group first, then the command | `Press`, `CarryOut` |
| a first delivery (`markTriggered`) | `FirstDelivery` |

**FanOut.** Events are delivered in order by instance loops that skip what another holds
(`FanOutTakes`, `FanOutCommits`, `FanOutAborts`); the webhook commitments move by `DeliveryMachine`
(`Begin`, `Finish`, `Recover`, `Expire`); an operator switches a subscriber off or deletes it
(`Withdraw`, `WithdrawCommits`, `SwitchOn`) or replays a delivery (`ReplayBegins`, `ReplayLocks`,
`ReplayCommits`); retention chooses and then deletes (`SweepChooses`, `SweepCommits`). `AudienceCanBeRead`,
`Changing`, `Reading`, `Taken` are the row locks between those statements.

**Keys.** Pure operators for internal/outbound/keys. The codec is written byte by byte (`Be32`, `Enc`,
`Marker`); above it a material is the tuple of its fields, which `Admission_proofs` justifies. `EscalationKey`,
`HandoffKey`, `WebhookKey` identify a commitment, `EscalationBatchKey`, `OccurrenceKey`, `WebhookBatchKey` a
producer's claim, `CreateKey` and `MutationKey` a call; `SubmitIntent` is what a proposal's fingerprint is
taken of, `CompletionFingerprint` an answer's, `PayloadDigest` a stored payload's, which `Decodes` reads by
its schema. `EscalationAdmits`, `HandoffAdmits` and `WebhookAdmits` are what each `Admit` lets pass. It has
no state: `MCFanOut` evaluates its assumption, its admissions over short lists and its codec over short
strings of bytes, and the rest is proved.

**Snapshots.** Pure operators for the state a message is rendered from. `FreezeAt` freezes a live group
(`ViewOf`, providers/snapshot.go), `Accepts` is what keys/snapshot.go lets pass and `Canonical` what
`NewRenderSnapshot` makes of it: texts cut at their limits, alerts and history sorted, the history cut to
its end and the rest counted, buttons each once. `SnapshotDigest`, `CardDigest`, `ThreadDigest` and
`SnapshotDigestV1` are the digests, each of its tags. `CheckedSnapshot` is what a later transaction takes
for the state again (`checkedSnapshot`), `AttemptContent` and `ExecutableHere` which state and which payload
an attempt is made from, and `RebuiltInput` what the start of a build makes of a row of version 1. A refusal
is "left_alone" where the transaction rolls back and another build may do the work, and "undeliverable"
where it ends the commitment. A text that is cut is the sequence of its runes; the sort is the one list in
the order, which exists because no id is there twice. `MCFanOut` evaluates it around each limit: alert names
of 199 and 203 runes, descriptions of 120 and 121, histories of 20, 21 and 22 lines, at one instant and at many.

**Grid, Duty, Handover.** `Grid` is rotation/grid.go over a zone with one change of offset: `nextAfter`,
`slotContaining`, `SlotsBetween`, `PositionAt`, translated with their loops bounded by `Reach`. `Duty` is
the schedule: `chain` is the append-only revisions, `heads` the last revision of each override. A command
is `Send` (locks the people it names and its author) and a commit (`SaveCommits`, `DeleteCommits`,
`CreateCommits`, `UpdateCommits`, `CancelCommits`, or `Refused`) under the schedule's lock; `EraseLocks`
and `EraseCommits` are an erasure, `RemoveTeamMember` and `AddTeamMember` the team, `projectOnCall` the
one function everybody asks. `Handover` adds the notifiers of several instances over the same state:
`TickFindsNone` (nothing saved yet, so the schedule stays unseen and its first save is not announced),
`TickSettles`, `TickBuilds`, then `OfferHeld`, `OfferErased`, `OfferCreates`, `OfferLost`, `OfferFails`,
and `Crash`.

**Phone.** A request asks for a call (`Asks`), reserves it in a transaction that takes the person and then
the account (`ReserveBegins`, `ReserveCommits`), issues the code (`IssuePhoneCode`), calls
(`CallCreated`, `CallNotCreated`, `CallUnknown`), gives the capacity back (`ReleasePhoneReservation`) or
`Dies`. Meanwhile `SetPhoneContact`, `DeletePhoneContact`, the pin (`PinAsks`, `PinWrites`),
`ConfirmDNDCheck`, `RightCode`, `WrongCode`, `Erase`, `HangsUp` and the clock.

**Accounts.** Every request is a transaction of several statements; `LocksPerson` and `LocksRows` say what
the next statement of a request locks, in the terms of PostgreSQL: rows that are committed are waited
for, keys being inserted too, rows not committed yet are not seen. `CreateUser`, `SetUserRole`,
`UpdateUser`, `Erase` (after `LockAdminLifecycle`, `LockUser`, `guardLastAdmin`, `SweepLinks`,
`SweepTokens`), `Insert`/`Commit` for a credential, a membership, a code or an automatic link, and
`lockActiveUserTx`, `RightCode`, `WrongCode`, `NoCode`, `Bind` for a code typed or a deep link opened.

**Integrations.** A behaviour is about one type of integration; its row is edited by requests on any
instance, and each request goes on to what follows its commit.

| Code | Action |
|---|---|
| the commands of integration_lifecycle_store.go and integration_store.go | `CreateCommits`, `UpdateCommits`, `DeleteCommits` |
| the test of a Slack integration: read, ask Slack, write back | `TestReads`, `TestCommits`, `TestEnds` |
| the button switch: find the cards, raise them one transaction each, or break | `DoorScans`, `DoorRaises`, `DoorEnds`, `DoorBreaks` |
| a start: compare, raise, load, register, begin syncing | `StartReads`, `StartScans`, then as above, `RegisterOnStartup` |
| `LoadAll`, by a request, a start or the ticker | `ReloadReads`, `ReloadSets`, `ReloadFails`, `RefreshReads`, `RefreshSets` |
| `reconcileTelegramWebhook` | `HookLocks`, `HookCalls` |
| the syncer's manager, and its rounds | `RestartSyncer`, `SyncReads`, `SyncWrites`, `SentExpires`, `DutyTurns` |
| cards and buttons of an incident | `PlanReads`, `Admits`, `Moves`, `Press`, `CardFails`, `Revives` |
| a payload: cache, table, incident | `PayloadArrives`, `PayloadVerified`, `PayloadApplies`, `Resolves` |

`left` is a ghost: what the code's own comments leave undone until the next start or payload, and the cards
of an integration that was created or deleted, for which no door is started. A property
may look away from what is in `left` and from nothing else.

The **MC modules** give the constants. In production every commitment of a group is admitted with policy
`retry`, and cards, threads and messages carry no deadline; `MCDelivery` follows that. A deadline appears
when a person's decision brings one.

## 4. Runs

All bounds are constants. `CHECK_DEADLOCK FALSE` is set where the system really stops: an incident that is
over with every commitment finished, a clock at its bound; `Accounts` never stops and is checked for
deadlock.

| Run | Instance | Shows |
|---|---|---|
| `card` | a card and the reply that closes its thread, two slots, 2 faults, 1 decision, 1 extra raise | `AttemptFence` (sending exactly while one record is open, under the row's token); `DuplicatesAreExplained`; `CaughtUp` (a card at rest shows the last picture, and a message that is due was not forgotten); `SatelliteUnderItsCard`; `JournalIsHistory` |
| `group` | a page that stops the escalation, the card of the next step and its thread, two slots, 1 fault, 1 decision | `StopHolds` (a step's final failure, unless it is the store's own, leaves nothing of a later step underway, also what another slot has in flight; only a person's decision brings one back); `WithdrawalHolds`; `KeepsThePromise` |
| `linked` | a card and the message that waits for it, two slots, 1 relink, 1 fault, fairness | `OneAddressPerGeneration`; `QueueDrains`, `EveryAttemptEnds`, `ResolvedComesToRest` |
| `calls` | one call over two integrations, a worker, a poller, 2 upsets, fairness | `NobodyIsCalledAnew` (nothing is dialled over a call that may be on, and a repeat goes the way of the doubt it repeats); `NewsIsKept` (what Twilio was told "OK" for is never lost); `KnownCallSettles`; `WaitEnds` |
| `intake` | two alerts, two requests, two engines, 3 payloads, 1 upset, fairness | `HeldAsReported` (the incidents hold what Alertmanager last said); `AdmittedIsCurrent`; `EveryStepIsAnswered`; `NewIsTaken` |
| `fanout` | two events, one of them damaged, two instances, two operators, fairness | `NothingMadeForTheGone`; `EventOutlivesItsCommitments`; `RepeatMakesNothingNew`; `PendingIsFannedOut` |
| `phone` | two people, two numbers, two accounts, two requests, 3 calls | `CodesAreAboutTheNumber`; `LimitsHold`; `ErasedIsForgotten` |
| `duty` | three people, two zones that change their clocks, two operators, zero to two notifiers, fairness | `AssignedAreHere`; `ErasedHaveNoWords`; `RotationTurns`; `ServedDutyStands`; `EditKeepsTheShift`; `NoticeSettles` |
| `accounts` | two people, an account, a code, two requests of any kind | `ErasedOwnNothing`; `AnAdministratorRemains`; `NoCircle` |
| `integrations` | seven deployments of two ids, two tokens, two instances, two requests: one or two edits with a crash, a lost call, a turn of duty or a card that fails, fairness | `GroupsFollowTheRow` (buttons and declared silence); `HooksFollowTheRow`; `CacheCatchesUp`; `UsergroupHoldsDuty` |
| `announced`, `replaced` | a card and its reply; a card with two decisions | expected violations, below |

Why the bounds are enough. The shortest wrong behaviours each property is about need a fault to lose a
lease or an answer, a second actor in the meantime, and a second fault or a decision to repeat; every
mutant of PROJECT.json is caught inside the run's own bounds. Every passing run of `Delivery` has two
slots, so that a row can be taken over while its first holder is still at work, and so that one commitment can be in
flight while another ends. What the runs divide between them is the rest. `card` has two faults and an extra
raise, for the duplicates and overtaken pictures that need two accidents. `group` has three commitments of
two steps, and its one fault may be the page's failure: the card is then queued, claimed, in flight or at rest
in the other slot, and the thread waits under it. `linked` has the identity that moves between a doubtful
call and its repeat. One fault more in `group` or `linked` is not enumerated in five minutes; the theorems
below have no such bound. A third slot would repeat the second; the same is said of two requests for a
lock that is asked for in pairs. Slots, people and requests are symmetric in the safety runs. Liveness runs declare no symmetry
and keep few faults, so that what they show is not starved by endless failures: retries have no maximum in
the code, and a provider that always fails is retried for ever. The duty run chooses between deployments in
its initial states - no notifier and three commands, one and two, two and one - because the three together
exceed what can be enumerated. `integrations` does the same: what one deployment adds to a
behaviour - a second edit, or a crash - the others leave out, and every effect after a commit meets both.
In `accounts` one wrong entry uses a code up (`MaxAttempts = 1`, three in
the code): no property is about the count, and the branch that counts is in the model and the proofs.
`phone` scales hours and minutes to ticks that keep their order and sums; its `Prompt` assumes what the
code's own constants are chosen for, that a request takes less than the hold leaves after ringing and
talking. RBAC, sessions and formatting are data nowhere used.

### Disagreements with the documentation

Two runs expect a violation; each quotes the comment that the code does not keep.

* `announced` - *"The resolution is announced under a card that already shows it."* The reply goes once
  the card has ended in any way. A card with a message whose last update is refused for good ends as
  `permanent_failed` with the old picture, and the reply is posted under it.
* `replaced` - *"A new external object may only replace one that was never created or is known to be
  gone."* The guard looks at the kind of the last attempt only. A card that was given a deadline by a
  decision, delivered, raised again and expired before the update was tried has the accepted create as
  its last attempt: `retry_new` makes a second card and the first stays behind.

Others were met while modelling, and have no run of their own:

* intent.go:60 says only an operator's decision leaves a terminal state. A satellite canceled with its
  card returns to the queue inside the card's own finalize, when the card turns out to have been sent.
* integration_lifecycle_store.go:60-62 and 138-139 say that *"off" means "do not send"* and that after a
  deletion *"the deleted integration has no live commitment"*. `withdrawSubscriberTx` (line 203) is three
  statements, each with a snapshot of its own: a commitment that is being sent at the first and queued for
  a repeat at the second is found by neither, and `Prepare` reads the row of the subscriber but not
  `enabled`. `NothingMadeForTheGone` is therefore about what was never tried.
* outbound/commands.go:295 says of a plan that names somebody who was erased: *"The next tick plans the
  group again without them."* That is so for people on duty. plan.go:546 names the person of a policy's
  own user step without asking whether they exist, and `Service.Erase` does not look at policies: the
  admission is refused at every tick and the incident stays new. `NewIsTaken` is checked with policies
  that name nobody who may be erased.
* receipt.go's first row, a call of any generation that took place, settles a commitment at once, also one
  that an operator sent out again (`retry_current`) after it had expired.
* schedule.go:91-96 promises the older queue of a provider its turn "from tick to tick", "because a
  guarantee that evaporates exactly when the pool is tight is not a guarantee". `worker.claim` passes the
  same tick to `shareSlots`, which rotates over the providers by `tick % providers`, and to `splitPhases`,
  which alternates by `tick % 2`. With one free slot a tick and two providers (or any even number) that
  both have fresh work and repeats, a provider's turns all have one parity: one always serves fresh work
  first and its repeats never come up as long as that lasts, the other always the opposite.
* notifier.go:62-66 says of two instances that see one change of shift that *"exactly one of them creates
  the work"*. With an edit of the schedule between their ticks they announce the same shift under the
  composition each saw, and both are admitted; and an instance that missed a shift in between notifies
  only who is new to it. `NoticeSettles` is about every instance coming to rest on what it announced.
* An update of a user by the OIDC handler writes back the e-mail address it read (a lost update);
  `RequestTelegramLink` checks "already linked" before it issues, so a link opened meanwhile can be
  replaced by the next; of two first presses of a Slack button by the same person the second is told it is
  not linked; `IntegrationCache.LoadAll` reads before it locks, so of two loads the older may stay until
  the next.
* integration_lifecycle_store.go:22-24 says that a model *"fetched by the caller a moment earlier and
  written back whole would overwrite whatever somebody else changed in between"*, and the commands take
  patches for that reason. `testSlackIntegration` hands `UpdateIntegration` the whole configuration it
  read before it asked Slack: a token or a button switch changed meanwhile is put back (`TestCommits`),
  and the syncer is not restarted after it.
* *"The current token itself is never removed"* (integration_handlers.go:478). The advisory lock and the
  row are those of one id. A deletion whose effect is still to come finds no row, and removes its token
  though a new integration with the same token has registered it. `HooksFollowTheRow` excepts exactly
  that token (`TakenOff`), until a call puts it right that no other call under way may undo (`Crossed`).
* model/types.go:178-182 calls the declared silence of an incident a snapshot that *"stays"* when the
  integration is changed; `declareSilenceTx` rewrites it. And a payload verified before such an edit and
  stored after it puts the old number back, until the next payload or edit (`left.silence`).
* `Refresh` renews an instance's cache and not its syncer: an instance that did not serve the edit goes on
  with the old token, and one that did keeps it when an older refresh lands between its reload and the
  restart. `UsergroupHoldsDuty` asks for one syncer with a token in force.

## 5. Fairness

Liveness is checked under weak fairness only, and only of what the code itself runs for ever:

* `Delivery!FairSpec`: the clock (leases, deadlines, backoffs run out), the worker's tick for each row
  (expire, recover, claim), and each step of a `serve()` (prepare, begin, call, finalize). The tick runs
  for ever (`Worker.Run`) and its claims rotate over what is due; every step of `serve()` runs under a
  deadline of its own, and a call that exceeds it is answered as doubt. Which answer a call gets is not
  fair: it may always be the bad one, within `MaxFaults`. `Claim` is fair per row, not per slot: it stands
  for "a free slot sooner or later takes this row", which `shareSlots` and `splitPhases` are there for -
  with the exception named under 4.
* `Calls!FairSpec`: the wait runs out, a poll claims its look, and asks and reviews what it claimed.
  Nothing of the worker, nothing of the provider: a call may ring for ever and no callback need come.
* `Intake!FairSpec`: some engine goes on ticking.
* `FanOut!FairSpec`: every loop's and every operator's transaction goes on; the statements have a lock
  timeout. That the damaged event is ever mended is not assumed, so `PendingIsFannedOut` excepts what
  waits behind it.
* `Integrations!FairSpec`: a request or a start that is under way goes on - every call it makes has a
  deadline, which also ends a broken one - the refresh ticks, the syncer ticks, and what it remembers
  having sent runs out in an hour. Nobody need start an instance again.
* `Handover!FairSpec`: a running instance ticks, a submission returns, an erasure's transaction ends.

Nothing is assumed of crashes, of incidents or of people. `QueueDrains` leaves satellites out: a thread
waits for its card's message and a reply for the end of the incident, as long as that takes.

## 6. Proofs

Eight modules hold theorems; all of them are about the modules above as TLC runs them, for every value of
the constants that satisfies their assumptions.

**Delivery_proofs** starts with what the decision table guarantees for every row: an accepted move out of
`sending` releases the lease and the open attempt together (`SettleCloses`, `FinishCloses`,
`RecoverCloses`), a refused preparation of a queued row releases the lease (`RefusalReleases`), a person's
decision never starts a call (`OperatorDoesNotSend`), and a satellite's move differs from its card's only
in what it tells the alert (`SatelliteSameMove`). It proves, for every set of commitments, slots and
addresses, every admissible plan and every bound:

* `TypesHold`: `Spec => []TypeOK`
* `AttemptIsFenced`: `Spec => []AttemptFence`

Neither is inductive alone. `FinalizeLate` and `Finalize` write to the journal at the number a slot
remembers, and nothing in the two properties says that such a record exists. That is `SlotsHold`: a busy
slot names a commitment and a token, a slot that is calling or has an answer remembers an attempt that is
in that commitment's journal, and an answered slot has an answer. That the record found there is open and
the slot's own, `Finalize` checks itself; `FinalizeLate` finds it closed and touches only the observation. The
inductive invariant is

    IInv == TypeOK /\ AttemptFence /\ SlotsHold

and `Invariance` is `Spec => []IInv`, with one lemma per action. The assumptions used are
`PlanAssumption` and `BoundsAssumption` of `Delivery`, which every run evaluates on its constants.

Two properties of the journal build on that invariant:

* `HistoryStands`: `Spec => JournalIsHistory`. A closed record is only ever touched by `FinalizeLate`, and
  nothing in its guard says that the observation it writes is the first: the code looks for an earlier one
  and calls a different second one a contract error (`recordObservationTx`), and the theorem says that
  the second never comes. The strengthening is
  `SlotsApart`: no two slots in flight share an attempt, and an attempt whose slot has not reported carries
  no observation. `BeginStarted` keeps it because the number it takes is past the end of the journal.
* `CallsShareAnAddress`: `Spec => []OneAddressPerGeneration`. The strengthening is `RowsBound` (no record
  is ahead of its row's generation; the calls of the row's own generation went to the address the row
  carries, which is then set) with `ReadyKnowsWhere` (a slot that is ready to call has an address). A new
  call meets a bound row, and takes its address, or an unbound one, whose generation has no call yet; a
  move either keeps the binding or starts the next generation without one.

It goes on with what the commitments of a group owe each other, their alert and the provider:

* `WithdrawalStands`: `Spec => []WithdrawalHolds`
* `EscalationStops`: `Spec => StopHolds`
* `NoUpdateIsLost`: `Spec => []CaughtUp`
* `DuplicatesStandExplained`: `Spec => []DuplicatesAreExplained`
* `SatellitesStayUnderTheirCard`: `Spec => []SatelliteUnderItsCard`

The five share one reduction. `StepKinds` shows that every step of `Next` is one of eight kinds
(`StepKind`): it leaves the journal alone (a claim, a lease, a crash, the provider's side of a call), notes
a late observation, refuses a preparation, opens an attempt, ends one by the lease or by its worker, moves
the alert, or carries out a decision - each stated by what it leaves of a row, its journal, the other rows and
the slots. What follows is proved against these eight and never against the actions again. The kinds need
`RowsStand`: a row in flight is at its journal's last attempt, which creates exactly when there is no message
yet, an accepted create of this generation left a receipt, and one in doubt of an earlier left the risk.

* *Withdrawal and stop* are `NothingNewOwed` and `FailureStops`: a step makes nothing owed that was not,
  unless a person decides it; the withdrawal takes its whole scope in its own transaction; and a message,
  once there, stays. A refusal by the worker and one by the store are one kind of step (`Refusal`), told
  apart by what their record says; `FailureIsKept` is that the record stays the last one of a row that
  failed, so that a failure that stops nothing never turns later into one that should have.
* *No lost update* is `PicturesHold`: a row that is in flight or with a person either still desires the
  revision its picture moved at (`Aim`) or has an attempt under way that shows it. An edit in flight
  when the alert moves is the case an invariant on `applied` alone misses.
* *Duplicates* are `FlightsHold` and `NoSecond`: a slot in flight serves an attempt that is open or that
  recovery put in doubt; what exists at the provider is on record and was not refused; and no create
  follows an accepted one of its generation. So whatever came before a second message was in doubt.
* *Satellites* are `SatellitesHold`: a satellite's slot, row and calls name a message of its card that
  exists, and the last revision does not move once a reply may go.

It ends with the refinement, `DeliveryKeepsItsPromise`: `Spec => KeepsThePromise`. Each kind
of step is, for every commitment, one action of `Promise` or none (`StepIsPromised`): a row beside somebody
else's transition is left, queued again or let go (`BesideIsPromised`); the end of an attempt is `Succeeds`,
`Fails` or `Doubts` (`EndIsPromised`), where `FlightsHold` says which - an accepted answer is about an
attempt that had its effect, a refusal about one that had none; and an effect belongs to the open attempt or to
one in doubt (`EffectIsPromised`), since recovery closes an attempt in flight only as a doubt.

**Calls_proofs** proves, for any integrations, workers, pollers and any number of upsets:

* `NewsOfACallIsKept`: `Spec => []NewsIsKept`
* `NobodyIsCalledTwiceForNothing`: `Spec => []NobodyIsCalledAnew`
* `AKnownCallSettles`: `Spec => KnownCallSettles`

The first holds whatever people decide. Its invariant, `NInv`, says that what was tried, what is known and
what is true go together (`Facts`), that a request in flight is about an attempt of its own that nobody but
recovery has closed (`SlotsOK`), and that every event kept is true (`InboxOK`). The others are about a
commitment nobody has decided about, and rest on `Steady` and `Calm`. `Tried` is the heart of it: every
generation but the last is gone - each of its calls is closed, and is known never to have been on or to be on
no more (`Gone`) - and in the last, whatever may be on was answered in doubt, except the latest. A new generation
starts on a provider's "not placed" or on a refusal without doubt, and `GenerationIsGone` shows that both
mean just that, from the calls of the generation being named or refused. `ReviewKeeps` is the one question
every door asks: after it, a commitment without an open request is calm, or settled.

**FanOut_proofs** proves, for any subscribers, events, requests, loops and operators, whichever events are
damaged and whoever hears them:

* `TheGoneAreLeftAlone`: `Spec => []NothingMadeForTheGone`
* `HistoryCanBeRead`: `Spec => []EventOutlivesItsCommitments`
* `NothingIsMadeTwice`: `Spec => []RepeatMakesNothingNew`

The three lean on what each transaction's locks keep true between its statements, and the invariant says it
of every one of them (`LocksHold`): a fan-out's audience stays switched on and nobody else holds its event
(`Taking`), a withdrawal has taken whatever waits for its subscriber except what is due again after an
attempt (`Withdrawing`), a replay's original is not swept from under it (`Replaying`), and what the sweep chose is
still over (`Sweeping`). `Claimed` carries the claims, which outlive what was made under them:
retention deletes a commitment and never its claim, and `NothingIsMadeTwice` is that fact.

**Phone_proofs** proves, for any people, numbers, accounts and requests and any limits and durations that
`PhoneAssumption` allows:

* `CodesProveTheNumber`: `Spec => []CodesAreAboutTheNumber`
* `CallsAreLimited`: `Spec => []LimitsHold`
* `TheErasedStayForgotten`: `Spec => []ErasedIsForgotten`

What a reservation counts under its locks has to be so when it commits (`LockHolds`), and what it committed
has to be its own until it ends (`PlaceHolds`). Capacity rests on time: a reservation is held longer than
ringing and talking take (`Life < Hold`), and a request that is `Prompt` reaches the provider before
what is left of the hold is gone; so whoever is alive is held (`TalkingIsHeld`), and what is held was
counted. `Limited` states the allowance for every instant as the end of a window, not only for the
instants of calls: that is what a new call preserves, because nobody's call is later than the clock their
lock read. `OneCodeCall` is the heart of the first theorem: of two code calls of a person the first was
over before the second was reserved (`Succeed`), so the code that is replaced is heard by nobody.

**Duty_proofs** proves of the schedule, for any people, configurations, spans, grids and numbers of commands:

* `AssignedPeopleAreHere`: `Spec => []AssignedAreHere`. A command is checked in two halves, so the
  invariant carries what its locks promise in between: `Asked` (a command under way names and is sent by
  people), `CommandsHold` (nobody it holds is being erased), and that a deleted schedule leaves no head
  that stands (`DeletedLeavesNone`). An erasure commits only over a chain that names nobody it takes, and
  whoever it takes is locked against the commands that would name them.
* `WordsGoWithTheirAuthor`: `Spec => []ErasedHaveNoWords`, from the author being among the people a command
  holds.
* `WhatWasServedStands`: `Spec => ServedDutyStands`. Who is on duty is a function of the chain and of the
  overrides that reach the instant (`DutiesAreShown`), and each command leaves both for every instant before
  now: a revision takes effect later, `Ended` cuts an override no earlier than now, a new window does not
  begin in the past, and an update that moves one records the window anew.
* `SlotsCoverTime` and `PositionsAdvanceInTurn`: of `Grid` alone, for any grid. The searches of
  `slotContaining` and `nextAfter` end within `Reach` dates, the slot they find holds the instant, no date hands
  over inside it, and the position grows by one exactly where some date hands over.
* `RotationsTurn`: `Spec => []RotationTurns`
* `EditsKeepTheShift`: `Spec => EditKeepsTheShift`

The grid is where the difficulty is. A handover is the local hour by one of two clocks (`ResolvedIs`), which is
what shows that later dates never hand over earlier (`DatesKeepTheirOrder`): a change of clocks can only make
dates collapse into one instant. So the next boundary is the next distinct instant (`NextIsNext`), the walk of
`SlotsBetween` meets every boundary between its ends once and in order (`WalkRises`, `WalkReaches`), and one
instant later it has one more turn exactly if a boundary came (`TurnsStep`). These speak of the walk, which is a
recursive function. The provers have no induction over an operator, but the well-foundedness of the naturals
gives every set of them a least member (`LeastExists`), hence induction over a set (`Inductive`), hence that the
walk's defining equation has a solution (`WalkExists`), which is all that is known of a recursive function.

The invariant under the last two theorems is `RotationInvariant`: the positions of the revision in force are
counted from a slot that had begun before it (`Planned`), and no revision takes effect further ahead than
the commands sent can have carried it (`Budget`: each edit takes effect after the tail, so a future tail is
pushed on by one), which keeps everything under `Horizon`, where the tables `Starts` and `Reference` end. An
edit is `PlanIs`: with the same groups on the same grid the position is carried; otherwise the survivor is found
by the distance round the old list from who is on duty (`AroundTheCircle`, `SurvivorIs`), and a layer anchored
anew has that group on duty at once (`ReanchoredIs`).

They assume of the grids what `IsGrid` says: the hour is of a day and the weekday of a week, as
`RotationPolicy.Validate` demands; no clock is further than a day from UTC, and none is moved by more than a
day. Of the time zone database that is so: the largest moves are the calendar days that Apia and Kwajalein
skipped, which are a day exactly; the code itself looks for a change of offset only 30 hours to each side of a date. That
the clocks change once is the model's own limit. `ScheduleAssumption` adds that the bounds are numbers and the
lists are lists, `DeploymentsAssumption` that a run begins within its bounds.

**Accounts_proofs** proves, for any number of people, accounts, codes and requests:

* `NothingComesBack`: `Spec => []ErasedOwnNothing`
* `SomebodyAdministers`: `Spec => []AnAdministratorRemains`
* `NobodyWaitsInACircle`: `Spec => []NoCircle`

The first two are facts about reads that are used in later statements, so neither is inductive. The invariant is
`LocksApart` (no two requests hold locks that exclude each other), what each request holds at each of its
statements (`Holds`), and that what it read under those locks is still so (`Reads`): from the guard on,
the person is active and another administrator stands; between the sweeps and the end of an erasure,
every link and code of the person is one the sweep found; whoever is being given something is active.
`AnAdministratorRemains` needs more than itself, because `CreateUser` counts the erased too: `OneOfThem`
says that an administrator stands as soon as anybody was ever created. `AccountsAssumption` is used:
the number of administrators is finite, and `None` is no role and no row.

`NoCircle` is proved by a rank: whoever a request waits for is farther (`WaitsForTheFarther`), so a circle
would have to climb for ever. The kinds of locks alone do not give the rank. An erasure at the codes holds
links and waits for codes; an answered code holds codes and waits for a link. `SweepDoesNotWaitForAnswers`
shows that these two never meet: the code would be of the same person, whom one holds alone and the other
with others. That is what the strengthening `CInv` is for - `Orderly`, that a request holds what its
statements took and no more, a request that answers a code holds that code and no other; and `OneCode`,
that a code is one person's, which rests on the key an insert claims until it commits. The proof is about
the locks the model has: rows, unique keys, the advisory lock.

**Admission_proofs** proves, first, what the grammar tells apart, for any identifiers and without a bound on lengths but
the codec's own 32 bits:

* `FieldsAreReadAsWritten`, `AbsenceIsNotEmptiness`: the codec is prefix-free, so the bytes of a material
  decide its fields; absent, empty and present stay three things.
* `EscalationKeysTellApart`, `HandoffKeysTellApart`, `WebhookKeysTellApart` and the claims' counterparts: equal
  keys mean the same commitment, of the same kind. `ClaimsAreNotCommitments`: a webhook's claim would have
  been its replay's own key but for the literal in it. `ProviderKeysTellApart`: a new generation is a new
  key, a revision applied twice is one.
* `PayloadDigestsTellApart`, `VersionsReadTheirOwn`, `AnswersTellApart`.
* `SameAdmissionSamePromise`: the claim and the fingerprint together decide every part of every commitment an
  escalation admits. `SatellitesFollowTheirCard`: a parent's key names the card of the same admission in
  the satellite's channel and slot.

The digest is taken to be injective; that is the one assumption they rest on that the code cannot keep.

Of the state a message is rendered from, for any runes, zones and identifiers and lists of any length:

* `SnapshotsAreCanonicalOnce`: what is accepted has one canonical form, which is accepted and is its own. What
  it needs is that the sort is a function of the set of its alerts or lines (`SortedLists`,
  `AscendingIsSorted`: a rank that no two share), that cutting a cut text cuts the same, and that the end of
  a sorted list is sorted. `NoLineGoesUncounted`: what the history leaves out is its beginning, and counted.
* `FormsFollowWhatTheyShow`: a card's digest moves exactly with what a card shows, a thread's with what a
  thread shows. `SnapshotDigestsTellApart`: one digest, one snapshot, in each version, and no kind of digest
  is another's.
* `StoredIsReadBack`, `OnlyWhatWentInIsRendered`, `OnlyWhatWasAdmittedIsCarriedOut`: a stored row is read back
  whole, and a row that became anything else while its digest stayed is not rendered, by either version's
  reader.
* `OnlyIdentityFailsAFreeze`: a transition cannot be lost to a time zone or to an alert without a start.
  `IntactRowsAreRebuilt`: the start that rebuilds version 1 stops at no row that is what its digest says.

That the bytes of a list of records decide its fields is taken from `FieldsAreReadAsWritten`, one level up: each
list is written after its count and each member after its length.

Then it proves of the way in, for any alerts, payloads, policies and duties, and any number of requests,
engines and people:

* `ReportsAreHeld`: `Spec => []HeldAsReported`
* `AdmissionsAreCurrent`: `Spec => []AdmittedIsCurrent`
* `StepsAreAnswered`: `Spec => []EveryStepIsAnswered`

The first needs only that one incident is open (`OneOpen`), which the duplicate key keeps: the payload goes
to whichever it is, and a request that finds none left keeps nothing and is not answered OK. The second is about
what an engine read before others wrote, and `PlanKept` is what makes it inductive: a plan in an engine
is of a version its incident has or had, and if it still has it, what the plan froze is what the incident
shows. `Follows` states the other half for every command, one lemma each (`UpdatedRow`, `PressedRow`,
`AdmittedRow`, `DeliveredRow`, `ErasedRow`): no row shows something else under the same version. The third is
a fact about `Plan`, `NoReasonAPromise`, for a plan whatever was read to make it: without a reason recorded
against a step, the step names somebody, repeats nobody and promises each of them a card of its own key.

**Integrations_proofs** proves, for any ids, tokens, instances, requests, payloads and incidents and any
deployment:

* `GroupsGoByTheRow`: `Spec => []GroupsFollowTheRow`
* `HooksGoByTheRow`: `Spec => []HooksFollowTheRow`

Both are about effects that run after the commit they belong to, so the invariant says whose each effect
still is. Of a card whose buttons differ from the switch, failed or not (`Behind`), it is somebody's with a
reason: a door that is still to make its list, one that has the card on its list and owes it, or a start that
owes it and read the switch as it still is (`Covers`); otherwise it is left to the next start. A failed card
must count, because a person may bring it back; and a start that read the old switch does not count, because
whoever moved the switch since has a door behind it or left the cards.

Of the webhook the invariant says that a token is either registered as the table has it, or left, or on
somebody's hands (`Pending`), and of the calls under way (`CallRight`) that they are what the row still asks
for unless whoever changed it since waits for the lock. The lock is what makes that inductive: one caller an
integration (`OneCaller`). The proof found what no run had: with two integrations, one after the other, and four requests, a
call of an old integration's request may follow a call that put the same token right, so that a token which
was excepted before is not settled by the call that puts it right while another about it is under way
(`Crossed`).

**Out of the prover's reach**, and model-checked only: all liveness (it has neither ENABLED nor fairness) -
`QueueDrains`, `EveryAttemptEnds`, `ResolvedComesToRest`, `WaitEnds`, `NewIsTaken`, `PendingIsFannedOut`,
`NoticeSettles`, `CacheCatchesUp`, `UsergroupHoldsDuty`. Every other property of a passing run is the property of a
theorem. What the folds of `Plan` compute is not stated: they are the library's, over an operator, and no
prover instantiates one. The `TypeOK` of the modules other than `Delivery` stand as documentation of their
state; of `Accounts` the proof's `Typed` says the same and more.

## 7. Not modelled

* **Slots** (`shareSlots`, `splitPhases`, `backoffWith`): pure arithmetic without state. What was found by
  reading is under 4.
* **Sessions and permissions, metrics, configuration, the tools beside the server, the web console.**
* Of `Integrations`: encryption, masks and the shapes of configurations; the types that come in several and
  are read for every attempt (webhooks, in `FanOut`; Twilio, in `Calls`); a call to Slack by a canceled
  syncer that Slack takes after the cancellation.
* **Erasure** of what a person was promised: the withdrawal and the scrub of commitments. Its guards, its
  locks and what it takes from the schedule, the team, the phone, the credentials and the identities are
  modelled (`Duty`, `Phone`, `Accounts`, and the recipients of `Intake`).
* **Rendering, provider coordinates, wording, metrics** are data. So are two
  thirds of the implementation by lines: generated documentation (`docs.go`), mocks and fakes, the
  database schema, the handlers that only read, and the DTOs between them.
* Of the delivery itself: the repeats of a finalize with the same fingerprint cannot arise, because
  `serve()` records once and leaves the rest to recovery; contract errors (a caller that lies about its
  attempt) have no caller. The order of row locks inside PostgreSQL is modelled where transactions meet
  people (`Accounts`, `Duty`) and subscribers (`FanOut`), and is below the level of `Delivery`. The
  `reconcile_then_retry` policy is refused at admission by `validate.go` and excluded by
  `PlanAssumption`; `manual_review` and `assume_accepted` exist in the model and the proofs cover them,
  but no instance uses them, as no production path admits them today.
* Of `Duty`: layer l2, which the same functions plan; one change of offset per zone; words are the set of
  their authors, and deletions may leave a future end a microsecond away, which is one instant here.
* Of `Intake`: an alert is its fingerprint and status, and people are the only fingerprints compared.
* Of `Phone`: calls the worker places are not counted against an account, as in the code; the order of the
  locks on a person and an account is one step.
* Of `Accounts`: one provider for codes and one for deep links (Slack, Telegram), each other way round
  being the same code; `grants` stands for tokens and memberships; a foreign key's lock is the shared
  lock on the person.
