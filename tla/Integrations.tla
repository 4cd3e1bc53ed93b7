---------------------------- MODULE Integrations ----------------------------
(* Integrations: rows that administrators edit while several instances of    *)
(* the server go by what they last read of them.                            *)
(*                                                                          *)
(* A command - create, update, delete, or the test of a Slack integration,  *)
(* which records an address - is one transaction over the row.  What has to *)
(* follow it happens afterwards, in the request that made it and on the     *)
(* instance that serves it: the cards drawn with buttons are raised one by  *)
(* one, the instance's cache is reloaded, the Slack syncer is restarted,    *)
(* the Telegram webhook is brought into line.  Requests of two instances do *)
(* those in any order, and an instance may die between any two.  What       *)
(* catches up later is each instance's refresh of its cache and what every  *)
(* start does.                                                              *)
(*                                                                          *)
(* The type of a row never changes, so a behaviour is about one type.       *)
EXTENDS Naturals, FiniteSets

CONSTANTS
  Id,          \* of integrations; numbers, since two with one secret go by the order of ids
  Token,       \* bot tokens, or the secrets an Alertmanager sends with
  Instance,    \* processes of the server
  Request,     \* administrators' requests
  Payload,     \* Alertmanager's requests
  Incident,    \* alert groups
  None,        \* no id, no token, no instance
  Deployment   \* what may be installed, and the bounds of what happens to it

ASSUME IntegrationsAssumption ==
  /\ Id \subseteq Nat /\ None \notin Id \cup Token \cup Instance
  /\ \A d \in Deployment :
       /\ d.type \in {"slack", "telegram", "alertmanager"}
       /\ d.incidents \subseteq Incident
       /\ d.tokens \subseteq Token
       /\ d.usergroup \in BOOLEAN /\ d.refreshes \in BOOLEAN
       /\ {d.commands, d.crashes, d.faults, d.turns, d.moves} \subseteq Nat

VARIABLES
  deployment,  \* the one of this behaviour
  rows,        \* the integrations table, deleted ids included (their tombstones)
  groups,      \* alert groups: the buttons their picture has, their card, what is declared
  instances,   \* what a process remembers: cache, refresh under way, syncer
  actors,      \* requests, and the starts of instances: where each is
  payloads,    \* what Alertmanager sent, between verification and storage
  hooks,       \* at Telegram: the tokens whose updates come here
  slack,       \* at Slack: the members of the usergroup; and who is on duty
  left,        \* what the code admits to leave undone, until something repairs it
  budget       \* commands, crashes, faults and turns of duty that are left

vars == <<deployment, rows, groups, instances, actors, payloads, hooks, slack, left, budget>>

type == deployment.type
Here == {i \in Id : rows[i].state = "here"}
Enabled == {i \in Here : rows[i].on}
Actor == Request \cup Instance

\* An instance answers requests once its start has loaded the cache.
Serving(i) == actors[i].pc \in {"idle", "hook", "calling"}

------------------------------------------------------------------------------
(* What is read of the table.                                               *)

\* The button switch as the table stands: what a revision freezes and what a
\* press is judged by.
ButtonsOn == type # "alertmanager" /\ \E i \in Enabled : rows[i].buttons

\* What a load finds.  Of two integrations with one secret the first by id counts.
Found ==
  LET entry(i) == [id |-> i, token |-> rows[i].token, buttons |-> rows[i].buttons]
  IN {entry(i) : i \in {j \in Enabled :
        type = "alertmanager" => \A k \in Enabled : rows[k].token = rows[j].token => j <= k}}

\* The token the Slack syncer works with.
SlackToken(cache) == IF cache = {} THEN None ELSE (CHOOSE e \in cache : TRUE).token

\* What a row says about silence; a disabled or deleted integration declares nothing.
Declared(row) == IF row.state = "here" /\ row.on THEN row.silence ELSE 0

ButtonsMoved(before, after) ==
  /\ type # "alertmanager"
  /\ before.on # after.on \/ before.buttons # after.buttons

------------------------------------------------------------------------------
\* Where there is no card to show them, buttons are not told apart.
Config ==
  [state : {"here"}, on : BOOLEAN, token : deployment.tokens,
   buttons : IF type = "alertmanager" \/ deployment.incidents = {} THEN {FALSE} ELSE BOOLEAN,
   silence : IF type = "alertmanager" THEN {0, 1} ELSE {0}]

Absent(state) == [state |-> state, on |-> FALSE, token |-> None, buttons |-> FALSE, silence |-> 0]

Idle ==
  [pc |-> "idle", at |-> None, op |-> "none", id |-> None, tokens |-> {}, keep |-> None,
   todo |-> {}, owes |-> {}, saw |-> Absent("unused"), read |-> {}]

NoPayload == [pc |-> "idle", at |-> None, token |-> None, id |-> None, silence |-> 0]

NoSyncer == [token |-> None, sent |-> 0, doing |-> 0]

Init ==
  /\ deployment \in Deployment
  /\ \E first \in Id, config \in Config :
       /\ config.on /\ (type # "alertmanager" => first = CHOOSE i \in Id : TRUE)
       /\ rows = [i \in Id |-> IF i = first THEN config ELSE Absent("unused")]
  /\ groups = [g \in Incident |->
       [open |-> type # "alertmanager", card |-> "none", drawn |-> FALSE, final |-> FALSE,
        plan |-> "none", silence |-> 0, intake |-> None]]
  /\ instances = [i \in Instance |->
       [cache |-> Found, reading |-> FALSE, read |-> {},
        syncer |-> IF type = "slack"
                   THEN [token |-> SlackToken(Found), sent |-> 0, doing |-> 0] ELSE NoSyncer]]
  /\ actors = [a \in Actor |-> Idle]
  /\ payloads = [p \in Payload |-> NoPayload]
  /\ hooks = IF type = "telegram" THEN {rows[i].token : i \in Enabled} ELSE {}
  /\ slack = [duty |-> 1, members |-> 1]
  /\ left = [cards |-> {}, tokens |-> {}, silence |-> {}]
  /\ budget = [commands |-> deployment.commands, crashes |-> deployment.crashes,
               faults |-> deployment.faults, turns |-> deployment.turns,
               moves |-> deployment.moves]

Spend(what) ==
  /\ budget[what] > 0
  /\ budget' = [budget EXCEPT ![what] = @ - 1]

------------------------------------------------------------------------------
(* The commands.                                                            *)

\* Create and delete move the switch without raising anything: the cards are
\* owed to the next start.
LeftByMove(moved) == [left EXCEPT !.cards = IF moved THEN @ \cup deployment.incidents ELSE @]

\* The open incidents the integration feeds are brought to what it now declares.
DeclareSilence(id, seconds) ==
  /\ groups' = [g \in Incident |->
       IF groups[g].intake = id /\ groups[g].open
       THEN [groups[g] EXCEPT !.silence = seconds] ELSE groups[g]]

\* Of the outbound types there is one row at most.
CreateCommits(r, i, id, config) ==
  /\ actors[r].pc = "idle" /\ Serving(i) /\ Spend("commands")
  /\ rows[id].state = "unused"
  /\ type = "alertmanager" \/ Here = {}
  /\ rows' = [rows EXCEPT ![id] = config]
  /\ actors' = [actors EXCEPT ![r] =
       [Idle EXCEPT !.pc = "reload", !.at = i, !.op = "create", !.id = id]]
  /\ left' = LeftByMove(config.on /\ config.buttons)
  /\ UNCHANGED <<deployment, groups, instances, payloads, hooks, slack>>

\* One transaction of an edit: the row, and the incidents it feeds.
Edits(r, i, op, id, after) ==
  /\ rows' = [rows EXCEPT ![id] = after]
  /\ DeclareSilence(id, Declared(after))
  /\ left' = [left EXCEPT !.silence = @ \ {g \in Incident : groups[g].intake = id}]
  /\ actors' = [actors EXCEPT ![r] =
       [Idle EXCEPT !.pc = IF ButtonsMoved(rows[id], after) THEN "scan" ELSE "reload",
                    !.at = i, !.op = op, !.id = id,
                    !.tokens = {rows[id].token, after.token}]]
  /\ UNCHANGED <<deployment, instances, payloads, hooks, slack>>

\* The patch is applied to the row as it is under the lock, so an edit may
\* leave any part of it as it stands.
UpdateCommits(r, i, id, after) ==
  /\ actors[r].pc = "idle" /\ Serving(i) /\ Spend("commands")
  /\ id \in Here
  /\ Edits(r, i, "update", id, after)

DeleteCommits(r, i, id) ==
  /\ actors[r].pc = "idle" /\ Serving(i) /\ Spend("commands")
  /\ id \in Here
  /\ rows' = [rows EXCEPT ![id] = Absent("gone")]
  /\ DeclareSilence(id, 0)
  /\ actors' = [actors EXCEPT ![r] =
       [Idle EXCEPT !.pc = "reload", !.at = i, !.op = "delete", !.id = id,
                    !.tokens = {rows[id].token}]]
  /\ left' = [LeftByMove(rows[id].on /\ rows[id].buttons) EXCEPT
                !.silence = @ \ {g \in Incident : groups[g].intake = id}]
  /\ UNCHANGED <<deployment, instances, payloads, hooks, slack>>

\* The test of a Slack integration reads the row, asks Slack which workspace
\* the token belongs to, and writes the configuration it read back with that
\* address - over whatever was committed meanwhile.
TestReads(r, i, id) ==
  /\ type = "slack"
  /\ actors[r].pc = "idle" /\ Serving(i) /\ Spend("commands")
  /\ id \in Enabled
  /\ actors' = [actors EXCEPT ![r] =
       [Idle EXCEPT !.pc = "test", !.at = i, !.op = "test", !.id = id, !.saw = rows[id]]]
  /\ UNCHANGED <<deployment, rows, groups, instances, payloads, hooks, slack, left>>

TestCommits(r) ==
  LET a == actors[r]
  IN /\ a.pc = "test" /\ a.id \in Here
     /\ Edits(r, a.at, "test", a.id,
              [rows[a.id] EXCEPT !.token = a.saw.token, !.buttons = a.saw.buttons])
     /\ UNCHANGED budget

\* The address is what it was, or the integration is gone.
TestEnds(r) ==
  /\ actors[r].pc = "test"
  /\ actors' = [actors EXCEPT ![r] = Idle]
  /\ UNCHANGED <<deployment, rows, groups, instances, payloads, hooks, slack, left, budget>>

------------------------------------------------------------------------------
(* The cards: the door of an edit that moved the switch, and of every start. *)
ReachableLive == {g \in Incident : groups[g].card = "live"}

Reachable == {g \in Incident : groups[g].card \in {"live", "stuck"}}

\* setDesiredStateTx: the picture is drawn anew from the table.
Redrawn(g) ==
  IF groups[g].card = "none" \/ groups[g].final THEN groups[g]
  ELSE [groups[g] EXCEPT !.drawn = ButtonsOn]

DoorScans(r) ==
  /\ r \in Request /\ actors[r].pc = "scan"
  /\ actors' = [actors EXCEPT ![r].pc = "raise", ![r].todo = Reachable, ![r].owes = Reachable]
  /\ UNCHANGED <<deployment, rows, groups, instances, payloads, hooks, slack, left, budget>>

\* One transaction a group, under the group's lock.
DoorRaises(a, g) ==
  /\ actors[a].pc = "raise" /\ g \in actors[a].todo
  /\ groups' = [groups EXCEPT ![g] = Redrawn(g)]
  /\ actors' = [actors EXCEPT ![a].todo = @ \ {g},
                              ![a].owes = @ \ {g}]
  /\ left' = [left EXCEPT !.cards = @ \ {g}]
  /\ UNCHANGED <<deployment, rows, instances, payloads, hooks, slack, budget>>

DoorEnds(a) ==
  /\ actors[a].pc = "raise" /\ actors[a].todo = {}
  /\ actors' = [actors EXCEPT ![a].pc = "reload", ![a].owes = {}]
  /\ UNCHANGED <<deployment, rows, groups, instances, payloads, hooks, slack, left, budget>>

\* An error ends the door; the request, or the start, goes on without it.
DoorBreaks(a) ==
  /\ actors[a].pc = "raise" /\ Spend("faults")
  /\ actors' = [actors EXCEPT ![a].pc = "reload", ![a].todo = {}, ![a].owes = {}]
  /\ left' = [left EXCEPT !.cards = @ \cup actors[a].owes]
  /\ UNCHANGED <<deployment, rows, groups, instances, payloads, hooks, slack>>

\* A start reads the switch, and then which pictures differ from it.  From the
\* first read on it is the start that owes what was left undone before.
StartReads(i) ==
  /\ actors[i].pc = "down"
  /\ actors' = [actors EXCEPT ![i] =
       [Idle EXCEPT !.pc = "starting", !.at = i, !.op = "start", !.owes = left.cards,
                    !.saw = [Absent("unused") EXCEPT !.buttons = ButtonsOn]]]
  /\ left' = [left EXCEPT !.cards = {}]
  /\ UNCHANGED <<deployment, rows, groups, instances, payloads, hooks, slack, budget>>

StartScans(i) ==
  /\ actors[i].pc = "starting"
  /\ actors' = [actors EXCEPT ![i].pc = "raise",
       ![i].todo = {g \in Reachable : ~groups[g].final /\ groups[g].drawn # actors[i].saw.buttons}]
  /\ UNCHANGED <<deployment, rows, groups, instances, payloads, hooks, slack, left, budget>>

------------------------------------------------------------------------------
(* The cache: read the table, then take the lock and replace everything.    *)

ReloadReads(a) ==
  /\ actors[a].pc = "reload"
  /\ actors' = [actors EXCEPT ![a].pc = "loaded", ![a].read = Found]
  /\ UNCHANGED <<deployment, rows, groups, instances, payloads, hooks, slack, left, budget>>

\* What follows the reload: the syncer, the webhook, or the answer.  The test
\* reloads the cache and nothing else.
After(op) ==
  IF op = "test" THEN "idle"
  ELSE CASE type = "slack" -> "syncer" [] type = "telegram" -> "hook" [] OTHER -> "idle"

Proceed(a, pc) == IF pc = "idle" THEN Idle ELSE [actors[a] EXCEPT !.pc = pc, !.read = {}]
ReloadSets(a) ==
  /\ actors[a].pc = "loaded"
  /\ instances' = [instances EXCEPT ![actors[a].at].cache = actors[a].read]
  /\ actors' = [actors EXCEPT ![a] = Proceed(a, After(actors[a].op))]
  /\ UNCHANGED <<deployment, rows, groups, payloads, hooks, slack, left, budget>>

\* A request goes on with the cache it had; a start without one does not.
ReloadFails(a) ==
  /\ a \in Request /\ actors[a].pc = "reload" /\ Spend("faults")
  /\ actors' = [actors EXCEPT ![a] = Proceed(a, After(actors[a].op))]
  /\ UNCHANGED <<deployment, rows, groups, instances, payloads, hooks, slack, left>>

RefreshReads(i) ==
  /\ deployment.refreshes /\ Serving(i) /\ ~instances[i].reading
  /\ instances' = [instances EXCEPT ![i].reading = TRUE, ![i].read = Found]
  /\ UNCHANGED <<deployment, rows, groups, actors, payloads, hooks, slack, left, budget>>
RefreshSetsFound(i) ==
  /\ Serving(i) /\ instances[i].reading
  /\ instances' = [instances EXCEPT
       ![i].cache = IF instances[i].read = {} THEN @ ELSE instances[i].read,
       ![i].reading = FALSE, ![i].read = {}]
  /\ UNCHANGED <<deployment, rows, groups, actors, payloads, hooks, slack, left, budget>>

RefreshSets(i) ==
  /\ Serving(i) /\ instances[i].reading
  /\ instances' = [instances EXCEPT ![i].cache = instances[i].read,
                                    ![i].reading = FALSE, ![i].read = {}]
  /\ UNCHANGED <<deployment, rows, groups, actors, payloads, hooks, slack, left, budget>>

------------------------------------------------------------------------------
(* The Telegram webhook: under a lock on the integration, read the row and   *)
(* make the calls its present state asks for.                               *)
HookLocksNothing(a) ==
  LET row == rows[actors[a].id]
  IN /\ actors[a].pc = "hook" /\ actors[a].id # None
     /\ actors' = [actors EXCEPT ![a].pc = "calling",
                                 ![a].keep = IF row.on THEN row.token ELSE None]
     /\ UNCHANGED <<deployment, rows, groups, instances, payloads, hooks, slack, left, budget>>

HookLocks(a) ==
  LET row == rows[actors[a].id]
  IN /\ actors[a].pc = "hook" /\ actors[a].id # None
     /\ \A b \in Actor \ {a} : ~(actors[b].pc = "calling" /\ actors[b].id = actors[a].id)
     /\ actors' = [actors EXCEPT ![a].pc = "calling",
                                 ![a].keep = IF row.on THEN row.token ELSE None]
     /\ UNCHANGED <<deployment, rows, groups, instances, payloads, hooks, slack, left, budget>>

\* A start registers the enabled integration, if there is one.
RegisterOnStartup(i) ==
  /\ i \in Instance /\ actors[i].pc = "hook" /\ actors[i].id = None
  /\ IF Enabled = {} THEN actors' = [actors EXCEPT ![i] = Idle]
     ELSE actors' = [actors EXCEPT ![i].id = CHOOSE id \in Enabled : TRUE]
  /\ UNCHANGED <<deployment, rows, groups, instances, payloads, hooks, slack, left, budget>>

Current(t) == \E i \in Enabled : rows[i].token = t

\* The token of an integration that another request took off: the lock is by
\* integration, so the effect of a deleted one may undo that of its successor.
TakenOff(a, gone) == {t \in gone : \E i \in Enabled \ {actors[a].id} : rows[i].token = t}

\* What another call under way is about may be undone by it.
Crossed(a, t) ==
  \E b \in Actor \ {a} : actors[b].pc = "calling" /\ t \in actors[b].tokens \cup {actors[b].keep}

\* A failed call is logged and nothing more.
HookCalls(a, failed) ==
  LET gone == actors[a].tokens \ {actors[a].keep}
      set  == {actors[a].keep} \ {None}
  IN /\ actors[a].pc = "calling"
     /\ failed \subseteq gone \cup set
     /\ IF failed = {} THEN UNCHANGED budget ELSE Spend("faults")
     /\ hooks' = (hooks \ (gone \ failed)) \cup (set \ failed)
     /\ left' = [left EXCEPT !.tokens =
                   (@ \ {t \in gone \cup set : (t \in hooks') = Current(t) /\ ~Crossed(a, t)})
                   \cup failed \cup TakenOff(a, gone)]
     /\ actors' = [actors EXCEPT ![a] = Idle]
     /\ UNCHANGED <<deployment, rows, groups, instances, payloads, slack>>

------------------------------------------------------------------------------
(* The Slack usergroup: one syncer an instance, with the token it was given. *)

\* Start of the manager: nothing if this token is at work; otherwise the old
\* syncer is canceled, with what it remembers, and a new one begins.
Started(syncer, token) == IF token = syncer.token THEN syncer ELSE [NoSyncer EXCEPT !.token = token]

RestartSyncer(a) ==
  LET i == actors[a].at
  IN /\ actors[a].pc = "syncer"
     /\ instances' = [instances EXCEPT
          ![i].syncer = Started(@, SlackToken(instances[i].cache))]
     /\ actors' = [actors EXCEPT ![a] = Idle]
     /\ UNCHANGED <<deployment, rows, groups, payloads, hooks, slack, left, budget>>

SyncReads(i) ==
  /\ deployment.usergroup /\ Serving(i)
  /\ instances[i].syncer.token # None /\ instances[i].syncer.doing = 0
  /\ instances' = [instances EXCEPT ![i].syncer.doing = slack.duty]
  /\ UNCHANGED <<deployment, rows, groups, actors, payloads, hooks, slack, left, budget>>

\* Slack takes the members from a token that is in force; one that was
\* replaced may have been revoked.
SyncWrites(i, accepted) ==
  LET s == instances[i].syncer
  IN /\ s.doing # 0
     /\ (\E e \in Found : e.token = s.token) => accepted
     /\ IF s.sent = s.doing \/ ~accepted
        THEN /\ instances' = [instances EXCEPT ![i].syncer.doing = 0]
             /\ UNCHANGED slack
        ELSE /\ instances' = [instances EXCEPT ![i].syncer.sent = s.doing, ![i].syncer.doing = 0]
             /\ slack' = [slack EXCEPT !.members = s.doing]
     /\ UNCHANGED <<deployment, rows, groups, actors, payloads, hooks, left, budget>>

SentStays(i) ==
  /\ instances[i].syncer.sent \notin {0, slack.duty}
  /\ instances' = [instances EXCEPT ![i].syncer.sent = 0]
  /\ UNCHANGED <<deployment, rows, groups, actors, payloads, hooks, slack, left, budget>>

\* An hour after it was sent, what was sent no longer counts.
SentExpires(i) ==
  /\ instances[i].syncer.sent # 0
  /\ instances' = [instances EXCEPT ![i].syncer.sent = 0]
  /\ UNCHANGED <<deployment, rows, groups, actors, payloads, hooks, slack, left, budget>>

DutyTurns ==
  /\ deployment.usergroup /\ Spend("turns")
  /\ slack' = [slack EXCEPT !.duty = 3 - @]
  /\ UNCHANGED <<deployment, rows, groups, instances, actors, payloads, hooks, left>>

------------------------------------------------------------------------------
(* The incidents whose cards carry the buttons.                             *)

\* The engine reads what revision 0 will show before it admits anything.
PlanReads(g) ==
  /\ g \in deployment.incidents /\ type # "alertmanager"
  /\ groups[g].open /\ groups[g].card = "none" /\ groups[g].plan = "none"
  /\ groups' = [groups EXCEPT ![g].plan = IF ButtonsOn THEN "on" ELSE "off"]
  /\ UNCHANGED <<deployment, rows, instances, actors, payloads, hooks, slack, left, budget>>

\* The admission compares the version of the incident, which a switch does not
\* move: a plan of before goes through, and its cards are left to the next start.
Admits(g) ==
  LET drawn == groups[g].plan = "on"
  IN /\ groups[g].plan # "none" /\ groups[g].open
     /\ groups' = [groups EXCEPT ![g].plan = "none", ![g].card = "live", ![g].drawn = drawn]
     /\ left' = [left EXCEPT !.cards = IF drawn # ButtonsOn THEN @ \cup {g} ELSE @ \ {g}]
     /\ UNCHANGED <<deployment, rows, instances, actors, payloads, hooks, slack, budget>>

Raises(g) ==
  /\ groups[g].open /\ groups[g].card # "none" /\ Spend("moves")
  /\ \E over \in BOOLEAN :
       groups' = [groups EXCEPT ![g] = [Redrawn(g) EXCEPT !.open = ~over, !.final = over]]
  /\ left' = [left EXCEPT !.cards = @ \ {g}]
  /\ UNCHANGED <<deployment, rows, instances, actors, payloads, hooks, slack>>

\* A merge, a note, an acknowledgement, a resolution: the picture is drawn
\* anew with it.
Moves(g) == Raises(g)

\* A button pressed: signed with what this instance's cache holds, judged by
\* the switch as the table has it.
Press(i, g) ==
  /\ Serving(i) /\ instances[i].cache # {} /\ ButtonsOn
  /\ Raises(g)

CardFails(g) ==
  /\ groups[g].card = "live" /\ Spend("moves")
  /\ groups' = [groups EXCEPT ![g].card = "stuck"]
  /\ UNCHANGED <<deployment, rows, instances, actors, payloads, hooks, slack, left>>

\* A person brings a card back; it is aimed at the picture as it is.
Revives(g) ==
  /\ groups[g].card = "stuck" /\ Spend("moves")
  /\ groups' = [groups EXCEPT ![g].card = "live"]
  /\ UNCHANGED <<deployment, rows, instances, actors, payloads, hooks, slack, left>>

------------------------------------------------------------------------------
(* What Alertmanager sends.                                                 *)

\* The cache says whose secret it is.
PayloadArrives(p, i, token) ==
  /\ type = "alertmanager" /\ payloads[p].pc = "idle" /\ Serving(i) /\ Spend("moves")
  /\ \E e \in instances[i].cache :
       /\ e.token = token
       /\ payloads' = [payloads EXCEPT ![p] =
            [NoPayload EXCEPT !.pc = "known", !.at = i, !.token = token, !.id = e.id]]
  /\ UNCHANGED <<deployment, rows, groups, instances, actors, hooks, slack, left>>

\* The table says whether it may still be used, and what is declared.
PayloadVerified(p) ==
  LET row == rows[payloads[p].id]
  IN /\ payloads[p].pc = "known"
     /\ payloads' = [payloads EXCEPT ![p] =
          IF row.on /\ row.token = payloads[p].token
          THEN [@ EXCEPT !.pc = "taken", !.silence = row.silence] ELSE NoPayload]
     /\ UNCHANGED <<deployment, rows, groups, instances, actors, hooks, slack, left, budget>>

\* Merged into the open incident, or opening one, with what was declared when
\* it was verified.  An edit since then is undone for this incident until the
\* next payload or the next edit.
PayloadApplies(p, g) ==
  LET q == payloads[p]
  IN /\ q.pc = "taken" /\ g \in deployment.incidents
     /\ groups' = [groups EXCEPT ![g].open = TRUE, ![g].intake = q.id, ![g].silence = q.silence]
     /\ left' = [left EXCEPT !.silence =
                   IF q.silence # Declared(rows[q.id]) THEN @ \cup {g} ELSE @ \ {g}]
     /\ payloads' = [payloads EXCEPT ![p] = NoPayload]
     /\ UNCHANGED <<deployment, rows, instances, actors, hooks, slack, budget>>

Resolves(g) ==
  /\ groups[g].open /\ groups[g].intake # None
  /\ groups' = [groups EXCEPT ![g].open = FALSE]
  /\ UNCHANGED <<deployment, rows, instances, actors, payloads, hooks, slack, left, budget>>

------------------------------------------------------------------------------
\* An instance dies with the requests it serves, and owes what they owed.
Crash(i) ==
  LET dead == {a \in Actor : actors[a].pc # "idle" /\ actors[a].at = i} \ {i}
      owed(a) == IF actors[a].pc = "scan" THEN deployment.incidents ELSE actors[a].owes
      mine == IF type = "telegram" THEN dead \cup {i} ELSE {}
  IN /\ actors[i].pc # "down" /\ Spend("crashes")
     /\ actors' = [a \in Actor |->
          IF a = i THEN [Idle EXCEPT !.pc = "down"] ELSE IF a \in dead THEN Idle ELSE actors[a]]
     /\ instances' = [instances EXCEPT ![i] =
          [cache |-> {}, reading |-> FALSE, read |-> {}, syncer |-> NoSyncer]]
     /\ payloads' = [p \in Payload |-> IF payloads[p].at = i THEN NoPayload ELSE payloads[p]]
     /\ left' = [left EXCEPT
          !.cards = @ \cup UNION {owed(a) : a \in dead \cup {i}},
          !.tokens = @ \cup UNION {actors[a].tokens \cup {rows[actors[a].id].token} :
                                   a \in {b \in mine : actors[b].id # None}}]
     /\ UNCHANGED <<deployment, rows, groups, hooks, slack>>

------------------------------------------------------------------------------
Proceeds(a) ==
  \/ TestCommits(a) \/ TestEnds(a)
  \/ DoorScans(a) \/ DoorEnds(a) \/ DoorBreaks(a)
  \/ \E g \in Incident : DoorRaises(a, g)
  \/ ReloadReads(a) \/ ReloadSets(a) \/ ReloadFails(a)
  \/ RestartSyncer(a)
  \/ RegisterOnStartup(a) \/ HookLocks(a)
  \/ \E failed \in SUBSET Token : HookCalls(a, failed)

Commands(r, i) ==
  \/ \E id \in Id, config \in Config : CreateCommits(r, i, id, config)
  \/ \E id \in Id, after \in Config : UpdateCommits(r, i, id, after)
  \/ \E id \in Id : DeleteCommits(r, i, id) \/ TestReads(r, i, id)

Runs(i) == RefreshReads(i) \/ RefreshSets(i)

Syncs(i) == SyncReads(i) \/ (\E accepted \in BOOLEAN : SyncWrites(i, accepted))

IncidentMoves(g) ==
  \/ PlanReads(g) \/ Admits(g) \/ Moves(g) \/ CardFails(g) \/ Revives(g) \/ Resolves(g)
  \/ \E i \in Instance : Press(i, g)

PayloadMoves(p) ==
  \/ \E i \in Instance, token \in Token : PayloadArrives(p, i, token)
  \/ PayloadVerified(p)
  \/ \E g \in Incident : PayloadApplies(p, g)

Next ==
  \/ \E r \in Request, i \in Instance : Commands(r, i)
  \/ \E a \in Actor : Proceeds(a)
  \/ \E i \in Instance :
       StartReads(i) \/ StartScans(i) \/ Runs(i) \/ Syncs(i) \/ SentExpires(i) \/ Crash(i)
  \/ \E g \in Incident : IncidentMoves(g)
  \/ \E p \in Payload : PayloadMoves(p)
  \/ DutyTurns

Spec == Init /\ [][Next]_vars

\* Every loop ticks and every step of a request has a deadline.  Nobody need
\* start an instance again.
FairSpec ==
  /\ Spec
  /\ \A a \in Actor : WF_vars(Proceeds(a))
  /\ \A i \in Instance :
       WF_vars(StartScans(i)) /\ WF_vars(Runs(i)) /\ WF_vars(Syncs(i)) /\ WF_vars(SentExpires(i))

------------------------------------------------------------------------------
(* Properties.                                                              *)

\* What is stored of actors and instances (no property of the code by itself).
TypeOK ==
  /\ \A i \in Id : rows[i] \in Config \/ rows[i] \in {Absent("unused"), Absent("gone")}
  /\ \A a \in Actor : actors[a].todo \cup actors[a].owes \subseteq deployment.incidents
  /\ \A i \in Instance : instances[i].syncer.token # None => type = "slack"
  /\ hooks \cup left.tokens \subseteq Token \cup {None}

\* A card that can still be seen to change shows the buttons the switch asks
\* for, unless somebody is about to redraw it or the code admits that nobody
\* is before the next start: a door that broke, an admission planned before the
\* switch moved - and an integration created or deleted, where the comments do not
\* name it but no door is started at all.  Doors of opposite edits run in any order,
\* over cards that fail and come back (RaiseInteractivity, ReconcileInteractivity).
ButtonsAsSwitched ==
  \A g \in Incident :
    groups[g].card = "live" /\ ~groups[g].final /\ groups[g].drawn # ButtonsOn =>
      \/ g \in left.cards \cup UNION {actors[a].owes : a \in Actor}
      \/ \E r \in Request : actors[r].pc = "scan"

\* An open incident allows the silence its integration now declares, whatever
\* became of the integration, unless a payload verified before the edit was
\* stored after it (declareSilenceTx, clearSilenceTx).
SilenceAsDeclared ==
  \A g \in Incident :
    groups[g].open /\ groups[g].intake # None
    /\ groups[g].silence # Declared(rows[groups[g].intake]) => g \in left.silence

\* What the alert groups show of an integration is what its row says.
GroupsFollowTheRow == ButtonsAsSwitched /\ SilenceAsDeclared

\* Whose effect on a token is still to come.
Unsettled ==
  UNION {actors[a].tokens \cup {rows[actors[a].id].token} : a \in {b \in Actor : actors[b].id # None}}

\* Telegram sends here the updates of the enabled integration's token and of
\* no other, once the requests that edited it have run their effects - in
\* whatever order they did - except for calls that were lost and for a token
\* that a deleted integration and its successor share (reconcileTelegramWebhook).
HooksFollowTheRow ==
  \A t \in Token \ (left.tokens \cup Unsettled) : type = "telegram" => (t \in hooks <=> Current(t))

\* Whatever loads and edits crossed, an instance that goes on serving comes to
\* hold what the table holds (Refresh).
CacheCatchesUp ==
  deployment.refreshes => \A i \in Instance : []<>(Serving(i) => instances[i].cache = Found)

\* As long as some syncer has a token in force, the usergroup comes to hold
\* who is on duty, whatever another syncer wrote in between or left unwritten when
\* it died (SyncSchedule and its hour).  What was on its way to Slack at a death is
\* not written any more.
UsergroupHoldsDuty ==
  <>[](\E i \in Instance : Serving(i) /\ Current(instances[i].syncer.token))
    => <>[](slack.members = slack.duty)

==============================================================================
