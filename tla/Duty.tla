-------------------------------- MODULE Duty --------------------------------
(***************************************************************************)
(* Who is on duty: the schedule of one team as a chain of revisions, the   *)
(* overrides over it, the members of the team, and the erasure of a person *)
(* (src/internal/scheduleconfig, rotation, schedulerender, erasure).       *)
(*                                                                         *)
(* A command runs in one transaction.  It locks the people it names and    *)
(* its author first, then the row of the schedule; between the two others  *)
(* commit, so a command is two steps here, and all it decides is decided   *)
(* in the second, under the schedule's lock.  An erasure takes the person  *)
(* exclusively, then shares the live schedules' rows, and commits later.   *)
(*                                                                         *)
(* Layer l1 is modelled.  Layer l2 is planned and projected by the same    *)
(* functions, has no overrides and takes no part in the announcements.     *)
(***************************************************************************)
EXTENDS Grid, Sequences

CONSTANTS
    Users, Admins,     \* people, and the administrators among them
    Team,              \* who is in the team at first
    Operators,         \* who sends commands: people
    Configurations,    \* [enabled, groups: a sequence of [id, members], grid]
    FirstConfiguration,\* of the schedule that exists at first, if one does
    Spans,             \* the windows an override may ask for: [from, to]
    StandIns,          \* the people an override may name
    MaxTime, MaxCommands

None == [kind |-> "none"]

VARIABLES
    now,        \* the wall clock
    chain,      \* the revisions: [kind, from, cfg, phase]; its length is the version
    heads,      \* the last revision of each override: [user, from, to, deleted, revision]
    members,    \* the people in the team
    erased,     \* the people erased
    words,      \* the people whose reasons are on record
    op,         \* the command each operator has under way
    erasing,    \* the erasure under way: [kind, user, share]
    commands    \* how many were sent

dutyVars == <<now, chain, heads, members, erased, words, op, erasing, commands>>

\* -------------------------------------------------------------------------
\* Configurations and revisions.

Active(cfg) == cfg.enabled /\ cfg.groups # <<>>

Ids(cfg) == [i \in DOMAIN cfg.groups |-> cfg.groups[i].id]

ConfigurationUserIDs(cfg) ==
    UNION {cfg.groups[i].members : i \in DOMAIN cfg.groups}

ASSUME DutyAssumption ==
    /\ ConfigurationUserIDs(FirstConfiguration) \subseteq Team
    /\ StandIns \subseteq Users
    /\ Spans \subseteq [from : Int, to : Int]

ASSUME ScheduleAssumption ==
    /\ MaxTime \in Nat /\ MaxCommands \in Nat
    /\ FirstConfiguration \in Configurations
    /\ \A cfg \in Configurations :
          /\ IsGrid(cfg.grid)
          /\ cfg.groups \in Seq({cfg.groups[i] : i \in DOMAIN cfg.groups})

TailRevision == chain[Len(chain)]

Exists == chain # <<>>

\* The root says deleted exactly when the tail is a deleted revision.
Live == Exists /\ TailRevision.kind = "active"

NextEffectiveAt == IF Exists /\ now <= TailRevision.from THEN TailRevision.from + 1 ELSE now

\* The slots of the grids in use, worked out once.
Horizon == MaxTime + MaxCommands + 1
Grids == {cfg.grid : cfg \in Configurations}
Starts == [g \in Grids |-> [t \in 0..Horizon |-> SlotStart(g, t)]]
Turns == [g \in Grids |-> [a \in {Starts[g][t] : t \in 0..Horizon} |->
            [t \in 0..Horizon |-> SlotsBetween(g, a, Starts[g][t])]]]

\* What the boundaries should be: every date of the grid, resolved.
Reference == [g \in Grids |-> Boundaries(g, (0 - 2 * Week) .. (Horizon + 1))]

\* The group of a revision that serves t, as an index into its groups.
GroupAt(r, t) ==
    1 + ((r.phase.start + Turns[r.cfg.grid][r.phase.anchor][t]) % Len(r.cfg.groups))

Reanchor(cfg, at, i) == [anchor |-> Starts[cfg.grid][at], start |-> i - 1]

\* Where the groups of the old revision continue in the new list: the group on
\* duty, else the first of its successors that is still there, else none.
Survivor(old, cfg, at) ==
    LET n == Len(old.cfg.groups)
        Nth(i) == old.cfg.groups[1 + ((GroupAt(old, at) - 1 + i) % n)].id
        kept == {i \in 0..(n - 1) : \E j \in DOMAIN cfg.groups : cfg.groups[j].id = Nth(i)}
    IN  IF kept = {} THEN 1
        ELSE CHOOSE j \in DOMAIN cfg.groups : cfg.groups[j].id = Nth(LeastOf(kept))

\* Mutant: the position is kept, whichever group now stands there.
PlanByPosition(old, cfg, at) ==
    IF ~Active(cfg) THEN None
    ELSE IF old = None \/ ~Active(old.cfg) THEN Reanchor(cfg, at, 1)
    ELSE IF old.cfg.grid = cfg.grid /\ Ids(old.cfg) = Ids(cfg) THEN old.phase
    ELSE Reanchor(cfg, at, 1 + ((GroupAt(old, at) - 1) % Len(cfg.groups)))

planLayer(old, cfg, at) ==
    IF ~Active(cfg) THEN None
    ELSE IF old = None \/ ~Active(old.cfg) THEN Reanchor(cfg, at, 1)
    ELSE IF old.cfg.grid = cfg.grid /\ Ids(old.cfg) = Ids(cfg) THEN old.phase
    ELSE Reanchor(cfg, at, Survivor(old, cfg, at))

\* A revision that begins at `at'.  A deleted schedule is planned anew.
ActiveRevision(cfg, at) ==
    [kind |-> "active", from |-> at, cfg |-> cfg,
     phase |-> planLayer(IF Live THEN TailRevision ELSE None, cfg, at)]

DeletedRevision(at) ==
    [kind |-> "deleted", from |-> at, cfg |-> TailRevision.cfg, phase |-> TailRevision.phase]

\* -------------------------------------------------------------------------
\* The projection: who is on duty at an instant.

Over(h, t) == ~h.deleted /\ h.from <= t /\ t < h.to

Covering(t) == {i \in DOMAIN heads : Over(heads[i], t)}

RevisionsAt(t) == {i \in DOMAIN chain : chain[i].from <= t}

Greatest(S) == CHOOSE x \in S : \A y \in S : y <= x

Nobody == [source |-> "none", group |-> 0, users |-> {}, start |-> 0, rev |-> <<0, 0>>]

ByOverride(i, r) ==
    [source |-> "override", group |-> i, users |-> {heads[i].user},
     start |-> Greatest({heads[i].from, chain[r].from}), rev |-> <<i, heads[i].revision>>]

ByRotation(r, t) ==
    LET group == chain[r].cfg.groups[GroupAt(chain[r], t)]
        ends == {heads[i].to : i \in {j \in DOMAIN heads :
                    ~heads[j].deleted /\ heads[j].from < heads[j].to /\ heads[j].to <= t}}
    IN  [source |-> "rotation", group |-> group.id, users |-> group.members,
         start |-> Greatest({Starts[chain[r].cfg.grid][t], chain[r].from} \cup ends),
         rev |-> <<0, r>>]

\* A collision of overrides, which the commands refuse, is shown as nobody.
projectOnCall(t) ==
    IF RevisionsAt(t) = {} THEN Nobody
    ELSE LET r == Greatest(RevisionsAt(t))
         IN  IF chain[r].kind = "deleted" \/ Cardinality(Covering(t)) > 1 THEN Nobody
             ELSE IF Covering(t) # {} THEN ByOverride(CHOOSE i \in Covering(t) : TRUE, r)
             ELSE IF Active(chain[r].cfg) THEN ByRotation(r, t)
             ELSE Nobody

\* Who was on duty and why, without the revisions and bounds around it.
Duties(t) == LET o == projectOnCall(t) IN <<o.source, o.group, o.users>>

\* -------------------------------------------------------------------------
\* Commands: what an operator sends, and the rows it locks first.

Named(c) ==
    CASE c.kind = "save" -> ConfigurationUserIDs(c.cfg)
      [] c.kind \in {"create", "update"} -> {c.user}
      [] OTHER -> {}

\* Mutant: a command locks its author alone.
LocksTheAuthor(c) == {c.actor}

\* Mutant: a command locks the people it puts on duty, not its author.
LocksTheNamed(c) == Named(c)

commandUserIDs(c) == Named(c) \cup {c.actor}

Held == UNION {IF op[o] = None THEN {} ELSE commandUserIDs(op[o]) : o \in Operators}

\* What is sent names the version the operator's page showed.
Requests(o) ==
    {[kind |-> "save", actor |-> o, cfg |-> cfg, version |-> Len(chain)] : cfg \in Configurations}
    \cup {[kind |-> "delete", actor |-> o, version |-> Len(chain)]}
    \cup {[kind |-> "create", actor |-> o, user |-> u, span |-> s] : u \in StandIns, s \in Spans}
    \cup {[kind |-> "update", actor |-> o, id |-> i, version |-> heads[i].revision,
           user |-> u, span |-> s] : i \in DOMAIN heads, u \in StandIns, s \in Spans}
    \cup {[kind |-> "cancel", actor |-> o, id |-> i, version |-> heads[i].revision] :
           i \in DOMAIN heads}

\* An erasure holds the row of its person.
Erasing(people) == erasing # None /\ erasing.user \in people

Send(o, c) ==
    /\ op[o] = None
    /\ commands < MaxCommands
    /\ ~Erasing(commandUserIDs(c))
    /\ o \notin erased
    /\ op' = [op EXCEPT ![o] = c]
    /\ commands' = commands + 1
    /\ UNCHANGED <<now, chain, heads, members, erased, words, erasing>>

\* An erasure shares the rows of the live schedules until it commits.
ScheduleFree == ~(erasing # None /\ erasing.share)

\* The people of a command are active members when it decides.
ValidateMembership(c) == Named(c) \subseteq members \ erased

Answered(o) == op' = [op EXCEPT ![o] = None]

\* A revision carries the reason of its author, also when it ends another's.
Signed(o) == words' = words \cup {o}

\* -------------------------------------------------------------------------
\* Saving and deleting the schedule.

SaveHolds(c) ==
    /\ c.version = Len(chain)
    /\ ValidateMembership(c)
    /\ ~(Live /\ TailRevision.cfg = c.cfg)

SaveCommits(o) ==
    LET c == op[o] IN
    /\ c.kind = "save" /\ ScheduleFree /\ SaveHolds(c)
    /\ chain' = Append(chain, ActiveRevision(c.cfg, NextEffectiveAt))
    /\ Answered(o) /\ Signed(o)
    /\ UNCHANGED <<now, heads, members, erased, erasing, commands>>

Revised(h) == [h EXCEPT !.revision = @ + 1]

\* Mutant: what is ended is void, the part that was served with it.
EndedWhole(h, at) ==
    IF h.deleted \/ at >= h.to THEN h ELSE [Revised(h) EXCEPT !.deleted = TRUE]

\* An override that has covered some time keeps it; one that has not is void.
Ended(h, at) ==
    IF h.deleted \/ at >= h.to THEN h
    ELSE IF at <= h.from THEN [Revised(h) EXCEPT !.deleted = TRUE]
    ELSE [Revised(h) EXCEPT !.to = at]

DeleteHolds(c) == Live /\ c.version = Len(chain)

DeleteCommits(o) ==
    LET c == op[o]
        at == NextEffectiveAt
    IN
    /\ c.kind = "delete" /\ ScheduleFree /\ DeleteHolds(c)
    /\ chain' = Append(chain, DeletedRevision(at))
    /\ heads' = [i \in DOMAIN heads |-> Ended(heads[i], at)]
    /\ Answered(o) /\ Signed(o)
    /\ UNCHANGED <<now, members, erased, erasing, commands>>

\* -------------------------------------------------------------------------
\* Overrides.

\* No other override stands over the window; `but' is not looked at.
NoOverlap(hs, s, but) ==
    \A i \in DOMAIN hs \ but :
        hs[i].deleted \/ hs[i].to <= s.from \/ s.to <= hs[i].from

Stands(u, s) == [user |-> u, from |-> s.from, to |-> s.to, deleted |-> FALSE, revision |-> 1]

CreateHolds(c) == Live /\ ValidateMembership(c) /\ NoOverlap(heads, c.span, {})

CreateCommits(o) ==
    LET c == op[o] IN
    /\ c.kind = "create" /\ ScheduleFree /\ CreateHolds(c)
    /\ heads' = Append(heads, Stands(c.user, c.span))
    /\ Answered(o) /\ Signed(o)
    /\ UNCHANGED <<now, chain, members, erased, erasing, commands>>

liveOverrideHead(c) ==
    /\ Live
    /\ ~heads[c.id].deleted
    /\ heads[c.id].revision = c.version

Started(h) == now > h.from

\* Not started: one revision replaces another, whatever its window.
Replaced(c) ==
    [heads EXCEPT ![c.id] = [Stands(c.user, c.span) EXCEPT !.revision = heads[c.id].revision + 1]]

\* In force: the served part ends now, the change is an override of its own.
Split(c) ==
    Append([heads EXCEPT ![c.id] = Ended(@, now)],
           Stands(c.user, [from |-> now, to |-> c.span.to]))

UpdateHolds(c) ==
    /\ liveOverrideHead(c)
    /\ ValidateMembership(c)
    /\ now < heads[c.id].to
    /\ IF Started(heads[c.id])
       THEN /\ c.span.to > now
            /\ NoOverlap([heads EXCEPT ![c.id] = Ended(@, now)], [from |-> now, to |-> c.span.to], {})
       ELSE NoOverlap(heads, c.span, {c.id})

UpdateCommits(o) ==
    LET c == op[o] IN
    /\ c.kind = "update" /\ ScheduleFree /\ UpdateHolds(c)
    /\ heads' = IF Started(heads[c.id]) THEN Split(c) ELSE Replaced(c)
    /\ Answered(o) /\ Signed(o)
    /\ UNCHANGED <<now, chain, members, erased, erasing, commands>>

CancelHolds(c) == liveOverrideHead(c) /\ now < heads[c.id].to

CancelCommits(o) ==
    LET c == op[o] IN
    /\ c.kind = "cancel" /\ ScheduleFree /\ CancelHolds(c)
    /\ heads' = [heads EXCEPT ![c.id] = Ended(@, now)]
    /\ Answered(o) /\ Signed(o)
    /\ UNCHANGED <<now, chain, members, erased, erasing, commands>>

\* Refused, or nothing to change: a transaction that wrote nothing.
Refused(o) ==
    /\ op[o] # None /\ ScheduleFree
    /\ CASE op[o].kind = "save" -> ~SaveHolds(op[o])
         [] op[o].kind = "delete" -> ~DeleteHolds(op[o])
         [] op[o].kind = "create" -> ~CreateHolds(op[o])
         [] op[o].kind = "update" -> ~UpdateHolds(op[o])
         [] op[o].kind = "cancel" -> ~CancelHolds(op[o])
    /\ Answered(o)
    /\ UNCHANGED <<now, chain, heads, members, erased, words, erasing, commands>>

\* -------------------------------------------------------------------------
\* People: the team, and erasure.

\* In a group of the tail, or named by an override that has not ended.
holdsAssignment(u) ==
    Live /\ (\/ u \in ConfigurationUserIDs(TailRevision.cfg)
             \/ \E i \in DOMAIN heads :
                    heads[i].user = u /\ ~heads[i].deleted /\ heads[i].to > now)

RemoveTeamMember(u) ==
    /\ commands < MaxCommands /\ u \in members
    /\ ScheduleFree /\ ~holdsAssignment(u)
    /\ members' = members \ {u}
    /\ commands' = commands + 1
    /\ UNCHANGED <<now, chain, heads, erased, words, op, erasing>>

AddTeamMember(u) ==
    /\ commands < MaxCommands /\ u \notin members \cup erased
    /\ ~Erasing({u})
    /\ members' = members \cup {u}
    /\ commands' = commands + 1
    /\ UNCHANGED <<now, chain, heads, erased, words, op, erasing>>

\* The advisory lock lets one erasure run at a time.
guardLastAdmin(u) == u \in Admins => Cardinality(Admins \ erased) > 1

EraseLocks(u) ==
    /\ commands < MaxCommands /\ erasing = None
    /\ u \notin Held \cup erased
    /\ ~holdsAssignment(u) /\ guardLastAdmin(u)
    /\ erasing' = [kind |-> "erase", user |-> u, share |-> Live]
    /\ commands' = commands + 1
    /\ UNCHANGED <<now, chain, heads, members, erased, words, op>>

EraseCommits ==
    /\ erasing # None
    /\ erased' = erased \cup {erasing.user}
    /\ members' = members \ {erasing.user}
    /\ words' = words \ {erasing.user}
    /\ erasing' = None
    /\ UNCHANGED <<now, chain, heads, op, commands>>

\* -------------------------------------------------------------------------

Pass ==
    /\ now < MaxTime
    /\ now' = now + 1
    /\ UNCHANGED <<chain, heads, members, erased, words, op, erasing, commands>>

\* The team has no schedule yet, or the first revision of one.
DutyInit ==
    /\ now = 0
    /\ chain \in {<<>>, <<[kind |-> "active", from |-> 0, cfg |-> FirstConfiguration,
                           phase |-> Reanchor(FirstConfiguration, 0, 1)]>>}
    /\ heads = <<>> /\ members = Team /\ erased = {} /\ words = {}
    /\ op = [o \in Operators |-> None] /\ erasing = None

Command(o) ==
    \/ \E c \in Requests(o) : Send(o, c)
    \/ SaveCommits(o) \/ DeleteCommits(o)
    \/ CreateCommits(o) \/ UpdateCommits(o) \/ CancelCommits(o)
    \/ Refused(o)

People ==
    \/ \E u \in Users : RemoveTeamMember(u) \/ AddTeamMember(u) \/ EraseLocks(u)
    \/ EraseCommits

DutyNext == Pass \/ People \/ \E o \in Operators : Command(o)

\* -------------------------------------------------------------------------
\* What is promised.

DutyTypeOK ==
    /\ now \in 0..MaxTime /\ commands \in 0..MaxCommands
    /\ members \subseteq Users /\ erased \subseteq Users /\ words \subseteq Operators
    /\ \A i \in DOMAIN chain : chain[i].from \in 0..Horizon /\ chain[i].cfg \in Configurations
    /\ \A i \in DOMAIN heads : heads[i].from < heads[i].to /\ heads[i].user \in Users

(* Whoever the schedule in force names, or an override that has not ended   *)
(* names, is in the team and was not erased: saves, overrides, removals and *)
(* erasures serialize on the people's rows and the schedule's               *)
(* (service.go Save, RemoveTeamMember; erasure/service.go guardAssignments).*)
AssignedAreHere ==
    Live =>
      /\ ConfigurationUserIDs(TailRevision.cfg) \subseteq members \ erased
      /\ \A i \in DOMAIN heads :
            ~heads[i].deleted /\ heads[i].to > Greatest({now, TailRevision.from})
                => heads[i].user \in members \ erased

(* No reason an erased person wrote is on record: a command locks and       *)
(* checks its author, so none commits after the erasure that wiped them     *)
(* (service.go commandUserIDs, requireActiveActor; erasure_store.go         *)
(* NullifyOverrideRevisionReasons, NullifyScheduleRevisionChangeReasons).   *)
ErasedHaveNoWords == words \cap erased = {}

\* The duties at t are what they were, or a step recorded an override over t.
Stood(t) ==
    \/ Duties(t)' = Duties(t)
    \/ \E i \in DOMAIN heads' :
          Over(heads'[i], t) /\ (i \notin DOMAIN heads \/ heads'[i].from # heads[i].from)

(* Who was on duty at an instant that has passed never changes, except      *)
(* where the step records an override over it (override.go CancelOverride,  *)
(* UpdateOverride; service.go endLiveOverrides; effective times that only   *)
(* go forward).                                                             *)
ServedDutyStands == [][\A t \in 0..(now - 1) : Stood(t)]_<<chain, heads>>

\* Of the groups that are kept, the nearest to the one on duty comes next.
ShiftKept(was, is) ==
    LET old  == was.cfg.groups
        mine == GroupAt(was, is.from)
        new  == is.cfg.groups[GroupAt(is, is.from)].id
        Kept(i) == \E j \in DOMAIN is.cfg.groups : is.cfg.groups[j].id = old[i].id
        After(i) == (i - mine) % Len(old)
    IN  \A i \in DOMAIN old :
          Kept(i) /\ (\A j \in DOMAIN old : Kept(j) => After(i) <= After(j)) => new = old[i].id

(* An edit leaves the group on duty on duty if it is kept, and passes to    *)
(* the next group that is kept if it is not, whatever happens to the list,  *)
(* the hour, the cadence and the zone (transition.go planLayer).            *)
EditKeepsTheShift ==
    [][Live /\ Len(chain') > Len(chain) /\ TailRevision'.kind = "active"
         /\ Active(TailRevision.cfg) /\ Active(TailRevision'.cfg)
       => ShiftKept(TailRevision, TailRevision')]_chain

(* While a revision is in force duty passes to the next group at each       *)
(* boundary of its grid and at no other time: dates that the zone skips or  *)
(* repeats neither lose a turn nor take two (grid.go nextAfter,             *)
(* SlotsBetween; position.go PositionAt).                                   *)
RotationTurns ==
    Live /\ Active(TailRevision.cfg) =>
        \A t \in TailRevision.from .. (Horizon - 1) :
            GroupAt(TailRevision, t + 1) =
              IF t + 1 \in Reference[TailRevision.cfg.grid]
              THEN 1 + (GroupAt(TailRevision, t) % Len(TailRevision.cfg.groups))
              ELSE GroupAt(TailRevision, t)
=============================================================================
