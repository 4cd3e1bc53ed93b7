---------------------------- MODULE Duty_proofs ----------------------------
(***************************************************************************)
(* What the schedule's commands and an erasure owe to the locks they take; *)
(* that what was served stands; that the slots of a grid cover time, that  *)
(* duty turns with them, and that an edit leaves the shift with who has    *)
(* it: for any number of people, operators, commands, configurations, any  *)
(* grids and any zones that change their clocks once.                      *)
(*                                                                         *)
(* Recursive functions (the walk along the slots) are reasoned about with  *)
(* Inductive, which is induction as the well-foundedness of the naturals.  *)
(***************************************************************************)
EXTENDS Handover, SequenceTheorems, FiniteSetTheorems, WellFoundedInduction, TLAPS

\* -------------------------------------------------------------------------
\* The people a command locked are not being erased, and its author was not.

CommandsHold ==
    /\ DOMAIN op = Operators
    /\ \A o \in Operators : op[o] # None =>
         /\ op[o].actor = o
         /\ o \notin erased
         /\ ~Erasing(commandUserIDs(op[o]))

WordsInvariant == CommandsHold /\ ErasedHaveNoWords

LEMMA ActorIsLocked == ASSUME NEW c PROVE c.actor \in commandUserIDs(c)
  BY DEF commandUserIDs

LEMMA RequestsAreSigned ==
  ASSUME NEW o, NEW c \in Requests(o) PROVE c.actor = o /\ c # None
  BY DEF Requests, None

LEMMA SendHolds ==
  ASSUME NEW o \in Operators, NEW c \in Requests(o), WordsInvariant, Send(o, c)
  PROVE  WordsInvariant'
  <1>1. CommandsHold'
    BY RequestsAreSigned DEF WordsInvariant, CommandsHold, Send, Erasing, commandUserIDs
  <1> QED BY <1>1 DEF WordsInvariant, ErasedHaveNoWords, Send

\* A command that commits leaves its author's words and is answered.
LEMMA CommitHolds ==
  ASSUME NEW o \in Operators, WordsInvariant, op[o] # None,
         Answered(o), Signed(o), UNCHANGED <<erased, erasing>>
  PROVE  WordsInvariant'
  <1>1. CommandsHold'
    BY DEF WordsInvariant, CommandsHold, Answered, Erasing
  <1>2. o \notin erased
    BY DEF WordsInvariant, CommandsHold
  <1>3. ErasedHaveNoWords'
    BY <1>2 DEF WordsInvariant, ErasedHaveNoWords, Signed
  <1> QED BY <1>1, <1>3 DEF WordsInvariant

\* A step that leaves the commands, the erasures and the words alone.
LEMMA QuietStepHolds ==
  ASSUME WordsInvariant, UNCHANGED <<op, erased, erasing, words>>
  PROVE  WordsInvariant'
  BY DEF WordsInvariant, CommandsHold, ErasedHaveNoWords, Erasing

LEMMA CommandHolds ==
  ASSUME NEW o \in Operators, WordsInvariant, Command(o)
  PROVE  WordsInvariant'
  <1> DEFINE Commits == \/ SaveCommits(o) \/ DeleteCommits(o) \/ CreateCommits(o)
                        \/ UpdateCommits(o) \/ CancelCommits(o)
  <1>1. CASE \E c \in Requests(o) : Send(o, c)
    BY <1>1, SendHolds
  <1>2. CASE Commits
    <2>1. op[o] # None
      BY <1>2 DEF SaveCommits, DeleteCommits, CreateCommits, UpdateCommits, CancelCommits, None
    <2>2. Answered(o) /\ Signed(o) /\ UNCHANGED <<erased, erasing>>
      BY <1>2 DEF SaveCommits, DeleteCommits, CreateCommits, UpdateCommits, CancelCommits
    <2> QED BY <2>1, <2>2, CommitHolds
  <1>3. CASE Refused(o)
    <2>1. Answered(o) /\ UNCHANGED <<erased, erasing, words>>
      BY <1>3 DEF Refused
    <2>2. CommandsHold'
      BY <2>1 DEF WordsInvariant, CommandsHold, Answered, Erasing
    <2> QED BY <2>1, <2>2 DEF WordsInvariant, ErasedHaveNoWords
  <1> QED BY <1>1, <1>2, <1>3 DEF Command

LEMMA EraseLocksHolds ==
  ASSUME NEW u \in Users, WordsInvariant, EraseLocks(u)
  PROVE  WordsInvariant'
  <1>1. erasing'.user = u /\ UNCHANGED <<op, erased, words>> /\ u \notin Held
    BY DEF EraseLocks
  <1>2. \A o \in Operators : op[o] # None => u \notin commandUserIDs(op[o])
    BY <1>1 DEF Held
  <1>3. CommandsHold'
    BY <1>1, <1>2 DEF WordsInvariant, CommandsHold, Erasing
  <1> QED BY <1>1, <1>3 DEF WordsInvariant, ErasedHaveNoWords

LEMMA EraseCommitsHolds ==
  ASSUME WordsInvariant, EraseCommits
  PROVE  WordsInvariant'
  <1>1. /\ erasing # None /\ erasing' = None /\ op' = op
        /\ erased' = erased \cup {erasing.user} /\ words' = words \ {erasing.user}
    BY DEF EraseCommits
  <1>2. ASSUME NEW o \in Operators, op[o] # None
        PROVE  o # erasing.user /\ o \notin erased
    BY <1>1, <1>2, ActorIsLocked DEF WordsInvariant, CommandsHold, Erasing
  <1>3. CommandsHold'
    BY <1>1, <1>2 DEF WordsInvariant, CommandsHold, Erasing
  <1> QED BY <1>1, <1>3 DEF WordsInvariant, ErasedHaveNoWords

LEMMA DutyStepHolds ==
  ASSUME WordsInvariant, [DutyNext]_dutyVars PROVE WordsInvariant'
  <1>1. CASE Pass
    BY <1>1, QuietStepHolds DEF Pass
  <1>2. CASE \E u \in Users : RemoveTeamMember(u) \/ AddTeamMember(u)
    BY <1>2, QuietStepHolds DEF RemoveTeamMember, AddTeamMember
  <1>3. CASE \E u \in Users : EraseLocks(u)
    BY <1>3, EraseLocksHolds
  <1>4. CASE EraseCommits
    BY <1>4, EraseCommitsHolds
  <1>5. CASE \E o \in Operators : Command(o)
    BY <1>5, CommandHolds
  <1>6. CASE UNCHANGED dutyVars
    BY <1>6, QuietStepHolds DEF dutyVars
  <1> QED BY <1>1, <1>2, <1>3, <1>4, <1>5, <1>6 DEF DutyNext, People

\* The instances that watch the schedule change nothing of it.
LEMMA WatchersOnlyWatch ==
  ASSUME [Next]_vars PROVE [DutyNext]_dutyVars
  <1>1. ASSUME NEW n \in Running, Tick(n) \/ Offer(n) \/ OfferLost(n) \/ OfferFails(n) \/ Crash(n)
        PROVE  UNCHANGED dutyVars
    BY <1>1 DEF Tick, TickFindsNone, TickSettles, TickBuilds, Offer, OfferHeld, OfferErased,
                OfferCreates, OfferLost, OfferFails, Crash
  <1> QED BY <1>1 DEF Next, vars

(* No reason by an erased person is on record, however saves, overrides and *)
(* erasures interleave, for any number of people and commands: the author's *)
(* row is locked and checked before a command and until it commits          *)
(* (service.go lockForWrite, requireActiveActor; erasure/service.go Erase). *)
THEOREM WordsGoWithTheirAuthor == Spec => []ErasedHaveNoWords
  <1>1. Init => WordsInvariant
    BY DEF Init, DutyInit, WordsInvariant, CommandsHold, ErasedHaveNoWords
  <1>2. WordsInvariant /\ [Next]_vars => WordsInvariant'
    BY DutyStepHolds, WatchersOnlyWatch
  <1>3. WordsInvariant => ErasedHaveNoWords
    BY DEF WordsInvariant
  <1> QED BY <1>1, <1>2, <1>3, PTL DEF Spec

\* -------------------------------------------------------------------------
\* Shapes.

Override == [user : Users, from : Int, to : Int, deleted : BOOLEAN, revision : Int]

IsSequence(s) == \E S : s \in Seq(S)

Shape ==
    /\ now \in Int
    /\ heads \in Seq(Override)
    /\ IsSequence(chain)
    /\ Exists => TailRevision.from \in Int

\* What a command under way asks for was there to be asked.
Asked ==
    \A o \in Operators :
        /\ op[o].kind \in {"create", "update"} => op[o].user \in StandIns /\ op[o].span \in Spans
        /\ op[o].kind \in {"update", "cancel"} => op[o].id \in DOMAIN heads

LEMMA SequencesWiden ==
  ASSUME NEW S, NEW T, S \subseteq T, NEW s \in Seq(S) PROVE s \in Seq(T)
  OBVIOUS

LEMMA AppendIs ==
  ASSUME NEW s, IsSequence(s), NEW e
  PROVE  /\ IsSequence(Append(s, e)) /\ Append(s, e) # <<>>
         /\ Append(s, e)[Len(Append(s, e))] = e
  <1>1. PICK S : s \in Seq(S)
    BY DEF IsSequence
  <1>2. s \in Seq(S \cup {e}) /\ e \in S \cup {e}
    BY <1>1, SequencesWiden
  <1>3. Append(s, e) \in Seq(S \cup {e})
    BY <1>2, AppendProperties
  <1>4. Append(s, e) # <<>> /\ Append(s, e)[Len(Append(s, e))] = e
    BY <1>2, AppendProperties
  <1> QED BY <1>3, <1>4 DEF IsSequence

LEMMA RevisedIs ==
  ASSUME NEW h \in Override
  PROVE  /\ Revised(h) \in Override /\ Revised(h).user = h.user /\ Revised(h).from = h.from
         /\ Revised(h).to = h.to /\ Revised(h).deleted = h.deleted
  BY DEF Revised, Override

LEMMA EndedShrinks ==
  ASSUME NEW h \in Override, NEW at \in Int
  PROVE  /\ Ended(h, at) \in Override /\ Ended(h, at).user = h.user
         /\ Ended(h, at).to <= h.to
         /\ ~Ended(h, at).deleted => ~h.deleted /\ Ended(h, at).to <= at
  <1> DEFINE r == Revised(h)
  <1>1. /\ r \in Override /\ r.user = h.user /\ r.to = h.to
    BY RevisedIs
  <1> HIDE DEF r
  <1>2. /\ [r EXCEPT !.deleted = TRUE] \in Override
        /\ [r EXCEPT !.deleted = TRUE].user = r.user
        /\ [r EXCEPT !.deleted = TRUE].to = r.to
        /\ [r EXCEPT !.deleted = TRUE].deleted
    BY <1>1 DEF Override
  <1>3. /\ [r EXCEPT !.to = at] \in Override
        /\ [r EXCEPT !.to = at].user = r.user
        /\ [r EXCEPT !.to = at].to = at
    BY <1>1 DEF Override
  <1>5. CASE h.deleted \/ at >= h.to
    <2>1. Ended(h, at) = h
      BY <1>5 DEF Ended
    <2> QED BY <1>5, <2>1 DEF Override
  <1>6. CASE ~(h.deleted \/ at >= h.to) /\ at <= h.from
    <2>1. Ended(h, at) = [r EXCEPT !.deleted = TRUE]
      BY <1>6 DEF Ended, r
    <2> QED BY <1>1, <1>2, <2>1 DEF Override
  <1>7. CASE ~(h.deleted \/ at >= h.to) /\ ~(at <= h.from)
    <2>1. Ended(h, at) = [r EXCEPT !.to = at]
      BY <1>7 DEF Ended, r
    <2> QED BY <1>1, <1>3, <1>7, <2>1 DEF Override
  <1> QED BY <1>5, <1>6, <1>7

LEMMA GreatestOfTwo ==
  ASSUME NEW a \in Int, NEW b \in Int
  PROVE  \A x \in Int : x > Greatest({a, b}) <=> x > a /\ x > b
  <1>1. \E x \in {a, b} : \A y \in {a, b} : y <= x
    OBVIOUS
  <1>2. Greatest({a, b}) \in {a, b} /\ \A y \in {a, b} : y <= Greatest({a, b})
    BY <1>1 DEF Greatest
  <1> QED BY <1>2

\* -------------------------------------------------------------------------
\* Who is assigned is in the team.

Reaches(h) == ~h.deleted /\ h.to > now /\ h.to > TailRevision.from

\* Assigned by the schedule in force: in a group, or by an override to come.
Assigned == ConfigurationUserIDs(TailRevision.cfg)
              \cup {heads[i].user : i \in {j \in DOMAIN heads : Reaches(heads[j])}}

\* What a deletion leaves ends with it, and a team without a schedule has none.
DeletedLeavesNone ==
    ~Live => \A i \in DOMAIN heads :
                ~heads[i].deleted => Exists /\ heads[i].to <= TailRevision.from

AssignedInvariant ==
    /\ Shape /\ Asked /\ CommandsHold /\ DeletedLeavesNone
    /\ Live => Assigned \subseteq members \ erased
    /\ Live /\ erasing # None => erasing.user \notin Assigned

LEMMA NextIsLater ==
  ASSUME Shape
  PROVE  /\ NextEffectiveAt \in Int /\ NextEffectiveAt >= now
         /\ Exists => NextEffectiveAt > TailRevision.from
  BY DEF Shape, NextEffectiveAt

\* The next revision of the chain becomes its tail.
LEMMA TailMoves ==
  ASSUME Shape, NEW k, NEW at \in Int, NEW cfg, NEW phase,
         chain' = Append(chain, [kind |-> k, from |-> at, cfg |-> cfg, phase |-> phase])
  PROVE  /\ IsSequence(chain') /\ Exists'
         /\ TailRevision' = [kind |-> k, from |-> at, cfg |-> cfg, phase |-> phase]
         /\ Live' <=> k = "active"
  <1> DEFINE r == [kind |-> k, from |-> at, cfg |-> cfg, phase |-> phase]
  <1>1. IsSequence(chain') /\ chain' # <<>> /\ chain'[Len(chain')] = r
    BY AppendIs DEF Shape
  <1>2. r.kind = k
    OBVIOUS
  <1> QED BY <1>1, <1>2 DEF Exists, TailRevision, Live

\* The named people of the commands that name somebody.
LEMMA SaveNames ==
  ASSUME NEW c, c.kind = "save" PROVE Named(c) = ConfigurationUserIDs(c.cfg)
  BY ZenonT(20) DEF Named

LEMMA OverrideNames ==
  ASSUME NEW c, c.kind \in {"create", "update"} PROVE Named(c) = {c.user}
  BY ZenonT(20) DEF Named

\* People and clock: the schedule stays what it is.
ScheduleStays == UNCHANGED <<chain, heads, op>>

LEMMA ShapeStays ==
  ASSUME Shape, Asked, ScheduleStays, now' \in Int
  PROVE  Shape' /\ Asked'
  BY DEF Shape, Asked, ScheduleStays, Exists, TailRevision

LEMMA AssignedStays ==
  ASSUME Shape, DeletedLeavesNone, ScheduleStays, now' \in Int, now' >= now
  PROVE  DeletedLeavesNone' /\ (Live' <=> Live) /\ Assigned' \subseteq Assigned
  <1>1. TailRevision' = TailRevision /\ (Exists' <=> Exists) /\ (Live' <=> Live)
    BY DEF ScheduleStays, TailRevision, Exists, Live
  <1>2. DeletedLeavesNone'
    BY <1>1 DEF DeletedLeavesNone, ScheduleStays
  <1>3. \A i \in DOMAIN heads : Reaches(heads[i])' => Reaches(heads[i])
    <2> SUFFICES ASSUME NEW i \in DOMAIN heads, Reaches(heads[i])' PROVE Reaches(heads[i])
      OBVIOUS
    <2>1. heads[i] \in Override
      BY DEF Shape
    <2> QED BY <2>1, <1>1 DEF Reaches, ScheduleStays, Override, Shape
  <1>4. Assigned' \subseteq Assigned
    BY <1>1, <1>3 DEF Assigned, ScheduleStays
  <1> QED BY <1>1, <1>2, <1>4

\* A person who holds no assignment is not assigned.
LEMMA UnheldIsUnassigned ==
  ASSUME Shape, NEW u, Live, ~holdsAssignment(u) PROVE u \notin Assigned
  BY DEF holdsAssignment, Assigned, Reaches

\* The commands hold what they locked through a step that leaves them alone.
LEMMA PassHolds ==
  ASSUME AssignedInvariant, Pass PROVE AssignedInvariant'
  <1>1. ScheduleStays /\ now' \in Int /\ now' >= now /\ UNCHANGED <<members, erased, erasing>>
    BY DEF Pass, ScheduleStays, AssignedInvariant, Shape
  <1>2. Shape' /\ Asked' /\ DeletedLeavesNone' /\ (Live' <=> Live) /\ Assigned' \subseteq Assigned
    BY <1>1, ShapeStays, AssignedStays DEF AssignedInvariant
  <1>3. CommandsHold'
    BY <1>1 DEF AssignedInvariant, CommandsHold, ScheduleStays, Erasing
  <1> QED BY <1>1, <1>2, <1>3 DEF AssignedInvariant

LEMMA MembersHold ==
  ASSUME AssignedInvariant, NEW u \in Users, RemoveTeamMember(u) \/ AddTeamMember(u)
  PROVE  AssignedInvariant'
  <1>1. ScheduleStays /\ now' = now /\ now \in Int /\ UNCHANGED <<erased, erasing>>
    BY DEF RemoveTeamMember, AddTeamMember, ScheduleStays, AssignedInvariant, Shape
  <1>2. Shape' /\ Asked' /\ DeletedLeavesNone' /\ (Live' <=> Live) /\ Assigned' \subseteq Assigned
    BY <1>1, ShapeStays, AssignedStays DEF AssignedInvariant
  <1>3. CommandsHold'
    BY <1>1 DEF AssignedInvariant, CommandsHold, ScheduleStays, Erasing
  <1>4. Live => Assigned \subseteq members' \ erased
    <2>1. CASE RemoveTeamMember(u)
      BY <2>1, UnheldIsUnassigned DEF RemoveTeamMember, AssignedInvariant
    <2>2. CASE AddTeamMember(u)
      BY <2>2 DEF AddTeamMember, AssignedInvariant
    <2> QED BY <2>1, <2>2
  <1> QED BY <1>1, <1>2, <1>3, <1>4 DEF AssignedInvariant

LEMMA EraseLocksKeepsAssigned ==
  ASSUME AssignedInvariant, NEW u \in Users, EraseLocks(u)
  PROVE  AssignedInvariant'
  <1>1. ScheduleStays /\ now' = now /\ now \in Int /\ UNCHANGED <<members, erased>>
    BY DEF EraseLocks, ScheduleStays, AssignedInvariant, Shape
  <1>2. Shape' /\ Asked' /\ DeletedLeavesNone' /\ (Live' <=> Live) /\ Assigned' \subseteq Assigned
    BY <1>1, ShapeStays, AssignedStays DEF AssignedInvariant
  <1>3. erasing'.user = u /\ u \notin Held /\ ~holdsAssignment(u)
    BY DEF EraseLocks
  <1>4. \A o \in Operators : op[o] # None => u \notin commandUserIDs(op[o])
    BY <1>3 DEF Held
  <1>5. CommandsHold'
    BY <1>1, <1>3, <1>4 DEF AssignedInvariant, CommandsHold, ScheduleStays, Erasing
  <1>6. Live => u \notin Assigned
    BY <1>3, UnheldIsUnassigned DEF AssignedInvariant
  <1> QED BY <1>1, <1>2, <1>3, <1>5, <1>6 DEF AssignedInvariant

LEMMA EraseCommitsKeepsAssigned ==
  ASSUME AssignedInvariant, EraseCommits
  PROVE  AssignedInvariant'
  <1>1. /\ ScheduleStays /\ now' = now /\ now \in Int
        /\ erasing # None /\ erasing' = None
        /\ erased' = erased \cup {erasing.user} /\ members' = members \ {erasing.user}
    BY DEF EraseCommits, ScheduleStays, AssignedInvariant, Shape
  <1>2. Shape' /\ Asked' /\ DeletedLeavesNone' /\ (Live' <=> Live) /\ Assigned' \subseteq Assigned
    BY <1>1, ShapeStays, AssignedStays DEF AssignedInvariant
  <1>3. ASSUME NEW o \in Operators, op[o] # None
        PROVE  o # erasing.user /\ o \notin erased
    BY <1>1, <1>3, ActorIsLocked DEF AssignedInvariant, CommandsHold, Erasing
  <1>4. CommandsHold'
    BY <1>1, <1>3 DEF AssignedInvariant, CommandsHold, ScheduleStays, Erasing
  <1> QED BY <1>1, <1>2, <1>4 DEF AssignedInvariant

LEMMA AnsweredHolds ==
  ASSUME AssignedInvariant, NEW o \in Operators, Answered(o),
         UNCHANGED <<erased, erasing>>, DOMAIN heads \subseteq DOMAIN heads'
  PROVE  CommandsHold' /\ Asked'
  <1>1. DOMAIN op' = Operators /\ op'[o] = None /\ \A x \in Operators \ {o} : op'[x] = op[x]
    BY DEF Answered, AssignedInvariant, CommandsHold
  <1>2. CommandsHold'
    BY <1>1 DEF AssignedInvariant, CommandsHold, Erasing
  <1>3. Asked'
    BY <1>1 DEF AssignedInvariant, Asked, None
  <1> QED BY <1>2, <1>3

LEMMA SendKeepsAssigned ==
  ASSUME AssignedInvariant, NEW o \in Operators, NEW c \in Requests(o), Send(o, c)
  PROVE  AssignedInvariant'
  <1>1. /\ UNCHANGED <<now, chain, heads, members, erased, erasing>>
        /\ op' = [op EXCEPT ![o] = c] /\ o \notin erased /\ ~Erasing(commandUserIDs(c))
    BY DEF Send
  <1>2. DOMAIN op' = Operators /\ op'[o] = c /\ \A x \in Operators \ {o} : op'[x] = op[x]
    BY <1>1 DEF AssignedInvariant, CommandsHold
  <1>3. CommandsHold'
    BY <1>1, <1>2, RequestsAreSigned DEF AssignedInvariant, CommandsHold, Erasing
  <1>4. /\ c.kind \in {"create", "update"} => c.user \in StandIns /\ c.span \in Spans
        /\ c.kind \in {"update", "cancel"} => c.id \in DOMAIN heads
    BY DEF Requests
  <1>5. Asked'
    BY <1>1, <1>2, <1>4 DEF AssignedInvariant, Asked
  <1>6. TailRevision' = TailRevision /\ (Exists' <=> Exists) /\ (Live' <=> Live)
    BY <1>1 DEF TailRevision, Exists, Live
  <1>7. Shape' /\ DeletedLeavesNone'
    BY <1>1, <1>6 DEF AssignedInvariant, Shape, DeletedLeavesNone
  <1>8. Assigned' = Assigned
    BY <1>1, <1>6 DEF Assigned, Reaches
  <1> QED BY <1>1, <1>3, <1>5, <1>6, <1>7, <1>8 DEF AssignedInvariant

LEMMA SaveKeepsAssigned ==
  ASSUME AssignedInvariant, NEW o \in Operators, SaveCommits(o)
  PROVE  AssignedInvariant'
  <1> DEFINE c == op[o]
             at == NextEffectiveAt
  <1>1. /\ c.kind = "save" /\ ValidateMembership(c)
        /\ chain' = Append(chain, ActiveRevision(c.cfg, at))
        /\ Answered(o) /\ UNCHANGED <<now, heads, members, erased, erasing>>
    BY DEF SaveCommits, SaveHolds
  <1>2. op[o] # None
    BY <1>1 DEF None
  <1>3. CommandsHold' /\ Asked'
    BY <1>1, AnsweredHolds
  <1>4. at \in Int /\ (Exists => at > TailRevision.from)
    BY NextIsLater DEF AssignedInvariant
  <1>5. /\ IsSequence(chain') /\ Exists' /\ Live'
        /\ TailRevision'.from = at /\ TailRevision'.cfg = c.cfg
    <2> DEFINE phase == planLayer(IF Live THEN TailRevision ELSE None, c.cfg, at)
    <2>1. chain' = Append(chain, [kind |-> "active", from |-> at, cfg |-> c.cfg, phase |-> phase])
      BY <1>1 DEF ActiveRevision
    <2> HIDE DEF phase, at, c
    <2>2. /\ IsSequence(chain') /\ Exists' /\ Live'
          /\ TailRevision' = [kind |-> "active", from |-> at, cfg |-> c.cfg, phase |-> phase]
      BY <2>1, <1>4, TailMoves DEF AssignedInvariant
    <2> QED BY <2>2
  <1>6. Shape' /\ DeletedLeavesNone'
    BY <1>1, <1>4, <1>5 DEF AssignedInvariant, Shape, DeletedLeavesNone
  <1>7. \A i \in DOMAIN heads : Reaches(heads[i])' => Live /\ Reaches(heads[i])
    <2> SUFFICES ASSUME NEW i \in DOMAIN heads, Reaches(heads[i])'
                 PROVE  Live /\ Reaches(heads[i])
      OBVIOUS
    <2>1. heads[i] \in Override
      BY DEF AssignedInvariant, Shape
    <2>2. heads[i].to > at /\ ~heads[i].deleted /\ heads[i].to > now
      BY <1>1, <1>5 DEF Reaches
    <2>3. Exists => TailRevision.from \in Int
      BY DEF AssignedInvariant, Shape
    <2>4. Live
      BY <2>1, <2>2, <2>3, <1>4 DEF AssignedInvariant, DeletedLeavesNone, Override
    <2> QED BY <2>1, <2>2, <2>3, <2>4, <1>4 DEF Reaches, Live, Override
  <1>8. Assigned' \subseteq Named(c) \cup (IF Live THEN Assigned ELSE {})
    BY <1>1, <1>5, <1>7, SaveNames DEF Assigned
  <1>9. Named(c) \subseteq members \ erased
    BY <1>1 DEF ValidateMembership
  <1>10. erasing # None => erasing.user \notin Named(c)
    BY <1>2 DEF AssignedInvariant, CommandsHold, Erasing, commandUserIDs
  <1> QED BY <1>1, <1>3, <1>6, <1>8, <1>9, <1>10 DEF AssignedInvariant

LEMMA DeleteKeepsAssigned ==
  ASSUME AssignedInvariant, NEW o \in Operators, DeleteCommits(o)
  PROVE  AssignedInvariant'
  <1> DEFINE at == NextEffectiveAt
  <1>1. /\ Live /\ Answered(o) /\ UNCHANGED <<now, members, erased, erasing>>
        /\ chain' = Append(chain, DeletedRevision(at))
        /\ heads' = [i \in DOMAIN heads |-> Ended(heads[i], at)]
    BY DEF DeleteCommits, DeleteHolds
  <1>2. CommandsHold' /\ Asked'
    BY <1>1, AnsweredHolds
  <1>3. at \in Int
    BY NextIsLater DEF AssignedInvariant
  <1>4. chain' = Append(chain, [kind |-> "deleted", from |-> at,
                                cfg |-> TailRevision.cfg, phase |-> TailRevision.phase])
    BY <1>1 DEF DeletedRevision
  <1>5. /\ IsSequence(chain') /\ Exists' /\ ~Live'
        /\ TailRevision' = [kind |-> "deleted", from |-> at,
                            cfg |-> TailRevision.cfg, phase |-> TailRevision.phase]
    <2> HIDE DEF at
    <2> QED BY <1>3, <1>4, TailMoves DEF AssignedInvariant
  <1>6. \A i \in DOMAIN heads : heads[i] \in Override
    BY DEF AssignedInvariant, Shape
  <1>7. heads' \in Seq(Override)
    <2>1. \A i \in DOMAIN heads : Ended(heads[i], at) \in Override
      BY <1>3, <1>6, EndedShrinks
    <2>2. Len(heads) \in Nat /\ DOMAIN heads = 1 .. Len(heads)
      BY DEF AssignedInvariant, Shape
    <2>3. heads' \in [1 .. Len(heads) -> Override]
      BY <1>1, <2>1, <2>2
    <2> QED BY <2>2, <2>3
  <1>8. Shape'
    BY <1>1, <1>3, <1>5, <1>7 DEF AssignedInvariant, Shape
  <1>9. DeletedLeavesNone'
    BY <1>1, <1>3, <1>5, <1>6, EndedShrinks DEF DeletedLeavesNone
  <1> QED BY <1>1, <1>2, <1>5, <1>8, <1>9 DEF AssignedInvariant

LEMMA OverrideIs ==
  ASSUME Shape, NEW i \in DOMAIN heads
  PROVE  heads[i] \in Override /\ heads[i].to \in Int /\ heads[i].to <= heads[i].to
  <1>1. heads[i] \in Override
    BY DEF Shape
  <1> QED BY <1>1 DEF Override

\* A live override names one of P or is what is left of one that was there.
OnlyNames(P) ==
    \A i \in DOMAIN heads' : ~heads'[i].deleted =>
        \/ heads'[i].user \in P
        \/ /\ i \in DOMAIN heads /\ ~heads[i].deleted
           /\ heads'[i].user = heads[i].user /\ heads'[i].to <= heads[i].to

\* A command on an override leaves the schedule, and names whom it validated.
LEMMA OverrideStep ==
  ASSUME AssignedInvariant, Live, NEW o \in Operators, op[o] # None, Answered(o),
         UNCHANGED <<now, chain, members, erased, erasing>>,
         heads' \in Seq(Override), DOMAIN heads \subseteq DOMAIN heads',
         NEW P, P \subseteq members \ erased, P \subseteq commandUserIDs(op[o]),
         OnlyNames(P)
  PROVE  AssignedInvariant'
  <1>1. CommandsHold' /\ Asked'
    BY AnsweredHolds
  <1>2. TailRevision' = TailRevision /\ Exists' /\ Exists /\ Live'
    BY DEF TailRevision, Exists, Live
  <1>3. Shape' /\ DeletedLeavesNone'
    BY <1>2 DEF AssignedInvariant, Shape, DeletedLeavesNone
  <1>4. ASSUME NEW i \in DOMAIN heads', Reaches(heads[i])', heads'[i].user \notin P
        PROVE  i \in DOMAIN heads /\ Reaches(heads[i]) /\ heads'[i].user = heads[i].user
    <2>1. ~heads'[i].deleted /\ heads'[i].to > now /\ heads'[i].to > TailRevision.from
      BY <1>2, <1>4 DEF Reaches
    <2>2. /\ i \in DOMAIN heads /\ ~heads[i].deleted
          /\ heads'[i].user = heads[i].user /\ heads'[i].to <= heads[i].to
      BY <1>4, <2>1 DEF OnlyNames
    <2>3. heads[i].to \in Int
      BY <2>2, OverrideIs DEF AssignedInvariant
    <2>4. heads'[i] \in Override
      BY <1>4
    <2>5. heads'[i].to \in Int
      BY <2>4 DEF Override
    <2>6. now \in Int /\ TailRevision.from \in Int
      BY <1>2 DEF AssignedInvariant, Shape
    <2> QED BY <2>1, <2>2, <2>3, <2>5, <2>6 DEF Reaches
  <1>5. Assigned' \subseteq Assigned \cup P
    <2>1. ConfigurationUserIDs(TailRevision.cfg)' = ConfigurationUserIDs(TailRevision.cfg)
      BY <1>2 DEF ConfigurationUserIDs
    <2>2. ASSUME NEW u \in Assigned' PROVE u \in Assigned \cup P
      <3>1. CASE u \in ConfigurationUserIDs(TailRevision.cfg)'
        BY <2>1, <3>1 DEF Assigned
      <3>2. CASE \E i \in DOMAIN heads' : Reaches(heads[i])' /\ u = heads'[i].user
        BY <1>4, <3>2 DEF Assigned
      <3> QED BY <2>2, <3>1, <3>2 DEF Assigned
    <2> QED BY <2>2
  <1>6. erasing # None => erasing.user \notin P
    BY DEF AssignedInvariant, CommandsHold, Erasing
  <1> QED BY <1>1, <1>2, <1>3, <1>5, <1>6 DEF AssignedInvariant

LEMMA NamedAreLocked ==
  ASSUME NEW c PROVE Named(c) \subseteq commandUserIDs(c)
  BY DEF commandUserIDs

LEMMA StandsIs ==
  ASSUME NEW u \in Users, NEW f \in Int, NEW t \in Int
  PROVE  Stands(u, [from |-> f, to |-> t]) \in Override
         /\ Stands(u, [from |-> f, to |-> t]).user = u
  BY DEF Stands, Override

LEMMA CreateKeepsAssigned ==
  ASSUME AssignedInvariant, NEW o \in Operators, CreateCommits(o)
  PROVE  AssignedInvariant'
  <1> DEFINE c == op[o]
             h == Stands(c.user, c.span)
  <1>1. /\ c.kind = "create" /\ Live /\ ValidateMembership(c) /\ Answered(o)
        /\ heads' = Append(heads, h)
        /\ UNCHANGED <<now, chain, members, erased, erasing>>
    BY DEF CreateCommits, CreateHolds
  <1>2. c # None /\ Named(c) = {c.user} /\ {c.user} \subseteq members \ erased
    BY <1>1, OverrideNames DEF None, ValidateMembership
  <1>3. h \in Override /\ h.user = c.user
    <2>1. c.user \in Users /\ c.span \in [from : Int, to : Int]
      BY <1>1, DutyAssumption DEF AssignedInvariant, Asked
    <2> QED BY <2>1 DEF Stands, Override
  <1> HIDE DEF h
  <1>4. /\ heads' \in Seq(Override) /\ DOMAIN heads \subseteq DOMAIN heads'
        /\ \A i \in DOMAIN heads' : IF i \in DOMAIN heads THEN heads'[i] = heads[i] ELSE heads'[i] = h
    BY <1>1, <1>3 DEF AssignedInvariant, Shape
  <1>5. OnlyNames({c.user})
    BY <1>3, <1>4, OverrideIs DEF AssignedInvariant, OnlyNames
  <1>6. {c.user} \subseteq commandUserIDs(c)
    BY <1>2, NamedAreLocked
  <1> HIDE DEF c
  <1>7. /\ Live /\ c # None /\ Answered(o) /\ UNCHANGED <<now, chain, members, erased, erasing>>
        /\ heads' \in Seq(Override) /\ DOMAIN heads \subseteq DOMAIN heads'
        /\ {c.user} \subseteq members \ erased
    BY <1>1, <1>2, <1>4
  <1> QED BY <1>5, <1>6, <1>7, OverrideStep DEF c

LEMMA CancelKeepsAssigned ==
  ASSUME AssignedInvariant, NEW o \in Operators, CancelCommits(o)
  PROVE  AssignedInvariant'
  <1> DEFINE c == op[o]
             h == Ended(heads[c.id], now)
  <1>1. /\ c.kind = "cancel" /\ Live /\ Answered(o)
        /\ heads' = [heads EXCEPT ![c.id] = h]
        /\ UNCHANGED <<now, chain, members, erased, erasing>>
    BY DEF CancelCommits, CancelHolds, liveOverrideHead
  <1>2. c # None
    BY <1>1 DEF None
  <1>3. c.id \in DOMAIN heads /\ heads[c.id] \in Override
    BY <1>1 DEF AssignedInvariant, Asked, Shape
  <1>4. /\ h \in Override /\ h.user = heads[c.id].user /\ h.to <= heads[c.id].to
        /\ ~h.deleted => ~heads[c.id].deleted
    BY <1>3, EndedShrinks DEF AssignedInvariant, Shape
  <1> HIDE DEF h
  <1>5. /\ heads' \in Seq(Override) /\ DOMAIN heads' = DOMAIN heads
        /\ heads'[c.id] = h /\ \A i \in DOMAIN heads \ {c.id} : heads'[i] = heads[i]
    BY <1>1, <1>3, <1>4 DEF AssignedInvariant, Shape
  <1>6. OnlyNames({})
    BY <1>4, <1>5, OverrideIs DEF AssignedInvariant, OnlyNames
  <1> QED BY <1>1, <1>2, <1>5, <1>6, OverrideStep

LEMMA UpdateKeepsAssigned ==
  ASSUME AssignedInvariant, NEW o \in Operators, UpdateCommits(o)
  PROVE  AssignedInvariant'
  <1> DEFINE c == op[o]
             was == heads[c.id]
  <1>1. /\ c.kind = "update" /\ Live /\ ValidateMembership(c) /\ Answered(o)
        /\ heads' = IF Started(was) THEN Split(c) ELSE Replaced(c)
        /\ UNCHANGED <<now, chain, members, erased, erasing>>
    BY DEF UpdateCommits, UpdateHolds, liveOverrideHead
  <1>2. c # None /\ Named(c) = {c.user} /\ {c.user} \subseteq members \ erased
    BY <1>1, OverrideNames DEF None, ValidateMembership
  <1>3. {c.user} \subseteq commandUserIDs(c)
    BY <1>2, NamedAreLocked
  <1>4. c.id \in DOMAIN heads /\ was \in Override /\ c.user \in Users /\ c.span \in [from : Int, to : Int]
    BY <1>1, DutyAssumption DEF AssignedInvariant, Asked, Shape
  <1>5. now \in Int /\ heads \in Seq(Override)
    BY DEF AssignedInvariant, Shape
  <1>6. heads' \in Seq(Override) /\ DOMAIN heads \subseteq DOMAIN heads' /\ OnlyNames({c.user})
    <2>1. CASE Started(was)
      <3> DEFINE h == Ended(was, now)
                 cut == [heads EXCEPT ![c.id] = h]
                 new == Stands(c.user, [from |-> now, to |-> c.span.to])
      <3>1. heads' = Append(cut, new)
        BY <1>1, <2>1 DEF Split
      <3>2. /\ h \in Override /\ h.user = was.user /\ h.to <= was.to
            /\ ~h.deleted => ~was.deleted
        BY <1>4, <1>5, EndedShrinks
      <3>3. new \in Override /\ new.user = c.user
        <4>1. c.span.to \in Int
          BY <1>4
        <4> QED BY <1>4, <1>5, <4>1, StandsIs
      <3> HIDE DEF h, new
      <3>4. /\ cut \in Seq(Override) /\ DOMAIN cut = DOMAIN heads /\ Len(cut) = Len(heads)
            /\ cut[c.id] = h /\ \A i \in DOMAIN heads \ {c.id} : cut[i] = heads[i]
        BY <1>4, <1>5, <3>2
      <3> HIDE DEF cut
      <3>5. /\ heads' \in Seq(Override) /\ DOMAIN heads \subseteq DOMAIN heads'
            /\ \A i \in DOMAIN heads' : IF i \in DOMAIN heads THEN heads'[i] = cut[i] ELSE heads'[i] = new
        BY <3>1, <3>3, <3>4
      <3>6. OnlyNames({c.user})
        BY <3>2, <3>3, <3>4, <3>5, <1>4, OverrideIs DEF AssignedInvariant, OnlyNames
      <3> QED BY <3>5, <3>6
    <2>2. CASE ~Started(was)
      <3> DEFINE g == Stands(c.user, c.span)
                 h == [g EXCEPT !.revision = was.revision + 1]
      <3>1. heads' = [heads EXCEPT ![c.id] = h]
        BY <1>1, <2>2 DEF Replaced
      <3>2. g \in Override /\ g.user = c.user /\ was.revision + 1 \in Int
        BY <1>4 DEF Stands, Override
      <3> HIDE DEF g
      <3>3. h \in Override /\ h.user = c.user
        BY <3>2 DEF Override
      <3> HIDE DEF h
      <3>4. /\ heads' \in Seq(Override) /\ DOMAIN heads' = DOMAIN heads
            /\ heads'[c.id] = h /\ \A i \in DOMAIN heads \ {c.id} : heads'[i] = heads[i]
        BY <1>4, <1>5, <3>1, <3>3
      <3>5. OnlyNames({c.user})
        BY <3>3, <3>4, OverrideIs DEF AssignedInvariant, OnlyNames
      <3> QED BY <3>4, <3>5
    <2> QED BY <2>1, <2>2
  <1> HIDE DEF c
  <1>7. /\ Live /\ Answered(o) /\ UNCHANGED <<now, chain, members, erased, erasing>>
    BY <1>1
  <1> QED BY <1>2, <1>3, <1>6, <1>7, OverrideStep DEF c

LEMMA RefusedKeepsAssigned ==
  ASSUME AssignedInvariant, NEW o \in Operators, Refused(o)
  PROVE  AssignedInvariant'
  <1>1. Answered(o) /\ UNCHANGED <<now, chain, heads, members, erased, erasing>>
    BY DEF Refused
  <1>2. CommandsHold' /\ Asked'
    BY <1>1, AnsweredHolds
  <1>3. TailRevision' = TailRevision /\ (Exists' <=> Exists) /\ (Live' <=> Live)
    BY <1>1 DEF TailRevision, Exists, Live
  <1>4. Shape' /\ DeletedLeavesNone'
    BY <1>1, <1>3 DEF AssignedInvariant, Shape, DeletedLeavesNone
  <1>5. Assigned' = Assigned
    BY <1>1, <1>3 DEF Assigned, Reaches
  <1> QED BY <1>1, <1>2, <1>3, <1>4, <1>5 DEF AssignedInvariant

LEMMA DutyStepKeepsAssigned ==
  ASSUME AssignedInvariant, [DutyNext]_dutyVars PROVE AssignedInvariant'
  <1>1. CASE Pass
    BY <1>1, PassHolds
  <1>2. CASE \E u \in Users : RemoveTeamMember(u) \/ AddTeamMember(u) \/ EraseLocks(u)
    BY <1>2, MembersHold, EraseLocksKeepsAssigned
  <1>3. CASE EraseCommits
    BY <1>3, EraseCommitsKeepsAssigned
  <1>4. ASSUME NEW o \in Operators, Command(o) PROVE AssignedInvariant'
    BY <1>4, SendKeepsAssigned, SaveKeepsAssigned, DeleteKeepsAssigned, CreateKeepsAssigned,
       UpdateKeepsAssigned, CancelKeepsAssigned, RefusedKeepsAssigned DEF Command
  <1>5. CASE UNCHANGED dutyVars
    <2>1. ScheduleStays /\ now' \in Int /\ now' >= now /\ UNCHANGED <<members, erased, erasing>>
      BY <1>5 DEF dutyVars, ScheduleStays, AssignedInvariant, Shape
    <2>2. Shape' /\ Asked' /\ DeletedLeavesNone' /\ (Live' <=> Live) /\ Assigned' \subseteq Assigned
      BY <2>1, ShapeStays, AssignedStays DEF AssignedInvariant
    <2>3. CommandsHold'
      BY <2>1 DEF AssignedInvariant, CommandsHold, ScheduleStays, Erasing
    <2> QED BY <2>1, <2>2, <2>3 DEF AssignedInvariant
  <1> QED BY <1>1, <1>2, <1>3, <1>4, <1>5 DEF DutyNext, People

LEMMA AssignedInitially == Init => AssignedInvariant
  <1> SUFFICES ASSUME Init PROVE AssignedInvariant
    OBVIOUS
  <1> DEFINE first == [kind |-> "active", from |-> 0, cfg |-> FirstConfiguration,
                       phase |-> Reanchor(FirstConfiguration, 0, 1)]
  <1>1. /\ now = 0 /\ chain \in {<<>>, <<first>>} /\ heads = <<>> /\ members = Team
        /\ erased = {} /\ op = [o \in Operators |-> None] /\ erasing = None
    BY DEF Init, DutyInit
  <1>2. first.from = 0 /\ first.kind = "active" /\ first.cfg = FirstConfiguration
    OBVIOUS
  <1> HIDE DEF first
  <1>3. IsSequence(chain)
    <2>1. <<>> \in Seq({first}) /\ <<first>> \in Seq({first})
      OBVIOUS
    <2>2. chain \in Seq({first})
      BY <1>1, <2>1
    <2> QED BY <2>2 DEF IsSequence
  <1>4. Exists => TailRevision = first
    BY <1>1 DEF Exists, TailRevision
  <1>5. heads \in Seq(Override) /\ DOMAIN heads = {}
    BY <1>1
  <1>6. Shape /\ DeletedLeavesNone
    BY <1>1, <1>2, <1>3, <1>4, <1>5 DEF Shape, DeletedLeavesNone
  <1>7. Asked /\ CommandsHold
    BY <1>1 DEF Asked, CommandsHold, None
  <1>8. Live => Assigned \subseteq members \ erased
    BY <1>1, <1>2, <1>4, <1>5, DutyAssumption DEF Live, Assigned
  <1> QED BY <1>1, <1>6, <1>7, <1>8 DEF AssignedInvariant

(* Whom the schedule in force or an override to come puts on duty is in the *)
(* team and was not erased, for any number of people, commands, spans and   *)
(* configurations: the invariant adds what the locks give, that nobody a    *)
(* command under way names is being erased, and what a deletion leaves      *)
(* (service.go Save, Delete, RemoveTeamMember; override.go; erasure         *)
(* guardAssignments).                                                       *)
THEOREM AssignedPeopleAreHere == Spec => []AssignedAreHere
  <1>1. AssignedInvariant /\ [Next]_vars => AssignedInvariant'
    BY WatchersOnlyWatch, DutyStepKeepsAssigned
  <1>2. AssignedInvariant => AssignedAreHere
    <2> SUFFICES ASSUME AssignedInvariant, Live PROVE
             /\ ConfigurationUserIDs(TailRevision.cfg) \subseteq members \ erased
             /\ \A i \in DOMAIN heads :
                  ~heads[i].deleted /\ heads[i].to > Greatest({now, TailRevision.from})
                    => heads[i].user \in members \ erased
      BY DEF AssignedAreHere
    <2>1. now \in Int /\ TailRevision.from \in Int
      BY DEF AssignedInvariant, Shape, Live
    <2>2. ASSUME NEW i \in DOMAIN heads, ~heads[i].deleted,
                 heads[i].to > Greatest({now, TailRevision.from})
          PROVE  Reaches(heads[i])
      BY <2>1, <2>2, OverrideIs, GreatestOfTwo DEF AssignedInvariant, Reaches
    <2> QED BY <2>2 DEF AssignedInvariant, Assigned
  <1> QED BY <1>1, <1>2, AssignedInitially, PTL DEF Spec

\* -------------------------------------------------------------------------
\* The least of a set, and induction over the naturals.

\* The least of a set is what bounds it from below.
LEMMA LeastIs ==
  ASSUME NEW S \in SUBSET Int, NEW x \in S, \A y \in S : x <= y
  PROVE  LeastOf(S) = x
  <1>1. LeastOf(S) \in S /\ \A y \in S : LeastOf(S) <= y
    BY DEF LeastOf
  <1> HIDE DEF LeastOf
  <1>2. LeastOf(S) \in Int /\ x \in Int /\ LeastOf(S) <= x /\ x <= LeastOf(S)
    BY <1>1
  <1> QED BY <1>2

\* Every set of naturals that is not empty has a least number: the naturals
\* are well founded.
LEMMA LeastExists ==
  ASSUME NEW S \in SUBSET Nat, S # {}
  PROVE  LeastOf(S) \in S /\ \A y \in S : LeastOf(S) <= y
  <1> DEFINE R == OpToRel(<, Nat)
  <1>1. PICK x \in S : \A y \in S : ~(<<y, x>> \in R)
    <2>1. IsWellFoundedOn(R, Nat)
      BY NatLessThanWellFounded
    <2> HIDE DEF R
    <2> QED BY <2>1, WFMin
  <1>2. \A y \in S : y < x => <<y, x>> \in R
    BY DEF OpToRel
  <1> HIDE DEF R
  <1>3. \A y \in S : ~(y < x)
    BY <1>1, <1>2
  <1>4. \A y \in S : x <= y
    BY <1>3
  <1> QED BY <1>4 DEF LeastOf

\* A set of naturals with 0 and the successor of each of its members is Nat.
LEMMA Inductive ==
  ASSUME NEW S \in SUBSET Nat, 0 \in S, \A n \in S : n + 1 \in S
  PROVE  S = Nat
  <1> SUFFICES ASSUME Nat \ S # {} PROVE FALSE
    OBVIOUS
  <1> DEFINE m == LeastOf(Nat \ S)
  <1>1. m \in Nat \ S /\ \A y \in Nat \ S : m <= y
    BY LeastExists
  <1> HIDE DEF m
  <1>2. m - 1 \in Nat /\ m - 1 \notin S
    BY <1>1
  <1> QED BY <1>1, <1>2

\* -------------------------------------------------------------------------
\* Remainders.

\* What remains of a multiple and a number below the divisor.
LEMMA Remainder ==
  ASSUME NEW n \in Nat \ {0}, NEW q \in Int, NEW r \in 0 .. (n - 1)
  PROVE  (n * q + r) % n = r
  OBVIOUS

\* A number below the divisor is its own remainder.
LEMMA SmallRemainder ==
  ASSUME NEW n \in Nat \ {0}, NEW x \in 0 .. (n - 1)
  PROVE  x % n = x
  OBVIOUS

\* A number is its quotient and its remainder.
LEMMA Divided ==
  ASSUME NEW x \in Int, NEW n \in Nat \ {0}
  PROVE  x \div n \in Int /\ x % n \in 0 .. (n - 1) /\ x = n * (x \div n) + (x % n)
  OBVIOUS

\* One more is the next position, round to the first.
LEMMA NextPosition ==
  ASSUME NEW x \in Int, NEW n \in Nat \ {0}
  PROVE  (x + 1) % n = ((x % n) + 1) % n
  <1> DEFINE q == x \div n
             r == x % n
  <1>1. q \in Int /\ r \in 0 .. (n - 1) /\ x = n * q + r
    BY Divided
  <1> HIDE DEF q, r
  <1>2. CASE r = n - 1
    <2>1. x + 1 = n * (q + 1) + 0 /\ r + 1 = n * 1 + 0
      BY <1>1, <1>2
    <2>2. (x + 1) % n = 0
      BY <2>1, <1>1, Remainder
    <2>3. (r + 1) % n = 0
      BY <2>1, <1>1, Remainder
    <2> QED BY <2>2, <2>3 DEF r
  <1>3. CASE r # n - 1
    <2>1. x + 1 = n * q + (r + 1) /\ r + 1 = n * 0 + (r + 1) /\ r + 1 \in 0 .. (n - 1)
      BY <1>1, <1>3
    <2>2. (x + 1) % n = r + 1
      BY <2>1, <1>1, Remainder
    <2>3. (r + 1) % n = r + 1
      BY <2>1, <1>1, Remainder
    <2> QED BY <2>2, <2>3 DEF r
  <1> QED BY <1>2, <1>3

\* -------------------------------------------------------------------------
\* What a local time resolves to.

\* Where a local time falls: the clock before the change, the clock after it,
\* or the gap that the change left.
LEMMA ResolvedIs ==
  ASSUME NEW z, z.at \in Int, z.before \in Int, z.after \in Int, NEW l \in Int
  PROVE  resolveLocalBoundary(z, l) =
           IF l - z.before >= z.at /\ l - z.after >= z.at THEN l - z.after ELSE l - z.before
  <1> DEFINE b == z.before
             a == z.after
             Seen(x) == localOccurrences(z, x)
  <1>1. \A x \in Int : Seen(x) = (IF x - b < z.at THEN {x - b} ELSE {})
                                   \cup (IF x - a >= z.at THEN {x - a} ELSE {})
    BY DEF localOccurrences, LocalAt, OffsetAt
  <1> HIDE DEF Seen
  <1>2. resolveLocalBoundary(z, l) = IF Seen(l) # {} THEN LeastOf(Seen(l))
                                     ELSE LeastOf(Seen(l + gapSize(z)))
    BY DEF resolveLocalBoundary, Seen
  <1>3. CASE l - b < z.at
    <2>1. l - b \in Seen(l) /\ Seen(l) \in SUBSET Int /\ \A y \in Seen(l) : l - b <= y
      BY <1>1, <1>3
    <2>2. LeastOf(Seen(l)) = l - b
      BY <2>1, LeastIs
    <2> QED BY <1>2, <1>3, <2>1, <2>2
  <1>4. CASE l - b >= z.at /\ l - a >= z.at
    <2>1. Seen(l) = {l - a}
      BY <1>1, <1>4
    <2>2. LeastOf(Seen(l)) = l - a
      BY <2>1, LeastIs
    <2> QED BY <1>2, <1>4, <2>1, <2>2
  <1>5. CASE l - b >= z.at /\ l - a < z.at
    <2>1. Seen(l) = {} /\ gapSize(z) = a - b /\ l + (a - b) \in Int
      BY <1>1, <1>5 DEF gapSize
    <2>2. Seen(l + (a - b)) = {l - b}
      BY <1>1, <1>5, <2>1
    <2>3. LeastOf({l - b}) = l - b
      <3> DEFINE r == l - b
      <3>1. r \in Int
        BY <2>1
      <3> HIDE DEF r
      <3>2. {r} \in SUBSET Int /\ r \in {r} /\ \A y \in {r} : r <= y
        BY <3>1
      <3>3. LeastOf({r}) = r
        BY <3>2, LeastIs
      <3> QED BY <3>3 DEF r
    <2> QED BY <1>2, <1>5, <2>1, <2>2, <2>3
  <1> QED BY <1>3, <1>4, <1>5

\* The dates a grid hands over on.
OnGrid(g, d) == d \in Int /\ (g.step = 1 \/ d % Week = g.weekday)

\* The local time of a date's handover.
HandoverOf(g, d) == d * Day + g.hour

\* A handover is the local hour by one of the two clocks.
LEMMA ResolveIs ==
  ASSUME NEW g, IsGrid(g), NEW d \in Int
  PROVE  /\ HandoverOf(g, d) \in Int /\ Resolve(g, d) \in Int
         /\ Resolve(g, d) =
              IF HandoverOf(g, d) - g.zone.before >= g.zone.at /\ HandoverOf(g, d) - g.zone.after >= g.zone.at
              THEN HandoverOf(g, d) - g.zone.after ELSE HandoverOf(g, d) - g.zone.before
  <1>1. g.zone.at \in Int /\ g.zone.before \in Int /\ g.zone.after \in Int
    BY GridAssumption DEF IsGrid
  <1>2. HandoverOf(g, d) \in Int
    BY GridAssumption DEF IsGrid, HandoverOf
  <1> QED BY <1>1, <1>2, ResolvedIs DEF Resolve, HandoverOf

\* A later date is not resolved earlier, and the date after it is later.
LEMMA DatesKeepTheirOrder ==
  ASSUME NEW g, IsGrid(g), NEW d \in Int, NEW e \in Int, d < e
  PROVE  /\ Resolve(g, d) <= Resolve(g, e)
         /\ d + 1 < e => Resolve(g, d) < Resolve(g, e)
  <1> DEFINE l == HandoverOf(g, d)
             m == HandoverOf(g, e)
  <1>1. l \in Int /\ m \in Int
    BY ResolveIs
  <1>2. m - l = (e - d) * Day /\ Day \in Nat \ {0}
    BY GridAssumption DEF HandoverOf, IsGrid
  <1>3. m - l >= Day
    BY <1>2
  <1>4. d + 1 < e => m - l >= 2 * Day
    BY <1>2
  <1>5. /\ g.zone.at \in Int /\ g.zone.before \in Int /\ g.zone.after \in Int
        /\ g.zone.after - g.zone.before <= Day
    BY GridAssumption DEF IsGrid
  <1>6. /\ Resolve(g, d) = (IF l - g.zone.before >= g.zone.at /\ l - g.zone.after >= g.zone.at
                            THEN l - g.zone.after ELSE l - g.zone.before)
        /\ Resolve(g, e) = (IF m - g.zone.before >= g.zone.at /\ m - g.zone.after >= g.zone.at
                            THEN m - g.zone.after ELSE m - g.zone.before)
    BY ResolveIs
  <1> HIDE DEF l, m
  <1> QED BY <1>1, <1>2, <1>3, <1>4, <1>5, <1>6

\* A step is of one date at least.
LEMMA StepsOfAGrid ==
  ASSUME NEW g, IsGrid(g)
  PROVE  /\ g.step \in Nat \ {0} /\ Day \in Nat \ {0} /\ Week \in Nat \ {0}
         /\ g.weekday \in 0 .. (Week - 1)
         /\ \A d : OnGrid(g, d) => OnGrid(g, d + g.step) /\ OnGrid(g, d - g.step)
         /\ \A d, e : OnGrid(g, d) /\ OnGrid(g, e) /\ d < e => d + g.step <= e
  <1>1. g.step \in {1, Week} /\ Day \in Nat \ {0} /\ Week \in Nat \ {0} /\ g.weekday \in 0 .. (Week - 1)
    BY GridAssumption DEF IsGrid
  <1>2. CASE g.step = 1
    BY <1>1, <1>2 DEF OnGrid
  <1>3. CASE g.step # 1
    <2>1. g.step = Week
      BY <1>1, <1>3
    <2>2. ASSUME NEW d, OnGrid(g, d)
          PROVE  OnGrid(g, d + Week) /\ OnGrid(g, d - Week)
      <3> DEFINE q == d \div Week
      <3>1. d \in Int /\ d % Week = g.weekday
        BY <1>3, <2>2 DEF OnGrid
      <3>2. q \in Int /\ d = Week * q + g.weekday
        BY <1>1, <3>1, Divided
      <3> HIDE DEF q
      <3>3. d + Week = Week * (q + 1) + g.weekday /\ d - Week = Week * (q - 1) + g.weekday
        BY <1>1, <3>2
      <3>4. \A r \in Int : (Week * r + g.weekday) % Week = g.weekday
        BY <1>1, Remainder
      <3>5. (d + Week) % Week = g.weekday /\ (d - Week) % Week = g.weekday
        <4>1. q + 1 \in Int /\ q - 1 \in Int
          BY <3>2
        <4> QED BY <4>1, <3>3, <3>4
      <3> QED BY <1>1, <3>1, <3>5 DEF OnGrid
    <2>3. ASSUME NEW d, NEW e, OnGrid(g, d), OnGrid(g, e), d < e
          PROVE  d + Week <= e
      <3> DEFINE q == d \div Week
                 p == e \div Week
      <3>1. d \in Int /\ d % Week = g.weekday /\ e \in Int /\ e % Week = g.weekday
        BY <1>3, <2>3 DEF OnGrid
      <3>2. q \in Int /\ d = Week * q + g.weekday /\ p \in Int /\ e = Week * p + g.weekday
        BY <1>1, <3>1, Divided
      <3> HIDE DEF q, p
      <3>3. q < p
        BY <1>1, <2>3, <3>2
      <3>4. Week * q + Week <= Week * p
        BY <1>1, <3>2, <3>3
      <3> QED BY <1>1, <3>2, <3>4
    <2> QED BY <1>1, <2>1, <2>2, <2>3
  <1> QED BY <1>1, <1>2, <1>3

\* -------------------------------------------------------------------------
\* The boundaries of a grid, one after the other.

IsCursor(g, c) == OnGrid(g, c.date) /\ c = Cursor(g, c.date)

\* No date of the grid is handed over between the two.
NoneBetween(g, low, high) ==
    \A d : OnGrid(g, d) => Resolve(g, d) <= low \/ Resolve(g, d) >= high

\* The cursor of a date that the grid hands over at.
LEMMA CursorIs ==
  ASSUME NEW g, IsGrid(g), NEW d, OnGrid(g, d)
  PROVE  /\ IsCursor(g, Cursor(g, d)) /\ Cursor(g, d).date = d
         /\ Cursor(g, d).at = Resolve(g, d) /\ Resolve(g, d) \in Int
  BY ResolveIs DEF IsCursor, Cursor, OnGrid

\* A cursor stands on a date that the grid hands over at.
LEMMA CursorHas ==
  ASSUME NEW g, IsGrid(g), NEW c, IsCursor(g, c)
  PROVE  /\ OnGrid(g, c.date) /\ c.date \in Int /\ c.at = Resolve(g, c.date) /\ c.at \in Int
  <1>1. OnGrid(g, c.date) /\ c = Cursor(g, c.date)
    BY DEF IsCursor
  <1>2. Cursor(g, c.date).at = Resolve(g, c.date)
    BY DEF Cursor
  <1> QED BY <1>1, <1>2, ResolveIs DEF OnGrid

\* The search for the next boundary ends within the reach of the grid, and
\* finds the very next one.
LEMMA NextIsNext ==
  ASSUME NEW g, IsGrid(g), NEW c, IsCursor(g, c)
  PROVE  /\ IsCursor(g, nextAfter(g, c)) /\ nextAfter(g, c).at > c.at
         /\ nextAfter(g, c).date >= c.date + g.step
         /\ NoneBetween(g, c.at, nextAfter(g, c).at)
  <1> DEFINE s == g.step
             Later(i) == Resolve(g, c.date + i * s) > c.at
             K == {i \in 1 .. Reach(g) : Later(i)}
             k == LeastOf(K)
  <1>1. s \in Nat \ {0} /\ Day \in Nat \ {0}
    BY StepsOfAGrid
  <1>2. /\ OnGrid(g, c.date) /\ c.date \in Int /\ c.at = Resolve(g, c.date) /\ c.at \in Int
    BY CursorHas
  <1>3. Reach(g) \in Int /\ Reach(g) >= 2
    <2>1. gapSize(g.zone) \in Nat /\ s * Day \in Nat \ {0}
      BY <1>1, GridAssumption DEF gapSize, IsGrid
    <2>2. gapSize(g.zone) \div (s * Day) \in Nat
      BY <2>1
    <2>3. g.zone.before \in Int /\ g.zone.after \in Int
      BY GridAssumption DEF IsGrid
    <2>4. g.zone.before > g.zone.after => (g.zone.before - g.zone.after) \div Day \in Nat
      BY <1>1, <2>3
    <2> HIDE DEF s
    <2> QED BY <2>2, <2>4 DEF Reach, s
  <1>4. OnGrid(g, c.date + s) /\ OnGrid(g, c.date + 2 * s)
    <2>1. OnGrid(g, c.date + s) /\ OnGrid(g, (c.date + s) + s)
      BY <1>2, StepsOfAGrid
    <2>2. (c.date + s) + s = c.date + 2 * s
      BY <1>1, <1>2
    <2> QED BY <2>1, <2>2
  <1>5. Later(2)
    <2>1. c.date + 2 * s \in Int /\ c.date + 1 < c.date + 2 * s
      BY <1>1, <1>2
    <2> QED BY <2>1, <1>2, DatesKeepTheirOrder
  <1>6. k \in K /\ (\A i \in K : k <= i) /\ k \in {1, 2}
    <2>1. 2 \in K /\ K \in SUBSET Nat
      BY <1>3, <1>5
    <2> HIDE DEF K
    <2>2. k \in K /\ \A i \in K : k <= i
      BY <2>1, LeastExists
    <2>3. k \in Nat /\ k <= 2 /\ k # 0
      BY <2>1, <2>2 DEF K
    <2> QED BY <2>2, <2>3
  <1>7. nextAfter(g, c) = Cursor(g, c.date + k * s)
    BY DEF nextAfter
  <1> DEFINE n == c.date + k * s
  <1> HIDE DEF k
  <1>8. OnGrid(g, n) /\ n \in Int /\ n >= c.date + s
    BY <1>1, <1>2, <1>4, <1>6 DEF OnGrid
  <1>9. Resolve(g, n) > c.at
    BY <1>6
  <1>10. NoneBetween(g, c.at, Resolve(g, n))
    <2> SUFFICES ASSUME NEW d, OnGrid(g, d)
                 PROVE  Resolve(g, d) <= c.at \/ Resolve(g, d) >= Resolve(g, n)
      BY DEF NoneBetween
    <2>1. d \in Int /\ Resolve(g, d) \in Int /\ Resolve(g, n) \in Int
      BY <1>8, ResolveIs DEF OnGrid
    <2>2. CASE d <= c.date
      BY <2>1, <2>2, <1>2, DatesKeepTheirOrder
    <2>3. CASE d >= n
      BY <2>1, <2>3, <1>8, DatesKeepTheirOrder
    <2>4. CASE c.date < d /\ d < n
      <3>1. c.date + s <= d /\ d + s <= n
        BY <2>4, <1>2, <1>8, StepsOfAGrid
      <3>2. k = 2 /\ d = c.date + 1 * s
        <4>1. s \in Int /\ c.date \in Int /\ d \in Int /\ k \in {1, 2}
          BY <2>1, <1>1, <1>2, <1>6
        <4>2. k = 1 => n = c.date + s
          BY <4>1
        <4>3. k = 2 => n = c.date + 2 * s
          BY <4>1
        <4> HIDE DEF n, s
        <4> QED BY <4>1, <4>2, <4>3, <3>1, <2>4
      <3>3. 1 \notin K /\ 1 \in 1 .. Reach(g)
        BY <3>2, <1>3, <1>6
      <3>4. ~Later(1)
        BY <3>3
      <3> QED BY <3>2, <3>4, <2>1, <1>2
    <2> QED BY <2>1, <2>2, <2>3, <2>4, <1>2, <1>8
  <1> HIDE DEF n
  <1> QED BY <1>7, <1>8, <1>9, <1>10, CursorIs DEF n

\* -------------------------------------------------------------------------
\* Walking from one boundary on.

WalksTo(g, c, n, f) == f = [i \in 0 .. n |-> IF i = 0 THEN c ELSE nextAfter(g, f[i - 1])]

\* A walk of any length is well defined.
LEMMA WalkExists ==
  ASSUME NEW g, NEW c, NEW n \in Nat
  PROVE  WalksTo(g, c, n, Walk(g, c, n))
  <1> DEFINE S == {m \in Nat : \E f : WalksTo(g, c, m, f)}
  <1>1. 0 \in S
    <2>1. WalksTo(g, c, 0, [i \in 0 .. 0 |-> c])
      BY DEF WalksTo
    <2> QED BY <2>1
  <1>2. ASSUME NEW m \in S PROVE m + 1 \in S
    <2>1. m \in Nat
      OBVIOUS
    <2>2. PICK f : WalksTo(g, c, m, f)
      OBVIOUS
    <2> DEFINE h == [i \in 0 .. (m + 1) |-> IF i = m + 1 THEN nextAfter(g, f[m]) ELSE f[i]]
    <2>3. ASSUME NEW i \in 0 .. (m + 1)
          PROVE  h[i] = IF i = 0 THEN c ELSE nextAfter(g, h[i - 1])
      <3>1. CASE i = 0
        <4>1. 0 \in 0 .. m /\ i # m + 1
          BY <2>1, <3>1
        <4> QED BY <4>1, <3>1, <2>2 DEF WalksTo
      <3>2. CASE i \in 1 .. m
        <4>1. i \in 0 .. m /\ i - 1 \in 0 .. (m + 1) /\ i - 1 # m + 1 /\ i # m + 1 /\ i # 0
          BY <2>1, <3>2
        <4>2. f[i] = nextAfter(g, f[i - 1])
          BY <4>1, <2>2 DEF WalksTo
        <4> QED BY <4>1, <4>2
      <3>3. CASE i = m + 1
        <4>1. i - 1 = m /\ m \in 0 .. (m + 1) /\ m # m + 1 /\ i # 0
          BY <2>1, <3>3
        <4> QED BY <4>1, <3>3
      <3> QED BY <2>1, <3>1, <3>2, <3>3
    <2>4. h = [i \in 0 .. (m + 1) |-> h[i]]
      OBVIOUS
    <2> HIDE DEF h
    <2>5. WalksTo(g, c, m + 1, h)
      BY <2>3, <2>4 DEF WalksTo
    <2> QED BY <2>1, <2>5
  <1> HIDE DEF S
  <1>3. S = Nat
    <2>1. S \in SUBSET Nat
      BY DEF S
    <2> QED BY <1>1, <1>2, <2>1, Inductive
  <1>4. PICK w : WalksTo(g, c, n, w)
    BY <1>3 DEF S
  <1>5. Walk(g, c, n) = CHOOSE f : WalksTo(g, c, n, f)
    BY DEF Walk, WalksTo
  <1> QED BY <1>4, <1>5

\* The walk from a cursor, by its defining equation.
LEMMA WalkIs ==
  ASSUME NEW g, NEW c, NEW n \in Nat
  PROVE  /\ Walk(g, c, n)[0] = c
         /\ \A i \in 0 .. (n - 1) : Walk(g, c, n)[i + 1] = nextAfter(g, Walk(g, c, n)[i])
  <1> DEFINE w == Walk(g, c, n)
  <1>1. WalksTo(g, c, n, w)
    BY WalkExists
  <1> HIDE DEF w
  <1>2. \A i \in 0 .. n : w[i] = IF i = 0 THEN c ELSE nextAfter(g, w[i - 1])
    BY <1>1 DEF WalksTo
  <1>3. w[0] = c
    BY <1>2
  <1>4. ASSUME NEW i \in 0 .. (n - 1) PROVE w[i + 1] = nextAfter(g, w[i])
    <2>1. i + 1 \in 0 .. n /\ i + 1 # 0 /\ (i + 1) - 1 = i
      OBVIOUS
    <2>2. w[i + 1] = nextAfter(g, w[(i + 1) - 1])
      BY <2>1, <1>2
    <2> QED BY <2>1, <2>2
  <1> QED BY <1>3, <1>4 DEF w

\* A longer walk goes the same way.
LEMMA WalksAgree ==
  ASSUME NEW g, NEW c, NEW n \in Nat, NEW m \in Nat, n <= m
  PROVE  \A i \in 0 .. n : Walk(g, c, n)[i] = Walk(g, c, m)[i]
  <1> DEFINE v == Walk(g, c, n)
             w == Walk(g, c, m)
             S == {i \in Nat : i <= n => v[i] = w[i]}
  <1>1. v[0] = w[0] /\ \A i \in 0 .. (n - 1) : v[i + 1] = nextAfter(g, v[i]) /\ w[i + 1] = nextAfter(g, w[i])
    BY WalkIs
  <1> HIDE DEF v, w
  <1>2. 0 \in S
    BY <1>1
  <1>3. ASSUME NEW i \in S PROVE i + 1 \in S
    <2>1. i \in Nat /\ (i + 1 <= n => i \in 0 .. (n - 1) /\ v[i] = w[i])
      OBVIOUS
    <2>2. i + 1 <= n => v[i + 1] = w[i + 1]
      BY <2>1, <1>1
    <2> QED BY <2>1, <2>2
  <1>4. S = Nat
    <2>1. S \in SUBSET Nat
      OBVIOUS
    <2> HIDE DEF S
    <2> QED BY <1>2, <1>3, <2>1, Inductive
  <1>5. \A i \in 0 .. n : v[i] = w[i]
    BY <1>4
  <1> QED BY <1>5 DEF v, w

\* Every step of a walk is the next boundary, on a later date and later.
LEMMA WalkSteps ==
  ASSUME NEW g, IsGrid(g), NEW c, IsCursor(g, c), NEW n \in Nat
  PROVE  /\ Walk(g, c, n)[0] = c
         /\ \A i \in 0 .. n :
              /\ IsCursor(g, Walk(g, c, n)[i])
              /\ Walk(g, c, n)[i].at >= c.at + i
              /\ Walk(g, c, n)[i].date >= c.date + i * g.step
         /\ \A i \in 0 .. (n - 1) :
              /\ Walk(g, c, n)[i + 1].at > Walk(g, c, n)[i].at
              /\ NoneBetween(g, Walk(g, c, n)[i].at, Walk(g, c, n)[i + 1].at)
  <1> DEFINE w == Walk(g, c, n)
             Good(i) == IsCursor(g, w[i]) /\ w[i].at >= c.at + i /\ w[i].date >= c.date + i * g.step
             S == {i \in Nat : i <= n => Good(i)}
  <1>1. w[0] = c /\ \A i \in 0 .. (n - 1) : w[i + 1] = nextAfter(g, w[i])
    BY WalkIs
  <1> HIDE DEF w
  <1>2. g.step \in Nat \ {0}
    BY StepsOfAGrid
  <1>3. c.at \in Int /\ c.date \in Int
    BY CursorHas
  <1>4. 0 \in S
    BY <1>1, <1>2, <1>3
  <1>5. ASSUME NEW i \in S PROVE i + 1 \in S
    <2>1. i \in Nat
      OBVIOUS
    <2>2. CASE i + 1 <= n
      <3>1. i \in 0 .. (n - 1) /\ Good(i)
        BY <2>1, <2>2
      <3>2. w[i + 1] = nextAfter(g, w[i])
        BY <3>1, <1>1
      <3>3. /\ IsCursor(g, w[i + 1]) /\ w[i + 1].at > w[i].at
            /\ w[i + 1].date >= w[i].date + g.step
        BY <3>1, <3>2, NextIsNext
      <3>4. /\ w[i].at \in Int /\ w[i].date \in Int /\ w[i + 1].at \in Int /\ w[i + 1].date \in Int
        BY <3>1, <3>3, CursorHas
      <3>5. (i + 1) * g.step = i * g.step + g.step
        BY <2>1, <1>2
      <3>6. i * g.step \in Int
        BY <2>1, <1>2
      <3>7. w[i + 1].at >= c.at + (i + 1) /\ w[i + 1].date >= c.date + (i + 1) * g.step
        BY <2>1, <3>1, <3>3, <3>4, <3>5, <3>6, <1>2, <1>3
      <3> QED BY <3>3, <3>7, <2>1
    <2> QED BY <2>1, <2>2
  <1>6. S = Nat
    <2>1. S \in SUBSET Nat
      OBVIOUS
    <2> HIDE DEF S
    <2> QED BY <1>4, <1>5, <2>1, Inductive
  <1>7. \A i \in 0 .. n : Good(i)
    BY <1>6
  <1>8. \A i \in 0 .. (n - 1) : w[i + 1].at > w[i].at /\ NoneBetween(g, w[i].at, w[i + 1].at)
    BY <1>1, <1>7, NextIsNext
  <1> QED BY <1>1, <1>7, <1>8 DEF w

\* -------------------------------------------------------------------------
\* The slot that contains an instant.

\* The date an instant is aligned to is on the grid, at most a step before it.
LEMMA AlignIs ==
  ASSUME NEW g, IsGrid(g), NEW t \in Int
  PROVE  LET local == LocalAt(g.zone, t)
             a == alignDate(g, t)
         IN  /\ local \in Int /\ OnGrid(g, a)
             /\ a * Day <= local /\ local < a * Day + g.step * Day
  <1> DEFINE local == LocalAt(g.zone, t)
             date == local \div Day
             a == alignDate(g, t)
  <1>1. /\ g.step \in {1, Week} /\ Day \in Nat \ {0} /\ Week \in Nat \ {0}
        /\ g.weekday \in 0 .. (Week - 1)
    BY GridAssumption DEF IsGrid
  <1>2. local \in Int
    BY GridAssumption DEF LocalAt, OffsetAt, IsGrid
  <1>3. a = IF g.step = 1 THEN date ELSE date - ((date - g.weekday) % Week)
    BY DEF alignDate
  <1> HIDE DEF local, a
  <1>4. date \in Int /\ date * Day <= local /\ local < (date + 1) * Day
    <2>1. date \in Int /\ local % Day \in 0 .. (Day - 1) /\ local = Day * date + (local % Day)
      BY <1>1, <1>2, Divided
    <2> HIDE DEF date
    <2> QED BY <2>1, <1>1
  <1> HIDE DEF date
  <1>5. OnGrid(g, a) /\ a <= date /\ date + 1 <= a + g.step
    <2>1. CASE g.step = 1
      BY <2>1, <1>3, <1>4 DEF OnGrid
    <2>2. CASE g.step # 1
      <3> DEFINE r == (date - g.weekday) % Week
                 q == (date - g.weekday) \div Week
      <3>1. q \in Int /\ r \in 0 .. (Week - 1) /\ date - g.weekday = Week * q + r
        <4> DEFINE x == date - g.weekday
        <4>1. x \in Int
          BY <1>1, <1>4
        <4> HIDE DEF x
        <4>2. x \div Week \in Int /\ x % Week \in 0 .. (Week - 1) /\ x = Week * (x \div Week) + (x % Week)
          BY <1>1, <4>1, Divided
        <4> QED BY <4>2 DEF x
      <3>2. a = date - r
        BY <2>2, <1>3
      <3> HIDE DEF r, q
      <3>3. a = Week * q + g.weekday
        <4> DEFINE y == Week * q
        <4>1. y \in Int
          BY <1>1, <3>1
        <4>2. r \in Int /\ g.weekday \in Int /\ date \in Int
          BY <1>1, <1>4, <3>1
        <4>3. date - g.weekday = y + r
          BY <3>1
        <4> HIDE DEF y
        <4>4. date - r = y + g.weekday
          BY <4>1, <4>2, <4>3
        <4> QED BY <3>2, <4>4 DEF y
      <3>4. (Week * q + g.weekday) % Week = g.weekday
        BY <1>1, <3>1, Remainder
      <3>5. a \in Int /\ a <= date /\ date + 1 <= a + Week
        BY <1>1, <1>4, <3>1, <3>2
      <3> QED BY <2>2, <1>1, <3>3, <3>4, <3>5 DEF OnGrid
    <2> QED BY <2>1, <2>2
  <1>6. a * Day <= local
    <2>1. a \in Int /\ a * Day <= date * Day
      BY <1>1, <1>4, <1>5 DEF OnGrid
    <2> QED BY <2>1, <1>1, <1>2, <1>4
  <1>7. local < a * Day + g.step * Day
    <2>1. a \in Int /\ g.step \in Int
      BY <1>1, <1>5 DEF OnGrid
    <2>2. (date + 1) * Day <= (a + g.step) * Day
      BY <1>1, <1>4, <1>5, <2>1
    <2>3. (a + g.step) * Day = a * Day + g.step * Day
      BY <1>1, <2>1
    <2>4. a * Day \in Int /\ g.step * Day \in Int /\ (date + 1) * Day \in Int
      BY <1>1, <1>4, <2>1
    <2> QED BY <2>2, <2>3, <2>4, <1>2, <1>4
  <1> QED BY <1>2, <1>5, <1>6, <1>7 DEF local, a

\* Two dates before the aligned one is not after t, two dates after it is,
\* and of one before and one after at least one is already right.
LEMMA DatesAround ==
  ASSUME NEW g, IsGrid(g), NEW t \in Int
  PROVE  LET a == alignDate(g, t)
             s == g.step
         IN  /\ Resolve(g, a - 2 * s) <= t /\ t < Resolve(g, a + 2 * s)
             /\ Resolve(g, a - s) <= t \/ t < Resolve(g, a + s)
  <1> DEFINE local == LocalAt(g.zone, t)
             a == alignDate(g, t)
             s == g.step
             A == a * Day
             S == s * Day
             b == g.zone.before
             z == g.zone.after
  <1>1. local \in Int /\ a \in Int /\ A <= local /\ local < A + S
    BY AlignIs DEF OnGrid
  <1>2. s \in Nat \ {0} /\ Day \in Nat \ {0}
    BY StepsOfAGrid
  <1>3. A \in Int /\ S \in Int /\ S >= Day
    BY <1>1, <1>2
  <1>4. /\ g.zone.at \in Int /\ b \in Int /\ z \in Int /\ z - b <= Day /\ b - z <= Day
        /\ g.hour \in 0 .. (Day - 1)
    BY GridAssumption DEF IsGrid
  <1>5. local = IF t < g.zone.at THEN t + b ELSE t + z
    BY DEF LocalAt, OffsetAt
  <1> DEFINE V(l) == IF l - b >= g.zone.at /\ l - z >= g.zone.at THEN l - z ELSE l - b
  <1>6. \A d \in Int : Resolve(g, d) = V(d * Day + g.hour)
    BY ResolveIs DEF HandoverOf
  <1>7. /\ (a - 2 * s) * Day = A - 2 * S /\ (a + 2 * s) * Day = A + 2 * S
        /\ (a - s) * Day = A - S /\ (a + s) * Day = A + S
    BY <1>1, <1>2
  <1>8. /\ Resolve(g, a - 2 * s) = V(A - 2 * S + g.hour) /\ Resolve(g, a + 2 * s) = V(A + 2 * S + g.hour)
        /\ Resolve(g, a - s) = V(A - S + g.hour) /\ Resolve(g, a + s) = V(A + S + g.hour)
    <2>1. a - 2 * s \in Int /\ a + 2 * s \in Int /\ a - s \in Int /\ a + s \in Int
      BY <1>1, <1>2
    <2> QED BY <2>1, <1>6, <1>7
  <1> HIDE DEF local, A, S, a, s
  <1>9. V(A - 2 * S + g.hour) <= t
    BY <1>1, <1>2, <1>3, <1>4, <1>5
  <1>10. t < V(A + 2 * S + g.hour)
    BY <1>1, <1>2, <1>3, <1>4, <1>5
  <1>11. V(A - S + g.hour) <= t \/ t < V(A + S + g.hour)
    BY <1>1, <1>2, <1>3, <1>4, <1>5
  <1> QED BY <1>8, <1>9, <1>10, <1>11 DEF a, s

\* The search for a slot reaches for two dates at least.
LEMMA ReachIs ==
  ASSUME NEW g, IsGrid(g)
  PROVE  Reach(g) \in Nat /\ Reach(g) >= 2
  <1> DEFINE S == g.step * Day
  <1>1. S \in Nat \ {0} /\ Day \in Nat \ {0}
    BY StepsOfAGrid
  <1>2. g.zone.before \in Int /\ g.zone.after \in Int /\ gapSize(g.zone) \in Nat
    BY GridAssumption DEF IsGrid, gapSize
  <1> HIDE DEF S
  <1>3. gapSize(g.zone) \div S \in Nat
    BY <1>1, <1>2
  <1>4. g.zone.before > g.zone.after => (g.zone.before - g.zone.after) \div Day \in Nat
    BY <1>1, <1>2
  <1> QED BY <1>3, <1>4 DEF Reach, S

\* The slot that contains an instant begins at a boundary not after it and
\* ends at the next boundary, which is after it.
LEMMA SlotHolds ==
  ASSUME NEW g, IsGrid(g), NEW t \in Int
  PROVE  LET slot == slotContaining(g, t)
         IN  /\ IsCursor(g, slot.start) /\ IsCursor(g, slot.end)
             /\ slot.start.at <= t /\ t < slot.end.at
             /\ NoneBetween(g, slot.start.at, slot.end.at)
  <1> DEFINE a == alignDate(g, t)
             s == g.step
             B == {k \in 0 .. Reach(g) : Resolve(g, a - k * s) <= t}
             back == LeastOf(B)
             first == Cursor(g, a - back * s)
             walk == Walk(g, first, Reach(g) + 1)
             L == {k \in 0 .. Reach(g) : walk[k + 1].at > t}
             last == LeastOf(L)
  <1>1. slotContaining(g, t) = [start |-> walk[last], end |-> walk[last + 1]]
    BY DEF slotContaining
  <1>2. Reach(g) \in Nat /\ Reach(g) >= 2 /\ s \in Nat \ {0}
    BY ReachIs, StepsOfAGrid
  <1>3. a \in Int /\ OnGrid(g, a)
    BY AlignIs DEF OnGrid
  <1>4. /\ OnGrid(g, a - s) /\ OnGrid(g, a - 2 * s) /\ OnGrid(g, a + s) /\ OnGrid(g, a + 2 * s)
    <2>1. OnGrid(g, a - s) /\ OnGrid(g, (a - s) - s) /\ OnGrid(g, a + s) /\ OnGrid(g, (a + s) + s)
      BY <1>3, StepsOfAGrid
    <2>2. (a - s) - s = a - 2 * s /\ (a + s) + s = a + 2 * s
      BY <1>2, <1>3
    <2> QED BY <2>1, <2>2
  <1>5. /\ Resolve(g, a - 2 * s) <= t /\ t < Resolve(g, a + 2 * s)
        /\ Resolve(g, a - s) <= t \/ t < Resolve(g, a + s)
    BY DatesAround
  <1>6. back \in B /\ (\A k \in B : back <= k) /\ back \in {0, 1, 2}
    <2>1. 2 \in B /\ B \in SUBSET Nat
      BY <1>2, <1>5
    <2> HIDE DEF B
    <2>2. back \in B /\ \A k \in B : back <= k
      BY <2>1, LeastExists
    <2>3. back \in Nat /\ back <= 2
      BY <2>1, <2>2
    <2> QED BY <2>2, <2>3
  <1>7. Resolve(g, a - back * s) <= t
    BY <1>6
  <1>8. back = 2 => t < Resolve(g, a + s)
    <2>1. 1 \in 0 .. Reach(g) /\ 1 * s = s
      BY <1>2
    <2>2. back = 2 => 1 \notin B
      <3> HIDE DEF B, back
      <3> QED BY <1>6
    <2>3. back = 2 => ~(Resolve(g, a - s) <= t)
      BY <2>1, <2>2
    <2> QED BY <2>3, <1>5
  <1> DEFINE d == a - back * s
  <1> HIDE DEF back
  <1>9. OnGrid(g, d) /\ d \in Int
    <2>1. (back = 0 => d = a) /\ (back = 1 => d = a - s) /\ (back = 2 => d = a - 2 * s)
      BY <1>2, <1>3
    <2> QED BY <2>1, <1>3, <1>4, <1>6 DEF OnGrid
  <1>10. IsCursor(g, first) /\ first.date = d /\ first.at = Resolve(g, d) /\ first.at <= t
    BY <1>7, <1>9, CursorIs
  <1>11. \E e \in Int : OnGrid(g, e) /\ e <= d + 3 * s /\ t < Resolve(g, e)
    <2>1. CASE back = 2
      <3>1. a + s = d + 3 * s /\ a + s \in Int
        BY <2>1, <1>2, <1>3
      <3> QED BY <3>1, <2>1, <1>2, <1>3, <1>4, <1>8
    <2>2. CASE back \in {0, 1}
      <3>1. a + 2 * s <= d + 3 * s /\ a + 2 * s \in Int
        BY <2>2, <1>2, <1>3
      <3> QED BY <3>1, <1>4, <1>5
    <2> QED BY <2>1, <2>2, <1>6
  <1> HIDE DEF first, d
  <1>12. /\ walk[0] = first
         /\ \A i \in 0 .. (Reach(g) + 1) :
              /\ IsCursor(g, walk[i]) /\ walk[i].date >= first.date + i * s
         /\ \A i \in 0 .. Reach(g) : NoneBetween(g, walk[i].at, walk[i + 1].at)
    <2>1. Reach(g) + 1 \in Nat /\ (Reach(g) + 1) - 1 = Reach(g)
      BY <1>2
    <2> QED BY <2>1, <1>10, WalkSteps
  <1> HIDE DEF walk
  <1>13. walk[3].at > t
    <2>1. 3 \in 0 .. (Reach(g) + 1)
      BY <1>2
    <2>2. IsCursor(g, walk[3]) /\ walk[3].date >= d + 3 * s
      BY <2>1, <1>10, <1>12
    <2>3. PICK e \in Int : OnGrid(g, e) /\ e <= d + 3 * s /\ t < Resolve(g, e)
      BY <1>11
    <2>4. walk[3].date \in Int /\ walk[3].at = Resolve(g, walk[3].date) /\ walk[3].at \in Int
      BY <2>2, CursorHas
    <2>5. e <= walk[3].date /\ Resolve(g, e) \in Int
      BY <2>2, <2>3, <2>4, <1>2, <1>9, ResolveIs
    <2>6. Resolve(g, e) <= walk[3].at
      BY <2>3, <2>4, <2>5, DatesKeepTheirOrder
    <2> QED BY <2>3, <2>4, <2>5, <2>6
  <1>14. last \in L /\ \A k \in L : last <= k
    <2>1. 2 \in L /\ L \in SUBSET Nat
      BY <1>2, <1>13
    <2> HIDE DEF L
    <2> QED BY <2>1, LeastExists
  <1>15. last \in 0 .. Reach(g) /\ walk[last + 1].at > t
    BY <1>14
  <1>16. walk[last].at <= t
    <2>1. CASE last = 0
      BY <2>1, <1>10, <1>12
    <2>2. CASE last # 0
      <3> DEFINE p == last - 1
      <3>1. p \in 0 .. Reach(g) /\ p + 1 = last /\ ~(last <= p)
        BY <2>2, <1>2, <1>15
      <3>2. p \notin L
        BY <3>1, <1>14
      <3>3. ~(walk[p + 1].at > t)
        BY <3>1, <3>2
      <3>4. walk[last].at \in Int
        <4>1. last \in 0 .. (Reach(g) + 1)
          BY <1>2, <1>15
        <4> QED BY <4>1, <1>12, CursorHas
      <3> QED BY <3>1, <3>3, <3>4
    <2> QED BY <2>1, <2>2
  <1>17. IsCursor(g, walk[last]) /\ IsCursor(g, walk[last + 1])
    <2>1. last \in 0 .. (Reach(g) + 1) /\ last + 1 \in 0 .. (Reach(g) + 1)
      BY <1>2, <1>15
    <2> QED BY <2>1, <1>12
  <1>18. NoneBetween(g, walk[last].at, walk[last + 1].at)
    BY <1>12, <1>15
  <1> HIDE DEF last
  <1> QED BY <1>1, <1>15, <1>16, <1>17, <1>18

\* -------------------------------------------------------------------------
\* The start of a slot is the last boundary before.

Boundary(g, x) == \E d : OnGrid(g, d) /\ x = Resolve(g, d)

\* Where a cursor stands is a boundary.
LEMMA CursorsAreBoundaries ==
  ASSUME NEW g, IsGrid(g), NEW c, IsCursor(g, c) PROVE Boundary(g, c.at)
  BY CursorHas DEF Boundary

\* The slot of an instant starts at the last boundary that is not after it.
LEMMA StartIs ==
  ASSUME NEW g, IsGrid(g), NEW t \in Int
  PROVE  /\ SlotStart(g, t) \in Int /\ Boundary(g, SlotStart(g, t)) /\ SlotStart(g, t) <= t
         /\ \A x : Boundary(g, x) => x \in Int /\ (x <= SlotStart(g, t) \/ x > t)
  <1> DEFINE slot == slotContaining(g, t)
  <1>1. /\ IsCursor(g, slot.start) /\ IsCursor(g, slot.end) /\ slot.start.at <= t /\ t < slot.end.at
        /\ NoneBetween(g, slot.start.at, slot.end.at)
    BY SlotHolds
  <1>2. SlotStart(g, t) = slot.start.at
    BY DEF SlotStart
  <1> HIDE DEF slot
  <1>3. slot.start.at \in Int /\ slot.end.at \in Int /\ Boundary(g, slot.start.at)
    BY <1>1, CursorHas, CursorsAreBoundaries
  <1>4. ASSUME NEW x, Boundary(g, x) PROVE x \in Int /\ (x <= slot.start.at \/ x > t)
    <2>1. PICK d : OnGrid(g, d) /\ x = Resolve(g, d)
      BY <1>4 DEF Boundary
    <2>2. x \in Int
      BY <2>1, ResolveIs DEF OnGrid
    <2>3. x <= slot.start.at \/ x >= slot.end.at
      BY <1>1, <2>1 DEF NoneBetween
    <2> QED BY <2>2, <2>3, <1>1, <1>3
  <1> QED BY <1>1, <1>2, <1>3, <1>4

\* A boundary with none after it up to an instant starts the slot of that instant.
LEMMA StartIsLast ==
  ASSUME NEW g, IsGrid(g), NEW t \in Int, NEW b, Boundary(g, b), b <= t,
         \A x : Boundary(g, x) => x <= b \/ x > t
  PROVE  SlotStart(g, t) = b
  <1>1. b \in Int /\ b <= SlotStart(g, t)
    BY StartIs
  <1>2. SlotStart(g, t) \in Int /\ SlotStart(g, t) <= b
    BY StartIs
  <1> QED BY <1>1, <1>2

\* A boundary starts its own slot.
LEMMA BoundaryStarts ==
  ASSUME NEW g, IsGrid(g), NEW b, Boundary(g, b)
  PROVE  b \in Int /\ SlotStart(g, b) = b
  <1>1. b \in Int /\ \A x : Boundary(g, x) => x \in Int
    BY StartIs
  <1> QED BY <1>1, StartIsLast

\* An instant later the slot is the same, or one that begins there and then.
LEMMA NextStart ==
  ASSUME NEW g, IsGrid(g), NEW t \in Int
  PROVE  SlotStart(g, t + 1) = IF Boundary(g, t + 1) THEN t + 1 ELSE SlotStart(g, t)
  <1>1. CASE Boundary(g, t + 1)
    BY <1>1, BoundaryStarts
  <1>2. CASE ~Boundary(g, t + 1)
    <2> DEFINE b == SlotStart(g, t)
    <2>1. b \in Int /\ Boundary(g, b) /\ b <= t /\ \A x : Boundary(g, x) => x \in Int /\ (x <= b \/ x > t)
      BY StartIs
    <2> HIDE DEF b
    <2>2. b <= t + 1 /\ \A x : Boundary(g, x) => x <= b \/ x > t + 1
      BY <1>2, <2>1
    <2>3. SlotStart(g, t + 1) = b
      BY <2>1, <2>2, StartIsLast
    <2> QED BY <1>2, <2>3 DEF b
  <1> QED BY <1>1, <1>2

\* -------------------------------------------------------------------------
\* Turns.

\* A walk goes forward.
LEMMA WalkRises ==
  ASSUME NEW g, IsGrid(g), NEW c, IsCursor(g, c), NEW n \in Nat, NEW k \in 0 .. n, NEW m \in 0 .. n, k < m
  PROVE  Walk(g, c, n)[k].at < Walk(g, c, n)[m].at
  <1> DEFINE w == Walk(g, c, n)
             S == {i \in Nat : k + i + 1 <= n => w[k].at < w[k + i + 1].at}
  <1>1. /\ \A i \in 0 .. n : IsCursor(g, w[i])
        /\ \A i \in 0 .. (n - 1) : w[i + 1].at > w[i].at
    BY WalkSteps
  <1>2. \A i \in 0 .. n : w[i].at \in Int
    BY <1>1, CursorHas
  <1> HIDE DEF w
  <1>3. 0 \in S
    <2>1. k + 0 + 1 = k + 1
      OBVIOUS
    <2>2. k + 1 <= n => k \in 0 .. (n - 1) /\ k + 1 \in 0 .. n
      OBVIOUS
    <2>3. k + 1 <= n => w[k].at < w[k + 1].at
      BY <1>1, <1>2, <2>2
    <2> QED BY <2>1, <2>3
  <1>4. ASSUME NEW i \in S PROVE i + 1 \in S
    <2> DEFINE j == k + i + 1
    <2>1. i \in Nat /\ j \in Nat /\ k + (i + 1) + 1 = j + 1
      OBVIOUS
    <2>2. CASE j + 1 <= n
      <3>1. j <= n /\ j \in 0 .. (n - 1) /\ j \in 0 .. n /\ j + 1 \in 0 .. n
        BY <2>1, <2>2
      <3>2. w[k].at < w[j].at
        BY <3>1
      <3>3. w[j].at < w[j + 1].at
        BY <3>1, <1>1, <1>2
      <3>4. w[k].at < w[j + 1].at
        <4> HIDE DEF j
        <4> QED BY <3>1, <3>2, <3>3, <1>2
      <3> QED BY <3>4, <2>1
    <2> HIDE DEF j
    <2> QED BY <2>1, <2>2
  <1>5. S = Nat
    <2>1. S \in SUBSET Nat
      OBVIOUS
    <2> HIDE DEF S
    <2> QED BY <1>3, <1>4, <2>1, Inductive
  <1> DEFINE i == m - k - 1
  <1>6. i \in Nat /\ k + i + 1 = m /\ m <= n
    OBVIOUS
  <1> HIDE DEF i
  <1>7. w[k].at < w[m].at
    <2>1. k + i + 1 <= n => w[k].at < w[k + i + 1].at
      BY <1>5, <1>6
    <2> QED BY <2>1, <1>6
  <1> QED BY <1>7 DEF w

\* Where a walk of n steps ends is n turns away.
LEMMA TurnsAre ==
  ASSUME NEW g, IsGrid(g), NEW from, Boundary(g, from), NEW n \in Nat, NEW to,
         to = Walk(g, slotContaining(g, from).start, n)[n].at
  PROVE  SlotsBetween(g, from, to) = n /\ to \in Int /\ from <= to
  <1> DEFINE c == slotContaining(g, from).start
             bound == to - from
             walk == Walk(g, c, bound)
             K == {k \in 0 .. bound : walk[k].at >= to}
  <1>1. from \in Int /\ c.at = from
    BY BoundaryStarts DEF SlotStart
  <1>2. IsCursor(g, c)
    BY <1>1, SlotHolds
  <1> HIDE DEF c
  <1>3. to \in Int /\ to >= from + n
    <2>1. n \in 0 .. n
      OBVIOUS
    <2>2. IsCursor(g, Walk(g, c, n)[n]) /\ to >= from + n
      BY <2>1, <1>1, <1>2, WalkSteps DEF c
    <2> QED BY <2>2, CursorHas DEF c
  <1>4. bound \in Nat /\ n <= bound /\ from <= to
    BY <1>1, <1>3
  <1>5. walk[n].at = to
    <2>1. n \in 0 .. n
      OBVIOUS
    <2>2. Walk(g, c, n)[n] = walk[n]
      BY <2>1, <1>4, WalksAgree
    <2> QED BY <2>2 DEF c
  <1>6. \A k \in 0 .. bound : k < n => walk[k].at < to
    <2> SUFFICES ASSUME NEW k \in 0 .. bound, k < n PROVE walk[k].at < to
      OBVIOUS
    <2>1. n \in 0 .. bound
      BY <1>4
    <2> HIDE DEF bound
    <2>2. walk[k].at < walk[n].at
      BY <2>1, <1>2, <1>4, WalkRises
    <2> QED BY <2>2, <1>5
  <1>7. \A k \in 0 .. bound : walk[k].at \in Int
    <2> HIDE DEF bound
    <2>1. \A k \in 0 .. bound : IsCursor(g, walk[k])
      BY <1>2, <1>4, WalkSteps
    <2> QED BY <2>1, CursorHas
  <1>8. LeastOf(K) = n
    <2>1. n \in K
      BY <1>3, <1>4, <1>5
    <2>2. \A k \in K : n <= k
      BY <1>3, <1>4, <1>6, <1>7
    <2>3. K \in SUBSET Int
      BY <1>4
    <2> HIDE DEF K
    <2> QED BY <2>1, <2>2, <2>3, LeastIs
  <1>9. SlotsBetween(g, from, to) = LeastOf(K)
    <2>1. from <= to
      BY <1>4
    <2> QED BY <2>1 DEF SlotsBetween, c
  <1> QED BY <1>3, <1>4, <1>8, <1>9

\* A later boundary is some number of steps away.
LEMMA WalkReaches ==
  ASSUME NEW g, IsGrid(g), NEW c, IsCursor(g, c), NEW to, Boundary(g, to), c.at <= to
  PROVE  \E n \in Nat : Walk(g, c, n)[n].at = to
  <1> DEFINE bound == to - c.at
             w == Walk(g, c, bound)
             K == {k \in 0 .. bound : w[k].at >= to}
             n == LeastOf(K)
  <1>1. c.at \in Int /\ to \in Int
    BY CursorHas, BoundaryStarts
  <1>2. bound \in Nat /\ c.at + bound = to
    BY <1>1
  <1> HIDE DEF bound
  <1>3. /\ w[0] = c
        /\ \A i \in 0 .. bound : IsCursor(g, w[i]) /\ w[i].at >= c.at + i
        /\ \A i \in 0 .. (bound - 1) : NoneBetween(g, w[i].at, w[i + 1].at)
    BY <1>2, WalkSteps
  <1>4. \A i \in 0 .. bound : w[i].at \in Int
    BY <1>3, CursorHas
  <1> HIDE DEF w
  <1>5. n \in K /\ \A k \in K : n <= k
    <2>1. bound \in K /\ K \in SUBSET Nat
      BY <1>2, <1>3
    <2> HIDE DEF K
    <2> QED BY <2>1, LeastExists
  <1> HIDE DEF n
  <1>6. n \in 0 .. bound /\ w[n].at >= to
    BY <1>5
  <1>7. w[n].at = to
    <2>1. CASE n = 0
      BY <2>1, <1>1, <1>3, <1>4, <1>6
    <2>2. CASE n # 0
      <3> DEFINE p == n - 1
      <3>1. p \in 0 .. (bound - 1) /\ p \in 0 .. bound /\ p + 1 = n /\ ~(n <= p)
        BY <2>2, <1>2, <1>6
      <3>2. ~(w[p].at >= to)
        BY <3>1, <1>5
      <3>3. NoneBetween(g, w[p].at, w[n].at)
        BY <3>1, <1>3
      <3>4. to <= w[p].at \/ to >= w[n].at
        BY <3>3 DEF NoneBetween, Boundary
      <3>5. w[p].at \in Int /\ w[n].at \in Int
        BY <3>1, <1>4, <1>6
      <3> HIDE DEF p
      <3> QED BY <3>2, <3>4, <3>5, <1>1, <1>6
    <2> QED BY <2>1, <2>2
  <1>8. n \in Nat /\ n <= bound /\ n \in 0 .. n
    BY <1>2, <1>6
  <1>9. Walk(g, c, n)[n] = w[n]
    BY <1>2, <1>8, WalksAgree DEF w
  <1> QED BY <1>7, <1>8, <1>9

\* Turns are counted one by one: at a boundary, and at no other time.
LEMMA TurnsStep ==
  ASSUME NEW g, IsGrid(g), NEW from, Boundary(g, from), NEW t \in Int, from <= t
  PROVE  /\ SlotsBetween(g, from, SlotStart(g, t)) \in Nat
         /\ SlotsBetween(g, from, SlotStart(g, t + 1)) =
              SlotsBetween(g, from, SlotStart(g, t)) + IF Boundary(g, t + 1) THEN 1 ELSE 0
  <1> DEFINE c == slotContaining(g, from).start
             to == SlotStart(g, t)
  <1>1. from \in Int /\ c.at = from
    BY BoundaryStarts DEF SlotStart
  <1>2. IsCursor(g, c)
    BY <1>1, SlotHolds
  <1>3. /\ to \in Int /\ Boundary(g, to) /\ to <= t
        /\ \A x : Boundary(g, x) => x \in Int /\ (x <= to \/ x > t)
    BY StartIs
  <1>4. from <= to
    BY <1>1, <1>3
  <1> HIDE DEF to
  <1>5. PICK n \in Nat : Walk(g, c, n)[n].at = to
    <2> HIDE DEF c
    <2> QED BY <1>1, <1>2, <1>3, <1>4, WalkReaches
  <1>6. SlotsBetween(g, from, to) = n
    BY <1>5, TurnsAre
  <1>7. CASE ~Boundary(g, t + 1)
    BY <1>6, <1>7, NextStart DEF to
  <1>8. CASE Boundary(g, t + 1)
    <2> DEFINE w == Walk(g, c, n + 1)
    <2>1. w[n].at = to
      <3>1. n + 1 \in Nat /\ n <= n + 1 /\ n \in 0 .. n
        OBVIOUS
      <3>2. Walk(g, c, n)[n] = w[n]
        BY <3>1, WalksAgree
      <3> QED BY <3>2, <1>5
    <2>2. /\ IsCursor(g, w[n + 1]) /\ w[n + 1].at > w[n].at
          /\ NoneBetween(g, w[n].at, w[n + 1].at)
      <3>1. n + 1 \in Nat /\ n \in 0 .. ((n + 1) - 1) /\ n + 1 \in 0 .. (n + 1)
        OBVIOUS
      <3> HIDE DEF c
      <3> QED BY <3>1, <1>2, WalkSteps
    <2> HIDE DEF w
    <2>3. w[n + 1].at \in Int /\ Boundary(g, w[n + 1].at)
      BY <2>2, CursorHas, CursorsAreBoundaries
    <2>4. w[n + 1].at > t
      BY <2>1, <2>2, <2>3, <1>3
    <2>5. t + 1 <= to \/ t + 1 >= w[n + 1].at
      BY <1>8, <2>1, <2>2 DEF NoneBetween, Boundary
    <2>6. w[n + 1].at = t + 1
      BY <2>3, <2>4, <2>5, <1>3
    <2>7. SlotsBetween(g, from, t + 1) = n + 1
      <3>1. n + 1 \in Nat /\ t + 1 = Walk(g, c, n + 1)[n + 1].at
        BY <2>6 DEF w
      <3> QED BY <3>1, TurnsAre
    <2>8. SlotStart(g, t + 1) = t + 1
      BY <1>8, NextStart
    <2> QED BY <2>7, <2>8, <1>6, <1>8 DEF to
  <1> QED BY <1>6, <1>7, <1>8 DEF to

\* No turn was had where the slot is the anchor.
LEMMA NoTurnYet ==
  ASSUME NEW g, IsGrid(g), NEW from, Boundary(g, from)
  PROVE  SlotsBetween(g, from, from) = 0
  <1> DEFINE c == slotContaining(g, from).start
  <1>1. c.at = from
    BY BoundaryStarts DEF SlotStart
  <1>2. Walk(g, c, 0)[0] = c
    BY WalkIs
  <1>3. 0 \in Nat /\ from = Walk(g, c, 0)[0].at
    BY <1>1, <1>2
  <1> QED BY <1>3, TurnsAre

\* -------------------------------------------------------------------------
\* What was served stands.

\* The greatest of a finite set of numbers is one of them.
LEMMA GreatestIsIn ==
  ASSUME NEW n \in Nat, NEW S \in SUBSET (1 .. n), S # {}
  PROVE  Greatest(S) \in S
  <1> DEFINE Above == {x \in Nat : \A y \in S : y <= x}
             m == LeastOf(Above)
  <1>1. n \in Above /\ Above \in SUBSET Nat
    OBVIOUS
  <1>2. m \in Above /\ \A x \in Above : m <= x
    <2> HIDE DEF Above
    <2> QED BY <1>1, LeastExists
  <1> HIDE DEF m
  <1>3. m \in S
    <2> SUFFICES ASSUME m \notin S PROVE FALSE
      OBVIOUS
    <2>1. m \in Nat /\ \A y \in S : y <= m - 1
      BY <1>2
    <2>2. m - 1 \in Above
      <3>1. PICK y \in S : y \in 1 .. n /\ y <= m - 1
        BY <2>1
      <3>2. m - 1 \in Nat
        BY <2>1, <3>1
      <3> QED BY <3>2, <2>1
    <2> QED BY <2>1, <2>2, <1>2
  <1>4. \E x \in S : \A y \in S : y <= x
    BY <1>2, <1>3
  <1> QED BY <1>4 DEF Greatest

\* What is shown at t of a chain and overrides, given what counts at t.
Shown(c, h, revs, cov, t) ==
    IF revs = {} THEN <<"none", 0, {}>>
    ELSE LET r == c[Greatest(revs)]
         IN  IF r.kind = "deleted" \/ Cardinality(cov) > 1 THEN <<"none", 0, {}>>
             ELSE IF cov # {} THEN <<"override", CHOOSE i \in cov : TRUE, {h[CHOOSE i \in cov : TRUE].user}>>
             ELSE IF Active(r.cfg)
                  THEN <<"rotation", r.cfg.groups[GroupAt(r, t)].id, r.cfg.groups[GroupAt(r, t)].members>>
                  ELSE <<"none", 0, {}>>

\* Who is on duty is decided by the chain and the overrides that reach the instant.
LEMMA DutiesAreShown ==
  ASSUME NEW t
  PROVE  Duties(t) = Shown(chain, heads, RevisionsAt(t), Covering(t), t)
  <1> DEFINE o == projectOnCall(t)
             r == Greatest(RevisionsAt(t))
             i == CHOOSE i \in Covering(t) : TRUE
             Nothing == RevisionsAt(t) = {} \/ chain[r].kind = "deleted" \/ Cardinality(Covering(t)) > 1
  <1>1. Duties(t) = <<o.source, o.group, o.users>>
    BY DEF Duties
  <1>2. CASE Nothing
    <2>1. o = Nobody
      BY <1>2 DEF projectOnCall
    <2> QED BY <1>1, <1>2, <2>1 DEF Nobody, Shown
  <1>3. CASE ~Nothing /\ Covering(t) # {}
    <2>1. o = ByOverride(i, r)
      BY <1>3 DEF projectOnCall
    <2>2. o.source = "override" /\ o.group = i /\ o.users = {heads[i].user}
      BY <2>1 DEF ByOverride
    <2> QED BY <1>1, <1>3, <2>2 DEF Shown
  <1>4. CASE ~Nothing /\ Covering(t) = {} /\ Active(chain[r].cfg)
    <2> DEFINE group == chain[r].cfg.groups[GroupAt(chain[r], t)]
    <2>1. o = ByRotation(r, t)
      BY <1>4 DEF projectOnCall
    <2>2. o.source = "rotation" /\ o.group = group.id /\ o.users = group.members
      BY <2>1 DEF ByRotation
    <2> QED BY <1>1, <1>4, <2>2 DEF Shown
  <1>5. CASE ~Nothing /\ Covering(t) = {} /\ ~Active(chain[r].cfg)
    <2>1. o = Nobody
      BY <1>5 DEF projectOnCall
    <2> QED BY <1>1, <1>5, <2>1 DEF Nobody, Shown
  <1> QED BY <1>2, <1>3, <1>4, <1>5

\* The same of the state that follows.
LEMMA DutiesAreShownNext ==
  ASSUME NEW t
  PROVE  (Duties(t) = Shown(chain, heads, RevisionsAt(t), Covering(t), t))'
  <1>1. Duties(t) = Shown(chain, heads, RevisionsAt(t), Covering(t), t)
    BY DutiesAreShown
  <1> QED BY <1>1, PTL

\* A step that leaves the revisions in force by t, and the overrides that
\* stand over t with the people they name, leaves what is shown at t.
LEMMA ShownStays ==
  ASSUME Shape, NEW t,
         RevisionsAt(t)' = RevisionsAt(t), \A r \in RevisionsAt(t) : chain'[r] = chain[r],
         Covering(t)' = Covering(t), \A i \in Covering(t) : heads'[i].user = heads[i].user
  PROVE  Duties(t)' = Duties(t)
  <1> DEFINE revs == RevisionsAt(t)
             cov == Covering(t)
  <1>1. revs # {} => chain'[Greatest(revs)] = chain[Greatest(revs)]
    <2>1. PICK S : chain \in Seq(S)
      BY DEF Shape, IsSequence
    <2>2. Len(chain) \in Nat /\ revs \in SUBSET (1 .. Len(chain))
      BY <2>1 DEF RevisionsAt
    <2> HIDE DEF revs
    <2>3. revs # {} => Greatest(revs) \in revs
      BY <2>2, GreatestIsIn
    <2> QED BY <2>3 DEF revs
  <1>2. cov # {} => heads'[CHOOSE i \in cov : TRUE].user = heads[CHOOSE i \in cov : TRUE].user
    <2>1. cov # {} => (CHOOSE i \in cov : TRUE) \in cov
      OBVIOUS
    <2> QED BY <2>1
  <1> HIDE DEF revs, cov
  <1>3. Shown(chain', heads', revs, cov, t) = Shown(chain, heads, revs, cov, t)
    BY <1>1, <1>2 DEF Shown
  <1> QED BY <1>3, DutiesAreShown, DutiesAreShownNext DEF revs, cov

\* The revision a step appends begins after t.
LEMMA AppendedLater ==
  ASSUME Shape, NEW r, chain' = Append(chain, r), NEW t \in Int, r.from \in Int, t < r.from
  PROVE  RevisionsAt(t)' = RevisionsAt(t) /\ \A i \in RevisionsAt(t) : chain'[i] = chain[i]
  <1>1. PICK S : chain \in Seq(S)
    BY DEF Shape, IsSequence
  <1>2. /\ DOMAIN chain' = DOMAIN chain \cup {Len(chain) + 1}
        /\ chain'[Len(chain) + 1] = r /\ \A i \in DOMAIN chain : chain'[i] = chain[i]
        /\ Len(chain) + 1 \notin DOMAIN chain
    <2>1. chain \in Seq(S \cup {r}) /\ r \in S \cup {r}
      BY <1>1, SequencesWiden
    <2> QED BY <2>1, AppendProperties
  <1>3. ~(r.from <= t)
    OBVIOUS
  <1> QED BY <1>2, <1>3 DEF RevisionsAt

\* What an ending leaves of an override covers what it has covered.
LEMMA EndedServed ==
  ASSUME NEW h \in Override, NEW at \in Int, NEW t \in Int, t < at
  PROVE  Over(Ended(h, at), t) <=> Over(h, t)
  <1> DEFINE r == Revised(h)
  <1>1. /\ r \in Override /\ r.from = h.from /\ r.to = h.to /\ r.deleted = h.deleted
    BY RevisedIs
  <1>2. h.from \in Int /\ h.to \in Int /\ h.deleted \in BOOLEAN
    BY DEF Override
  <1> HIDE DEF r
  <1>3. /\ [r EXCEPT !.deleted = TRUE].deleted
        /\ [r EXCEPT !.to = at].to = at /\ [r EXCEPT !.to = at].from = h.from
        /\ [r EXCEPT !.to = at].deleted = h.deleted
    BY <1>1 DEF Override
  <1>4. CASE h.deleted \/ at >= h.to
    BY <1>4 DEF Ended
  <1>5. CASE ~(h.deleted \/ at >= h.to) /\ at <= h.from
    <2>1. Ended(h, at) = [r EXCEPT !.deleted = TRUE]
      BY <1>5 DEF Ended, r
    <2> QED BY <1>2, <1>3, <1>5, <2>1 DEF Over
  <1>6. CASE ~(h.deleted \/ at >= h.to) /\ ~(at <= h.from)
    <2>1. Ended(h, at) = [r EXCEPT !.to = at]
      BY <1>6 DEF Ended, r
    <2> QED BY <1>2, <1>3, <1>6, <2>1 DEF Over
  <1> QED BY <1>4, <1>5, <1>6

\* The overrides that stand over t after a step that ends some and adds
\* others: those that stood over it, unless a new one is put over it.
LEMMA CoveringStays ==
  ASSUME NEW t, DOMAIN heads \subseteq DOMAIN heads',
         \A i \in DOMAIN heads' :
             \/ i \in DOMAIN heads /\ (Over(heads'[i], t) <=> Over(heads[i], t))
                  /\ (Over(heads[i], t) => heads'[i].user = heads[i].user)
             \/ ~Over(heads'[i], t) /\ (i \in DOMAIN heads => ~Over(heads[i], t))
  PROVE  Covering(t)' = Covering(t) /\ \A i \in Covering(t) : heads'[i].user = heads[i].user
  BY DEF Covering

\* An override that is ended keeps its person.
LEMMA EndedUser ==
  ASSUME NEW h \in Override, NEW at \in Int PROVE Ended(h, at).user = h.user
  BY EndedShrinks

\* A chain that did not change has the same revisions in force.
LEMMA RevisionsStay ==
  ASSUME NEW t, chain' = chain
  PROVE  RevisionsAt(t)' = RevisionsAt(t) /\ \A r \in RevisionsAt(t) : chain'[r] = chain[r]
  BY DEF RevisionsAt

\* A save leaves what was served.
LEMMA SaveServed ==
  ASSUME Shape, NEW o, SaveCommits(o), NEW t \in 0 .. (now - 1)
  PROVE  Stood(t)
  <1> DEFINE c == op[o]
             at == NextEffectiveAt
             r == ActiveRevision(c.cfg, at)
  <1>1. chain' = Append(chain, r) /\ heads' = heads
    BY DEF SaveCommits
  <1>2. at \in Int /\ now \in Int /\ at >= now
    BY NextIsLater DEF Shape
  <1>3. r.from = at
    BY DEF ActiveRevision
  <1>4. t \in Int /\ t < at
    BY <1>2
  <1> HIDE DEF r, at
  <1>5. RevisionsAt(t)' = RevisionsAt(t) /\ \A i \in RevisionsAt(t) : chain'[i] = chain[i]
    BY <1>1, <1>2, <1>3, <1>4, AppendedLater
  <1>6. Covering(t)' = Covering(t) /\ \A i \in Covering(t) : heads'[i].user = heads[i].user
    BY <1>1 DEF Covering
  <1>7. Duties(t)' = Duties(t)
    BY <1>5, <1>6, ShownStays
  <1> QED BY <1>7 DEF Stood

\* A deletion leaves what was served: it cuts the overrides where it takes effect.
LEMMA DeleteServed ==
  ASSUME Shape, NEW o, DeleteCommits(o), NEW t \in 0 .. (now - 1)
  PROVE  Stood(t)
  <1> DEFINE at == NextEffectiveAt
             r == DeletedRevision(at)
  <1>1. chain' = Append(chain, r) /\ heads' = [i \in DOMAIN heads |-> Ended(heads[i], at)]
    BY DEF DeleteCommits
  <1>2. at \in Int /\ now \in Int /\ at >= now
    BY NextIsLater DEF Shape
  <1>3. r.from = at
    BY DEF DeletedRevision
  <1>4. t \in Int /\ t < at
    BY <1>2
  <1> HIDE DEF r, at
  <1>5. RevisionsAt(t)' = RevisionsAt(t) /\ \A i \in RevisionsAt(t) : chain'[i] = chain[i]
    BY <1>1, <1>2, <1>3, <1>4, AppendedLater
  <1>6. \A i \in DOMAIN heads : heads[i] \in Override
    BY DEF Shape
  <1>7. DOMAIN heads' = DOMAIN heads /\ \A i \in DOMAIN heads : heads'[i] = Ended(heads[i], at)
    BY <1>1
  <1>8. Covering(t)' = Covering(t) /\ \A i \in Covering(t) : heads'[i].user = heads[i].user
    BY <1>2, <1>4, <1>6, <1>7, EndedServed, EndedUser, CoveringStays
  <1>9. Duties(t)' = Duties(t)
    BY <1>5, <1>8, ShownStays
  <1> QED BY <1>9 DEF Stood

\* A new override covers no instant it does not record.
LEMMA CreateServed ==
  ASSUME Shape, NEW o, CreateCommits(o), NEW t \in 0 .. (now - 1)
  PROVE  Stood(t)
  <1> DEFINE h == Stands(op[o].user, op[o].span)
             n == Len(heads) + 1
  <1>1. chain' = chain /\ heads' = Append(heads, h)
    BY DEF CreateCommits
  <1> HIDE DEF h
  <1>2. /\ DOMAIN heads' = DOMAIN heads \cup {n} /\ n \notin DOMAIN heads
        /\ heads'[n] = h /\ \A i \in DOMAIN heads : heads'[i] = heads[i]
    <2>1. heads \in Seq(Override \cup {h}) /\ h \in Override \cup {h}
      BY SequencesWiden DEF Shape
    <2> QED BY <2>1, <1>1, AppendProperties
  <1> HIDE DEF n
  <1>3. CASE Over(h, t)
    BY <1>2, <1>3 DEF Stood
  <1>4. CASE ~Over(h, t)
    <2>1. Covering(t)' = Covering(t) /\ \A i \in Covering(t) : heads'[i].user = heads[i].user
      BY <1>2, <1>4, CoveringStays
    <2>2. Duties(t)' = Duties(t)
      BY <1>1, <2>1, RevisionsStay, ShownStays
    <2> QED BY <2>2 DEF Stood
  <1> QED BY <1>3, <1>4

\* A cancellation leaves the part of an override that was served.
LEMMA CancelServed ==
  ASSUME Shape, Asked, NEW o \in Operators, CancelCommits(o), NEW t \in 0 .. (now - 1)
  PROVE  Stood(t)
  <1> DEFINE id == op[o].id
  <1>1. chain' = chain /\ heads' = [heads EXCEPT ![id] = Ended(heads[id], now)]
    BY DEF CancelCommits
  <1>2. now \in Int /\ t \in Int /\ t < now
    BY DEF Shape
  <1>3. id \in DOMAIN heads /\ heads[id] \in Override
    <2>1. id \in DOMAIN heads
      BY DEF CancelCommits, Asked
    <2> QED BY <2>1 DEF Shape
  <1> HIDE DEF id
  <1>4. /\ DOMAIN heads' = DOMAIN heads /\ heads'[id] = Ended(heads[id], now)
        /\ \A i \in DOMAIN heads \ {id} : heads'[i] = heads[i]
    BY <1>1, <1>3
  <1>5. Covering(t)' = Covering(t) /\ \A i \in Covering(t) : heads'[i].user = heads[i].user
    BY <1>2, <1>3, <1>4, EndedServed, EndedUser, CoveringStays
  <1>6. Duties(t)' = Duties(t)
    BY <1>1, <1>5, RevisionsStay, ShownStays
  <1> QED BY <1>6 DEF Stood

\* An update leaves what was served, or records the window anew.
LEMMA UpdateServed ==
  ASSUME Shape, Asked, NEW o \in Operators, UpdateCommits(o), NEW t \in 0 .. (now - 1)
  PROVE  Stood(t)
  <1> DEFINE c == op[o]
             id == c.id
             was == heads[id]
  <1>1. chain' = chain /\ heads' = IF Started(was) THEN Split(c) ELSE Replaced(c)
    BY DEF UpdateCommits
  <1>2. now \in Int /\ t \in Int /\ t < now
    BY DEF Shape
  <1>3. id \in DOMAIN heads /\ was \in Override /\ was.from \in Int
    <2>1. id \in DOMAIN heads
      BY DEF UpdateCommits, Asked
    <2>2. was \in Override
      BY <2>1 DEF Shape
    <2> QED BY <2>1, <2>2 DEF Override
  <1>4. CASE Started(was)
    <2> DEFINE cut == [heads EXCEPT ![id] = Ended(was, now)]
               new == Stands(c.user, [from |-> now, to |-> c.span.to])
               n == Len(cut) + 1
    <2>1. heads' = Append(cut, new)
      BY <1>1, <1>4 DEF Split
    <2>2. ~Over(new, t)
      BY <1>2 DEF Over, Stands
    <2> HIDE DEF new
    <2>3. /\ cut \in Seq(Override) /\ DOMAIN cut = DOMAIN heads /\ cut[id] = Ended(was, now)
          /\ \A i \in DOMAIN heads \ {id} : cut[i] = heads[i]
      <3>1. Ended(was, now) \in Override
        BY <1>2, <1>3, EndedShrinks
      <3> QED BY <3>1, <1>3 DEF Shape
    <2> HIDE DEF cut
    <2>4. /\ DOMAIN heads' = DOMAIN cut \cup {n} /\ n \notin DOMAIN cut
          /\ heads'[n] = new /\ \A i \in DOMAIN cut : heads'[i] = cut[i]
      <3>1. cut \in Seq(Override \cup {new}) /\ new \in Override \cup {new}
        BY <2>3, SequencesWiden
      <3> QED BY <3>1, <2>1, AppendProperties
    <2> HIDE DEF n, id
    <2>5. Over(Ended(was, now), t) <=> Over(was, t)
      BY <1>2, <1>3, EndedServed
    <2>6. Ended(was, now).user = was.user
      BY <1>2, <1>3, EndedUser
    <2>7. Covering(t)' = Covering(t) /\ \A i \in Covering(t) : heads'[i].user = heads[i].user
      BY <2>2, <2>3, <2>4, <2>5, <2>6, CoveringStays
    <2>8. Duties(t)' = Duties(t)
      BY <1>1, <2>7, RevisionsStay, ShownStays
    <2> QED BY <2>8 DEF Stood
  <1>5. CASE ~Started(was)
    <2> DEFINE h == [Stands(c.user, c.span) EXCEPT !.revision = was.revision + 1]
    <2>1. heads' = [heads EXCEPT ![id] = h]
      BY <1>1, <1>5 DEF Replaced
    <2> HIDE DEF h, id
    <2>2. /\ DOMAIN heads' = DOMAIN heads /\ heads'[id] = h
          /\ \A i \in DOMAIN heads \ {id} : heads'[i] = heads[i]
      BY <2>1, <1>3
    <2>3. ~Over(was, t)
      BY <1>2, <1>3, <1>5 DEF Started, Over
    <2>4. CASE Over(h, t)
      <3>1. h.from # was.from
        BY <2>4, <1>2, <1>3, <1>5 DEF Over, Started
      <3> QED BY <3>1, <2>2, <2>4, <1>3 DEF Stood
    <2>5. CASE ~Over(h, t)
      <3>1. Covering(t)' = Covering(t) /\ \A i \in Covering(t) : heads'[i].user = heads[i].user
        BY <2>2, <2>3, <2>5, CoveringStays
      <3>2. Duties(t)' = Duties(t)
        BY <1>1, <3>1, RevisionsStay, ShownStays
      <3> QED BY <3>2 DEF Stood
    <2> QED BY <2>4, <2>5
  <1> QED BY <1>4, <1>5

(* Who was on duty at an instant that has passed, and why, is never         *)
(* rewritten: neither by a save, whose revision begins later than what was  *)
(* served, nor by a deletion or a cancellation, which leave the served part *)
(* of an override, nor by an update, except where an override is recorded   *)
(* over that instant; for any number of people, commands, spans and         *)
(* configurations (override.go CancelOverride, UpdateOverride; service.go   *)
(* endLiveOverrides, Save, Delete).                                         *)
THEOREM WhatWasServedStands == Spec => ServedDutyStands
  <1> DEFINE A == \A t \in 0 .. (now - 1) : Stood(t)
  <1>1. AssignedInvariant /\ [Next]_vars => AssignedInvariant'
    BY WatchersOnlyWatch, DutyStepKeepsAssigned
  <1>2. AssignedInvariant /\ [DutyNext]_dutyVars => [A]_<<chain, heads>>
    <2> SUFFICES ASSUME AssignedInvariant, [DutyNext]_dutyVars, ~UNCHANGED <<chain, heads>>,
                        NEW t \in 0 .. (now - 1)
                 PROVE  Stood(t)
      OBVIOUS
    <2>1. Shape /\ Asked
      BY DEF AssignedInvariant
    <2>2. PICK o \in Operators : SaveCommits(o) \/ DeleteCommits(o) \/ CreateCommits(o)
                                  \/ UpdateCommits(o) \/ CancelCommits(o)
      BY DEF DutyNext, People, Command, Pass, RemoveTeamMember, AddTeamMember, EraseLocks,
             EraseCommits, Send, Refused, dutyVars
    <2> QED BY <2>1, <2>2, SaveServed, DeleteServed, CreateServed, UpdateServed, CancelServed
  <1>3. AssignedInvariant /\ [Next]_vars => [A]_<<chain, heads>>
    BY <1>2, WatchersOnlyWatch
  <1> QED BY <1>1, <1>3, AssignedInitially, PTL DEF Spec, ServedDutyStands


\* -------------------------------------------------------------------------
\* Revisions are never planned beyond the horizon.

Commanding == {o \in Operators : op[o] # None}

\* Each command sent adds one revision at most, which begins one instant
\* after the last at the latest.
Budget ==
    /\ now \in 0 .. MaxTime /\ commands \in 0 .. MaxCommands
    /\ IsFiniteSet(Commanding) /\ Cardinality(Commanding) <= commands
    /\ Exists => TailRevision.from \in Nat /\ TailRevision.from + Cardinality(Commanding) <= MaxTime + commands

\* The revision in force is of a configuration there is, and its positions
\* are counted from a slot that began before it.
Planned(r) ==
    /\ r.from \in 0 .. Horizon /\ r.cfg \in Configurations
    /\ Active(r.cfg) => /\ r.phase.start \in Int
                        /\ \E t \in 0 .. r.from : r.phase.anchor = Starts[r.cfg.grid][t]

RotationInvariant ==
    /\ AssignedInvariant /\ Budget
    /\ \A o \in Operators : op[o].kind = "save" => op[o].cfg \in Configurations
    /\ Live => Planned(TailRevision)

\* The horizon, by the bounds.
LEMMA HorizonIs == Horizon \in Nat /\ Horizon = MaxTime + MaxCommands + 1
  BY ScheduleAssumption DEF Horizon

\* A configuration has a grid and a list of groups.
LEMMA ConfigurationIs ==
  ASSUME NEW cfg \in Configurations
  PROVE  /\ IsGrid(cfg.grid) /\ cfg.grid \in Grids
         /\ Len(cfg.groups) \in Nat /\ DOMAIN cfg.groups = 1 .. Len(cfg.groups)
         /\ Active(cfg) => Len(cfg.groups) \in Nat \ {0} /\ 1 \in DOMAIN cfg.groups
  <1>1. IsGrid(cfg.grid) /\ cfg.groups \in Seq({cfg.groups[i] : i \in DOMAIN cfg.groups})
    BY ScheduleAssumption
  <1>2. cfg.grid \in Grids
    BY DEF Grids
  <1>3. PICK S : cfg.groups \in Seq(S)
    BY <1>1
  <1>4. Len(cfg.groups) \in Nat /\ DOMAIN cfg.groups = 1 .. Len(cfg.groups)
    BY <1>3
  <1>5. cfg.groups # <<>> => Len(cfg.groups) # 0
    BY <1>3, EmptySeq
  <1> QED BY <1>1, <1>2, <1>4, <1>5 DEF Active

\* A command that is answered is no longer under way.
LEMMA PendingAnswered ==
  ASSUME NEW o \in Operators, DOMAIN op = Operators, op[o] # None, Answered(o), IsFiniteSet(Commanding)
  PROVE  IsFiniteSet(Commanding') /\ Cardinality(Commanding') = Cardinality(Commanding) - 1
         /\ Cardinality(Commanding) \in Nat /\ Cardinality(Commanding') \in Nat
  <1>1. Commanding' = Commanding \ {o} /\ o \in Commanding
    BY DEF Commanding, Answered
  <1> QED BY <1>1, FS_RemoveElement, FS_CardinalityType

\* A command that is sent is one more under way.
LEMMA PendingSent ==
  ASSUME NEW o \in Operators, DOMAIN op = Operators, NEW c, Send(o, c), c # None, IsFiniteSet(Commanding)
  PROVE  IsFiniteSet(Commanding') /\ Cardinality(Commanding') = Cardinality(Commanding) + 1
         /\ Cardinality(Commanding) \in Nat
  <1>1. Commanding' = Commanding \cup {o} /\ o \notin Commanding
    BY DEF Commanding, Send
  <1> QED BY <1>1, FS_AddElement, FS_CardinalityType

\* The revision a command adds begins within the horizon.
LEMMA NextIsInReach ==
  ASSUME Budget, IsFiniteSet(Commanding), Cardinality(Commanding) >= 1
  PROVE  /\ NextEffectiveAt \in Nat /\ NextEffectiveAt >= now
         /\ NextEffectiveAt + Cardinality(Commanding) - 1 <= MaxTime + commands
         /\ Exists => NextEffectiveAt > TailRevision.from
  <1>1. Cardinality(Commanding) \in Nat
    BY FS_CardinalityType
  <1>2. MaxTime \in Nat /\ MaxCommands \in Nat
    BY ScheduleAssumption
  <1> QED BY <1>1, <1>2 DEF Budget, NextEffectiveAt

\* No step plans further ahead than the commands left can carry it.
LEMMA BudgetKept ==
  ASSUME AssignedInvariant, Budget, [DutyNext]_dutyVars
  PROVE  Budget'
  <1>1. MaxTime \in Nat /\ MaxCommands \in Nat /\ DOMAIN op = Operators
    BY ScheduleAssumption DEF AssignedInvariant, CommandsHold
  <1>2. IsFiniteSet(Commanding) /\ Cardinality(Commanding) \in Nat
    BY FS_CardinalityType DEF Budget
  <1>3. ASSUME UNCHANGED <<chain, op>>, now' \in 0 .. MaxTime, commands' \in 0 .. MaxCommands, commands' >= commands
        PROVE  Budget'
    <2>1. Commanding' = Commanding /\ (Exists' <=> Exists) /\ TailRevision' = TailRevision
      BY <1>3 DEF Commanding, Exists, TailRevision
    <2> QED BY <2>1, <1>1, <1>2, <1>3 DEF Budget
  <1>4. CASE Pass \/ People \/ UNCHANGED dutyVars
    <2>1. UNCHANGED <<chain, op>>
      BY <1>4 DEF Pass, People, RemoveTeamMember, AddTeamMember, EraseLocks, EraseCommits, dutyVars
    <2>2. now' = now \/ (now < MaxTime /\ now' = now + 1)
      BY <1>4 DEF Pass, People, RemoveTeamMember, AddTeamMember, EraseLocks, EraseCommits, dutyVars
    <2>3. commands' = commands \/ (commands < MaxCommands /\ commands' = commands + 1)
      BY <1>4 DEF Pass, People, RemoveTeamMember, AddTeamMember, EraseLocks, EraseCommits, dutyVars
    <2>4. now' \in 0 .. MaxTime /\ commands' \in 0 .. MaxCommands /\ commands' >= commands
      BY <2>2, <2>3, <1>1 DEF Budget
    <2> QED BY <2>1, <2>4, <1>3
  <1>5. ASSUME NEW o \in Operators, NEW c \in Requests(o), Send(o, c) PROVE Budget'
    <2>1. c # None
      BY RequestsAreSigned
    <2>2. IsFiniteSet(Commanding') /\ Cardinality(Commanding') = Cardinality(Commanding) + 1
      BY <1>1, <1>2, <1>5, <2>1, PendingSent
    <2>3. /\ UNCHANGED <<now, chain>> /\ commands < MaxCommands /\ commands' = commands + 1
      BY <1>5 DEF Send
    <2>4. (Exists' <=> Exists) /\ TailRevision' = TailRevision
      BY <2>3 DEF Exists, TailRevision
    <2> QED BY <2>2, <2>3, <2>4, <1>1, <1>2 DEF Budget
  <1>6. ASSUME NEW o \in Operators,
               SaveCommits(o) \/ DeleteCommits(o) \/ CreateCommits(o) \/ UpdateCommits(o)
                 \/ CancelCommits(o) \/ Refused(o)
        PROVE  Budget'
    <2>1. op[o] # None /\ Answered(o) /\ UNCHANGED <<now, commands>>
      <3>1. CASE Refused(o)
        BY <3>1 DEF Refused
      <3>2. CASE SaveCommits(o) \/ DeleteCommits(o) \/ CreateCommits(o) \/ UpdateCommits(o) \/ CancelCommits(o)
        <4>1. Answered(o) /\ UNCHANGED <<now, commands>>
          BY <3>2 DEF SaveCommits, DeleteCommits, CreateCommits, UpdateCommits, CancelCommits
        <4>2. op[o].kind \in {"save", "delete", "create", "update", "cancel"}
          BY <3>2 DEF SaveCommits, DeleteCommits, CreateCommits, UpdateCommits, CancelCommits
        <4> QED BY <4>1, <4>2 DEF None
      <3> QED BY <1>6, <3>1, <3>2
    <2>2. /\ IsFiniteSet(Commanding') /\ Cardinality(Commanding') = Cardinality(Commanding) - 1
          /\ Cardinality(Commanding') \in Nat
      BY <2>1, <1>1, <1>2, PendingAnswered
    <2>3. CASE chain' = chain
      <3>1. (Exists' <=> Exists) /\ TailRevision' = TailRevision
        BY <2>3 DEF Exists, TailRevision
      <3> QED BY <3>1, <2>1, <2>2, <1>1, <1>2 DEF Budget
    <2>4. ASSUME NEW r, chain' = Append(chain, r), r.from = NextEffectiveAt PROVE Budget'
      <3>1. Exists' /\ TailRevision' = r
        <4>1. chain' # <<>> /\ chain'[Len(chain')] = r
          BY <2>4, AppendIs DEF AssignedInvariant, Shape
        <4> QED BY <4>1 DEF Exists, TailRevision
      <3>2. NextEffectiveAt \in Nat /\ NextEffectiveAt + Cardinality(Commanding) - 1 <= MaxTime + commands
        BY <1>2, <2>2, NextIsInReach
      <3> QED BY <3>1, <3>2, <2>1, <2>2, <2>4, <1>1, <1>2 DEF Budget
    <2>5. \/ chain' = chain
          \/ \E r : chain' = Append(chain, r) /\ r.from = NextEffectiveAt
      <3>1. CASE SaveCommits(o)
        <4> DEFINE r == ActiveRevision(op[o].cfg, NextEffectiveAt)
        <4>1. chain' = Append(chain, r)
          BY <3>1 DEF SaveCommits
        <4>2. r.from = NextEffectiveAt
          BY DEF ActiveRevision
        <4> HIDE DEF r
        <4> QED BY <4>1, <4>2
      <3>2. CASE DeleteCommits(o)
        <4> DEFINE r == DeletedRevision(NextEffectiveAt)
        <4>1. chain' = Append(chain, r)
          BY <3>2 DEF DeleteCommits
        <4>2. r.from = NextEffectiveAt
          BY DEF DeletedRevision
        <4> HIDE DEF r
        <4> QED BY <4>1, <4>2
      <3>3. CASE CreateCommits(o) \/ UpdateCommits(o) \/ CancelCommits(o) \/ Refused(o)
        BY <3>3 DEF CreateCommits, UpdateCommits, CancelCommits, Refused
      <3> QED BY <1>6, <3>1, <3>2, <3>3
    <2> QED BY <2>3, <2>4, <2>5
  <1> QED BY <1>4, <1>5, <1>6 DEF DutyNext, Command

\* -------------------------------------------------------------------------
\* Who is on duty within a revision.

\* The table of slot starts, by what it tabulates.
LEMMA StartsAre ==
  ASSUME NEW cfg \in Configurations, NEW t \in 0 .. Horizon
  PROVE  /\ Starts[cfg.grid][t] = SlotStart(cfg.grid, t)
         /\ \A u \in 0 .. Horizon :
              Turns[cfg.grid][Starts[cfg.grid][t]][u] =
                SlotsBetween(cfg.grid, SlotStart(cfg.grid, t), SlotStart(cfg.grid, u))
  <1>1. cfg.grid \in Grids
    BY ConfigurationIs
  <1>2. \A u \in 0 .. Horizon : Starts[cfg.grid][u] = SlotStart(cfg.grid, u)
    BY <1>1 DEF Starts
  <1>3. Turns[cfg.grid] = [a \in {Starts[cfg.grid][u] : u \in 0 .. Horizon} |->
                             [u \in 0 .. Horizon |-> SlotsBetween(cfg.grid, a, Starts[cfg.grid][u])]]
    BY <1>1 DEF Turns
  <1>4. \A a \in {Starts[cfg.grid][u] : u \in 0 .. Horizon} : \A u \in 0 .. Horizon :
          Turns[cfg.grid][a][u] = SlotsBetween(cfg.grid, a, Starts[cfg.grid][u])
    BY <1>3
  <1>5. Starts[cfg.grid][t] \in {Starts[cfg.grid][u] : u \in 0 .. Horizon}
    OBVIOUS
  <1>6. \A u \in 0 .. Horizon : Turns[cfg.grid][Starts[cfg.grid][t]][u]
                                  = SlotsBetween(cfg.grid, Starts[cfg.grid][t], Starts[cfg.grid][u])
    BY <1>4, <1>5
  <1> QED BY <1>2, <1>6

\* The turns a revision has had by t.
Had(r, t) == SlotsBetween(r.cfg.grid, r.phase.anchor, SlotStart(r.cfg.grid, t))

\* The group on duty is the one at the position counted from the anchor.
LEMMA GroupIs ==
  ASSUME NEW r, Planned(r), Active(r.cfg), NEW t \in r.from .. Horizon
  PROVE  /\ IsGrid(r.cfg.grid) /\ Boundary(r.cfg.grid, r.phase.anchor)
         /\ r.phase.anchor \in Int /\ r.phase.anchor <= t /\ t \in Int
         /\ Had(r, t) \in Nat /\ r.phase.start \in Int /\ Len(r.cfg.groups) \in Nat \ {0}
         /\ GroupAt(r, t) = 1 + ((r.phase.start + Had(r, t)) % Len(r.cfg.groups))
         /\ GroupAt(r, t) \in DOMAIN r.cfg.groups
  <1> DEFINE g == r.cfg.grid
             a == r.phase.anchor
             n == Len(r.cfg.groups)
  <1>1. /\ IsGrid(g) /\ n \in Nat \ {0} /\ DOMAIN r.cfg.groups = 1 .. n
        /\ r.cfg \in Configurations /\ r.from \in 0 .. Horizon /\ r.phase.start \in Int
    BY ConfigurationIs DEF Planned
  <1>2. PICK u \in 0 .. r.from : a = Starts[g][u]
    BY DEF Planned
  <1>3. Horizon \in Nat /\ u \in 0 .. Horizon /\ t \in 0 .. Horizon /\ u <= t
    BY <1>1, HorizonIs
  <1>4. a = SlotStart(g, u) /\ Turns[g][a][t] = SlotsBetween(g, a, SlotStart(g, t))
    BY <1>1, <1>2, <1>3, StartsAre
  <1>5. Boundary(g, a) /\ a \in Int /\ a <= t
    <2>1. u \in Int
      BY <1>3
    <2>2. a \in Int /\ Boundary(g, a) /\ a <= u
      BY <2>1, <1>1, <1>4, StartIs
    <2> QED BY <2>2, <1>3
  <1>6. SlotsBetween(g, a, SlotStart(g, t)) \in Nat
    <2>1. t \in Int
      BY <1>3
    <2> HIDE DEF g, a
    <2> QED BY <2>1, <1>1, <1>5, TurnsStep
  <1>7. GroupAt(r, t) = 1 + ((r.phase.start + Had(r, t)) % n)
    BY <1>4 DEF GroupAt, Had
  <1>8. Had(r, t) \in Nat
    BY <1>6 DEF Had
  <1>9. GroupAt(r, t) \in 1 .. n
    <2> DEFINE x == r.phase.start + Had(r, t)
    <2>1. x \in Int
      BY <1>1, <1>8
    <2> HIDE DEF x, n
    <2>2. x % n \in 0 .. (n - 1)
      BY <2>1, <1>1, Divided
    <2> QED BY <2>2, <1>1, <1>7 DEF x
  <1> QED BY <1>1, <1>3, <1>5, <1>7, <1>8, <1>9

\* The group on duty changes at a boundary, to the next, and only there.
LEMMA GroupTurns ==
  ASSUME NEW r, Planned(r), Active(r.cfg), NEW t \in r.from .. (Horizon - 1)
  PROVE  GroupAt(r, t + 1) = IF Boundary(r.cfg.grid, t + 1)
                             THEN 1 + (GroupAt(r, t) % Len(r.cfg.groups)) ELSE GroupAt(r, t)
  <1> DEFINE g == r.cfg.grid
             a == r.phase.anchor
             n == Len(r.cfg.groups)
             x == r.phase.start + Had(r, t)
  <1>1. t \in r.from .. Horizon /\ t + 1 \in r.from .. Horizon
    BY HorizonIs DEF Planned
  <1>2. /\ IsGrid(g) /\ Boundary(g, a) /\ a \in Int /\ a <= t /\ t \in Int
        /\ Had(r, t) \in Nat /\ r.phase.start \in Int /\ n \in Nat \ {0}
        /\ GroupAt(r, t) = 1 + (x % n)
    BY <1>1, GroupIs
  <1>3. GroupAt(r, t + 1) = 1 + ((r.phase.start + Had(r, t + 1)) % n)
    BY <1>1, GroupIs
  <1>4. Had(r, t + 1) = Had(r, t) + IF Boundary(g, t + 1) THEN 1 ELSE 0
    BY <1>2, TurnsStep DEF Had
  <1>5. CASE ~Boundary(g, t + 1)
    <2>1. Had(r, t + 1) = Had(r, t)
      BY <1>2, <1>4, <1>5
    <2> QED BY <2>1, <1>2, <1>3, <1>5
  <1>6. CASE Boundary(g, t + 1)
    <2>1. r.phase.start + Had(r, t + 1) = x + 1 /\ x \in Int
      <3>1. Had(r, t + 1) = Had(r, t) + 1
        BY <1>4, <1>6
      <3>2. r.phase.start \in Int /\ Had(r, t) \in Int
        BY <1>2
      <3> QED BY <3>1, <3>2
    <2> HIDE DEF x, n
    <2>2. (x + 1) % n = ((x % n) + 1) % n
      BY <2>1, <1>2, NextPosition
    <2>3. x % n \in Int
      BY <2>1, <1>2, Divided
    <2>4. (x % n) + 1 = GroupAt(r, t)
      BY <2>3, <1>2
    <2>5. GroupAt(r, t + 1) = 1 + (GroupAt(r, t) % n)
      BY <2>1, <2>2, <2>4, <1>3
    <2> QED BY <2>5, <1>6 DEF n
  <1> QED BY <1>5, <1>6

\* The dates of the reference are all that can hand over within the horizon.
LEMMA ReferenceIs ==
  ASSUME NEW cfg \in Configurations, NEW x \in 1 .. Horizon
  PROVE  x \in Reference[cfg.grid] <=> Boundary(cfg.grid, x)
  <1> DEFINE g == cfg.grid
             Dates == (0 - 2 * Week) .. (Horizon + 1)
  <1>1. g \in Grids /\ IsGrid(g)
    BY ConfigurationIs
  <1>2. Reference[g] = {Resolve(g, d) : d \in {y \in Dates : g.step = 1 \/ y % Week = g.weekday}}
    BY <1>1 DEF Reference, Boundaries
  <1> HIDE DEF g
  <1>3. Horizon \in Nat /\ Day \in Nat \ {0} /\ Week \in Nat \ {0}
    BY HorizonIs, GridAssumption
  <1>4. ASSUME x \in Reference[g] PROVE Boundary(g, x)
    BY <1>2, <1>3, <1>4 DEF Boundary, OnGrid
  <1>5. ASSUME Boundary(g, x) PROVE x \in Reference[g]
    <2>1. PICK d : OnGrid(g, d) /\ x = Resolve(g, d)
      BY <1>5 DEF Boundary
    <2>2. d \in Int
      BY <2>1 DEF OnGrid
    <2> DEFINE D == d * Day
    <2>3. D \in Int
      BY <2>2, <1>3
    <2>4. /\ g.hour \in 0 .. (Day - 1) /\ g.zone.before \in -Day .. Day /\ g.zone.after \in -Day .. Day
      BY <1>1 DEF IsGrid
    <2>5. x = D + g.hour - g.zone.before \/ x = D + g.hour - g.zone.after
      <3>1. HandoverOf(g, d) = D + g.hour
        BY DEF HandoverOf
      <3>2. x = HandoverOf(g, d) - g.zone.before \/ x = HandoverOf(g, d) - g.zone.after
        BY <1>1, <2>1, <2>2, ResolveIs
      <3> HIDE DEF D
      <3> QED BY <3>1, <3>2, <2>3, <2>4, <1>3
    <2>6. d <= -2 => D <= -2 * Day
      BY <2>2, <1>3
    <2>7. d >= Horizon + 2 => D >= Horizon + 2 * Day
      <3>1. d >= Horizon + 2 => D >= (Horizon + 2) * Day
        BY <2>2, <1>3
      <3>2. (Horizon + 2) * Day = Horizon * Day + 2 * Day /\ Horizon * Day >= Horizon
        BY <1>3
      <3>3. Horizon * Day \in Int
        BY <1>3
      <3> HIDE DEF D
      <3> QED BY <3>1, <3>2, <3>3, <2>3, <1>3
    <2> HIDE DEF D
    <2>8. d \in Dates
      BY <2>2, <2>3, <2>4, <2>5, <2>6, <2>7, <1>3
    <2> QED BY <2>1, <2>8, <1>2 DEF OnGrid
  <1> QED BY <1>4, <1>5 DEF g


\* -------------------------------------------------------------------------
\* Where an edit continues.

\* Around a circle of n: how far i is after m, and who is k after m.
Away(n, m, i) == (i - m) % n
After(n, m, k) == 1 + ((m - 1 + k) % n)

\* The distances from a position go once around the list.
LEMMA AroundTheCircle ==
  ASSUME NEW n \in Nat \ {0}, NEW m \in 1 .. n
  PROVE  /\ \A i \in 1 .. n : Away(n, m, i) \in 0 .. (n - 1) /\ After(n, m, Away(n, m, i)) = i
         /\ \A k \in 0 .. (n - 1) : After(n, m, k) \in 1 .. n /\ Away(n, m, After(n, m, k)) = k
  <1>1. ASSUME NEW i \in 1 .. n
        PROVE  Away(n, m, i) = IF i >= m THEN i - m ELSE i - m + n
    <2>1. CASE i >= m
      <3>1. i - m \in 0 .. (n - 1) /\ n * 0 + (i - m) = i - m
        BY <2>1
      <3>2. (n * 0 + (i - m)) % n = i - m
        BY <3>1, Remainder
      <3> QED BY <2>1, <3>1, <3>2 DEF Away
    <2>2. CASE ~(i >= m)
      <3>1. i - m + n \in 0 .. (n - 1) /\ n * (-1) + (i - m + n) = i - m
        BY <2>2
      <3>2. (n * (-1) + (i - m + n)) % n = i - m + n
        BY <3>1, Remainder
      <3> QED BY <2>2, <3>1, <3>2 DEF Away
    <2> QED BY <2>1, <2>2
  <1>2. ASSUME NEW k \in 0 .. (n - 1)
        PROVE  After(n, m, k) = IF m + k <= n THEN m + k ELSE m + k - n
    <2>1. CASE m + k <= n
      <3>1. m - 1 + k \in 0 .. (n - 1) /\ n * 0 + (m - 1 + k) = m - 1 + k
        BY <2>1
      <3>2. (n * 0 + (m - 1 + k)) % n = m - 1 + k
        BY <3>1, Remainder
      <3> QED BY <2>1, <3>1, <3>2 DEF After
    <2>2. CASE ~(m + k <= n)
      <3>1. m - 1 + k - n \in 0 .. (n - 1) /\ n * 1 + (m - 1 + k - n) = m - 1 + k
        BY <2>2
      <3>2. (n * 1 + (m - 1 + k - n)) % n = m - 1 + k - n
        BY <3>1, Remainder
      <3> QED BY <2>2, <3>1, <3>2 DEF After
    <2> QED BY <2>1, <2>2
  <1>3. \A i \in 1 .. n : Away(n, m, i) \in 0 .. (n - 1)
    BY <1>1
  <1>4. \A k \in 0 .. (n - 1) : After(n, m, k) \in 1 .. n
    BY <1>2
  <1>5. ASSUME NEW i \in 1 .. n PROVE After(n, m, Away(n, m, i)) = i
    <2>1. Away(n, m, i) \in 0 .. (n - 1)
      BY <1>3
    <2> QED BY <2>1, <1>1, <1>2
  <1>6. ASSUME NEW k \in 0 .. (n - 1) PROVE Away(n, m, After(n, m, k)) = k
    <2>1. After(n, m, k) \in 1 .. n
      BY <1>4
    <2> QED BY <2>1, <1>1, <1>2
  <1> QED BY <1>3, <1>4, <1>5, <1>6

\* A group of the old list, by its distance from the one on duty, is in the new.
Stays(old, cfg, i) == \E j \in DOMAIN cfg.groups : cfg.groups[j].id = old.cfg.groups[i].id

\* Position s of the new list is the first group of the old one that stays,
\* counted from the group on duty at position m of n.
Succeeds(old, cfg, n, m, s) ==
  \A i \in 1 .. n :
    Stays(old, cfg, i) /\ (\A j \in 1 .. n : Stays(old, cfg, j) => Away(n, m, i) <= Away(n, m, j))
      => cfg.groups[s].id = old.cfg.groups[i].id

\* The survivor of an edit succeeds the group on duty.
LEMMA SurvivorIs ==
  ASSUME NEW old, NEW cfg \in Configurations, NEW at,
         Active(cfg), NEW n, n = Len(old.cfg.groups), n \in Nat \ {0},
         NEW m, m = GroupAt(old, at), m \in 1 .. n
  PROVE  /\ Survivor(old, cfg, at) \in DOMAIN cfg.groups
         /\ Succeeds(old, cfg, n, m, Survivor(old, cfg, at))
  <1> DEFINE Nth(i) == old.cfg.groups[After(n, m, i)].id
             kept == {i \in 0 .. (n - 1) : \E j \in DOMAIN cfg.groups : cfg.groups[j].id = Nth(i)}
             s == CHOOSE j \in DOMAIN cfg.groups : cfg.groups[j].id = Nth(LeastOf(kept))
  <1>1. Survivor(old, cfg, at) = IF kept = {} THEN 1 ELSE s
    BY DEF Survivor, After
  <1>2. 1 \in DOMAIN cfg.groups
    BY ConfigurationIs
  <1>3. \A k \in kept : k \in 0 .. (n - 1) /\ Stays(old, cfg, After(n, m, k))
    BY DEF Stays
  <1>4. \A k \in 0 .. (n - 1) : Stays(old, cfg, After(n, m, k)) => k \in kept
    BY DEF Stays
  <1>5. kept # {} => LeastOf(kept) \in kept /\ \A k \in kept : LeastOf(kept) <= k
    <2>1. kept \in SUBSET Nat
      OBVIOUS
    <2> HIDE DEF kept
    <2> QED BY <2>1, LeastExists
  <1>6. kept # {} => s \in DOMAIN cfg.groups /\ cfg.groups[s].id = Nth(LeastOf(kept))
    <2>1. kept # {} => \E j \in DOMAIN cfg.groups : cfg.groups[j].id = Nth(LeastOf(kept))
      <3> DEFINE k == LeastOf(kept)
      <3>1. kept # {} => k \in kept
        BY <1>5
      <3> HIDE DEF k
      <3> QED BY <3>1 DEF k
    <2> QED BY <2>1
  <1> HIDE DEF kept, s
  <1>7. Survivor(old, cfg, at) \in DOMAIN cfg.groups
    BY <1>1, <1>2, <1>6
  <1>8. ASSUME NEW i \in 1 .. n, Stays(old, cfg, i),
               \A j \in 1 .. n : Stays(old, cfg, j) => Away(n, m, i) <= Away(n, m, j)
        PROVE  cfg.groups[Survivor(old, cfg, at)].id = old.cfg.groups[i].id
    <2> DEFINE d == Away(n, m, i)
               k == LeastOf(kept)
    <2>1. d \in 0 .. (n - 1) /\ After(n, m, d) = i
      BY AroundTheCircle
    <2>2. d \in kept
      BY <2>1, <1>4, <1>8
    <2>3. k \in kept /\ k <= d /\ k \in 0 .. (n - 1)
      BY <2>2, <1>3, <1>5
    <2>4. Stays(old, cfg, After(n, m, k)) /\ After(n, m, k) \in 1 .. n /\ Away(n, m, After(n, m, k)) = k
      BY <2>3, <1>3, AroundTheCircle
    <2>5. d <= k
      BY <2>4, <1>8
    <2> HIDE DEF d, k
    <2>6. d = k
      BY <2>1, <2>3, <2>5
    <2>7. cfg.groups[s].id = Nth(k)
      BY <2>2, <1>6 DEF k
    <2>8. Nth(k) = old.cfg.groups[i].id
      BY <2>1, <2>6
    <2> QED BY <2>2, <2>7, <2>8, <1>1
  <1> QED BY <1>7, <1>8 DEF Succeeds

\* -------------------------------------------------------------------------
\* What a save plans.

\* A layer that is anchored anew has the group it was given on duty.
LEMMA ReanchoredIs ==
  ASSUME NEW cfg \in Configurations, Active(cfg), NEW at \in 0 .. Horizon,
         NEW i \in DOMAIN cfg.groups, NEW r,
         r.from = at, r.cfg = cfg, r.phase = Reanchor(cfg, at, i)
  PROVE  Planned(r) /\ GroupAt(r, at) = i
  <1> DEFINE g == cfg.grid
             n == Len(cfg.groups)
  <1>1. IsGrid(g) /\ n \in Nat \ {0} /\ DOMAIN cfg.groups = 1 .. n
    BY ConfigurationIs
  <1>2. r.phase.anchor = Starts[g][at] /\ r.phase.start = i - 1
    BY DEF Reanchor
  <1>3. at \in 0 .. at /\ i - 1 \in Int
    BY <1>1, HorizonIs
  <1>4. Planned(r)
    BY <1>2, <1>3 DEF Planned
  <1>5. at \in r.from .. Horizon
    BY HorizonIs
  <1>6. GroupAt(r, at) = 1 + ((r.phase.start + Had(r, at)) % n)
    BY <1>4, <1>5, GroupIs
  <1>7. Had(r, at) = 0
    <2>1. Starts[g][at] = SlotStart(g, at)
      BY StartsAre
    <2>2. at \in Int
      BY HorizonIs
    <2>3. Boundary(g, SlotStart(g, at))
      BY <1>1, <2>2, StartIs
    <2>4. SlotsBetween(g, SlotStart(g, at), SlotStart(g, at)) = 0
      BY <1>1, <2>3, NoTurnYet
    <2> QED BY <1>2, <2>1, <2>4 DEF Had
  <1>8. (i - 1) % n = i - 1
    <2>1. i - 1 \in 0 .. (n - 1)
      BY <1>1
    <2> QED BY <1>1, <2>1, SmallRemainder
  <1>9. r.phase.start + Had(r, at) = i - 1 /\ i \in Int
    BY <1>1, <1>2, <1>3, <1>7
  <1>10. GroupAt(r, at) = 1 + (i - 1)
    BY <1>6, <1>8, <1>9
  <1> HIDE DEF n, g
  <1> QED BY <1>4, <1>9, <1>10

\* A plan with the same groups on the same grid goes on with the positions it
\* has; any other continues with the survivor.
LEMMA PlanIs ==
  ASSUME NEW old, Planned(old), Active(old.cfg), old # None,
         NEW cfg \in Configurations, Active(cfg), NEW at \in 0 .. Horizon, old.from <= at,
         NEW r, r.from = at, r.cfg = cfg, r.phase = planLayer(old, cfg, at)
  PROVE  Planned(r) /\ ShiftKept(old, r)
  <1> DEFINE n == Len(old.cfg.groups)
             m == GroupAt(old, at)
             new == cfg.groups[GroupAt(r, at)].id
  <1>1. /\ n \in Nat \ {0} /\ DOMAIN old.cfg.groups = 1 .. n /\ old.cfg \in Configurations
        /\ old.from \in 0 .. Horizon
    BY ConfigurationIs DEF Planned
  <1>2. m \in 1 .. n
    <2>1. at \in old.from .. Horizon
      BY <1>1, HorizonIs
    <2> QED BY <2>1, <1>1, GroupIs
  <1>3. SUFFICES
          /\ Planned(r)
          /\ \A i \in 1 .. n :
               Stays(old, cfg, i) /\ (\A j \in 1 .. n : Stays(old, cfg, j) => Away(n, m, i) <= Away(n, m, j))
                 => new = old.cfg.groups[i].id
    BY <1>1 DEF ShiftKept, Stays, Away
  <1>4. CASE old.cfg.grid = cfg.grid /\ Ids(old.cfg) = Ids(cfg)
    <2>1. r.phase = old.phase
      BY <1>4 DEF planLayer
    <2>2. DOMAIN cfg.groups = 1 .. n /\ \A i \in 1 .. n : cfg.groups[i].id = old.cfg.groups[i].id
      <3>1. DOMAIN Ids(cfg) = DOMAIN cfg.groups /\ DOMAIN Ids(old.cfg) = 1 .. n
        BY <1>1 DEF Ids
      <3>2. \A i \in 1 .. n : Ids(old.cfg)[i] = old.cfg.groups[i].id
        BY <1>1 DEF Ids
      <3>3. \A i \in DOMAIN cfg.groups : Ids(cfg)[i] = cfg.groups[i].id
        BY DEF Ids
      <3> QED BY <1>4, <3>1, <3>2, <3>3
    <2>3. Len(cfg.groups) = n
      <3>1. Len(cfg.groups) \in Nat /\ DOMAIN cfg.groups = 1 .. Len(cfg.groups)
        BY ConfigurationIs
      <3> HIDE DEF n
      <3> QED BY <3>1, <2>2, <1>1
    <2>4. Planned(r)
      <3>1. PICK t \in 0 .. old.from : old.phase.anchor = Starts[cfg.grid][t]
        BY <1>4 DEF Planned
      <3>2. t \in 0 .. at
        BY <1>1, <3>1, HorizonIs
      <3>3. old.phase.start \in Int
        BY DEF Planned
      <3> QED BY <2>1, <3>1, <3>2, <3>3 DEF Planned
    <2>5. GroupAt(r, at) = m
      BY <1>4, <2>1, <2>3 DEF GroupAt
    <2>6. ASSUME NEW i \in 1 .. n,
                 \A j \in 1 .. n : Stays(old, cfg, j) => Away(n, m, i) <= Away(n, m, j)
          PROVE  i = m
      <3>1. Stays(old, cfg, m)
        BY <1>2, <2>2 DEF Stays
      <3>2. Away(n, m, i) <= Away(n, m, m)
        BY <2>6, <3>1, <1>2
      <3>3. Away(n, m, i) \in 0 .. (n - 1) /\ After(n, m, Away(n, m, i)) = i
        BY <1>1, <1>2, AroundTheCircle
      <3>4. Away(n, m, m) \in 0 .. (n - 1) /\ After(n, m, Away(n, m, m)) = m
        BY <1>1, <1>2, AroundTheCircle
      <3>5. Away(n, m, m) = 0
        <4>1. m - m = 0 /\ 0 \in 0 .. (n - 1)
          BY <1>1, <1>2
        <4>2. 0 % n = 0
          BY <1>1, <4>1, SmallRemainder
        <4> HIDE DEF m, n
        <4> QED BY <4>1, <4>2 DEF Away
      <3>6. Away(n, m, i) = Away(n, m, m)
        <4> HIDE DEF m, n
        <4> QED BY <3>2, <3>3, <3>5, <1>1
      <3> QED BY <3>3, <3>4, <3>6
    <2>7. new = old.cfg.groups[m].id
      BY <2>2, <2>5, <1>2
    <2> HIDE DEF new, m, n
    <2> QED BY <2>4, <2>6, <2>7
  <1>5. CASE ~(old.cfg.grid = cfg.grid /\ Ids(old.cfg) = Ids(cfg))
    <2> DEFINE s == Survivor(old, cfg, at)
    <2>1. r.phase = Reanchor(cfg, at, s)
      BY <1>5 DEF planLayer
    <2>2. s \in DOMAIN cfg.groups /\ Succeeds(old, cfg, n, m, s)
      <3>1. n = Len(old.cfg.groups) /\ m = GroupAt(old, at) /\ n \in Nat \ {0} /\ m \in 1 .. n
        BY <1>1, <1>2
      <3>2. Active(cfg)
        BY <1>1
      <3> HIDE DEF n, m
      <3> QED BY <3>1, <3>2, SurvivorIs
    <2> HIDE DEF s, m, n
    <2>3. Planned(r) /\ GroupAt(r, at) = s
      BY <2>1, <2>2, ReanchoredIs
    <2> QED BY <2>2, <2>3 DEF Succeeds
  <1> QED BY <1>4, <1>5

\* A plan made where no layer was in force begins with the first group.
LEMMA FreshPlanIs ==
  ASSUME NEW old, old = None \/ ~Active(old.cfg),
         NEW cfg \in Configurations, Active(cfg), NEW at \in 0 .. Horizon,
         NEW r, r.from = at, r.cfg = cfg, r.phase = planLayer(old, cfg, at)
  PROVE  Planned(r)
  <1>1. r.phase = Reanchor(cfg, at, 1)
    BY DEF planLayer
  <1>2. 1 \in DOMAIN cfg.groups
    BY ConfigurationIs
  <1> QED BY <1>1, <1>2, ReanchoredIs

\* A save plans its revision from the one in force.
LEMMA SavePlans ==
  ASSUME RotationInvariant, NEW o \in Operators, SaveCommits(o)
  PROVE  /\ TailRevision'.kind = "active" /\ Planned(TailRevision')
         /\ Live /\ Active(TailRevision.cfg) /\ Active(TailRevision'.cfg)
              => ShiftKept(TailRevision, TailRevision')
  <1> DEFINE cfg == op[o].cfg
             at == NextEffectiveAt
             old == IF Live THEN TailRevision ELSE None
             r == ActiveRevision(cfg, at)
  <1>1. chain' = Append(chain, r) /\ cfg \in Configurations /\ op[o] # None
    BY DEF SaveCommits, RotationInvariant, None
  <1>2. TailRevision' = r
    <2> HIDE DEF r
    <2> QED BY <1>1, AppendIs DEF TailRevision, RotationInvariant, AssignedInvariant, Shape
  <1>3. r.kind = "active" /\ r.from = at /\ r.cfg = cfg /\ r.phase = planLayer(old, cfg, at)
    BY DEF ActiveRevision
  <1>4. at \in 0 .. Horizon /\ (Exists => TailRevision.from <= at)
    <2>1. IsFiniteSet(Commanding) /\ o \in Commanding
      BY <1>1 DEF RotationInvariant, Budget, Commanding
    <2>2. Cardinality(Commanding) \in Nat /\ Cardinality(Commanding) >= 1
      <3>1. Cardinality(Commanding) \in Nat /\ Cardinality(Commanding) # 0
        BY <2>1, FS_CardinalityType, FS_EmptySet
      <3> QED BY <3>1
    <2>3. /\ at \in Nat /\ at + Cardinality(Commanding) - 1 <= MaxTime + commands
          /\ Exists => at > TailRevision.from
      BY <2>1, <2>2, NextIsInReach DEF RotationInvariant
    <2>4. commands \in 0 .. MaxCommands /\ MaxTime \in Nat /\ MaxCommands \in Nat
          /\ (Exists => TailRevision.from \in Nat)
      BY ScheduleAssumption DEF RotationInvariant, Budget
    <2> HIDE DEF at
    <2> QED BY <2>2, <2>3, <2>4, HorizonIs
  <1> HIDE DEF r, at, cfg
  <1>5. CASE ~Active(cfg)
    BY <1>1, <1>2, <1>3, <1>4, <1>5 DEF Planned
  <1>6. CASE Active(cfg) /\ (~Live \/ ~Active(TailRevision.cfg))
    <2>1. old = None \/ ~Active(old.cfg)
      BY <1>6
    <2> HIDE DEF old
    <2>2. Planned(r)
      BY <2>1, <1>1, <1>3, <1>4, <1>6, FreshPlanIs
    <2> QED BY <2>2, <1>2, <1>3, <1>6
  <1>7. CASE Active(cfg) /\ Live /\ Active(TailRevision.cfg)
    <2>1. old = TailRevision /\ old # None /\ Exists
      BY <1>7 DEF Live, None
    <2>2. Planned(old) /\ Active(old.cfg) /\ old.from <= at
      BY <1>4, <1>7, <2>1 DEF RotationInvariant
    <2> HIDE DEF old
    <2>3. Planned(r) /\ ShiftKept(old, r)
      BY <2>1, <2>2, <1>1, <1>3, <1>4, <1>7, PlanIs
    <2> QED BY <2>1, <2>3, <1>2, <1>3
  <1> QED BY <1>5, <1>6, <1>7

\* Every step keeps the invariant.
LEMMA RotationStep ==
  ASSUME RotationInvariant, [DutyNext]_dutyVars
  PROVE  RotationInvariant'
  <1>1. AssignedInvariant' /\ Budget'
    BY DutyStepKeepsAssigned, BudgetKept DEF RotationInvariant
  <1>2. DOMAIN op = Operators
    BY DEF RotationInvariant, AssignedInvariant, CommandsHold
  <1>3. \A o \in Operators : op'[o].kind = "save" => op'[o].cfg \in Configurations
    <2>1. CASE op' = op
      BY <2>1 DEF RotationInvariant
    <2>2. ASSUME NEW o \in Operators, Answered(o)
          PROVE  \A x \in Operators : op'[x].kind = "save" => op'[x].cfg \in Configurations
      BY <2>2, <1>2 DEF Answered, None, RotationInvariant
    <2>3. ASSUME NEW o \in Operators, NEW c \in Requests(o), Send(o, c)
          PROVE  \A x \in Operators : op'[x].kind = "save" => op'[x].cfg \in Configurations
      <3>1. op' = [op EXCEPT ![o] = c]
        BY <2>3 DEF Send
      <3>2. c.kind = "save" => c.cfg \in Configurations
        BY DEF Requests
      <3> QED BY <3>1, <3>2, <1>2 DEF RotationInvariant
    <2>4. \/ op' = op \/ \E o \in Operators : Answered(o) \/ \E c \in Requests(o) : Send(o, c)
      BY DEF DutyNext, People, Command, Pass, RemoveTeamMember, AddTeamMember, EraseLocks, EraseCommits,
             SaveCommits, DeleteCommits, CreateCommits, UpdateCommits, CancelCommits, Refused, dutyVars
    <2> QED BY <2>1, <2>2, <2>3, <2>4
  <1>4. Live' => Planned(TailRevision)'
    <2>1. CASE chain' = chain
      <3>1. (Live' <=> Live) /\ TailRevision' = TailRevision
        BY <2>1 DEF Live, Exists, TailRevision
      <3>2. Planned(TailRevision)' <=> Planned(TailRevision)
        BY <3>1 DEF Planned
      <3> QED BY <3>1, <3>2 DEF RotationInvariant
    <2>2. ASSUME NEW o \in Operators, SaveCommits(o) PROVE Planned(TailRevision)'
      BY <2>2, SavePlans
    <2>3. ASSUME NEW o \in Operators, DeleteCommits(o) PROVE ~Live'
      <3> DEFINE r == DeletedRevision(NextEffectiveAt)
      <3>1. chain' = Append(chain, r)
        BY <2>3 DEF DeleteCommits
      <3>2. r.kind # "active"
        BY DEF DeletedRevision
      <3> HIDE DEF r
      <3>3. TailRevision' = r
        BY <3>1, AppendIs DEF TailRevision, RotationInvariant, AssignedInvariant, Shape
      <3> QED BY <3>2, <3>3 DEF Live
    <2>4. \/ chain' = chain \/ \E o \in Operators : SaveCommits(o) \/ DeleteCommits(o)
      BY DEF DutyNext, People, Command, Pass, RemoveTeamMember, AddTeamMember, EraseLocks, EraseCommits,
             Send, CreateCommits, UpdateCommits, CancelCommits, Refused, dutyVars
    <2> QED BY <2>1, <2>2, <2>3, <2>4
  <1> QED BY <1>1, <1>3, <1>4 DEF RotationInvariant

\* The first schedule is planned at the beginning.
LEMMA RotationInitially == Init => RotationInvariant
  <1> SUFFICES ASSUME Init PROVE RotationInvariant
    OBVIOUS
  <1> DEFINE first == [kind |-> "active", from |-> 0, cfg |-> FirstConfiguration,
                       phase |-> Reanchor(FirstConfiguration, 0, 1)]
  <1>1. /\ now = 0 /\ chain \in {<<>>, <<first>>} /\ op = [o \in Operators |-> None]
    BY DEF Init, DutyInit
  <1>2. /\ first.from = 0 /\ first.cfg = FirstConfiguration
        /\ first.phase = Reanchor(FirstConfiguration, 0, 1)
    OBVIOUS
  <1> HIDE DEF first
  <1>3. Exists => TailRevision = first
    BY <1>1 DEF Exists, TailRevision
  <1>4. commands \in 0 .. MaxCommands
    <2>1. PICK d \in Deployments : commands = MaxCommands - d.commands
      BY DEF Init
    <2>2. d.commands \in 0 .. MaxCommands /\ MaxCommands \in Nat
      BY DeploymentsAssumption, ScheduleAssumption
    <2> QED BY <2>1, <2>2
  <1>5. Commanding = {} /\ IsFiniteSet(Commanding) /\ Cardinality(Commanding) = 0
    <2>1. Commanding = {}
      BY <1>1 DEF Commanding
    <2> QED BY <2>1, FS_EmptySet
  <1>6. Budget
    BY <1>1, <1>2, <1>3, <1>4, <1>5, ScheduleAssumption DEF Budget
  <1>7. Planned(first)
    <2>1. FirstConfiguration \in Configurations /\ 0 \in 0 .. Horizon
      BY ScheduleAssumption, HorizonIs
    <2>2. CASE Active(FirstConfiguration)
      <3>1. 1 \in DOMAIN FirstConfiguration.groups
        BY <2>1, <2>2, ConfigurationIs
      <3> QED BY <3>1, <2>1, <2>2, <1>2, ReanchoredIs
    <2>3. CASE ~Active(FirstConfiguration)
      BY <2>1, <2>3, <1>2 DEF Planned
    <2> QED BY <2>2, <2>3
  <1>8. Live => Planned(TailRevision)
    BY <1>3, <1>7 DEF Live
  <1>9. \A o \in Operators : op[o].kind = "save" => op[o].cfg \in Configurations
    BY <1>1 DEF None
  <1> QED BY <1>6, <1>8, <1>9, AssignedInitially DEF RotationInvariant

(* Wherever a zone moves its clocks, by a day at most, the slots of a grid  *)
(* leave no instant out and overlap nowhere: the search for the slot of an  *)
(* instant ends, the slot begins at a date's handover and ends at the next  *)
(* one, and no other date hands over within it (grid.go slotContaining,     *)
(* nextAfter, alignDate; localtime.go resolveLocalBoundary).                *)
THEOREM SlotsCoverTime ==
  ASSUME NEW g, IsGrid(g), NEW t \in Int
  PROVE  /\ SlotStart(g, t) <= t /\ t < SlotEnd(g, t)
         /\ Boundary(g, SlotStart(g, t)) /\ Boundary(g, SlotEnd(g, t))
         /\ NoneBetween(g, SlotStart(g, t), SlotEnd(g, t))
  BY SlotHolds, CursorsAreBoundaries DEF SlotStart, SlotEnd

(* A rotation passes to the next of its groups at every boundary of its     *)
(* grid and at no other time, for any number of groups, any anchor, any     *)
(* start and any zone that moves its clocks by a day at most: none is lost  *)
(* where a date is skipped and none is served twice where one is repeated   *)
(* (position.go PositionAt; grid.go SlotsBetween).                          *)
THEOREM PositionsAdvanceInTurn ==
  ASSUME NEW g, IsGrid(g), NEW n \in Nat \ {0}, NEW start \in Int,
         NEW anchor, Boundary(g, anchor), NEW t \in Int, anchor <= t
  PROVE  PositionAt(g, n, start, anchor, t + 1) =
           IF Boundary(g, t + 1) THEN (PositionAt(g, n, start, anchor, t) + 1) % n
           ELSE PositionAt(g, n, start, anchor, t)
  <1> DEFINE had == SlotsBetween(g, anchor, SlotStart(g, t))
  <1>1. had \in Nat
    BY TurnsStep
  <1>2. SlotsBetween(g, anchor, SlotStart(g, t + 1)) = had + IF Boundary(g, t + 1) THEN 1 ELSE 0
    BY TurnsStep
  <1>3. PositionAt(g, n, start, anchor, t) = (start + had) % n
    BY DEF PositionAt
  <1>4. PositionAt(g, n, start, anchor, t + 1) = (start + SlotsBetween(g, anchor, SlotStart(g, t + 1))) % n
    BY DEF PositionAt
  <1> HIDE DEF had
  <1>5. CASE Boundary(g, t + 1)
    <2>1. start + (had + 1) = (start + had) + 1 /\ start + had \in Int
      BY <1>1
    <2>2. SlotsBetween(g, anchor, SlotStart(g, t + 1)) = had + 1
      BY <1>2, <1>5
    <2>3. ((start + had) + 1) % n = (((start + had) % n) + 1) % n
      BY <2>1, NextPosition
    <2> QED BY <2>1, <2>2, <2>3, <1>3, <1>4, <1>5
  <1>6. CASE ~Boundary(g, t + 1)
    <2>1. SlotsBetween(g, anchor, SlotStart(g, t + 1)) = had
      BY <1>1, <1>2, <1>6
    <2> QED BY <2>1, <1>3, <1>4, <1>6
  <1> QED BY <1>5, <1>6

(* The revision in force turns at each boundary of its grid and at no other *)
(* time, however the schedule came to be what it is: through any edits,     *)
(* deletions and re-creations, for any configurations, zones and people,    *)
(* and any number of commands.  The invariant says that the positions of a  *)
(* revision are counted from a slot that began before it, and that no       *)
(* revision is planned further ahead than the commands can carry it         *)
(* (grid.go nextAfter, SlotsBetween; transition.go planLayer).              *)
THEOREM RotationsTurn == Spec => []RotationTurns
  <1>1. RotationInvariant /\ [Next]_vars => RotationInvariant'
    BY WatchersOnlyWatch, RotationStep
  <1>2. RotationInvariant => RotationTurns
    <2> SUFFICES ASSUME RotationInvariant, Live, Active(TailRevision.cfg),
                        NEW t \in TailRevision.from .. (Horizon - 1)
                 PROVE  GroupAt(TailRevision, t + 1) =
                          IF t + 1 \in Reference[TailRevision.cfg.grid]
                          THEN 1 + (GroupAt(TailRevision, t) % Len(TailRevision.cfg.groups))
                          ELSE GroupAt(TailRevision, t)
      BY DEF RotationTurns
    <2>1. Planned(TailRevision)
      BY DEF RotationInvariant
    <2>2. TailRevision.cfg \in Configurations /\ t + 1 \in 1 .. Horizon
      BY <2>1, HorizonIs DEF Planned
    <2> QED BY <2>1, <2>2, GroupTurns, ReferenceIs
  <1> QED BY <1>1, <1>2, RotationInitially, PTL DEF Spec

(* An edit never takes the shift from a group that stays in the list, and   *)
(* hands it to the next that stays if the group on duty is gone: for any    *)
(* lists, hours, cadences and zones, before and after, and any history of   *)
(* the schedule (transition.go planLayer, survivor).                        *)
THEOREM EditsKeepTheShift == Spec => EditKeepsTheShift
  <1> DEFINE Kept == Live /\ Len(chain') > Len(chain) /\ TailRevision'.kind = "active"
                       /\ Active(TailRevision.cfg) /\ Active(TailRevision'.cfg)
                     => ShiftKept(TailRevision, TailRevision')
  <1>1. RotationInvariant /\ [Next]_vars => RotationInvariant'
    BY WatchersOnlyWatch, RotationStep
  <1>2. RotationInvariant /\ [Next]_vars => [Kept]_chain
    <2> SUFFICES ASSUME RotationInvariant, [DutyNext]_dutyVars, chain' # chain,
                        TailRevision'.kind = "active", Live,
                        Active(TailRevision.cfg), Active(TailRevision'.cfg)
                 PROVE  ShiftKept(TailRevision, TailRevision')
      BY WatchersOnlyWatch
    <2>1. PICK o \in Operators : SaveCommits(o) \/ DeleteCommits(o)
      BY DEF DutyNext, People, Command, Pass, RemoveTeamMember, AddTeamMember, EraseLocks, EraseCommits,
             Send, CreateCommits, UpdateCommits, CancelCommits, Refused, dutyVars
    <2>2. ~DeleteCommits(o)
      <3> SUFFICES ASSUME DeleteCommits(o) PROVE FALSE
        OBVIOUS
      <3> DEFINE r == DeletedRevision(NextEffectiveAt)
      <3>1. chain' = Append(chain, r)
        BY DEF DeleteCommits
      <3>2. r.kind # "active"
        BY DEF DeletedRevision
      <3> HIDE DEF r
      <3>3. TailRevision' = r
        BY <3>1, AppendIs DEF TailRevision, RotationInvariant, AssignedInvariant, Shape
      <3> QED BY <3>2, <3>3
    <2> QED BY <2>1, <2>2, SavePlans
  <1> QED BY <1>1, <1>2, RotationInitially, PTL DEF Spec, EditKeepsTheShift
=============================================================================
