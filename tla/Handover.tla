------------------------------ MODULE Handover ------------------------------
(***************************************************************************)
(* The instances that watch who is on duty and offer an announcement of    *)
(* each change (src/internal/handoff), over the schedule of Duty, and the  *)
(* claims those offers are admitted by (store submitHandoff).              *)
(*                                                                         *)
(* An instance holds in memory the composition it saw last.  A tick reads  *)
(* the projection and the addresses of the people new to it, and offers    *)
(* the announcement afterwards: commands, erasures, the clock and another  *)
(* instance's offer come in between.  A claim is what an announcement was  *)
(* admitted by: the event, and the people promised to be told.             *)
(***************************************************************************)
EXTENDS Duty

CONSTANTS
    Instances,
    MaxUpsets,
    Deployments   \* [running, commands, upsets]: the instances started, and
                  \* the commands and upsets left to a behaviour with them

ASSUME DeploymentsAssumption == \A d \in Deployments : d.commands \in 0 .. MaxCommands

VARIABLES
    inst,    \* what each instance knows: [warm, cache, seen]
    claims,  \* what was admitted: [key, people]
    upsets   \* crashes, failed and lost submissions so far

notifierVars == <<inst, claims, upsets>>

vars == <<dutyVars, notifierVars>>

\* Never observed: not the same as observed with nobody on duty.
Unseen == [source |-> "unseen", group |-> 0, users |-> {}]

composition(obs) == [source |-> obs.source, group |-> obs.group, users |-> obs.users]

Fresh == [warm |-> FALSE, cache |-> Unseen, seen |-> None]

addedUsers(prev, next) == next.users \ prev.users

\* The kind of change, if it is one that is announced at all.
classify(prev, next) ==
    IF next.source = "none" \/ prev = Unseen \/ prev = next THEN "nothing"
    ELSE IF prev.source # next.source \/ prev.group # next.group THEN "handoff"
    ELSE IF addedUsers(prev, next) = {} THEN "nothing"
    ELSE "added"

\* Who an erasure has left an address.
reachableThrough(people) == people \ erased

Announces(n, obs) ==
    /\ inst[n].warm
    /\ classify(inst[n].cache, composition(obs)) # "nothing"
    /\ addedUsers(inst[n].cache, composition(obs)) # {}

\* No schedule was ever saved: it is not listed, so it stays unseen.
TickFindsNone(n) ==
    /\ ~Exists /\ inst[n].seen = None
    /\ inst' = [inst EXCEPT ![n].warm = TRUE]
    /\ UNCHANGED <<claims, upsets, dutyVars>>

\* Nothing to announce: the composition is what was seen last from here on.
TickSettles(n) ==
    /\ Exists /\ inst[n].seen = None
    /\ \E obs \in {projectOnCall(now)} :
          /\ ~Announces(n, obs)
          /\ inst' = [inst EXCEPT ![n] =
                        [warm |-> TRUE, cache |-> composition(obs), seen |-> None]]
    /\ UNCHANGED <<claims, upsets, dutyVars>>

TickBuilds(n) ==
    /\ Exists /\ inst[n].seen = None
    /\ \E obs \in {projectOnCall(now)} :
          LET was == inst[n].cache IN
          /\ Announces(n, obs)
          /\ inst' = [inst EXCEPT ![n].seen =
                        [kind |-> classify(was, composition(obs)), obs |-> obs,
                         people |-> reachableThrough(addedUsers(was, composition(obs)))]]
    /\ UNCHANGED <<claims, upsets, dutyVars>>

KeyOf(seen) == [kind |-> seen.kind, obs |-> seen.obs]

HeldBy(seen) == {c \in claims : c.key = KeyOf(seen)}

Settled(n) ==
    inst' = [inst EXCEPT ![n].seen = None, ![n].cache = composition(inst[n].seen.obs)]

Pending(n) == inst' = [inst EXCEPT ![n].seen = None]

Waits(n) == inst[n].seen # None

ErasedSince(n) == inst[n].seen.people \cap erased # {}

\* The lock on a recipient's row waits for an erasure of that person.
RecipientsFree(n) == ~Erasing(inst[n].seen.people)

\* Mutant: an event held by another announcement is asked about again.
OfferHeldRetriesConflict(n) ==
    /\ Waits(n) /\ HeldBy(inst[n].seen) # {}
    /\ IF \E c \in HeldBy(inst[n].seen) : c.people = inst[n].seen.people
       THEN Settled(n) ELSE Pending(n)
    /\ UNCHANGED <<claims, upsets, dutyVars>>

\* The event is claimed, by the same announcement or by another one.
OfferHeld(n) ==
    /\ Waits(n) /\ HeldBy(inst[n].seen) # {}
    /\ Settled(n)
    /\ UNCHANGED <<claims, upsets, dutyVars>>

OfferErased(n) ==
    /\ Waits(n) /\ HeldBy(inst[n].seen) = {}
    /\ RecipientsFree(n) /\ ErasedSince(n)
    /\ Pending(n)
    /\ UNCHANGED <<claims, upsets, dutyVars>>

Admitted(n) ==
    /\ Waits(n) /\ HeldBy(inst[n].seen) = {}
    /\ RecipientsFree(n) /\ ~ErasedSince(n)
    /\ claims' = claims \cup {[key |-> KeyOf(inst[n].seen), people |-> inst[n].seen.people]}

OfferCreates(n) ==
    /\ Admitted(n) /\ Settled(n)
    /\ UNCHANGED <<upsets, dutyVars>>

\* Admitted, and the answer lost: the instance will offer it again.
OfferLost(n) ==
    /\ upsets < MaxUpsets
    /\ Admitted(n) /\ Pending(n)
    /\ upsets' = upsets + 1
    /\ UNCHANGED dutyVars

OfferFails(n) ==
    /\ upsets < MaxUpsets /\ Waits(n)
    /\ Pending(n)
    /\ upsets' = upsets + 1
    /\ UNCHANGED <<claims, dutyVars>>

Crash(n) ==
    /\ upsets < MaxUpsets /\ inst[n] # Fresh
    /\ inst' = [inst EXCEPT ![n] = Fresh]
    /\ upsets' = upsets + 1
    /\ UNCHANGED <<claims, dutyVars>>

\* The instances that were started.
Running == DOMAIN inst

Tick(n) == TickFindsNone(n) \/ TickSettles(n) \/ TickBuilds(n)

Offer(n) == OfferHeld(n) \/ OfferErased(n) \/ OfferCreates(n)

Init ==
    /\ DutyInit /\ claims = {}
    /\ \E d \in Deployments :
          /\ inst = [n \in d.running |-> Fresh]
          /\ commands = MaxCommands - d.commands
          /\ upsets = MaxUpsets - d.upsets

Next ==
    \/ DutyNext /\ UNCHANGED notifierVars
    \/ \E n \in Running :
          Tick(n) \/ Offer(n) \/ OfferLost(n) \/ OfferFails(n) \/ Crash(n)

Spec == Init /\ [][Next]_vars

\* The loop of an instance ticks until it is stopped, a submission it waits
\* for returns, and an erasure's transaction ends.
FairSpec ==
    /\ Spec
    /\ WF_vars(EraseCommits /\ UNCHANGED notifierVars)
    /\ \A n \in Instances : WF_vars(n \in Running /\ (Tick(n) \/ Offer(n)))

\* -------------------------------------------------------------------------

TypeOK ==
    /\ DutyTypeOK
    /\ \A n \in Running : inst[n].cache.users \subseteq Users
    /\ \A c \in claims : c.people \subseteq c.key.obs.users
    /\ upsets \in 0..MaxUpsets

(* Every instance comes to hold the composition that is on duty, once there *)
(* is a schedule: a transition is dealt with and not offered for ever,      *)
(* whichever instance's announcement won, whoever was erased meanwhile and  *)
(* whatever was lost (notifier.go handleHandoff, the rule that moves the    *)
(* cache).                                                                  *)
NoticeSettles ==
    []<>(\A n \in Running :
            inst[n].warm /\ (Exists => inst[n].cache = composition(projectOnCall(now))))
=============================================================================
