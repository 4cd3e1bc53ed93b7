--------------------------------- MODULE Phone ---------------------------------
(***************************************************************************)
(* A person's phone: the number, the call that speaks a code and proves    *)
(* it, the test calls, and what the calls are spent against.               *)
(* internal/api/phone.go over internal/store/phone_store.go.               *)
(*                                                                         *)
(* The requests of several instances interleave.  Each reads the number    *)
(* without a lock, reserves the call in one transaction that takes the     *)
(* person's row and then the account's, issues the code in another         *)
(* statement, calls the provider, and gives the capacity back in a third   *)
(* if the provider refused.  Between any two of them the number changes,   *)
(* the person is erased, or the process dies.                              *)
(*                                                                         *)
(* Abstracted: one integration to an account, with limits that do not      *)
(* change, and any of them may be the one that is picked; a code is the    *)
(* call that speaks it, so a guess is a wrong code; times are ticks of a   *)
(* clock, their order and sums those of the code's constants.              *)
(***************************************************************************)
EXTENDS Integers, Sequences, FiniteSets

CONSTANTS
  Person, Number, \* people and their numbers
  Sender,        \* the numbers calls come from, each on a provider account of its own
  Request,       \* requests in flight, over every instance
  None,          \* no number, no code, nobody
  MaxConcurrent, \* calls the account may have at once
  Interval,      \* a tick less than 1/CPS would not do between two calls
  Life,          \* phoneRing + phoneTalk
  Hold,          \* phoneHold
  CodeTTL,       \* phoneCodeTTL
  VerifySpan, MaxVerify,  \* an hour, phoneVerifyCallsPerHour
  DaySpan, MaxDay,        \* a day, phoneCallsPerDay
  CodeAttempts,  \* phoneCodeAttempts
  MaxTime,       \* bound: the clock stops here
  MaxCalls,      \* bound: calls reserved
  MaxEdits,      \* bound: changes of numbers and marks, and wrong codes
  MaxPins,       \* bound: requests for a pin
  MaxFaults      \* bound: refused calls, doubtful calls and deaths

\* What is left of the hold once ringing and talking are taken off is for the
\* request: from the clock it read under its locks to the provider's answer.
ASSUME PhoneAssumption ==
  /\ None \notin Person \cup Number
  /\ {MaxConcurrent, Interval, Life, Hold, CodeTTL, VerifySpan, MaxVerify, DaySpan, MaxDay,
      CodeAttempts, MaxTime, MaxCalls} \subseteq Nat \ {0}
  /\ MaxEdits \in Nat /\ MaxPins \in Nat /\ MaxFaults \in Nat
  /\ Life < Hold /\ Hold <= CodeTTL /\ Hold <= VerifySpan /\ VerifySpan <= DaySpan
  /\ MaxVerify <= MaxDay

VARIABLES
  now,       \* clock_timestamp()
  erased,    \* users.deleted_at
  contact,   \* user_contacts: number, verified_at, and the number the pin was checked for
  marks,     \* phone_dnd_checks: the numbers a person vouched for
  code,      \* link_tokens of provider "phone"
  calls,     \* call_reservations and phone_calls_log, a row of each per call
  nextFree,  \* call_capacity.next_free_at, by account
  requests,  \* what a request holds in memory
  line,      \* what became of each call at the provider
  budget     \* what is left of MaxEdits, MaxPins and MaxFaults

vars == <<now, erased, contact, marks, code, calls, nextFree, requests, line, budget>>

NoContact == [number |-> None, verified |-> FALSE, pin |-> None]
NoCode == [call |-> 0, number |-> None, wrong |-> 0, until |-> 0]
Idle == [pc |-> "idle", person |-> None, purpose |-> "none", number |-> None, sender |-> None,
         at |-> 0, call |-> 0]

Init ==
  /\ now = 1
  /\ erased = {}
  /\ contact = [p \in Person |-> NoContact]
  /\ marks = [p \in Person |-> {}]
  /\ code = [p \in Person |-> NoCode]
  /\ calls = <<>> /\ line = <<>>
  /\ nextFree = [s \in Sender |-> 0]
  /\ requests = [r \in Request |-> Idle]
  /\ budget = [edits |-> MaxEdits, pins |-> MaxPins, faults |-> MaxFaults]

Edits == budget.edits > 0 /\ budget' = [budget EXCEPT !.edits = @ - 1]
Fault == budget.faults > 0 /\ budget' = [budget EXCEPT !.faults = @ - 1]

Goes(r, pc) == requests' = [requests EXCEPT ![r].pc = pc]
Ends(r) == requests' = [requests EXCEPT ![r] = Idle]

\* Mutant: the person's row is not locked.
Unlocked(p) == FALSE

\* FOR NO KEY UPDATE on the person keeps every FOR SHARE and FOR UPDATE out.
Locked(p) == \E r \in Request : requests[r].person = p /\ requests[r].pc = "locked"

AccountLocked(s) == \E r \in Request : requests[r].sender = s /\ requests[r].pc = "locked"

\* lockActiveUserTx and activeUserCTE.
Here(p) == p \notin erased /\ ~Locked(p)

------------------------------------------------------------------------------
(* The number, its pin and the person's marks.                             *)

\* A different number starts unverified and unpinned.
Renumbered(p, n) ==
  [NoContact EXCEPT !.number = n]

\* Writing the same number again changes nothing.
SetPhoneContact(p, n) ==
  /\ Here(p) /\ n # contact[p].number /\ Edits
  /\ contact' = [contact EXCEPT ![p] = Renumbered(p, n)]
  /\ UNCHANGED <<now, erased, marks, code, calls, nextFree, requests, line>>

DeletePhoneContact(p) ==
  /\ Here(p) /\ (contact[p] # NoContact \/ code[p] # NoCode) /\ Edits
  /\ contact' = [contact EXCEPT ![p] = NoContact]
  /\ marks' = [marks EXCEPT ![p] = {}]
  /\ code' = [code EXCEPT ![p] = NoCode]
  /\ UNCHANGED <<now, erased, calls, nextFree, requests, line>>

\* PinMyPhoneProvider: the coverage is checked for the number as it was read.
PinAsks(r, p) ==
  /\ requests[r] = Idle /\ p \notin erased /\ contact[p].number # None
  /\ budget.pins > 0 /\ budget' = [budget EXCEPT !.pins = @ - 1]
  /\ requests' = [requests EXCEPT ![r] = [Idle EXCEPT !.pc = "asked", !.person = p,
                                            !.purpose = "pin", !.number = contact[p].number]]
  /\ UNCHANGED <<now, erased, contact, marks, code, calls, nextFree, line>>

\* The write only lands if the number is still the person's.
PinLands(p, checked) == p \notin erased /\ contact[p].number = checked

\* PinPhoneIntegration takes no lock on the person; None clears the pin.
PinWrites(r, pin) ==
  LET p == requests[r].person
  IN /\ requests[r].pc = "asked" /\ requests[r].purpose = "pin"
     /\ pin \in {None, requests[r].number}
     /\ contact' = IF PinLands(p, requests[r].number)
                   THEN [contact EXCEPT ![p].pin = pin] ELSE contact
     /\ Ends(r)
     /\ UNCHANGED <<now, erased, marks, code, calls, nextFree, line, budget>>

ConfirmDNDCheck(p) ==
  /\ Here(p) /\ contact[p].verified /\ contact[p].number \notin marks[p] /\ Edits
  /\ marks' = [marks EXCEPT ![p] = @ \cup {contact[p].number}]
  /\ UNCHANGED <<now, erased, contact, code, calls, nextFree, requests, line>>

------------------------------------------------------------------------------
(* RequestPhoneCode and RequestPhoneTestCall, up to the reservation.       *)

\* A call that is asked for and not reserved yet counts.
FewCalls ==
  LET waiting == {r \in Request : requests[r].pc \in {"asked", "locked"}
                                   /\ requests[r].purpose # "pin"}
  IN Len(calls) + Cardinality(waiting) < MaxCalls

\* The number, and the sender of the integration that would call it.
Asks(r, p, purpose, sender) ==
  /\ requests[r] = Idle /\ p \notin erased
  /\ contact[p].number # None /\ (purpose = "dnd_check" => contact[p].verified)
  /\ FewCalls
  /\ requests' = [requests EXCEPT ![r] = [Idle EXCEPT !.pc = "asked", !.person = p,
                    !.purpose = purpose, !.number = contact[p].number, !.sender = sender]]
  /\ UNCHANGED <<now, erased, contact, marks, code, calls, nextFree, line, budget>>

Held(k, at) == ~calls[k].released /\ calls[k].hold > at

\* Mutant: a call to an earlier number is not asked about.
InFlightToNumber(q) ==
  \E k \in DOMAIN calls :
    /\ calls[k].to = q.number /\ calls[k].purpose = q.purpose /\ Held(k, q.at)
    /\ q.purpose = "dnd_check" => calls[k].sender = q.sender

\* One code call at a time, one test call at a time from each sender.
InFlight(q) ==
  \E k \in DOMAIN calls :
    /\ calls[k].person = q.person /\ calls[k].purpose = q.purpose /\ Held(k, q.at)
    /\ q.purpose = "dnd_check" => calls[k].sender = q.sender

Spent(p, purposes, after) ==
  Cardinality({k \in DOMAIN calls : /\ calls[k].asker = p /\ calls[k].purpose \in purposes
                                    /\ calls[k].at > after})

WithinAllowance(q) ==
  /\ q.purpose = "verify" => Spent(q.person, {"verify"}, q.at - VerifySpan) < MaxVerify
  /\ Spent(q.person, {"verify", "dnd_check"}, q.at - DaySpan) < MaxDay

HasCapacity(q) ==
  /\ Cardinality({k \in DOMAIN calls : calls[k].sender = q.sender /\ Held(k, q.at)})
       < MaxConcurrent
  /\ nextFree[q.sender] <= q.at

\* ErrPhoneContactChanged, ErrPhoneNotVerified, or what the limits leave.
Reservable(q) ==
  /\ contact[q.person].number = q.number
  /\ q.purpose = "dnd_check" => contact[q.person].verified
  /\ ~InFlight(q) /\ WithinAllowance(q) /\ HasCapacity(q)

\* The person's row, then the account's; the clock is read, and everything
\* counted, under both.
ReserveBegins(r) ==
  LET q == [requests[r] EXCEPT !.pc = "locked", !.at = now]
  IN /\ requests[r].pc = "asked" /\ q.purpose # "pin"
     /\ ~Locked(q.person) /\ ~AccountLocked(q.sender)
     /\ requests' = [requests EXCEPT ![r] =
                       IF q.person \notin erased /\ Reservable(q) THEN q ELSE Idle]
     /\ UNCHANGED <<now, erased, contact, marks, code, calls, nextFree, line, budget>>

Reservation(q) ==
  [person |-> q.person, asker |-> q.person, purpose |-> q.purpose, to |-> q.number,
   sender |-> q.sender, at |-> q.at, hold |-> q.at + Hold, released |-> FALSE]

ReserveCommits(r) ==
  LET q == requests[r]
  IN /\ q.pc = "locked"
     /\ calls' = Append(calls, Reservation(q))
     /\ line' = Append(line, [state |-> "none", since |-> 0])
     /\ nextFree' = [nextFree EXCEPT ![q.sender] = q.at + Interval]
     /\ requests' = [requests EXCEPT ![r].pc = "reserved", ![r].call = Len(calls) + 1]
     /\ UNCHANGED <<now, erased, contact, marks, code, budget>>

------------------------------------------------------------------------------
(* After the reservation: the code, the call, and what is given back.      *)

\* Mutant: the code is written for whoever the request began with.
IssuePhoneCodeUnasked(r) ==
  LET q == requests[r]
  IN /\ q.pc = "reserved" /\ q.purpose = "verify"
     /\ code' = [code EXCEPT ![q.person] = [call |-> q.call, number |-> q.number, wrong |-> 0,
                                             until |-> now + CodeTTL]]
     /\ Goes(r, "issued")
     /\ UNCHANGED <<now, erased, contact, marks, calls, nextFree, line, budget>>

\* One code per person: a new one replaces any earlier one.
IssuePhoneCode(r) ==
  LET q == requests[r]
  IN /\ q.pc = "reserved" /\ q.purpose = "verify" /\ ~Locked(q.person)
     /\ IF q.person \in erased
        THEN Goes(r, "refused") /\ UNCHANGED code
        ELSE /\ code' = [code EXCEPT ![q.person] = [call |-> q.call, number |-> q.number,
                                                     wrong |-> 0, until |-> now + CodeTTL]]
             /\ Goes(r, "issued")
     /\ UNCHANGED <<now, erased, contact, marks, calls, nextFree, line, budget>>

Calling(r) ==
  \/ requests[r].pc = "issued"
  \/ requests[r].pc = "reserved" /\ requests[r].purpose = "dnd_check"

Rings(k) == line' = [line EXCEPT ![k] = [state |-> "alive", since |-> now]]

CallCreated(r) ==
  /\ Calling(r) /\ Rings(requests[r].call) /\ Ends(r)
  /\ UNCHANGED <<now, erased, contact, marks, code, calls, nextFree, budget>>

\* ErrNotCreated: the provider's own word that there is no call.
CallNotCreated(r) ==
  /\ Calling(r) /\ Goes(r, "refused") /\ Fault
  /\ UNCHANGED <<now, erased, contact, marks, code, calls, nextFree, line>>

\* ErrUnknown: the call may be ringing, so its capacity stays spent.
CallUnknown(r, placed) ==
  /\ Calling(r) /\ Ends(r) /\ Fault
  /\ IF placed THEN Rings(requests[r].call) ELSE UNCHANGED line
  /\ UNCHANGED <<now, erased, contact, marks, code, calls, nextFree>>

ReleasePhoneReservation(r) ==
  /\ requests[r].pc = "refused"
  /\ calls' = [calls EXCEPT ![requests[r].call].released = TRUE]
  /\ Ends(r)
  /\ UNCHANGED <<now, erased, contact, marks, code, nextFree, line, budget>>

\* The process dies: its locks go with its transaction, what it committed stays.
Dies(r) ==
  /\ requests[r].pc # "idle" /\ Ends(r) /\ Fault
  /\ UNCHANGED <<now, erased, contact, marks, code, calls, nextFree, line>>

------------------------------------------------------------------------------
(* ConfirmPhoneCode.                                                       *)

\* What the person heard on a call of theirs; 0 stands for a wrong code.
Heard(p) ==
  {k \in DOMAIN calls :
     calls[k].asker = p /\ calls[k].purpose = "verify" /\ line[k].state # "none"}

\* Mutant: the code is not held against the number it was spoken to.
ProvesAny(p) == TRUE

\* A code spoken to an earlier number verifies nothing.
Proves(p) == contact[p].number = code[p].number

RightCode(p) ==
  /\ code' = [code EXCEPT ![p] = NoCode]
  /\ contact' = IF Proves(p) THEN [contact EXCEPT ![p].verified = TRUE] ELSE contact
  /\ UNCHANGED budget

WrongCode(p) ==
  /\ code' = [code EXCEPT ![p] = IF code[p].wrong + 1 >= CodeAttempts THEN NoCode
                                 ELSE [code[p] EXCEPT !.wrong = @ + 1]]
  /\ UNCHANGED contact /\ Edits

ConfirmPhoneCode(p, k) ==
  /\ Here(p) /\ code[p] # NoCode
  /\ IF code[p].until <= now
     THEN code' = [code EXCEPT ![p] = NoCode] /\ UNCHANGED <<contact, budget>>
     ELSE IF k = code[p].call THEN RightCode(p) ELSE WrongCode(p)
  /\ UNCHANGED <<now, erased, marks, calls, nextFree, requests, line>>

------------------------------------------------------------------------------
(* Erasure, the line and the clock.                                        *)

\* DeleteUserPhoneData and DeleteUserLinkTokens, under FOR UPDATE on the person.
\* The reservations keep their hold and the log its count; both forget who.
Erase(p) ==
  /\ Here(p)
  /\ erased' = erased \cup {p}
  /\ contact' = [contact EXCEPT ![p] = NoContact]
  /\ marks' = [marks EXCEPT ![p] = {}]
  /\ code' = [code EXCEPT ![p] = NoCode]
  /\ calls' = [k \in DOMAIN calls |->
                 IF calls[k].asker = p THEN [calls[k] EXCEPT !.person = None, !.to = None]
                 ELSE calls[k]]
  /\ UNCHANGED <<now, nextFree, requests, line, budget>>

HangsUp(k) ==
  /\ line[k].state = "alive"
  /\ line' = [line EXCEPT ![k] = [state |-> "over", since |-> 0]]
  /\ UNCHANGED <<now, erased, contact, marks, code, calls, nextFree, requests, budget>>

\* No call outlives phoneRing + phoneTalk, and no request takes longer from the
\* clock it read to the provider's answer than the hold leaves it.
Prompt ==
  /\ \A k \in DOMAIN line : line[k].state = "alive" => now < line[k].since + Life
  /\ \A r \in Request :
       requests[r].pc \in {"locked", "reserved", "issued"} =>
         now + 1 < requests[r].at + Hold - Life

Tick ==
  /\ now < MaxTime /\ Prompt
  /\ now' = now + 1
  /\ UNCHANGED <<erased, contact, marks, code, calls, nextFree, requests, line, budget>>

------------------------------------------------------------------------------
PersonStep(p) ==
  \/ \E n \in Number : SetPhoneContact(p, n)
  \/ DeletePhoneContact(p) \/ ConfirmDNDCheck(p) \/ Erase(p)
  \/ \E k \in Heard(p) \cup {0} : ConfirmPhoneCode(p, k)

RequestStep(r) ==
  \/ \E p \in Person : PinAsks(r, p)
  \/ \E p \in Person, purpose \in {"verify", "dnd_check"}, sender \in Sender :
       Asks(r, p, purpose, sender)
  \/ \E pin \in Number \cup {None} : PinWrites(r, pin)
  \/ ReserveBegins(r) \/ ReserveCommits(r)
  \/ IssuePhoneCode(r) \/ CallCreated(r) \/ CallNotCreated(r)
  \/ \E placed \in BOOLEAN : CallUnknown(r, placed)
  \/ ReleasePhoneReservation(r) \/ Dies(r)

Next ==
  \/ \E p \in Person : PersonStep(p)
  \/ \E r \in Request : RequestStep(r)
  \/ \E k \in DOMAIN line : HangsUp(k)
  \/ Tick

Spec == Init /\ [][Next]_vars

------------------------------------------------------------------------------
Numbers == Number \cup {None}

\* The shape of the rows and of what a request remembers.
TypeOK ==
  /\ now \in 1..MaxTime
  /\ erased \subseteq Person
  /\ contact \in [Person -> [number : Numbers, verified : BOOLEAN, pin : Numbers]]
  /\ marks \in [Person -> SUBSET Number]
  /\ code \in [Person -> [call : Nat, number : Numbers, wrong : Nat, until : Nat]]
  /\ calls \in Seq([person : Person \cup {None}, asker : Person, purpose : {"verify", "dnd_check"},
                    to : Numbers, sender : Sender, at : Nat, hold : Nat, released : BOOLEAN])
  /\ line \in Seq([state : {"none", "alive", "over"}, since : Nat])
  /\ Len(line) = Len(calls)
  /\ nextFree \in [Sender -> Nat]
  /\ requests \in [Request ->
       [pc : {"idle", "asked", "locked", "reserved", "issued", "refused"},
        person : Person \cup {None}, purpose : {"none", "pin", "verify", "dnd_check"},
        number : Numbers, sender : Sender \cup {None}, at : Nat, call : Nat]]
  /\ budget \in [edits : Nat, pins : Nat, faults : Nat]

\* A number is verified only if a call spoke a code to it and its owner typed it,
\* and pinned only to a provider that was checked for it - whatever became of the
\* number between the call, the code and the confirmation (ConfirmPhoneCode,
\* PinPhoneIntegration).
ProofsAreAboutTheNumber ==
  \A p \in Person :
    /\ contact[p].verified => \E k \in Heard(p) : calls[k].to = contact[p].number
    /\ contact[p].pin \in {None, contact[p].number}

\* While a phone speaks a code, it is the code the person has to type: no other
\* request replaced it (phoneAllowanceTx: "a new code would invalidate the one
\* they are listening to").
SpokenCodeIsTheCode ==
  \A k \in DOMAIN calls :
    calls[k].purpose = "verify" /\ line[k].state = "alive" =>
      code[calls[k].asker].call \in {0, k}

\* What is spoken, typed and pinned is about one number, the person's.
CodesAreAboutTheNumber == ProofsAreAboutTheNumber /\ SpokenCodeIsTheCode

\* An account never has more of these calls alive than it allows, and starts
\* none sooner than its rate, whatever was refused, left in doubt or lost with
\* its process.  The person's allowance holds in every window of the log.
LimitsHold ==
  /\ \A s \in Sender :
       Cardinality({k \in DOMAIN line : calls[k].sender = s /\ line[k].state = "alive"})
         <= MaxConcurrent
  /\ \A j, k \in DOMAIN calls :
       j < k /\ calls[j].sender = calls[k].sender => calls[k].at >= calls[j].at + Interval
  /\ \A k \in DOMAIN calls :
       LET asked(purposes, span) ==
             Cardinality({j \in DOMAIN calls :
                            /\ calls[j].asker = calls[k].asker /\ calls[j].purpose \in purposes
                            /\ calls[j].at <= calls[k].at /\ calls[j].at > calls[k].at - span})
       IN asked({"verify"}, VerifySpan) <= MaxVerify
          /\ asked({"verify", "dnd_check"}, DaySpan) <= MaxDay

\* Nothing that was in flight when a person was erased brings back their number, a
\* code, or their name on a reservation; the log of calls keeps its bare user id
\* (activeUserCTE, lockActiveUserTx; erasure_store.go:260).
ErasedIsForgotten ==
  \A p \in erased :
    /\ contact[p] = NoContact /\ marks[p] = {} /\ code[p] = NoCode
    /\ \A k \in DOMAIN calls : calls[k].asker = p => calls[k].person = None /\ calls[k].to = None

==============================================================================
