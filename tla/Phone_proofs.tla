----------------------------- MODULE Phone_proofs -----------------------------
(***************************************************************************)
(* What Phone keeps for any number of people, numbers, accounts and        *)
(* requests, and any limits that PhoneAssumption allows.                   *)
(***************************************************************************)
EXTENDS Phone, FiniteSetTheorems, SequenceTheorems, TLAPS

Purposes == {"verify", "dnd_check"}

CallRows == [person : Person \cup {None}, asker : Person, purpose : Purposes, to : Numbers,
             sender : Sender, at : Nat, hold : Nat, released : BOOLEAN]

Lines == [state : {"none", "alive", "over"}, since : Nat]

Memory == [pc : {"idle", "asked", "locked", "reserved", "issued", "refused"},
           person : Person \cup {None}, purpose : {"none", "pin"} \cup Purposes,
           number : Numbers, sender : Sender \cup {None}, at : Nat, call : Nat]

\* Whoever asks is somebody; what is reserved is a call from an account.
Shaped(q) ==
  /\ q.pc # "idle" => q.person \in Person /\ q.number \in Number
  /\ q.pc # "idle" /\ q.purpose # "pin" => q.purpose \in Purposes /\ q.sender \in Sender
  /\ q.pc \in {"locked", "reserved", "issued", "refused"} => q.purpose # "pin"
  /\ q.pc = "issued" => q.purpose = "verify"

Typed ==
  /\ now \in Nat
  /\ erased \subseteq Person
  /\ contact \in [Person -> [number : Numbers, verified : BOOLEAN, pin : Numbers]]
  /\ marks \in [Person -> SUBSET Number]
  /\ code \in [Person -> [call : Nat, number : Numbers, wrong : Nat, until : Nat]]
  /\ calls \in Seq(CallRows) /\ line \in Seq(Lines) /\ Len(line) = Len(calls)
  /\ nextFree \in [Sender -> Nat]
  /\ requests \in [Request -> Memory] /\ \A r \in Request : Shaped(requests[r])

HeldBy(s, at) == {k \in DOMAIN calls : calls[k].sender = s /\ Held(k, at)}

\* The calls a person asked for within a span up to an instant.
Window(p, purposes, t, span) ==
  {k \in DOMAIN calls : /\ calls[k].asker = p /\ calls[k].purpose \in purposes
                        /\ calls[k].at <= t /\ calls[k].at > t - span}

\* What a reservation found under its locks is still so.
LockHolds(q) ==
  q.pc = "locked" =>
    /\ q.person \notin erased /\ q.at <= now /\ now < q.at + Hold - Life
    /\ \A k \in DOMAIN calls : calls[k].asker = q.person =>
         /\ calls[k].at <= q.at
         /\ q.purpose = "verify" /\ calls[k].purpose = "verify" => ~Held(k, q.at)
    /\ Cardinality(HeldBy(q.sender, q.at)) < MaxConcurrent
    /\ nextFree[q.sender] <= q.at
    /\ q.purpose = "verify" => Cardinality(Window(q.person, {"verify"}, q.at, VerifySpan)) < MaxVerify
    /\ Cardinality(Window(q.person, Purposes, q.at, DaySpan)) < MaxDay

Placed(q) == q.pc \in {"reserved", "issued", "refused"}

\* A request that reserved has a call of its own that nobody answered yet.
PlaceHolds(q) ==
  Placed(q) =>
    /\ q.call \in DOMAIN calls
    /\ calls[q.call].asker = q.person /\ calls[q.call].purpose = q.purpose
    /\ q.person \notin erased => calls[q.call].to = q.number
    /\ ~calls[q.call].released /\ line[q.call].state = "none"
    /\ q.pc # "refused" => calls[q.call].at = q.at /\ now < q.at + Hold - Life

RequestsHold ==
  /\ \A r \in Request : LockHolds(requests[r]) /\ PlaceHolds(requests[r])
  /\ \A r \in Request : \A s \in Request \ {r} :
       /\ requests[r].pc = "locked" /\ requests[s].pc = "locked" =>
            requests[r].person # requests[s].person /\ requests[r].sender # requests[s].sender
       /\ Placed(requests[r]) /\ Placed(requests[s]) => requests[r].call # requests[s].call

\* A call is held for as long as anybody can be talking.
CallHolds(k) ==
  /\ calls[k].hold = calls[k].at + Hold /\ calls[k].at <= now
  /\ calls[k].asker \notin erased => calls[k].person = calls[k].asker /\ calls[k].to \in Number
  /\ nextFree[calls[k].sender] >= calls[k].at + Interval
  /\ line[k].state = "alive" =>
       ~calls[k].released /\ now <= line[k].since + Life /\ line[k].since + Life < calls[k].hold

\* Of two calls of one purpose the first was over before the second was reserved.
Succeed(j, k) ==
  /\ calls[j].asker = calls[k].asker /\ calls[j].purpose = "verify" /\ calls[k].purpose = "verify" =>
       ~Held(j, calls[k].at)
  /\ calls[j].sender = calls[k].sender => calls[k].at >= calls[j].at + Interval

CallsHold ==
  /\ \A k \in DOMAIN calls : CallHolds(k)
  /\ \A j, k \in DOMAIN calls : j < k => Succeed(j, k)

\* A code is the call that speaks it.
CodesHold ==
  /\ \A p \in Person : code[p] # NoCode =>
       LET k == code[p].call
       IN k \in DOMAIN calls /\ calls[k].asker = p /\ calls[k].purpose = "verify"
          /\ calls[k].to = code[p].number
  /\ \A r \in Request : requests[r].pc = "issued" => code[requests[r].person].call \in {0, requests[r].call}

Limited ==
  /\ \A s \in Sender : Cardinality(HeldBy(s, now)) <= MaxConcurrent
  /\ \A p \in Person, t \in Nat : /\ Cardinality(Window(p, {"verify"}, t, VerifySpan)) <= MaxVerify
                                  /\ Cardinality(Window(p, Purposes, t, DaySpan)) <= MaxDay

IInv ==
  /\ Typed /\ RequestsHold /\ CallsHold /\ CodesHold /\ Limited
  /\ CodesAreAboutTheNumber /\ ErasedIsForgotten

------------------------------------------------------------------------------
(* Shapes, counting and sequences.                                            *)

\* The constants that times and counts are compared with.
LEMMA Constants ==
  /\ MaxConcurrent \in Nat \ {0} /\ Interval \in Nat \ {0} /\ Life \in Nat \ {0}
  /\ Hold \in Nat \ {0} /\ CodeTTL \in Nat \ {0} /\ VerifySpan \in Nat \ {0}
  /\ MaxVerify \in Nat \ {0} /\ DaySpan \in Nat \ {0} /\ MaxDay \in Nat \ {0}
  /\ Life < Hold /\ None \notin Person /\ None \notin Number
BY PhoneAssumption

\* A call has a row, and something became of it at the provider.
LEMMA CallsAreRows ==
  ASSUME Typed
  PROVE  /\ Len(calls) \in Nat /\ DOMAIN calls = 1..Len(calls) /\ DOMAIN line = 1..Len(calls)
         /\ \A k \in DOMAIN calls : calls[k] \in CallRows /\ line[k] \in Lines
         /\ IsFiniteSet(DOMAIN calls)
<1>1. Len(calls) \in Nat /\ DOMAIN calls = 1..Len(calls) /\ DOMAIN line = 1..Len(calls)
  BY LenProperties DEF Typed
<1>2. \A k \in DOMAIN calls : calls[k] \in CallRows /\ line[k] \in Lines
  BY <1>1, ElementOfSeq DEF Typed
<1>3. IsFiniteSet(1..Len(calls))
  BY <1>1, FS_Interval
<1> QED BY <1>1, <1>2, <1>3

\* A sequence is a function of an interval.
LEMMA FunctionsAreSequences ==
  ASSUME NEW S, NEW n \in Nat, NEW f \in [1..n -> S]
  PROVE  f \in Seq(S) /\ Len(f) = n
OBVIOUS

\* Fewer of fewer calls.
LEMMA FewerCalls ==
  ASSUME NEW S, IsFiniteSet(S), NEW T, T \subseteq S
  PROVE  IsFiniteSet(T) /\ Cardinality(T) \in Nat /\ Cardinality(S) \in Nat
         /\ Cardinality(T) <= Cardinality(S)
BY FS_Subset, FS_CardinalityType

\* One call more.
LEMMA OneCallMore ==
  ASSUME NEW S, IsFiniteSet(S), NEW T, NEW x, T \subseteq S \cup {x}, NEW n \in Nat,
         Cardinality(S) < n
  PROVE  Cardinality(T) <= n
<1>1. IsFiniteSet(S \cup {x}) /\ Cardinality(S) \in Nat
      /\ (Cardinality(S \cup {x}) = Cardinality(S) \/ Cardinality(S \cup {x}) = Cardinality(S) + 1)
  <2>1. IsFiniteSet(S \cup {x})
        /\ Cardinality(S \cup {x}) = IF x \in S THEN Cardinality(S) ELSE Cardinality(S) + 1
    BY FS_AddElement
  <2>2. Cardinality(S) \in Nat
    BY FS_CardinalityType
  <2> QED BY <2>1, <2>2
<1>2. Cardinality(T) <= Cardinality(S \cup {x}) /\ Cardinality(T) \in Nat
      /\ Cardinality(S \cup {x}) \in Nat
  BY <1>1, FewerCalls
<1> QED BY <1>1, <1>2

------------------------------------------------------------------------------
(* What a step leaves alone.                                                  *)

\* Calls, their lines and what they are counted against do not move by themselves.
LEMMA CallsAlone ==
  ASSUME IInv, UNCHANGED <<now, erased, calls, nextFree, line>>
  PROVE  /\ CallsHold' /\ Limited'
         /\ (calls \in Seq(CallRows) /\ line \in Seq(Lines) /\ Len(line) = Len(calls))'
<1>1. CallsHold'
  BY DEF IInv, CallsHold, CallHolds, Succeed, Held
<1>2. Limited'
  BY DEF IInv, Limited, HeldBy, Window, Held
<1> QED BY <1>1, <1>2 DEF IInv, Typed

\* What is left of one request is right about the locks and the call it holds, and takes
\* none of another.
OneRequest(r) ==
  /\ requests' = [requests EXCEPT ![r] = requests'[r]]
  /\ requests'[r] \in Memory /\ Shaped(requests'[r])
  /\ requests'[r].pc = "locked" =>
       ~Locked(requests'[r].person) /\ ~AccountLocked(requests'[r].sender)
  /\ Placed(requests'[r]) => Placed(requests[r]) /\ requests'[r].call = requests[r].call
  /\ UNCHANGED <<now, erased, calls, nextFree, line>>

\* Whatever moves one request and no call keeps what requests hold.
LEMMA OneRequestKeeps ==
  ASSUME IInv, NEW r \in Request, OneRequest(r), LockHolds(requests[r])', PlaceHolds(requests[r])'
  PROVE  /\ RequestsHold' /\ requests' \in [Request -> Memory]
         /\ \A s \in Request : Shaped(requests'[s]) /\ (s # r => requests'[s] = requests[s])
<1>1. /\ requests' \in [Request -> Memory]
      /\ \A s \in Request : Shaped(requests'[s]) /\ (s # r => requests'[s] = requests[s])
  BY DEF IInv, Typed, OneRequest
<1>2. ASSUME NEW s \in Request
      PROVE  LockHolds(requests[s])' /\ PlaceHolds(requests[s])'
  <2>1. CASE s = r
    BY <2>1
  <2>2. CASE s # r
    <3>1. requests'[s] = requests[s] /\ LockHolds(requests[s]) /\ PlaceHolds(requests[s])
      BY <1>1, <2>2 DEF IInv, RequestsHold
    <3>2. LockHolds(requests[s])'
      BY <3>1 DEF OneRequest, LockHolds, HeldBy, Window, Held
    <3>3. PlaceHolds(requests[s])'
      BY <3>1 DEF OneRequest, PlaceHolds, Placed
    <3> QED BY <3>2, <3>3
  <2> QED BY <2>1, <2>2
<1>3. ASSUME NEW s \in Request, NEW t \in Request \ {s}
      PROVE  /\ requests'[s].pc = "locked" /\ requests'[t].pc = "locked" =>
                  requests'[s].person # requests'[t].person /\ requests'[s].sender # requests'[t].sender
             /\ Placed(requests'[s]) /\ Placed(requests'[t]) => requests'[s].call # requests'[t].call
  BY <1>1 DEF IInv, RequestsHold, OneRequest, Locked, AccountLocked
<1> QED BY <1>1, <1>2, <1>3 DEF RequestsHold

\* Requests that do not move hold what they held.
LEMMA RequestsAlone ==
  ASSUME IInv, UNCHANGED <<now, erased, calls, nextFree, line, requests>>
  PROVE  RequestsHold'
<1>1. ASSUME NEW s \in Request
      PROVE  LockHolds(requests[s])' /\ PlaceHolds(requests[s])'
  <2>1. LockHolds(requests[s]) /\ PlaceHolds(requests[s])
    BY DEF IInv, RequestsHold
  <2>2. LockHolds(requests[s])'
    BY <2>1 DEF LockHolds, HeldBy, Window, Held
  <2>3. PlaceHolds(requests[s])'
    BY <2>1 DEF PlaceHolds, Placed
  <2> QED BY <2>2, <2>3
<1> QED BY <1>1 DEF IInv, RequestsHold, Placed

\* Where no call moves, a number stays proved and the pin follows it.
LEMMA ProofsKeep ==
  ASSUME IInv, UNCHANGED <<calls, line>>,
         \A p \in Person :
           /\ contact'[p].verified => contact[p].verified /\ contact'[p].number = contact[p].number
           /\ contact'[p].pin \in {None, contact'[p].number}
  PROVE  ProofsAreAboutTheNumber'
BY DEF IInv, CodesAreAboutTheNumber, ProofsAreAboutTheNumber, Heard

\* Where no call moves, a code that is kept or taken back still speaks of its call.
LEMMA CodesKeep ==
  ASSUME IInv, UNCHANGED <<calls, line>>,
         \A p \in Person : code'[p] = NoCode
                             \/ (/\ code[p] # NoCode /\ code'[p].call = code[p].call
                                 /\ code'[p].number = code[p].number),
         \A r \in Request : requests'[r].pc = "issued" => requests'[r] = requests[r]
  PROVE  CodesHold' /\ SpokenCodeIsTheCode'
<1>1. \A p \in Person : code'[p].call = 0 \/ code'[p].call = code[p].call
  BY DEF NoCode
<1>2. CodesHold'
  <2>1. ASSUME NEW p \in Person, code'[p] # NoCode
        PROVE  code'[p].call \in DOMAIN calls' /\ calls'[code'[p].call].asker = p
               /\ calls'[code'[p].call].purpose = "verify"
               /\ calls'[code'[p].call].to = code'[p].number
    BY <2>1 DEF IInv, CodesHold
  <2>2. ASSUME NEW r \in Request, requests'[r].pc = "issued"
        PROVE  code'[requests'[r].person].call \in {0, requests'[r].call}
    <3>1. requests'[r] = requests[r] /\ requests[r].person \in Person
          /\ code[requests[r].person].call \in {0, requests[r].call}
      BY <2>2 DEF IInv, Typed, Shaped, CodesHold
    <3> QED BY <1>1, <3>1
  <2> QED BY <2>1, <2>2 DEF CodesHold
<1>3. SpokenCodeIsTheCode'
  <2>1. \A k \in DOMAIN calls : calls[k].asker \in Person
    BY CallsAreRows DEF IInv, CallRows
  <2> QED BY <1>1, <2>1 DEF IInv, CodesAreAboutTheNumber, SpokenCodeIsTheCode
<1> QED BY <1>2, <1>3

------------------------------------------------------------------------------
(* The number, its pin and the person's marks.                                *)

\* Writing a number (SetPhoneContact): it starts unverified and unpinned.
LEMMA SetPhoneContactKeeps ==
  ASSUME IInv, NEW p \in Person, NEW n \in Number, SetPhoneContact(p, n)
  PROVE  IInv'
<1>1. /\ UNCHANGED <<now, erased, marks, code, calls, nextFree, requests, line>>
      /\ p \notin erased /\ contact' = [contact EXCEPT ![p] = Renumbered(p, n)]
  BY DEF SetPhoneContact, Here
<1>2. RequestsHold' /\ CallsHold' /\ Limited'
  BY <1>1, RequestsAlone, CallsAlone
<1>3. Typed'
  BY <1>1 DEF IInv, Typed, Renumbered, NoContact, Numbers
<1>4. \A q \in Person : contact'[q] = IF q = p THEN Renumbered(p, n) ELSE contact[q]
  BY <1>1 DEF IInv, Typed
<1>5. ProofsAreAboutTheNumber'
  BY <1>1, <1>4, ProofsKeep
     DEF IInv, CodesAreAboutTheNumber, ProofsAreAboutTheNumber, Renumbered, NoContact
<1>6. CodesHold' /\ SpokenCodeIsTheCode'
  BY <1>1, CodesKeep
<1>7. ErasedIsForgotten'
  BY <1>1, <1>4 DEF IInv, Typed, ErasedIsForgotten
<1> QED BY <1>2, <1>3, <1>5, <1>6, <1>7 DEF IInv, CodesAreAboutTheNumber

\* Removing it (DeletePhoneContact) takes the marks and the code with it.
LEMMA DeletePhoneContactKeeps ==
  ASSUME IInv, NEW p \in Person, DeletePhoneContact(p)
  PROVE  IInv'
<1>1. /\ UNCHANGED <<now, erased, calls, nextFree, requests, line>>
      /\ p \notin erased /\ contact' = [contact EXCEPT ![p] = NoContact]
      /\ marks' = [marks EXCEPT ![p] = {}] /\ code' = [code EXCEPT ![p] = NoCode]
  BY DEF DeletePhoneContact, Here
<1>2. RequestsHold' /\ CallsHold' /\ Limited'
  BY <1>1, RequestsAlone, CallsAlone
<1>3. Typed'
  BY <1>1 DEF IInv, Typed, NoContact, NoCode, Numbers
<1>4. \A q \in Person : /\ contact'[q] = IF q = p THEN NoContact ELSE contact[q]
                        /\ marks'[q] = IF q = p THEN {} ELSE marks[q]
                        /\ code'[q] = IF q = p THEN NoCode ELSE code[q]
  BY <1>1 DEF IInv, Typed
<1>5. ProofsAreAboutTheNumber'
  BY <1>1, <1>4, ProofsKeep
     DEF IInv, CodesAreAboutTheNumber, ProofsAreAboutTheNumber, NoContact
<1>6. CodesHold' /\ SpokenCodeIsTheCode'
  BY <1>1, <1>4, CodesKeep
<1>7. ErasedIsForgotten'
  BY <1>1, <1>4 DEF IInv, Typed, ErasedIsForgotten
<1> QED BY <1>2, <1>3, <1>5, <1>6, <1>7 DEF IInv, CodesAreAboutTheNumber

\* A person vouches for a number that is theirs (ConfirmDNDCheck).
LEMMA ConfirmDNDCheckKeeps ==
  ASSUME IInv, NEW p \in Person, ConfirmDNDCheck(p)
  PROVE  IInv'
<1>1. /\ UNCHANGED <<now, erased, contact, code, calls, nextFree, requests, line>>
      /\ p \notin erased /\ contact[p].verified
      /\ marks' = [marks EXCEPT ![p] = @ \cup {contact[p].number}]
  BY DEF ConfirmDNDCheck, Here
<1>2. RequestsHold' /\ CallsHold' /\ Limited'
  BY <1>1, RequestsAlone, CallsAlone
<1>3. contact[p].number \in Number
  <2>1. PICK k \in Heard(p) : calls[k].to = contact[p].number
    BY <1>1 DEF IInv, CodesAreAboutTheNumber, ProofsAreAboutTheNumber
  <2> QED BY <1>1, <2>1 DEF IInv, CallsHold, CallHolds, Heard
<1>4. Typed'
  BY <1>1, <1>3 DEF IInv, Typed
<1>5. ProofsAreAboutTheNumber'
  BY <1>1, ProofsKeep DEF IInv, CodesAreAboutTheNumber, ProofsAreAboutTheNumber
<1>6. CodesHold' /\ SpokenCodeIsTheCode'
  BY <1>1, CodesKeep DEF IInv, Typed
<1>7. ErasedIsForgotten'
  BY <1>1 DEF IInv, Typed, ErasedIsForgotten
<1> QED BY <1>2, <1>4, <1>5, <1>6, <1>7 DEF IInv, CodesAreAboutTheNumber

\* A person types what they heard (ConfirmPhoneCode): the call that spoke it spoke to the
\* number it proves.
LEMMA ConfirmPhoneCodeKeeps ==
  ASSUME IInv, NEW p \in Person, NEW k \in Heard(p) \cup {0}, ConfirmPhoneCode(p, k)
  PROVE  IInv'
<1>1. /\ UNCHANGED <<now, erased, marks, calls, nextFree, requests, line>>
      /\ p \notin erased /\ code[p] # NoCode
  BY DEF ConfirmPhoneCode, Here
<1>2. /\ contact \in [Person -> [number : Numbers, verified : BOOLEAN, pin : Numbers]]
      /\ code \in [Person -> [call : Nat, number : Numbers, wrong : Nat, until : Nat]]
  BY DEF IInv, Typed
<1>3. \/ code' = [code EXCEPT ![p] = NoCode]
      \/ code' = [code EXCEPT ![p] = [code[p] EXCEPT !.wrong = @ + 1]]
  BY DEF ConfirmPhoneCode, RightCode, WrongCode
<1>4. \/ contact' = contact
      \/ /\ contact' = [contact EXCEPT ![p].verified = TRUE]
         /\ contact[p].number = code[p].number /\ k = code[p].call
  BY DEF ConfirmPhoneCode, RightCode, WrongCode, Proves
<1>5. /\ code' \in [Person -> [call : Nat, number : Numbers, wrong : Nat, until : Nat]]
      /\ \A q \in Person : /\ q # p => code'[q] = code[q]
                           /\ code'[p] = NoCode \/ (/\ code'[p].call = code[p].call
                                                    /\ code'[p].number = code[p].number)
  <2>1. CASE code' = [code EXCEPT ![p] = NoCode]
    BY <1>2, <2>1 DEF NoCode, Numbers
  <2>2. CASE code' = [code EXCEPT ![p] = [code[p] EXCEPT !.wrong = @ + 1]]
    <3>1. PICK row : row = [code[p] EXCEPT !.wrong = @ + 1]
      OBVIOUS
    <3>2. /\ row \in [call : Nat, number : Numbers, wrong : Nat, until : Nat]
          /\ row.call = code[p].call /\ row.number = code[p].number
      BY <1>2, <3>1
    <3>3. code' = [code EXCEPT ![p] = row]
      BY <2>2, <3>1
    <3> QED BY <1>2, <3>2, <3>3
  <2> QED BY <1>3, <2>1, <2>2
<1>6. /\ contact' \in [Person -> [number : Numbers, verified : BOOLEAN, pin : Numbers]]
      /\ \A q \in Person : /\ q # p => contact'[q] = contact[q]
                           /\ contact'[q].number = contact[q].number
                           /\ contact'[q].pin = contact[q].pin
  <2>1. CASE contact' = contact
    BY <1>2, <2>1
  <2>2. CASE contact' = [contact EXCEPT ![p].verified = TRUE]
    <3>1. PICK row : row = [contact[p] EXCEPT !.verified = TRUE]
      OBVIOUS
    <3>2. /\ row \in [number : Numbers, verified : BOOLEAN, pin : Numbers]
          /\ row.number = contact[p].number /\ row.pin = contact[p].pin
      BY <1>2, <3>1
    <3>3. contact' = [contact EXCEPT ![p] = row]
      BY <2>2, <3>1
    <3> QED BY <1>2, <3>2, <3>3
  <2> QED BY <1>4, <2>1, <2>2
<1>7. RequestsHold' /\ CallsHold' /\ Limited'
  BY <1>1, RequestsAlone, CallsAlone
<1>8. Typed'
  BY <1>1, <1>5, <1>6 DEF IInv, Typed
<1>9. ProofsAreAboutTheNumber'
  <2>1. CASE contact' = contact
    BY <2>1, <1>1, ProofsKeep DEF IInv, CodesAreAboutTheNumber, ProofsAreAboutTheNumber
  <2>2. CASE contact[p].number = code[p].number /\ k = code[p].call
    <3>1. /\ code[p].call \in DOMAIN calls
          /\ calls[code[p].call].to = code[p].number
      BY <1>1 DEF IInv, CodesHold
    <3>2. k \in DOMAIN calls /\ DOMAIN calls = 1..Len(calls)
      BY <2>2, <3>1, CallsAreRows DEF IInv
    <3>3. k \in Heard(p) /\ calls[k].to = contact'[p].number
      BY <2>2, <3>1, <3>2, <1>6
    <3>4. \A q \in Person : Heard(q)' = Heard(q)
      BY <1>1 DEF Heard
    <3>5. ASSUME NEW q \in Person
          PROVE  /\ contact'[q].verified => \E j \in Heard(q)' : calls'[j].to = contact'[q].number
                 /\ contact'[q].pin \in {None, contact'[q].number}
      <4>1. contact'[q].pin \in {None, contact'[q].number}
        BY <1>6 DEF IInv, CodesAreAboutTheNumber, ProofsAreAboutTheNumber
      <4>2. CASE q = p
        BY <4>1, <4>2, <3>3, <3>4, <1>1
      <4>3. CASE q # p
        BY <4>1, <4>3, <3>4, <1>1, <1>6 DEF IInv, CodesAreAboutTheNumber, ProofsAreAboutTheNumber
      <4> QED BY <4>2, <4>3
    <3> QED BY <3>5 DEF ProofsAreAboutTheNumber
  <2> QED BY <1>4, <2>1, <2>2
<1>10. CodesHold' /\ SpokenCodeIsTheCode'
  BY <1>1, <1>5, CodesKeep
<1>11. ErasedIsForgotten'
  BY <1>1, <1>5, <1>6 DEF IInv, Typed, ErasedIsForgotten
<1> QED BY <1>7, <1>8, <1>9, <1>10, <1>11 DEF IInv, CodesAreAboutTheNumber

------------------------------------------------------------------------------
(* Requests, where no call moves.                                             *)

\* What a request does to itself alone.
LEMMA RequestAloneKeeps ==
  ASSUME IInv, NEW r \in Request, OneRequest(r), LockHolds(requests[r])', PlaceHolds(requests[r])',
         requests'[r].pc = "issued" => requests'[r] = requests[r],
         UNCHANGED <<contact, marks, code>>
  PROVE  IInv'
<1>1. /\ RequestsHold' /\ requests' \in [Request -> Memory]
      /\ \A s \in Request : Shaped(requests'[s]) /\ (s # r => requests'[s] = requests[s])
  BY OneRequestKeeps
<1>2. UNCHANGED <<now, erased, calls, nextFree, line>>
  BY DEF OneRequest
<1>3. CallsHold' /\ Limited' /\ Typed'
  BY <1>1, <1>2, CallsAlone DEF IInv, Typed
<1>4. ProofsAreAboutTheNumber'
  BY <1>2, ProofsKeep DEF IInv, CodesAreAboutTheNumber, ProofsAreAboutTheNumber
<1>5. CodesHold' /\ SpokenCodeIsTheCode'
  BY <1>1, <1>2, CodesKeep
<1>6. ErasedIsForgotten'
  BY <1>2 DEF IInv, Typed, ErasedIsForgotten
<1> QED BY <1>1, <1>3, <1>4, <1>5, <1>6 DEF IInv, CodesAreAboutTheNumber

\* A request that reserved nothing, or ends, holds nothing.
LEMMA HoldsNothing ==
  ASSUME IInv, NEW r \in Request, NEW q \in Memory, Shaped(q), q.pc \in {"idle", "asked"},
         requests' = [requests EXCEPT ![r] = q],
         UNCHANGED <<now, erased, calls, nextFree, line>>
  PROVE  OneRequest(r) /\ LockHolds(requests[r])' /\ PlaceHolds(requests[r])' /\ requests'[r] = q
<1>1. requests'[r] = q
  BY DEF IInv, Typed
<1> QED BY <1>1 DEF OneRequest, LockHolds, PlaceHolds, Placed

\* A request that ended is one.
LEMMA IdleIsMemory == Idle \in Memory /\ Shaped(Idle) /\ Idle.pc = "idle"
BY DEF Idle, Memory, Shaped, Numbers

\* The end of a request, and the death of its process.
LEMMA EndsKeeps ==
  ASSUME IInv, NEW r \in Request, Ends(r),
         UNCHANGED <<now, erased, contact, marks, code, calls, nextFree, line>>
  PROVE  IInv'
<1>1. OneRequest(r) /\ LockHolds(requests[r])' /\ PlaceHolds(requests[r])' /\ requests'[r] = Idle
  BY HoldsNothing, IdleIsMemory DEF Ends
<1> QED BY <1>1, RequestAloneKeeps, IdleIsMemory

\* A person asks for a pin (PinMyPhoneProvider).
LEMMA PinAsksKeeps ==
  ASSUME IInv, NEW r \in Request, NEW p \in Person, PinAsks(r, p)
  PROVE  IInv'
<1>1. PICK q : q = [Idle EXCEPT !.pc = "asked", !.person = p, !.purpose = "pin",
                      !.number = contact[p].number]
  OBVIOUS
<1>2. q \in Memory /\ Shaped(q) /\ q.pc = "asked"
  BY <1>1 DEF PinAsks, IInv, Typed, Idle, Memory, Shaped, Numbers
<1>3. OneRequest(r) /\ LockHolds(requests[r])' /\ PlaceHolds(requests[r])' /\ requests'[r] = q
  BY <1>1, <1>2, HoldsNothing DEF PinAsks
<1> QED BY <1>2, <1>3, RequestAloneKeeps DEF PinAsks

\* A person asks for a call (RequestPhoneCode, RequestPhoneTestCall).
LEMMA AsksKeeps ==
  ASSUME IInv, NEW r \in Request, NEW p \in Person, NEW purpose \in Purposes, NEW s \in Sender,
         Asks(r, p, purpose, s)
  PROVE  IInv'
<1>1. PICK q : q = [Idle EXCEPT !.pc = "asked", !.person = p, !.purpose = purpose,
                      !.number = contact[p].number, !.sender = s]
  OBVIOUS
<1>2. q \in Memory /\ Shaped(q) /\ q.pc = "asked"
  BY <1>1 DEF Asks, IInv, Typed, Idle, Memory, Shaped, Numbers, Purposes
<1>3. OneRequest(r) /\ LockHolds(requests[r])' /\ PlaceHolds(requests[r])' /\ requests'[r] = q
  BY <1>1, <1>2, HoldsNothing DEF Asks
<1> QED BY <1>2, <1>3, RequestAloneKeeps DEF Asks

\* The pin is written if the number it was checked for is still there (PinPhoneIntegration).
LEMMA PinWritesKeeps ==
  ASSUME IInv, NEW r \in Request, NEW pin \in Number \cup {None}, PinWrites(r, pin)
  PROVE  IInv'
<1>1. /\ Ends(r) /\ UNCHANGED <<now, erased, marks, code, calls, nextFree, line>>
      /\ \/ contact' = contact
         \/ /\ requests[r].person \notin erased
            /\ contact[requests[r].person].number = requests[r].number
            /\ contact' = [contact EXCEPT ![requests[r].person].pin = pin]
      /\ pin \in {None, requests[r].number} /\ requests[r].pc = "asked"
  BY DEF PinWrites, PinLands
<1>2. OneRequest(r) /\ LockHolds(requests[r])' /\ PlaceHolds(requests[r])' /\ requests'[r] = Idle
  BY <1>1, HoldsNothing, IdleIsMemory DEF Ends
<1>3. /\ RequestsHold' /\ requests' \in [Request -> Memory]
      /\ \A s \in Request : Shaped(requests'[s]) /\ (s # r => requests'[s] = requests[s])
  BY <1>2, OneRequestKeeps
<1>4. PICK p : p = requests[r].person
  OBVIOUS
<1>5. p \in Person
  BY <1>1, <1>4 DEF IInv, Typed, Shaped
<1>6. /\ contact' \in [Person -> [number : Numbers, verified : BOOLEAN, pin : Numbers]]
      /\ \A q \in Person : /\ contact'[q].number = contact[q].number
                           /\ contact'[q].verified = contact[q].verified
                           /\ contact'[q].pin = contact[q].pin \/ contact'[q].pin \in {None, contact[q].number}
                           /\ q \in erased => contact'[q] = contact[q]
  <2>1. contact \in [Person -> [number : Numbers, verified : BOOLEAN, pin : Numbers]]
    BY DEF IInv, Typed
  <2>2. CASE contact' = contact
    BY <2>1, <2>2
  <2>3. CASE /\ p \notin erased /\ contact[p].number = requests[r].number
             /\ contact' = [contact EXCEPT ![p].pin = pin]
    BY <1>1, <1>5, <2>1, <2>3 DEF Numbers
  <2> QED BY <1>1, <1>4, <2>2, <2>3
<1>7. CallsHold' /\ Limited' /\ Typed'
  BY <1>1, <1>3, <1>6, CallsAlone DEF IInv, Typed
<1>8. ProofsAreAboutTheNumber'
  BY <1>1, <1>6, ProofsKeep DEF IInv, CodesAreAboutTheNumber, ProofsAreAboutTheNumber
<1>9. CodesHold' /\ SpokenCodeIsTheCode'
  BY <1>1, <1>2, <1>3, CodesKeep DEF Idle
<1>10. ErasedIsForgotten'
  BY <1>1, <1>6 DEF IInv, Typed, ErasedIsForgotten
<1> QED BY <1>3, <1>7, <1>8, <1>9, <1>10 DEF IInv, CodesAreAboutTheNumber

\* What the reservation reads under its locks (phoneAllowanceTx, reservePhoneCallTx) is what
\* its lock holds.
LEMMA ReserveBeginsKeeps ==
  ASSUME IInv, NEW r \in Request, ReserveBegins(r)
  PROVE  IInv'
<1>1. PICK q : q = [requests[r] EXCEPT !.pc = "locked", !.at = now]
  OBVIOUS
<1>2. /\ requests[r].pc = "asked" /\ requests[r].purpose # "pin" /\ requests[r] \in Memory
      /\ now \in Nat
      /\ UNCHANGED <<now, erased, contact, marks, code, calls, nextFree, line>>
  BY DEF ReserveBegins, IInv, Typed
<1>3. /\ q \in Memory /\ q.pc = "locked" /\ q.at = now /\ q.person = requests[r].person
      /\ q.purpose = requests[r].purpose /\ q.number = requests[r].number
      /\ q.sender = requests[r].sender
  BY <1>1, <1>2 DEF Memory
<1>4. q.person \in Person /\ q.purpose \in Purposes /\ q.sender \in Sender /\ Shaped(q)
  BY <1>2, <1>3 DEF IInv, Typed, Shaped, Purposes
<1>5. CASE requests' = [requests EXCEPT ![r] = Idle]
  BY <1>2, <1>5, EndsKeeps DEF Ends
<1>6. CASE requests' = [requests EXCEPT ![r] = q] /\ q.person \notin erased /\ Reservable(q)
  <2>1. LockHolds(q)
    <3>1. q.at <= now /\ now < q.at + Hold - Life
      BY <1>2, <1>3, Constants
    <3>2. ASSUME NEW k \in DOMAIN calls, calls[k].asker = q.person
          PROVE  /\ calls[k].at <= q.at
                 /\ q.purpose = "verify" /\ calls[k].purpose = "verify" => ~Held(k, q.at)
      BY <3>2, <1>3, <1>6 DEF Reservable, InFlight, IInv, CallsHold, CallHolds
    <3>3. Cardinality(HeldBy(q.sender, q.at)) < MaxConcurrent /\ nextFree[q.sender] <= q.at
      BY <1>6 DEF Reservable, HasCapacity, HeldBy
    <3>4. ASSUME NEW purposes, NEW span \in Nat, NEW n \in Nat,
                 Spent(q.person, purposes, q.at - span) < n
          PROVE  Cardinality(Window(q.person, purposes, q.at, span)) < n
      <4>1. PICK S : S = {k \in DOMAIN calls : /\ calls[k].asker = q.person
                                               /\ calls[k].purpose \in purposes
                                               /\ calls[k].at > q.at - span}
        OBVIOUS
      <4>2. S \subseteq DOMAIN calls /\ IsFiniteSet(S)
        BY <4>1, CallsAreRows, FewerCalls DEF IInv
      <4>3. Window(q.person, purposes, q.at, span) \subseteq S
        BY <4>1 DEF Window
      <4>4. Cardinality(S) < n
        BY <3>4, <4>1 DEF Spent
      <4> QED BY <4>2, <4>3, <4>4, FewerCalls
    <3>5. q.purpose = "verify" => Cardinality(Window(q.person, {"verify"}, q.at, VerifySpan)) < MaxVerify
      BY <1>6, <3>4, Constants DEF Reservable, WithinAllowance
    <3>6. Cardinality(Window(q.person, Purposes, q.at, DaySpan)) < MaxDay
      BY <1>6, <3>4, Constants DEF Reservable, WithinAllowance, Purposes
    <3> QED BY <1>6, <3>1, <3>2, <3>3, <3>5, <3>6 DEF LockHolds
  <2>2. requests'[r] = q
    BY <1>6 DEF IInv, Typed
  <2>3. LockHolds(requests[r])'
    BY <1>2, <2>1, <2>2 DEF LockHolds, HeldBy, Window, Held
  <2>4. PlaceHolds(requests[r])' /\ ~Placed(q)
    BY <1>3, <2>2 DEF PlaceHolds, Placed
  <2>5. OneRequest(r)
    <3>1. ~Locked(q.person) /\ ~AccountLocked(q.sender)
      BY <1>1 DEF ReserveBegins
    <3> QED BY <1>2, <1>3, <1>4, <1>6, <2>2, <2>4, <3>1 DEF OneRequest
  <2> QED BY <1>2, <1>3, <2>2, <2>3, <2>4, <2>5, RequestAloneKeeps
<1> QED BY <1>1, <1>3, <1>5, <1>6 DEF ReserveBegins

\* A request that reserved goes on, with the call it has.
LEMMA GoesOn ==
  ASSUME IInv, NEW r \in Request, NEW pc \in {"issued", "refused"}, Goes(r, pc),
         requests[r].pc \in {"reserved", "issued"},
         pc = "issued" => requests[r].purpose = "verify",
         UNCHANGED <<now, erased, calls, nextFree, line>>
  PROVE  /\ OneRequest(r) /\ LockHolds(requests[r])' /\ PlaceHolds(requests[r])'
         /\ requests'[r].pc = pc /\ requests'[r].person = requests[r].person
         /\ requests'[r].number = requests[r].number /\ requests'[r].call = requests[r].call
<1>1. PICK q : q = [requests[r] EXCEPT !.pc = pc]
  OBVIOUS
<1>2. requests[r] \in Memory /\ Shaped(requests[r]) /\ PlaceHolds(requests[r])
  BY DEF IInv, Typed, RequestsHold
<1>3. /\ q \in Memory /\ q.pc = pc /\ q.at = requests[r].at /\ q.person = requests[r].person
      /\ q.purpose = requests[r].purpose /\ q.number = requests[r].number
      /\ q.sender = requests[r].sender /\ q.call = requests[r].call
  BY <1>1, <1>2 DEF Memory
<1>4. requests' = [requests EXCEPT ![r] = q] /\ requests'[r] = q
  BY <1>1 DEF Goes, IInv, Typed
<1>5. Shaped(q) /\ Placed(q) /\ Placed(requests[r])
  BY <1>2, <1>3 DEF Shaped, Placed
<1>6. LockHolds(requests[r])'
  BY <1>3, <1>4 DEF LockHolds
<1>7. PlaceHolds(requests[r])'
  BY <1>2, <1>3, <1>4, <1>5 DEF PlaceHolds
<1>8. OneRequest(r)
  BY <1>3, <1>4, <1>5 DEF OneRequest
<1> QED BY <1>3, <1>4, <1>6, <1>7, <1>8

\* The provider says there is no call (ErrNotCreated).
LEMMA CallNotCreatedKeeps ==
  ASSUME IInv, NEW r \in Request, CallNotCreated(r)
  PROVE  IInv'
<1>1. requests[r].pc \in {"reserved", "issued"} /\ Goes(r, "refused")
      /\ UNCHANGED <<now, erased, contact, marks, code, calls, nextFree, line>>
  BY DEF CallNotCreated, Calling
<1>2. /\ OneRequest(r) /\ LockHolds(requests[r])' /\ PlaceHolds(requests[r])'
      /\ requests'[r].pc = "refused"
  BY <1>1, GoesOn
<1> QED BY <1>1, <1>2, RequestAloneKeeps

------------------------------------------------------------------------------
(* The code and the call that speaks it.                                      *)

\* A person has one code call at a time: whatever holds its capacity now is the same call.
LEMMA OneCodeCall ==
  ASSUME IInv, NEW j \in DOMAIN calls, NEW k \in DOMAIN calls,
         calls[j].asker = calls[k].asker, calls[j].purpose = "verify", calls[k].purpose = "verify",
         Held(j, now), Held(k, now)
  PROVE  j = k
<1>1. /\ calls[j].at <= now /\ calls[k].at <= now
      /\ calls[j] \in CallRows /\ calls[k] \in CallRows /\ now \in Nat
      /\ DOMAIN calls = 1..Len(calls) /\ Len(calls) \in Nat
  BY CallsAreRows DEF IInv, Typed, CallsHold, CallHolds
<1>2. /\ j < k => ~Held(j, calls[k].at)
      /\ k < j => ~Held(k, calls[j].at)
  BY DEF IInv, CallsHold, Succeed
<1>3. calls[j].hold \in Nat /\ calls[k].hold \in Nat /\ calls[j].at \in Nat /\ calls[k].at \in Nat
  BY <1>1 DEF CallRows
<1> QED BY <1>1, <1>2, <1>3 DEF Held

\* Whoever talks, or is about to ring, holds the capacity of the call.
LEMMA TalkingIsHeld ==
  ASSUME IInv
  PROVE  /\ \A k \in DOMAIN calls : line[k].state = "alive" => Held(k, now)
         /\ \A r \in Request : requests[r].pc \in {"reserved", "issued"} =>
              Held(requests[r].call, now)
<1>1. ASSUME NEW k \in DOMAIN calls, line[k].state = "alive"
      PROVE  Held(k, now)
  <2>1. /\ line[k].since \in Nat /\ calls[k].hold \in Nat /\ now \in Nat
    BY CallsAreRows DEF IInv, Typed, CallRows, Lines
  <2> QED BY <1>1, <2>1, Constants DEF IInv, CallsHold, CallHolds, Held
<1>2. ASSUME NEW r \in Request, requests[r].pc \in {"reserved", "issued"}
      PROVE  Held(requests[r].call, now)
  <2>1. PICK k : k = requests[r].call
    OBVIOUS
  <2>2. /\ k \in DOMAIN calls /\ ~calls[k].released /\ calls[k].at = requests[r].at
        /\ now < requests[r].at + Hold - Life
    BY <1>2, <2>1 DEF IInv, RequestsHold, PlaceHolds, Placed
  <2>3. calls[k].hold = calls[k].at + Hold /\ calls[k].at \in Nat /\ now \in Nat
    BY <2>2, CallsAreRows DEF IInv, Typed, CallsHold, CallHolds, CallRows
  <2> QED BY <2>1, <2>2, <2>3, Constants DEF Held
<1> QED BY <1>1, <1>2

\* The code is written once more only when nobody hears an earlier one (IssuePhoneCode).
LEMMA IssuePhoneCodeKeeps ==
  ASSUME IInv, NEW r \in Request, IssuePhoneCode(r)
  PROVE  IInv'
<1>1. PICK p, c : p = requests[r].person /\ c = requests[r].call
  OBVIOUS
<1>2. /\ requests[r].pc = "reserved" /\ requests[r].purpose = "verify" /\ requests[r] \in Memory
      /\ p \in Person
      /\ UNCHANGED <<now, erased, contact, marks, calls, nextFree, line>>
  BY <1>1 DEF IssuePhoneCode, IInv, Typed, Shaped
<1>3. CASE Goes(r, "refused") /\ UNCHANGED code
  <2>1. /\ OneRequest(r) /\ LockHolds(requests[r])' /\ PlaceHolds(requests[r])'
        /\ requests'[r].pc = "refused"
    BY <1>2, <1>3, GoesOn
  <2> QED BY <1>2, <1>3, <2>1, RequestAloneKeeps
<1>4. CASE /\ p \notin erased /\ Goes(r, "issued")
           /\ code' = [code EXCEPT ![p] = [call |-> c, number |-> requests[r].number,
                                            wrong |-> 0, until |-> now + CodeTTL]]
  <2>1. /\ OneRequest(r) /\ LockHolds(requests[r])' /\ PlaceHolds(requests[r])'
        /\ requests'[r].pc = "issued" /\ requests'[r].person = p
        /\ requests'[r].number = requests[r].number /\ requests'[r].call = c
    BY <1>1, <1>2, <1>4, GoesOn
  <2>2. /\ RequestsHold' /\ requests' \in [Request -> Memory]
        /\ \A s \in Request : Shaped(requests'[s]) /\ (s # r => requests'[s] = requests[s])
    BY <2>1, OneRequestKeeps
  <2>3. /\ code' \in [Person -> [call : Nat, number : Numbers, wrong : Nat, until : Nat]]
        /\ \A q \in Person : q # p => code'[q] = code[q]
        /\ code'[p].call = c /\ code'[p].number = requests[r].number
    <3>1. PICK row : row = [call |-> c, number |-> requests[r].number,
                            wrong |-> 0, until |-> now + CodeTTL]
      OBVIOUS
    <3>2. row \in [call : Nat, number : Numbers, wrong : Nat, until : Nat]
      BY <1>1, <1>2, <3>1, Constants DEF Memory, IInv, Typed
    <3> QED BY <1>2, <1>4, <3>1, <3>2 DEF IInv, Typed
  <2>4. CallsHold' /\ Limited' /\ Typed'
    BY <1>2, <2>2, <2>3, CallsAlone DEF IInv, Typed
  <2>5. ProofsAreAboutTheNumber'
    BY <1>2, ProofsKeep DEF IInv, CodesAreAboutTheNumber, ProofsAreAboutTheNumber
  <2>6. /\ c \in DOMAIN calls /\ calls[c].asker = p /\ calls[c].purpose = "verify"
        /\ calls[c].to = requests[r].number /\ Held(c, now)
    BY <1>1, <1>2, <1>4, TalkingIsHeld DEF IInv, RequestsHold, PlaceHolds, Placed
  <2>7. CodesHold'
    <3>1. ASSUME NEW q \in Person, code'[q] # NoCode
          PROVE  /\ code'[q].call \in DOMAIN calls' /\ calls'[code'[q].call].asker = q
                 /\ calls'[code'[q].call].purpose = "verify"
                 /\ calls'[code'[q].call].to = code'[q].number
      <4>1. CASE q = p
        BY <1>2, <2>3, <2>6, <4>1
      <4>2. CASE q # p
        BY <1>2, <2>3, <3>1, <4>2 DEF IInv, CodesHold
      <4> QED BY <4>1, <4>2
    <3>2. ASSUME NEW s \in Request, requests'[s].pc = "issued"
          PROVE  code'[requests'[s].person].call \in {0, requests'[s].call}
      <4>1. CASE s = r
        BY <2>1, <2>3, <4>1
      <4>2. CASE s # r
        <5>1. requests'[s] = requests[s] /\ requests[s].pc = "issued" /\ requests[s].person \in Person
              /\ requests[s].purpose = "verify" /\ code[requests[s].person].call \in {0, requests[s].call}
          BY <2>2, <3>2, <4>2 DEF IInv, Typed, Shaped, CodesHold
        <5>2. /\ requests[s].call \in DOMAIN calls /\ calls[requests[s].call].asker = requests[s].person
              /\ calls[requests[s].call].purpose = "verify" /\ Held(requests[s].call, now)
          BY <5>1, TalkingIsHeld DEF IInv, RequestsHold, PlaceHolds, Placed
        <5>3. CASE requests[s].person = p
          BY <2>3, <2>6, <5>1, <5>2, <5>3, OneCodeCall
        <5>4. CASE requests[s].person # p
          BY <2>3, <5>1, <5>4
        <5> QED BY <5>3, <5>4
      <4> QED BY <4>1, <4>2
    <3> QED BY <3>1, <3>2 DEF CodesHold
  <2>8. SpokenCodeIsTheCode'
    <3>1. ASSUME NEW k \in DOMAIN calls, calls[k].purpose = "verify", line[k].state = "alive"
          PROVE  code'[calls[k].asker].call \in {0, k}
      <4>1. CASE calls[k].asker = p
        <5>1. Held(k, now)
          BY <3>1, TalkingIsHeld
        <5> QED BY <2>3, <2>6, <3>1, <4>1, <5>1, OneCodeCall
      <4>2. CASE calls[k].asker # p
        <5>1. calls[k].asker \in Person
          BY CallsAreRows DEF IInv, CallRows
        <5> QED BY <2>3, <3>1, <4>2, <5>1 DEF IInv, CodesAreAboutTheNumber, SpokenCodeIsTheCode
      <4> QED BY <4>1, <4>2
    <3> QED BY <1>2, <3>1 DEF SpokenCodeIsTheCode
  <2>9. ErasedIsForgotten'
    BY <1>2, <1>4, <2>3 DEF IInv, Typed, ErasedIsForgotten
  <2> QED BY <2>2, <2>4, <2>5, <2>7, <2>8, <2>9 DEF IInv, CodesAreAboutTheNumber
<1> QED BY <1>1, <1>3, <1>4 DEF IssuePhoneCode

------------------------------------------------------------------------------
(* The line.                                                                  *)

\* The phone rings, for as long as the capacity of the call is held (CreateCall).
LEMMA RingsKeeps ==
  ASSUME IInv, NEW r \in Request, Calling(r), Rings(requests[r].call), Ends(r),
         UNCHANGED <<now, erased, contact, marks, code, calls, nextFree>>
  PROVE  IInv'
<1>1. PICK c : c = requests[r].call
  OBVIOUS
<1>2. /\ c \in DOMAIN calls /\ ~calls[c].released /\ line[c].state = "none"
      /\ calls[c].at = requests[r].at /\ now < requests[r].at + Hold - Life
      /\ calls[c].asker = requests[r].person /\ calls[c].purpose = requests[r].purpose
  BY <1>1 DEF IInv, RequestsHold, PlaceHolds, Placed, Calling
<1>3. /\ DOMAIN calls = 1..Len(calls) /\ DOMAIN line = 1..Len(calls) /\ Len(calls) \in Nat
      /\ Len(line) = Len(calls) /\ line \in Seq(Lines) /\ now \in Nat
      /\ \A k \in DOMAIN calls : calls[k] \in CallRows /\ line[k] \in Lines
  BY CallsAreRows DEF IInv, Typed
<1>4. /\ line' \in Seq(Lines) /\ Len(line') = Len(line)
      /\ \A k \in DOMAIN calls :
           line'[k] = IF k = c THEN [state |-> "alive", since |-> now] ELSE line[k]
  <2>1. [state |-> "alive", since |-> now] \in Lines
    BY <1>3 DEF Lines
  <2>2. line' = [line EXCEPT ![c] = [state |-> "alive", since |-> now]]
    BY <1>1 DEF Rings
  <2> QED BY <1>2, <1>3, <2>1, <2>2, ExceptSeq
<1>5. requests' = [requests EXCEPT ![r] = Idle]
      /\ \A s \in Request : requests'[s] = IF s = r THEN Idle ELSE requests[s]
  BY DEF Ends, IInv, Typed
<1>6. Typed'
  BY <1>4, <1>5, IdleIsMemory DEF IInv, Typed
<1>7. RequestsHold'
  <2>1. ASSUME NEW s \in Request
        PROVE  LockHolds(requests[s])' /\ PlaceHolds(requests[s])'
    <3>1. CASE s = r
      BY <1>5, <3>1 DEF LockHolds, PlaceHolds, Placed, Idle
    <3>2. CASE s # r
      <4>1. requests'[s] = requests[s] /\ LockHolds(requests[s]) /\ PlaceHolds(requests[s])
        BY <1>5, <3>2 DEF IInv, RequestsHold
      <4>2. LockHolds(requests[s])'
        BY <4>1 DEF LockHolds, HeldBy, Window, Held
      <4>3. Placed(requests[s]) => requests[s].call # c
        BY <1>1, <3>2 DEF IInv, RequestsHold, Calling, Placed
      <4>4. PlaceHolds(requests[s])'
        BY <1>4, <4>1, <4>3 DEF PlaceHolds, Placed
      <4> QED BY <4>2, <4>4
    <3> QED BY <3>1, <3>2
  <2> QED BY <1>5, <2>1 DEF IInv, RequestsHold, Placed, Idle
<1>8. CallsHold'
  <2>1. ASSUME NEW k \in DOMAIN calls
        PROVE  CallHolds(k)'
    <3>1. CallHolds(k)
      BY DEF IInv, CallsHold
    <3>2. CASE k = c
      <4>1. line'[k].since = now /\ now + Life < calls[k].hold /\ now <= now + Life
        BY <1>2, <1>3, <1>4, <3>1, <3>2, Constants DEF CallHolds, CallRows
      <4> QED BY <1>2, <3>1, <3>2, <4>1 DEF CallHolds
    <3>3. CASE k # c
      BY <1>4, <3>1, <3>3 DEF CallHolds
    <3> QED BY <3>2, <3>3
  <2> QED BY <2>1 DEF IInv, CallsHold, Succeed, Held
<1>9. Limited'
  BY DEF IInv, Limited, HeldBy, Window, Held
<1>10. CodesHold'
  BY <1>5 DEF IInv, CodesHold, Idle
<1>11. ProofsAreAboutTheNumber'
  <2>1. \A p \in Person : Heard(p) \subseteq Heard(p)'
    BY <1>4 DEF Heard
  <2> QED BY <2>1 DEF IInv, CodesAreAboutTheNumber, ProofsAreAboutTheNumber, Heard
<1>12. SpokenCodeIsTheCode'
  <2>1. calls[c].purpose = "verify" => code[calls[c].asker].call \in {0, c}
    BY <1>1, <1>2 DEF IInv, CodesHold, Calling
  <2> QED BY <1>4, <2>1 DEF IInv, CodesAreAboutTheNumber, SpokenCodeIsTheCode
<1>13. ErasedIsForgotten'
  BY DEF IInv, ErasedIsForgotten
<1> QED BY <1>6, <1>7, <1>8, <1>9, <1>10, <1>11, <1>12, <1>13 DEF IInv, CodesAreAboutTheNumber

\* The person hangs up.
LEMMA HangsUpKeeps ==
  ASSUME IInv, NEW c \in DOMAIN line, HangsUp(c)
  PROVE  IInv'
<1>1. /\ UNCHANGED <<now, erased, contact, marks, code, calls, nextFree, requests>>
      /\ line[c].state = "alive" /\ line' = [line EXCEPT ![c] = [state |-> "over", since |-> 0]]
  BY DEF HangsUp
<1>2. /\ DOMAIN calls = 1..Len(calls) /\ DOMAIN line = 1..Len(calls) /\ Len(calls) \in Nat
      /\ Len(line) = Len(calls) /\ line \in Seq(Lines)
      /\ \A k \in DOMAIN calls : calls[k] \in CallRows /\ line[k] \in Lines
  BY CallsAreRows DEF IInv, Typed
<1>3. /\ line' \in Seq(Lines) /\ Len(line') = Len(line)
      /\ \A k \in DOMAIN calls :
           line'[k] = IF k = c THEN [state |-> "over", since |-> 0] ELSE line[k]
  <2>1. [state |-> "over", since |-> 0] \in Lines
    BY DEF Lines
  <2> QED BY <1>1, <1>2, <2>1, ExceptSeq
<1>4. Typed'
  BY <1>1, <1>3 DEF IInv, Typed
<1>5. RequestsHold'
  <2>1. ASSUME NEW s \in Request
        PROVE  LockHolds(requests[s])' /\ PlaceHolds(requests[s])'
    <3>1. LockHolds(requests[s]) /\ PlaceHolds(requests[s])
      BY DEF IInv, RequestsHold
    <3>2. LockHolds(requests[s])'
      BY <1>1, <3>1 DEF LockHolds, HeldBy, Window, Held
    <3>3. PlaceHolds(requests[s])'
      BY <1>1, <1>3, <3>1 DEF PlaceHolds, Placed
    <3> QED BY <3>2, <3>3
  <2> QED BY <1>1, <2>1 DEF IInv, RequestsHold, Placed
<1>6. CallsHold'
  BY <1>1, <1>3 DEF IInv, CallsHold, CallHolds, Succeed, Held
<1>7. Limited'
  BY <1>1 DEF IInv, Limited, HeldBy, Window, Held
<1>8. CodesHold'
  BY <1>1 DEF IInv, CodesHold
<1>9. ProofsAreAboutTheNumber'
  <2>1. \A p \in Person : Heard(p) \subseteq Heard(p)'
    BY <1>1, <1>3 DEF Heard
  <2> QED BY <1>1, <2>1 DEF IInv, CodesAreAboutTheNumber, ProofsAreAboutTheNumber, Heard
<1>10. SpokenCodeIsTheCode'
  BY <1>1, <1>3 DEF IInv, CodesAreAboutTheNumber, SpokenCodeIsTheCode
<1>11. ErasedIsForgotten'
  BY <1>1 DEF IInv, ErasedIsForgotten
<1> QED BY <1>4, <1>5, <1>6, <1>7, <1>8, <1>9, <1>10, <1>11 DEF IInv, CodesAreAboutTheNumber

------------------------------------------------------------------------------
(* The rows of the calls, and the clock.                                      *)

\* A row is rewritten: whom the call was for may be forgotten, its capacity given back.
Rewritten ==
  /\ calls' \in Seq(CallRows) /\ Len(calls') = Len(calls)
  /\ \A k \in DOMAIN calls :
       /\ calls'[k].asker = calls[k].asker /\ calls'[k].purpose = calls[k].purpose
       /\ calls'[k].sender = calls[k].sender /\ calls'[k].at = calls[k].at
       /\ calls'[k].hold = calls[k].hold /\ (calls[k].released => calls'[k].released)
  /\ UNCHANGED <<now, nextFree, line>>

\* What is counted does not grow when rows are rewritten.
LEMMA RewrittenKeeps ==
  ASSUME IInv, Rewritten
  PROVE  /\ DOMAIN calls' = DOMAIN calls /\ Limited'
         /\ \A j, k \in DOMAIN calls : j < k => Succeed(j, k)'
<1>1. /\ DOMAIN calls = 1..Len(calls) /\ DOMAIN calls' = DOMAIN calls
      /\ IsFiniteSet(DOMAIN calls)
  BY CallsAreRows, LenProperties DEF IInv, Rewritten
<1>2. ASSUME NEW s \in Sender
      PROVE  (Cardinality(HeldBy(s, now)) <= MaxConcurrent)'
  <2>1. HeldBy(s, now)' \subseteq HeldBy(s, now)
    BY <1>1 DEF Rewritten, HeldBy, Held
  <2>2. IsFiniteSet(HeldBy(s, now)) /\ Cardinality(HeldBy(s, now)) <= MaxConcurrent
    BY <1>1, FewerCalls DEF IInv, Limited, HeldBy
  <2>3. /\ Cardinality(HeldBy(s, now)') <= Cardinality(HeldBy(s, now))
        /\ Cardinality(HeldBy(s, now)') \in Nat /\ Cardinality(HeldBy(s, now)) \in Nat
    BY <2>1, <2>2, FewerCalls
  <2> QED BY <2>2, <2>3, Constants
<1>3. ASSUME NEW p \in Person, NEW t \in Nat
      PROVE  (/\ Cardinality(Window(p, {"verify"}, t, VerifySpan)) <= MaxVerify
              /\ Cardinality(Window(p, Purposes, t, DaySpan)) <= MaxDay)'
  <2>1. /\ Window(p, {"verify"}, t, VerifySpan)' = Window(p, {"verify"}, t, VerifySpan)
        /\ Window(p, Purposes, t, DaySpan)' = Window(p, Purposes, t, DaySpan)
    BY <1>1 DEF Rewritten, Window
  <2> QED BY <2>1 DEF IInv, Limited
<1>4. \A j, k \in DOMAIN calls : j < k => Succeed(j, k)'
  BY DEF IInv, CallsHold, Succeed, Held, Rewritten
<1> QED BY <1>1, <1>2, <1>3, <1>4 DEF Limited

\* Nor does what a request found under its locks.
LEMMA LocksOutlastRewriting ==
  ASSUME IInv, Rewritten, NEW r \in Request, requests'[r] = requests[r],
         requests[r].pc = "locked" => requests[r].person \notin erased'
  PROVE  LockHolds(requests[r])'
<1>1. PICK q : q = requests[r]
  OBVIOUS
<1>2. /\ DOMAIN calls' = DOMAIN calls /\ IsFiniteSet(DOMAIN calls)
  BY RewrittenKeeps, CallsAreRows DEF IInv
<1>3. LockHolds(q)
  BY <1>1 DEF IInv, RequestsHold
<1>4. CASE q.pc = "locked"
  <2>1. ASSUME NEW k \in DOMAIN calls', calls'[k].asker = q.person
        PROVE  /\ calls'[k].at <= q.at
               /\ q.purpose = "verify" /\ calls'[k].purpose = "verify" => ~(Held(k, q.at)')
    BY <1>2, <1>3, <1>4, <2>1 DEF LockHolds, Rewritten, Held
  <2>2. Cardinality(HeldBy(q.sender, q.at)') < MaxConcurrent
    <3>1. HeldBy(q.sender, q.at)' \subseteq HeldBy(q.sender, q.at)
      BY <1>2 DEF Rewritten, HeldBy, Held
    <3>2. IsFiniteSet(HeldBy(q.sender, q.at)) /\ Cardinality(HeldBy(q.sender, q.at)) < MaxConcurrent
      BY <1>2, <1>3, <1>4, FewerCalls DEF LockHolds, HeldBy
    <3>3. /\ Cardinality(HeldBy(q.sender, q.at)') <= Cardinality(HeldBy(q.sender, q.at))
          /\ Cardinality(HeldBy(q.sender, q.at)') \in Nat
          /\ Cardinality(HeldBy(q.sender, q.at)) \in Nat
      BY <3>1, <3>2, FewerCalls
    <3> QED BY <3>2, <3>3, Constants
  <2>3. /\ Window(q.person, {"verify"}, q.at, VerifySpan)' = Window(q.person, {"verify"}, q.at, VerifySpan)
        /\ Window(q.person, Purposes, q.at, DaySpan)' = Window(q.person, Purposes, q.at, DaySpan)
    BY <1>2 DEF Rewritten, Window
  <2>4. /\ q.purpose = "verify" =>
             Cardinality(Window(q.person, {"verify"}, q.at, VerifySpan)') < MaxVerify
        /\ Cardinality(Window(q.person, Purposes, q.at, DaySpan)') < MaxDay
    BY <1>3, <1>4, <2>3 DEF LockHolds
  <2>5. q.person \notin erased' /\ q.at <= now' /\ now' < q.at + Hold - Life
        /\ nextFree'[q.sender] <= q.at
    BY <1>1, <1>3, <1>4 DEF LockHolds, Rewritten
  <2>6. LockHolds(q)'
    BY <2>1, <2>2, <2>4, <2>5 DEF LockHolds
  <2> QED BY <1>1, <2>6 DEF LockHolds, HeldBy, Window, Held
<1>5. CASE q.pc # "locked"
  BY <1>1, <1>5 DEF LockHolds
<1> QED BY <1>4, <1>5

\* The capacity of a refused call is given back (ReleasePhoneReservation).
LEMMA ReleasePhoneReservationKeeps ==
  ASSUME IInv, NEW r \in Request, ReleasePhoneReservation(r)
  PROVE  IInv'
<1>1. PICK c : c = requests[r].call
  OBVIOUS
<1>2. /\ UNCHANGED <<now, erased, contact, marks, code, nextFree, line>>
      /\ calls' = [calls EXCEPT ![c].released = TRUE]
      /\ requests' = [requests EXCEPT ![r] = Idle]
      /\ requests[r].pc = "refused"
  BY <1>1 DEF ReleasePhoneReservation, Ends
<1>3. /\ c \in DOMAIN calls /\ line[c].state = "none"
  BY <1>1, <1>2 DEF IInv, RequestsHold, PlaceHolds, Placed
<1>4. /\ DOMAIN calls = 1..Len(calls) /\ DOMAIN line = 1..Len(calls) /\ Len(calls) \in Nat
      /\ calls \in Seq(CallRows) /\ \A k \in DOMAIN calls : calls[k] \in CallRows
  BY CallsAreRows DEF IInv, Typed
<1>5. PICK row : row = [calls[c] EXCEPT !.released = TRUE]
  OBVIOUS
<1>6. /\ row \in CallRows /\ row.asker = calls[c].asker /\ row.purpose = calls[c].purpose
      /\ row.sender = calls[c].sender /\ row.at = calls[c].at /\ row.hold = calls[c].hold
      /\ row.person = calls[c].person /\ row.to = calls[c].to /\ row.released
  BY <1>3, <1>4, <1>5 DEF CallRows
<1>7. /\ calls' \in Seq(CallRows) /\ Len(calls') = Len(calls)
      /\ \A k \in DOMAIN calls : calls'[k] = IF k = c THEN row ELSE calls[k]
  <2>1. calls' = [calls EXCEPT ![c] = row]
    BY <1>2, <1>5
  <2> QED BY <1>3, <1>4, <1>6, <2>1, ExceptSeq
<1>8. Rewritten
  BY <1>2, <1>6, <1>7 DEF Rewritten
<1>9. \A s \in Request : requests'[s] = IF s = r THEN Idle ELSE requests[s]
  BY <1>2 DEF IInv, Typed
<1>10. /\ DOMAIN calls' = DOMAIN calls /\ Limited'
       /\ \A j, k \in DOMAIN calls : j < k => Succeed(j, k)'
  BY <1>8, RewrittenKeeps
<1>11. \A k \in DOMAIN calls :
         /\ calls'[k].person = calls[k].person /\ calls'[k].to = calls[k].to
         /\ calls'[k].asker = calls[k].asker /\ calls'[k].purpose = calls[k].purpose
         /\ calls'[k].sender = calls[k].sender /\ calls'[k].at = calls[k].at
         /\ calls'[k].hold = calls[k].hold /\ (k # c => calls'[k].released = calls[k].released)
  BY <1>6, <1>7
<1>12. Typed'
  BY <1>2, <1>7, <1>9, IdleIsMemory DEF IInv, Typed
<1>13. RequestsHold'
  <2>1. ASSUME NEW s \in Request
        PROVE  LockHolds(requests[s])' /\ PlaceHolds(requests[s])'
    <3>1. CASE s = r
      BY <1>9, <3>1 DEF LockHolds, PlaceHolds, Placed, Idle
    <3>2. CASE s # r
      <4>1. requests'[s] = requests[s] /\ LockHolds(requests[s]) /\ PlaceHolds(requests[s])
        BY <1>9, <3>2 DEF IInv, RequestsHold
      <4>2. LockHolds(requests[s])'
        <5>1. requests[s].pc = "locked" => requests[s].person \notin erased'
          BY <1>2, <4>1 DEF LockHolds
        <5> QED BY <1>8, <4>1, <5>1, LocksOutlastRewriting
      <4>3. Placed(requests[s]) => requests[s].call # c
        BY <1>1, <1>2, <3>2 DEF IInv, RequestsHold, Placed
      <4>4. PlaceHolds(requests[s])'
        BY <1>2, <1>10, <1>11, <4>1, <4>3 DEF PlaceHolds, Placed
      <4> QED BY <4>2, <4>4
    <3> QED BY <3>1, <3>2
  <2> QED BY <1>9, <2>1 DEF IInv, RequestsHold, Placed, Idle
<1>14. CallsHold'
  <2>1. ASSUME NEW k \in DOMAIN calls
        PROVE  CallHolds(k)'
    BY <1>2, <1>3, <1>11 DEF IInv, CallsHold, CallHolds
  <2> QED BY <1>10, <2>1 DEF CallsHold
<1>15. CodesHold'
  BY <1>2, <1>9, <1>10, <1>11 DEF IInv, CodesHold, Idle
<1>16. ProofsAreAboutTheNumber'
  <2>1. \A p \in Person : Heard(p)' = Heard(p)
    BY <1>2, <1>10, <1>11 DEF Heard
  <2> QED BY <1>2, <1>11, <2>1 DEF IInv, CodesAreAboutTheNumber, ProofsAreAboutTheNumber, Heard
<1>17. SpokenCodeIsTheCode'
  BY <1>2, <1>10, <1>11 DEF IInv, CodesAreAboutTheNumber, SpokenCodeIsTheCode
<1>18. ErasedIsForgotten'
  BY <1>2, <1>10, <1>11 DEF IInv, ErasedIsForgotten
<1> QED BY <1>10, <1>12, <1>13, <1>14, <1>15, <1>16, <1>17, <1>18 DEF IInv, CodesAreAboutTheNumber

\* A person is erased: the rows keep what they count and forget whom they were for
\* (DeleteUserPhoneData, DeleteUserLinkTokens).
LEMMA EraseKeeps ==
  ASSUME IInv, NEW p \in Person, Erase(p)
  PROVE  IInv'
<1>1. /\ UNCHANGED <<now, nextFree, requests, line>> /\ erased' = erased \cup {p}
      /\ p \notin erased /\ ~Locked(p)
      /\ contact' = [contact EXCEPT ![p] = NoContact]
      /\ marks' = [marks EXCEPT ![p] = {}] /\ code' = [code EXCEPT ![p] = NoCode]
      /\ calls' = [k \in DOMAIN calls |->
                     IF calls[k].asker = p THEN [calls[k] EXCEPT !.person = None, !.to = None]
                     ELSE calls[k]]
  BY DEF Erase, Here
<1>2. /\ DOMAIN calls = 1..Len(calls) /\ DOMAIN line = 1..Len(calls) /\ Len(calls) \in Nat
      /\ calls \in Seq(CallRows) /\ \A k \in DOMAIN calls : calls[k] \in CallRows
  BY CallsAreRows DEF IInv, Typed
<1>3. ASSUME NEW k \in DOMAIN calls
      PROVE  /\ calls'[k] \in CallRows
             /\ calls'[k].asker = calls[k].asker /\ calls'[k].purpose = calls[k].purpose
             /\ calls'[k].sender = calls[k].sender /\ calls'[k].at = calls[k].at
             /\ calls'[k].hold = calls[k].hold /\ calls'[k].released = calls[k].released
             /\ calls[k].asker = p => calls'[k].person = None /\ calls'[k].to = None
             /\ calls[k].asker # p => calls'[k] = calls[k]
  <2>1. calls[k] \in CallRows
    BY <1>2
  <2>2. CASE calls[k].asker = p
    <3>1. calls'[k] = [calls[k] EXCEPT !.person = None, !.to = None]
      BY <1>1, <2>2
    <3> QED BY <2>1, <2>2, <3>1 DEF CallRows, Numbers
  <2>3. CASE calls[k].asker # p
    BY <1>1, <2>1, <2>3
  <2> QED BY <2>2, <2>3
<1>4. calls' \in Seq(CallRows) /\ Len(calls') = Len(calls)
  <2>1. calls' \in [1..Len(calls) -> CallRows]
    BY <1>1, <1>2, <1>3
  <2> QED BY <1>2, <2>1, FunctionsAreSequences
<1>5. Rewritten
  BY <1>1, <1>3, <1>4 DEF Rewritten
<1>6. /\ DOMAIN calls' = DOMAIN calls /\ Limited'
      /\ \A j, k \in DOMAIN calls : j < k => Succeed(j, k)'
  BY <1>5, RewrittenKeeps
<1>7. \A q \in Person : /\ contact'[q] = IF q = p THEN NoContact ELSE contact[q]
                        /\ marks'[q] = IF q = p THEN {} ELSE marks[q]
                        /\ code'[q] = IF q = p THEN NoCode ELSE code[q]
  BY <1>1 DEF IInv, Typed
<1>8. UNCHANGED <<now, nextFree, requests, line>> /\ erased' = erased \cup {p}
  BY <1>1
<1>9. Typed'
  <2>1. /\ erased' \subseteq Person
        /\ contact' \in [Person -> [number : Numbers, verified : BOOLEAN, pin : Numbers]]
        /\ marks' \in [Person -> SUBSET Number]
        /\ code' \in [Person -> [call : Nat, number : Numbers, wrong : Nat, until : Nat]]
    BY <1>1 DEF IInv, Typed, NoContact, NoCode, Numbers
  <2> QED BY <1>1, <1>4, <2>1 DEF IInv, Typed
<1>10. RequestsHold'
  <2>1. ASSUME NEW s \in Request
        PROVE  LockHolds(requests[s])' /\ PlaceHolds(requests[s])'
    <3>1. requests'[s] = requests[s] /\ LockHolds(requests[s]) /\ PlaceHolds(requests[s])
      BY <1>1 DEF IInv, RequestsHold
    <3>2. requests[s].pc = "locked" => requests[s].person \notin erased'
      BY <1>1, <3>1 DEF LockHolds, Locked
    <3>3. LockHolds(requests[s])'
      BY <1>5, <3>1, <3>2, LocksOutlastRewriting
    <3>4. PlaceHolds(requests[s])'
      BY <1>3, <1>6, <1>8, <3>1 DEF PlaceHolds, Placed
    <3> QED BY <3>3, <3>4
  <2> QED BY <1>1, <2>1 DEF IInv, RequestsHold, Placed
<1>11. CallsHold'
  <2>1. ASSUME NEW k \in DOMAIN calls
        PROVE  CallHolds(k)'
    <3>1. CallHolds(k)
      BY DEF IInv, CallsHold
    <3> QED BY <1>3, <1>8, <3>1 DEF CallHolds
  <2> QED BY <1>6, <2>1 DEF CallsHold
<1>12. CodesHold'
  <2>1. ASSUME NEW q \in Person, code'[q] # NoCode
        PROVE  /\ code'[q].call \in DOMAIN calls' /\ calls'[code'[q].call].asker = q
               /\ calls'[code'[q].call].purpose = "verify"
               /\ calls'[code'[q].call].to = code'[q].number
    <3>1. q # p /\ code'[q] = code[q] /\ code[q] # NoCode
      BY <1>7, <2>1
    <3>2. /\ code[q].call \in DOMAIN calls /\ calls[code[q].call].asker = q
          /\ calls[code[q].call].purpose = "verify" /\ calls[code[q].call].to = code[q].number
      BY <3>1 DEF IInv, CodesHold
    <3> QED BY <1>3, <1>6, <3>1, <3>2
  <2>2. ASSUME NEW s \in Request, requests'[s].pc = "issued"
        PROVE  code'[requests'[s].person].call \in {0, requests'[s].call}
    BY <1>1, <1>7, <2>2 DEF IInv, Typed, Shaped, CodesHold, NoCode
  <2> QED BY <2>1, <2>2 DEF CodesHold
<1>13. ProofsAreAboutTheNumber'
  <2>1. \A q \in Person : Heard(q)' = Heard(q)
    BY <1>1, <1>3, <1>6 DEF Heard
  <2>2. ASSUME NEW q \in Person
        PROVE  /\ contact'[q].verified => \E k \in Heard(q)' : calls'[k].to = contact'[q].number
               /\ contact'[q].pin \in {None, contact'[q].number}
    <3>1. CASE q = p
      BY <1>7, <3>1 DEF NoContact
    <3>2. CASE q # p
      <4>1. \A k \in Heard(q) : calls'[k] = calls[k]
        BY <1>3, <3>2 DEF Heard
      <4> QED BY <1>7, <2>1, <3>2, <4>1 DEF IInv, CodesAreAboutTheNumber, ProofsAreAboutTheNumber
    <3> QED BY <3>1, <3>2
  <2> QED BY <2>2 DEF ProofsAreAboutTheNumber
<1>14. SpokenCodeIsTheCode'
  <2>1. ASSUME NEW k \in DOMAIN calls, calls'[k].purpose = "verify", line'[k].state = "alive"
        PROVE  code'[calls'[k].asker].call \in {0, k}
    <3>1. calls[k].asker \in Person /\ calls'[k].asker = calls[k].asker
      BY <1>2, <1>3 DEF CallRows
    <3>2. code[calls[k].asker].call \in {0, k}
      BY <1>1, <1>3, <2>1 DEF IInv, CodesAreAboutTheNumber, SpokenCodeIsTheCode
    <3> QED BY <1>7, <3>1, <3>2 DEF NoCode
  <2> QED BY <1>6, <2>1 DEF SpokenCodeIsTheCode
<1>15. ErasedIsForgotten'
  <2>1. ASSUME NEW q \in erased'
        PROVE  /\ contact'[q] = NoContact /\ marks'[q] = {} /\ code'[q] = NoCode
               /\ \A k \in DOMAIN calls' :
                    calls'[k].asker = q => calls'[k].person = None /\ calls'[k].to = None
    <3>1. CASE q = p
      BY <1>3, <1>6, <1>7, <3>1
    <3>2. CASE q # p
      <4>1. q \in erased /\ q \in Person
        BY <1>1, <2>1, <3>2 DEF IInv, Typed
      <4> QED BY <1>3, <1>6, <1>7, <3>2, <4>1 DEF IInv, ErasedIsForgotten
    <3> QED BY <3>1, <3>2
  <2> QED BY <2>1 DEF ErasedIsForgotten
<1> QED BY <1>6, <1>9, <1>10, <1>11, <1>12, <1>13, <1>14, <1>15 DEF IInv, CodesAreAboutTheNumber

\* Time passes while every request is within its deadline and every call within its length.
LEMMA TickKeeps ==
  ASSUME IInv, Tick
  PROVE  IInv'
<1>1. /\ now' = now + 1 /\ now \in Nat /\ now' \in Nat /\ Prompt
      /\ UNCHANGED <<erased, contact, marks, code, calls, nextFree, requests, line>>
  BY DEF Tick, IInv, Typed
<1>2. /\ DOMAIN calls = 1..Len(calls) /\ DOMAIN line = 1..Len(calls) /\ IsFiniteSet(DOMAIN calls)
      /\ \A k \in DOMAIN calls : calls[k] \in CallRows /\ line[k] \in Lines
  BY CallsAreRows DEF IInv
<1>3. Typed'
  BY <1>1 DEF IInv, Typed
<1>4. RequestsHold'
  <2>1. ASSUME NEW s \in Request
        PROVE  LockHolds(requests[s])' /\ PlaceHolds(requests[s])'
    <3>1. /\ LockHolds(requests[s]) /\ PlaceHolds(requests[s]) /\ requests[s].at \in Nat
      BY DEF IInv, Typed, RequestsHold, Memory
    <3>2. requests[s].pc \in {"locked", "reserved", "issued"} =>
            now' < requests[s].at + Hold - Life
      BY <1>1 DEF Prompt
    <3>3. LockHolds(requests[s])'
      <4>1. requests[s].pc = "locked" => requests[s].at <= now'
        BY <1>1, <3>1 DEF LockHolds
      <4> QED BY <1>1, <3>1, <3>2, <4>1 DEF LockHolds, HeldBy, Window, Held
    <3>4. PlaceHolds(requests[s])'
      BY <1>1, <3>1, <3>2 DEF PlaceHolds, Placed
    <3> QED BY <3>3, <3>4
  <2> QED BY <1>1, <2>1 DEF IInv, RequestsHold, Placed
<1>5. CallsHold'
  <2>1. ASSUME NEW k \in DOMAIN calls
        PROVE  CallHolds(k)'
    <3>1. CallHolds(k) /\ calls[k].at <= now'
      BY <1>1, <1>2 DEF IInv, CallsHold, CallHolds, CallRows
    <3>2. line[k].state = "alive" => now' <= line[k].since + Life
      BY <1>1, <1>2, Constants DEF Prompt, Lines
    <3> QED BY <1>1, <3>1, <3>2 DEF CallHolds
  <2> QED BY <1>1, <2>1 DEF IInv, CallsHold, Succeed, Held
<1>6. Limited'
  <2>1. ASSUME NEW s \in Sender
        PROVE  (Cardinality(HeldBy(s, now)) <= MaxConcurrent)'
    <3>1. HeldBy(s, now)' \subseteq HeldBy(s, now)
      BY <1>1, <1>2 DEF HeldBy, Held, CallRows
    <3>2. IsFiniteSet(HeldBy(s, now)) /\ Cardinality(HeldBy(s, now)) <= MaxConcurrent
      BY <1>2, FewerCalls DEF IInv, Limited, HeldBy
    <3>3. /\ Cardinality(HeldBy(s, now)') <= Cardinality(HeldBy(s, now))
          /\ Cardinality(HeldBy(s, now)') \in Nat /\ Cardinality(HeldBy(s, now)) \in Nat
      BY <3>1, <3>2, FewerCalls
    <3> QED BY <3>2, <3>3, Constants
  <2>2. ASSUME NEW p \in Person, NEW t \in Nat
        PROVE  (/\ Cardinality(Window(p, {"verify"}, t, VerifySpan)) <= MaxVerify
                /\ Cardinality(Window(p, Purposes, t, DaySpan)) <= MaxDay)'
    BY <1>1 DEF IInv, Limited, Window
  <2> QED BY <2>1, <2>2 DEF Limited
<1>7. CodesHold'
  BY <1>1 DEF IInv, CodesHold
<1>8. ProofsAreAboutTheNumber'
  BY <1>1, ProofsKeep DEF IInv, CodesAreAboutTheNumber, ProofsAreAboutTheNumber
<1>9. SpokenCodeIsTheCode'
  BY <1>1 DEF IInv, CodesAreAboutTheNumber, SpokenCodeIsTheCode
<1>10. ErasedIsForgotten'
  BY <1>1 DEF IInv, ErasedIsForgotten
<1> QED BY <1>3, <1>4, <1>5, <1>6, <1>7, <1>8, <1>9, <1>10 DEF IInv, CodesAreAboutTheNumber

\* The reservation commits: a call more, within every limit that was read under its locks.
LEMMA ReserveCommitsKeeps ==
  ASSUME IInv, NEW r \in Request, ReserveCommits(r)
  PROVE  IInv'
<1>1. PICK q, row, n : q = requests[r] /\ row = Reservation(q) /\ n = Len(calls) + 1
  OBVIOUS
<1>2. /\ UNCHANGED <<now, erased, contact, marks, code>>
      /\ q.pc = "locked" /\ calls' = Append(calls, row)
      /\ line' = Append(line, [state |-> "none", since |-> 0])
      /\ nextFree' = [nextFree EXCEPT ![q.sender] = q.at + Interval]
      /\ requests' = [requests EXCEPT ![r].pc = "reserved", ![r].call = n]
  BY <1>1 DEF ReserveCommits
<1>3. /\ q \in Memory /\ q.person \in Person /\ q.sender \in Sender /\ q.purpose \in Purposes
      /\ q.number \in Number /\ q.at \in Nat /\ now \in Nat /\ LockHolds(q)
  BY <1>1, <1>2 DEF IInv, Typed, Shaped, Memory, RequestsHold
<1>4. /\ q.person \notin erased /\ q.at <= now /\ now < q.at + Hold - Life
       /\ nextFree[q.sender] <= q.at
  BY <1>2, <1>3 DEF LockHolds
<1>5. /\ Len(calls) \in Nat /\ DOMAIN calls = 1..Len(calls) /\ DOMAIN line = 1..Len(calls)
      /\ calls \in Seq(CallRows) /\ line \in Seq(Lines) /\ Len(line) = Len(calls)
      /\ IsFiniteSet(DOMAIN calls)
      /\ \A k \in DOMAIN calls : calls[k] \in CallRows /\ line[k] \in Lines
  BY CallsAreRows DEF IInv, Typed
<1>6. /\ row \in CallRows /\ row.person = q.person /\ row.asker = q.person
      /\ row.purpose = q.purpose /\ row.to = q.number /\ row.sender = q.sender
      /\ row.at = q.at /\ row.hold = q.at + Hold /\ ~row.released
  BY <1>1, <1>3, Constants DEF Reservation, CallRows, Numbers
<1>7. /\ calls' \in Seq(CallRows) /\ line' \in Seq(Lines) /\ Len(line') = Len(calls')
      /\ n \in Nat /\ n \notin DOMAIN calls /\ DOMAIN calls' = DOMAIN calls \cup {n}
      /\ \A k \in DOMAIN calls : k < n /\ calls'[k] = calls[k] /\ line'[k] = line[k]
      /\ calls'[n] = row /\ line'[n].state = "none"
  <2>1. [state |-> "none", since |-> 0] \in Lines
    BY DEF Lines
  <2>2. /\ calls' \in Seq(CallRows) /\ Len(calls') = n
        /\ \A k \in 1..Len(calls) : calls'[k] = calls[k]
        /\ calls'[n] = row
    BY <1>1, <1>2, <1>5, <1>6, AppendProperties
  <2>3. /\ line' \in Seq(Lines) /\ Len(line') = n
        /\ \A k \in 1..Len(calls) : line'[k] = line[k]
        /\ line'[n] = [state |-> "none", since |-> 0]
    BY <1>1, <1>2, <1>5, <2>1, AppendProperties
  <2>4. DOMAIN calls' = 1..n
    BY <2>2, LenProperties
  <2> QED BY <1>1, <1>5, <2>2, <2>3, <2>4
<1>8. /\ nextFree' \in [Sender -> Nat]
      /\ \A s \in Sender : nextFree'[s] = IF s = q.sender THEN q.at + Interval ELSE nextFree[s]
  <2>1. PICK free : free = q.at + Interval
    OBVIOUS
  <2>2. free \in Nat
    BY <1>3, <2>1, Constants
  <2>3. nextFree' = [nextFree EXCEPT ![q.sender] = free]
    BY <1>2, <2>1
  <2> QED BY <1>3, <2>1, <2>2, <2>3 DEF IInv, Typed
<1>9. PICK m : m = [q EXCEPT !.pc = "reserved", !.call = n]
  OBVIOUS
<1>10. /\ m \in Memory /\ m.pc = "reserved" /\ m.call = n /\ m.person = q.person
      /\ m.purpose = q.purpose /\ m.number = q.number /\ m.sender = q.sender /\ m.at = q.at
      /\ Shaped(m)
  <2>1. /\ m \in Memory /\ m.pc = "reserved" /\ m.call = n /\ m.person = q.person
        /\ m.purpose = q.purpose /\ m.number = q.number /\ m.sender = q.sender /\ m.at = q.at
    BY <1>3, <1>7, <1>9 DEF Memory
  <2> QED BY <1>3, <2>1 DEF Shaped, Purposes
<1>11. /\ requests' \in [Request -> Memory]
       /\ \A s \in Request : requests'[s] = IF s = r THEN m ELSE requests[s]
  <2>1. requests' = [requests EXCEPT ![r] = m]
    BY <1>1, <1>2, <1>9 DEF IInv, Typed
  <2> QED BY <1>10, <2>1 DEF IInv, Typed
<1>12. Typed'
  BY <1>2, <1>7, <1>8, <1>10, <1>11 DEF IInv, Typed
<1>13. RequestsHold'
  <2>1. ASSUME NEW s \in Request, s # r
        PROVE  LockHolds(requests[s])' /\ PlaceHolds(requests[s])'
    <3>1. PICK h : h = requests[s]
      OBVIOUS
    <3>2. requests'[s] = h /\ LockHolds(h) /\ PlaceHolds(h)
      BY <1>11, <2>1, <3>1 DEF IInv, RequestsHold
    <3>3. LockHolds(h)'
      <4>1. CASE h.pc = "locked"
        <5>1. h.person # q.person /\ h.sender # q.sender /\ h.sender \in Sender
          BY <1>1, <1>2, <2>1, <3>1, <4>1 DEF IInv, Typed, Shaped, RequestsHold
        <5>2. HeldBy(h.sender, h.at)' = HeldBy(h.sender, h.at)
          BY <1>6, <1>7, <5>1 DEF HeldBy, Held
        <5>3. /\ Window(h.person, {"verify"}, h.at, VerifySpan)'
                   = Window(h.person, {"verify"}, h.at, VerifySpan)
              /\ Window(h.person, Purposes, h.at, DaySpan)' = Window(h.person, Purposes, h.at, DaySpan)
          BY <1>6, <1>7, <5>1 DEF Window
        <5>4. ASSUME NEW k \in DOMAIN calls', calls'[k].asker = h.person
              PROVE  /\ calls'[k].at <= h.at
                     /\ h.purpose = "verify" /\ calls'[k].purpose = "verify" => ~(Held(k, h.at)')
          BY <1>6, <1>7, <3>2, <4>1, <5>1, <5>4 DEF LockHolds, Held
        <5>5. nextFree'[h.sender] = nextFree[h.sender]
          BY <1>8, <5>1
        <5> QED BY <1>2, <3>2, <4>1, <5>2, <5>3, <5>4, <5>5 DEF LockHolds
      <4>2. CASE h.pc # "locked"
        BY <4>2 DEF LockHolds
      <4> QED BY <4>1, <4>2
    <3>4. LockHolds(requests[s])'
      BY <3>2, <3>3 DEF LockHolds, HeldBy, Window, Held
    <3>5. PlaceHolds(h)'
      BY <1>2, <1>7, <3>2 DEF PlaceHolds, Placed
    <3>6. PlaceHolds(requests[s])'
      BY <3>2, <3>5 DEF PlaceHolds, Placed
    <3> QED BY <3>4, <3>6
  <2>2. LockHolds(requests[r])' /\ PlaceHolds(requests[r])'
    <3>1. requests'[r] = m
      BY <1>11
    <3>2. LockHolds(requests[r])'
      BY <1>10, <3>1 DEF LockHolds
    <3>3. PlaceHolds(requests[r])'
      BY <1>2, <1>6, <1>7, <1>10, <1>4, <3>1 DEF PlaceHolds, Placed
    <3> QED BY <3>2, <3>3
  <2>3. ASSUME NEW s \in Request, NEW t \in Request \ {s}
        PROVE  /\ requests'[s].pc = "locked" /\ requests'[t].pc = "locked" =>
                    requests'[s].person # requests'[t].person
                      /\ requests'[s].sender # requests'[t].sender
               /\ Placed(requests'[s]) /\ Placed(requests'[t]) => requests'[s].call # requests'[t].call
    <3>1. \A u \in Request : Placed(requests[u]) => requests[u].call \in DOMAIN calls
      BY DEF IInv, RequestsHold, PlaceHolds
    <3> QED BY <1>7, <1>10, <1>11, <3>1 DEF IInv, RequestsHold
  <2> QED BY <2>1, <2>2, <2>3 DEF RequestsHold
<1>14. CallsHold'
  <2>1. ASSUME NEW k \in DOMAIN calls
        PROVE  CallHolds(k)'
    <3>1. CallHolds(k) /\ calls[k].sender \in Sender /\ calls[k].at \in Nat
          /\ nextFree[calls[k].sender] \in Nat
      BY <1>5 DEF IInv, Typed, CallsHold, CallRows
    <3>2. nextFree'[calls[k].sender] >= calls[k].at + Interval
      <4>1. nextFree[calls[k].sender] >= calls[k].at + Interval
        BY <3>1 DEF CallHolds
      <4>2. CASE calls[k].sender = q.sender
        BY <1>3, <1>8, <1>4, <3>1, <4>1, <4>2, Constants
      <4>3. CASE calls[k].sender # q.sender
        BY <1>8, <3>1, <4>1, <4>3
      <4> QED BY <4>2, <4>3
    <3> QED BY <1>2, <1>7, <3>1, <3>2 DEF CallHolds
  <2>2. CallHolds(n)'
    <3>1. /\ nextFree'[q.sender] = q.at + Interval /\ q.at + Interval \in Nat
          /\ nextFree'[q.sender] >= q.at + Interval
      BY <1>3, <1>8, Constants
    <3> QED BY <1>2, <1>3, <1>6, <1>7, <1>4, <3>1 DEF CallHolds
  <2>3. ASSUME NEW j \in DOMAIN calls, NEW k \in DOMAIN calls, j < k
        PROVE  Succeed(j, k)'
    BY <1>7, <2>3 DEF IInv, CallsHold, Succeed, Held
  <2>4. ASSUME NEW j \in DOMAIN calls
        PROVE  Succeed(j, n)'
    <3>1. /\ calls[j].sender \in Sender /\ calls[j].at \in Nat /\ nextFree[calls[j].sender] \in Nat
          /\ nextFree[calls[j].sender] >= calls[j].at + Interval
      BY <1>5 DEF IInv, Typed, CallsHold, CallHolds, CallRows
    <3>2. calls[j].sender = q.sender => q.at >= calls[j].at + Interval
      BY <1>3, <1>4, <3>1, Constants
    <3>3. calls[j].asker = q.person /\ calls[j].purpose = "verify" /\ q.purpose = "verify" =>
            ~Held(j, q.at)
      BY <1>2, <1>3 DEF LockHolds
    <3> QED BY <1>6, <1>7, <3>2, <3>3 DEF Succeed, Held
  <2>5. \A k \in DOMAIN calls : ~(n < k)
    BY <1>7
  <2>6. ASSUME NEW j \in DOMAIN calls', NEW k \in DOMAIN calls', j < k
        PROVE  Succeed(j, k)'
    BY <1>7, <2>3, <2>4, <2>5, <2>6
  <2> QED BY <1>7, <2>1, <2>2, <2>6 DEF CallsHold
<1>15. Limited'
  <2>1. ASSUME NEW s \in Sender
        PROVE  (Cardinality(HeldBy(s, now)) <= MaxConcurrent)'
    <3>1. CASE s = q.sender
      <4>1. HeldBy(s, now)' \subseteq HeldBy(s, q.at) \cup {n}
        BY <1>2, <1>3, <1>5, <1>7, <1>4 DEF HeldBy, Held, CallRows
      <4>2. IsFiniteSet(HeldBy(s, q.at)) /\ Cardinality(HeldBy(s, q.at)) < MaxConcurrent
        BY <1>2, <1>3, <1>5, <3>1, FewerCalls DEF HeldBy, LockHolds
      <4>3. Cardinality(HeldBy(s, now)') <= MaxConcurrent
        BY <4>1, <4>2, OneCallMore, Constants
      <4> QED BY <4>3
    <3>2. CASE s # q.sender
      <4>1. HeldBy(s, now)' = HeldBy(s, now)
        BY <1>2, <1>6, <1>7, <3>2 DEF HeldBy, Held
      <4> QED BY <4>1 DEF IInv, Limited
    <3> QED BY <3>1, <3>2
  <2>2. ASSUME NEW p \in Person, NEW t \in Nat, NEW purposes, NEW span \in Nat, NEW max \in Nat,
               Cardinality(Window(p, purposes, t, span)) <= max,
               p = q.person /\ q.purpose \in purposes =>
                 Cardinality(Window(p, purposes, q.at, span)) < max
        PROVE  Cardinality(Window(p, purposes, t, span)') <= max
    <3>1. CASE p = q.person /\ q.purpose \in purposes /\ q.at <= t /\ q.at > t - span
      <4>1. Window(p, purposes, t, span)' \subseteq Window(p, purposes, q.at, span) \cup {n}
        <5>1. ASSUME NEW k \in DOMAIN calls, calls[k].asker = p, calls[k].at > t - span
              PROVE  calls[k].at <= q.at /\ calls[k].at > q.at - span
          BY <1>2, <1>3, <1>5, <3>1, <5>1 DEF LockHolds, CallRows
        <5> QED BY <1>7, <5>1 DEF Window
      <4>2. IsFiniteSet(Window(p, purposes, q.at, span))
        BY <1>5, FewerCalls DEF Window
      <4> QED BY <2>2, <3>1, <4>1, <4>2, OneCallMore
    <3>2. CASE ~(p = q.person /\ q.purpose \in purposes /\ q.at <= t /\ q.at > t - span)
      <4>1. Window(p, purposes, t, span)' = Window(p, purposes, t, span)
        BY <1>6, <1>7, <3>2 DEF Window
      <4> QED BY <2>2, <4>1
    <3> QED BY <3>1, <3>2
  <2>3. ASSUME NEW p \in Person, NEW t \in Nat
        PROVE  (/\ Cardinality(Window(p, {"verify"}, t, VerifySpan)) <= MaxVerify
                /\ Cardinality(Window(p, Purposes, t, DaySpan)) <= MaxDay)'
    <3>1. Cardinality(Window(p, {"verify"}, t, VerifySpan)') <= MaxVerify
      <4>1. p = q.person /\ q.purpose \in {"verify"} =>
              Cardinality(Window(p, {"verify"}, q.at, VerifySpan)) < MaxVerify
        BY <1>2, <1>3 DEF LockHolds
      <4>2. Cardinality(Window(p, {"verify"}, t, VerifySpan)) <= MaxVerify
        BY DEF IInv, Limited
      <4> QED BY <2>2, <4>1, <4>2, Constants
    <3>2. Cardinality(Window(p, Purposes, t, DaySpan)') <= MaxDay
      <4>1. p = q.person /\ q.purpose \in Purposes =>
              Cardinality(Window(p, Purposes, q.at, DaySpan)) < MaxDay
        BY <1>2, <1>3 DEF LockHolds
      <4>2. Cardinality(Window(p, Purposes, t, DaySpan)) <= MaxDay
        BY DEF IInv, Limited
      <4> QED BY <2>2, <4>1, <4>2, Constants
    <3> QED BY <3>1, <3>2
  <2> QED BY <2>1, <2>3 DEF Limited
<1>16. CodesHold'
  BY <1>2, <1>7, <1>10, <1>11 DEF IInv, CodesHold
<1>17. ProofsAreAboutTheNumber'
  <2>1. \A p \in Person : \A k \in Heard(p) : k \in Heard(p)' /\ calls'[k] = calls[k]
    BY <1>7 DEF Heard
  <2> QED BY <1>2, <2>1 DEF IInv, CodesAreAboutTheNumber, ProofsAreAboutTheNumber
<1>18. SpokenCodeIsTheCode'
  BY <1>2, <1>7 DEF IInv, CodesAreAboutTheNumber, SpokenCodeIsTheCode
<1>19. ErasedIsForgotten'
  BY <1>2, <1>3, <1>6, <1>7 DEF IInv, ErasedIsForgotten, LockHolds
<1> QED BY <1>12, <1>13, <1>14, <1>15, <1>16, <1>17, <1>18, <1>19 DEF IInv, CodesAreAboutTheNumber

------------------------------------------------------------------------------
(* The theorems.                                                              *)

\* Nobody has called yet.
LEMMA InitHolds == Init => IInv
<1> SUFFICES ASSUME Init PROVE IInv
  OBVIOUS
<1>1. Typed
  <2>1. Idle \in Memory /\ Shaped(Idle)
    BY IdleIsMemory
  <2> QED BY <2>1 DEF Init, Typed, NoContact, NoCode, Numbers, CallRows, Lines
<1>2. RequestsHold
  BY DEF Init, RequestsHold, LockHolds, PlaceHolds, Placed, Idle
<1>3. CallsHold
  BY DEF Init, CallsHold
<1>4. CodesHold
  BY DEF Init, CodesHold, Idle
<1>5. Limited
  <2>1. ASSUME NEW s \in Sender
        PROVE  Cardinality(HeldBy(s, now)) <= MaxConcurrent
    <3>1. HeldBy(s, now) = {}
      BY DEF Init, HeldBy
    <3> QED BY <3>1, FS_EmptySet, Constants
  <2>2. ASSUME NEW p \in Person, NEW t \in Nat
        PROVE  /\ Cardinality(Window(p, {"verify"}, t, VerifySpan)) <= MaxVerify
               /\ Cardinality(Window(p, Purposes, t, DaySpan)) <= MaxDay
    <3>1. Window(p, {"verify"}, t, VerifySpan) = {} /\ Window(p, Purposes, t, DaySpan) = {}
      BY DEF Init, Window
    <3> QED BY <3>1, FS_EmptySet, Constants
  <2> QED BY <2>1, <2>2 DEF Limited
<1>6. CodesAreAboutTheNumber
  BY DEF Init, CodesAreAboutTheNumber, ProofsAreAboutTheNumber, SpokenCodeIsTheCode, NoContact
<1>7. ErasedIsForgotten
  BY DEF Init, ErasedIsForgotten
<1> QED BY <1>1, <1>2, <1>3, <1>4, <1>5, <1>6, <1>7 DEF IInv

\* Every action keeps the invariant, however the requests interleave.
LEMMA StepKeeps == IInv /\ [Next]_vars => IInv'
<1> SUFFICES ASSUME IInv, [Next]_vars PROVE IInv'
  OBVIOUS
<1>1. ASSUME NEW p \in Person, PersonStep(p)
      PROVE  IInv'
  BY <1>1, SetPhoneContactKeeps, DeletePhoneContactKeeps, ConfirmDNDCheckKeeps, EraseKeeps,
     ConfirmPhoneCodeKeeps DEF PersonStep
<1>2. ASSUME NEW r \in Request, RequestStep(r)
      PROVE  IInv'
  <2>1. CASE \E p \in Person : PinAsks(r, p)
    BY <2>1, PinAsksKeeps
  <2>2. CASE \E p \in Person, purpose \in Purposes, sender \in Sender : Asks(r, p, purpose, sender)
    BY <2>2, AsksKeeps
  <2>3. CASE \E pin \in Number \cup {None} : PinWrites(r, pin)
    BY <2>3, PinWritesKeeps
  <2>4. CASE ReserveBegins(r) \/ ReserveCommits(r) \/ ReleasePhoneReservation(r)
    BY <2>4, ReserveBeginsKeeps, ReserveCommitsKeeps, ReleasePhoneReservationKeeps
  <2>5. CASE IssuePhoneCode(r) \/ CallNotCreated(r)
    BY <2>5, IssuePhoneCodeKeeps, CallNotCreatedKeeps
  <2>6. CASE CallCreated(r)
    BY <2>6, RingsKeeps DEF CallCreated
  <2>7. CASE \E placed \in BOOLEAN : CallUnknown(r, placed)
    BY <2>7, RingsKeeps, EndsKeeps DEF CallUnknown
  <2>8. CASE Dies(r)
    BY <2>8, EndsKeeps DEF Dies
  <2> QED BY <1>2, <2>1, <2>2, <2>3, <2>4, <2>5, <2>6, <2>7, <2>8 DEF RequestStep, Purposes
<1>3. ASSUME UNCHANGED vars
      PROVE  IInv'
  <2>1. UNCHANGED <<now, erased, contact, marks, code, calls, nextFree, requests, line>>
    BY <1>3 DEF vars
  <2>2. RequestsHold' /\ CallsHold' /\ Limited'
    BY <2>1, RequestsAlone, CallsAlone
  <2>3. ProofsAreAboutTheNumber'
    BY <2>1, ProofsKeep DEF IInv, CodesAreAboutTheNumber, ProofsAreAboutTheNumber
  <2>4. CodesHold' /\ SpokenCodeIsTheCode'
    BY <2>1, CodesKeep
  <2>5. Typed' /\ ErasedIsForgotten'
    BY <2>1 DEF IInv, Typed, ErasedIsForgotten
  <2> QED BY <2>2, <2>3, <2>4, <2>5 DEF IInv, CodesAreAboutTheNumber
<1> QED BY <1>1, <1>2, <1>3, HangsUpKeeps, TickKeeps DEF Next

\* The inductive invariant: what a request found under its locks stays so, the call it
\* reserved is its own, and a call is held for as long as anybody talks.
THEOREM Invariance == Spec => []IInv
BY InitHolds, StepKeeps, PTL DEF Spec

\* A number is verified only by a code that was spoken to it, and the code a phone speaks
\* is the code that counts, whatever became of the number meanwhile (ConfirmPhoneCode,
\* IssuePhoneCode, PinPhoneIntegration).
THEOREM CodesProveTheNumber == Spec => []CodesAreAboutTheNumber
<1>1. IInv => CodesAreAboutTheNumber
  BY DEF IInv
<1> QED BY Invariance, <1>1, PTL

\* No account has more calls alive than it allows or starts them sooner, and nobody spends
\* more than their allowance in any window, however the instances' requests interleave
\* (reservePhoneCallTx, phoneAllowanceTx).
THEOREM CallsAreLimited == Spec => []LimitsHold
<1>1. ASSUME IInv
      PROVE  LimitsHold
  <2>1. /\ DOMAIN calls = 1..Len(calls) /\ DOMAIN line = 1..Len(calls) /\ IsFiniteSet(DOMAIN calls)
        /\ \A k \in DOMAIN calls : calls[k] \in CallRows
    BY <1>1, CallsAreRows DEF IInv
  <2>2. ASSUME NEW s \in Sender
        PROVE  Cardinality({k \in DOMAIN line : calls[k].sender = s /\ line[k].state = "alive"})
                 <= MaxConcurrent
    <3>1. PICK S : S = {k \in DOMAIN line : calls[k].sender = s /\ line[k].state = "alive"}
      OBVIOUS
    <3>2. S \subseteq HeldBy(s, now)
      BY <1>1, <2>1, <3>1, TalkingIsHeld DEF HeldBy
    <3>3. IsFiniteSet(HeldBy(s, now)) /\ Cardinality(HeldBy(s, now)) <= MaxConcurrent
      BY <1>1, <2>1, FewerCalls DEF IInv, Limited, HeldBy
    <3>4. /\ Cardinality(S) <= Cardinality(HeldBy(s, now))
          /\ Cardinality(S) \in Nat /\ Cardinality(HeldBy(s, now)) \in Nat
      BY <3>2, <3>3, FewerCalls
    <3>5. Cardinality(S) <= MaxConcurrent
      BY <3>3, <3>4, Constants
    <3> QED BY <3>1, <3>5
  <2>3. \A j, k \in DOMAIN calls :
          j < k /\ calls[j].sender = calls[k].sender => calls[k].at >= calls[j].at + Interval
    BY <1>1 DEF IInv, CallsHold, Succeed
  <2>4. ASSUME NEW k \in DOMAIN calls
        PROVE  /\ Cardinality(Window(calls[k].asker, {"verify"}, calls[k].at, VerifySpan)) <= MaxVerify
               /\ Cardinality(Window(calls[k].asker, Purposes, calls[k].at, DaySpan)) <= MaxDay
    BY <1>1, <2>1 DEF IInv, Limited, CallRows
  <2> QED BY <2>2, <2>3, <2>4 DEF LimitsHold, Window, Purposes
<1> QED BY Invariance, <1>1, PTL

\* Nothing that was in flight brings back a number, a code or a name once its owner is
\* erased (activeUserCTE, lockActiveUserTx).
THEOREM TheErasedStayForgotten == Spec => []ErasedIsForgotten
<1>1. IInv => ErasedIsForgotten
  BY DEF IInv
<1> QED BY Invariance, <1>1, PTL

================================================================================
