---------------------------- MODULE Accounts_proofs ----------------------------
(***************************************************************************)
(* What Accounts keeps for any number of people, accounts, codes and       *)
(* requests: nothing is left of the erased, an administrator remains, and  *)
(* no requests wait for each other in a circle.                            *)
(***************************************************************************)
EXTENDS Accounts, FiniteSetTheorems, TLAPS

Ops == {"none", "create", "role", "profile", "erase", "grant", "issue", "bind", "confirm", "consume"}

\* A request is a record of its eight fields, and the ones its statements use are set.
RequestOK(q) ==
  /\ DOMAIN q = DOMAIN Idle
  /\ q.op \in Ops
  /\ q.op # "none" => q.user \in Person
  /\ q.op \in {"issue", "bind", "confirm", "consume"} => q.provider \in Provider
  /\ q.op \in {"issue", "consume"} => q.code \in Code
  /\ q.account \in Account \cup {None}
  /\ q.op \in {"create", "role"} => q.role \in Roles
  /\ q.op = "erase" => q.role = None

Typed ==
  /\ person \in [Person -> {"unused", "active", "erased"}]
  /\ role \in [Person -> Roles]
  /\ profile \subseteq Person
  /\ grants \subseteq Person
  /\ link \in [Provider -> [Person -> Account \cup {None}]]
  /\ token \in [Provider -> [Person -> Token \cup {None}]]
  /\ DOMAIN request = Request
  /\ \A r \in Request : RequestOK(request[r])

\* No two requests hold locks that exclude each other.
Apart(r, held) == \A s \in Request \ {r} : \A a \in held, b \in request[s].locks : ~Clash(a, b)
LocksApart == \A r \in Request : Apart(r, request[r].locks)

\* Where a request holds the number of administrators, a person alone, a person with others.
Lifecycle(q) ==
  q.op \in {"erase", "role"} /\ q.step \in {"person", "guard", "links", "tokens", "erase", "assign"}
Alone(q) ==
  q.op \in {"erase", "role"} /\ q.step \in {"guard", "links", "tokens", "erase", "assign"}
Guarded(q) == Alone(q) /\ q.step # "guard"
Together(q) ==
  \/ q.op \in {"grant", "issue", "bind"} /\ q.step = "commit"
  \/ q.op \in {"confirm", "consume"} /\ q.step \in {"token", "write"}

\* What a request read under those locks is still so.
Reads(q) ==
  /\ Alone(q) \/ Together(q) => Is(q.user, "active")
  /\ Guarded(q) /\ q.role # "admin" => \E v \in Admins : v # q.user
  /\ q.op = "create" /\ q.step = "create" /\ q.role # "admin" => \E u \in Person : ~Is(u, "unused")
  /\ q.op = "erase" /\ q.step \in {"tokens", "erase"} =>
       \A p \in Provider : link[p][q.user] # None => Whole(<<"link", p, q.user>>) \in q.locks
  /\ q.op = "erase" /\ q.step = "erase" =>
       \A p \in Provider : token[p][q.user] # None => Whole(<<"token", p, q.user>>) \in q.locks

Holds(q) ==
  /\ Lifecycle(q) => Whole(<<"lifecycle">>) \in q.locks
  /\ Alone(q) => Whole(<<"person", q.user>>) \in q.locks
  /\ Together(q) => Shared(q.user) \in q.locks

Kept(q) == Holds(q) /\ Reads(q)

\* Whoever was created, even if erased since, found an administrator or was one.
OneOfThem == (\E u \in Person : ~Is(u, "unused")) => Admins # {}

IInv ==
  /\ Typed
  /\ LocksApart
  /\ \A r \in Request : Kept(request[r])
  /\ OneOfThem
  /\ ErasedOwnNothing

------------------------------------------------------------------------------
(* Locks.                                                                     *)

\* The locks of a statement, for the statements whose locks matter here.
LEMMA LocksOfStatements ==
  ASSUME NEW q
  PROVE  /\ q.step = "lifecycle" => Whole(<<"lifecycle">>) \in Needs(q)
         /\ q.step = "person" /\ q.op \in {"erase", "role"} => Whole(<<"person", q.user>>) \in Needs(q)
         /\ q.step = "person" /\ q.op \in {"confirm", "consume"} => Shared(q.user) \in Needs(q)
         /\ q.step = "insert" => Shared(q.user) \in Needs(q)
BY DEF Needs, LocksPerson

\* The rows a sweep of an erasure finds are the ones there are.
LEMMA LocksOfSweeps ==
  ASSUME NEW q, NEW p \in Provider
  PROVE  /\ q.step = "links" /\ link[p][q.user] # None => Whole(<<"link", p, q.user>>) \in Needs(q)
         /\ q.step = "tokens" /\ token[p][q.user] # None => Whole(<<"token", p, q.user>>) \in Needs(q)
<1>1. q.step = "links" => LocksRows(q) = UNION {LinkFound(o, q.user) : o \in Provider}
  BY Zenon DEF LocksRows
<1>2. q.step = "tokens" => LocksRows(q) = UNION {TokenFound(o, q.user) : o \in Provider}
  BY Zenon DEF LocksRows
<1>3. link[p][q.user] # None => Whole(<<"link", p, q.user>>) \in LinkFound(p, q.user)
  BY Zenon DEF LinkFound
<1>4. token[p][q.user] # None => Whole(<<"token", p, q.user>>) \in TokenFound(p, q.user)
  BY Zenon DEF TokenFound
<1>. QED  BY <1>1, <1>2, <1>3, <1>4, Zenon DEF Needs

\* A request that goes on is the same request, with the locks it waited for.
LEMMA GoesOn ==
  ASSUME NEW q, RequestOK(q), NEW step
  PROVE  LET n == Onward(q, step) IN
         /\ n.op = q.op /\ n.step = step /\ n.user = q.user /\ n.provider = q.provider
         /\ n.account = q.account /\ n.code = q.code /\ n.role = q.role
         /\ n.locks = q.locks \cup Needs(q)
         /\ RequestOK(n)
BY DEF Onward, RequestOK, Idle

\* Nobody holds what a request whose turn it is asks for.
LEMMA TurnIsApart ==
  ASSUME LocksApart, NEW r \in Request, WaitsFor(r) = {}
  PROVE  Apart(r, request[r].locks \cup Needs(request[r]))
BY DEF LocksApart, Apart, WaitsFor

------------------------------------------------------------------------------
(* One request moves.                                                         *)

Moves(r) == request' = [request EXCEPT ![r] = request'[r]]

\* What follows for the others, whatever a step does to the tables.
LEMMA OneMoves ==
  ASSUME IInv, NEW r \in Request, Moves(r),
         RequestOK(request'[r]), Apart(r, request'[r].locks)
  PROVE  /\ DOMAIN request' = Request
         /\ \A s \in Request : RequestOK(request'[s])
         /\ \A s \in Request \ {r} : request'[s] = request[s]
         /\ LocksApart'
<1>1. DOMAIN request' = Request /\ \A s \in Request \ {r} : request'[s] = request[s]
  BY DEF Moves, IInv, Typed
<1>2. \A s \in Request : RequestOK(request'[s])
  BY <1>1 DEF IInv, Typed
<1>3. ASSUME NEW s \in Request, NEW o \in Request \ {s},
             NEW a \in request'[s].locks, NEW b \in request'[o].locks
      PROVE  ~Clash(a, b)
  <2>1. CASE s = r
    BY <1>1, <2>1 DEF Apart
  <2>2. CASE o = r
    BY <1>1, <2>2 DEF Apart, Clash
  <2>3. CASE s # r /\ o # r
    BY <1>1, <2>3 DEF IInv, LocksApart, Apart
  <2>. QED  BY <2>1, <2>2, <2>3
<1>4. LocksApart'
  BY <1>3 DEF LocksApart, Apart
<1>. QED  BY <1>1, <1>2, <1>4

\* A step that leaves the tables alone.
LEMMA QuietStep ==
  ASSUME IInv, NEW r \in Request, Moves(r), UNCHANGED <<people, link, token>>,
         RequestOK(request'[r]), Apart(r, request'[r].locks), Kept(request'[r])
  PROVE  IInv'
<1>1. UNCHANGED <<person, role, profile, grants, link, token>>
  BY DEF people
<1>2. Typed'
  BY <1>1, OneMoves DEF IInv, Typed
<1>3. LocksApart'
  BY OneMoves
<1>4. ASSUME NEW s \in Request
      PROVE  Kept(request[s])'
  <2>1. Kept(request'[s])
    BY OneMoves DEF IInv
  <2>. QED  BY <2>1, <1>1 DEF Kept, Holds, Reads, Alone, Together, Guarded, Lifecycle, Admins, Is
<1>5. OneOfThem' /\ ErasedOwnNothing'
  BY <1>1 DEF IInv, OneOfThem, ErasedOwnNothing, Admins, Is
<1>. QED  BY <1>2, <1>3, <1>4, <1>5 DEF IInv

\* A slot that is idle relies on nothing.
LEMMA IdleIsKept == RequestOK(Idle) /\ Kept(Idle) /\ \A r \in Request : Apart(r, Idle.locks)
BY DEF RequestOK, Kept, Holds, Reads, Alone, Together, Guarded, Lifecycle, Apart, Idle, Ops

\* A request that is over, or fails, and leaves the tables alone.
LEMMA QuietEnd ==
  ASSUME IInv, NEW r \in Request, End(r), UNCHANGED <<people, link, token>>
  PROVE  IInv'
<1>1. request'[r] = Idle /\ Moves(r)
  BY DEF End, Moves, IInv, Typed
<1>. QED  BY <1>1, IdleIsKept, QuietStep

\* A request that goes on, and leaves the tables alone.
LEMMA QuietGoesOn ==
  ASSUME IInv, NEW r \in Request, NEW step, GoOn(r, step), WaitsFor(r) = {},
         UNCHANGED <<people, link, token>>, Kept(Onward(request[r], step))
  PROVE  IInv'
<1>1. request'[r] = Onward(request[r], step) /\ Moves(r)
  BY DEF GoOn, Moves, IInv, Typed
<1>2. RequestOK(request[r])
  BY DEF IInv, Typed
<1>3. RequestOK(request'[r]) /\ request'[r].locks = request[r].locks \cup Needs(request[r])
  BY <1>1, <1>2, GoesOn
<1>4. Apart(r, request'[r].locks)
  BY <1>3, TurnIsApart DEF IInv
<1>. QED  BY <1>1, <1>3, <1>4, QuietStep

\* A request that begins holds nothing and relies on nothing.
LEMMA BeginsQuietly ==
  ASSUME IInv, NEW r \in Request, NEW q, Begin(r, q), UNCHANGED <<people, link, token>>,
         RequestOK(q), q.locks = {}, ~Lifecycle(q), ~Alone(q), ~Together(q), q.step # "create"
  PROVE  IInv'
<1>1. request'[r] = q /\ Moves(r)
  BY DEF Begin, Moves, IInv, Typed
<1>2. Kept(q) /\ Apart(r, q.locks)
  BY DEF Kept, Holds, Reads, Guarded, Apart, Alone
<1>. QED  BY <1>1, <1>2, QuietStep

\* Every request a handler begins is one of those.
LEMMA BeginsPreserve ==
  ASSUME IInv, NEW r \in Request, Begins(r)
  PROVE  IInv'
<1>. USE DEF RequestOK, Idle, Ops, Roles, Provider, Lifecycle, Alone, Together
<1>1. ASSUME NEW u \in Person, NEW wanted \in Roles, BeginCreate(r, u, wanted) PROVE IInv'
  BY <1>1, BeginsQuietly DEF BeginCreate
<1>2. ASSUME NEW u \in Person, NEW wanted \in Roles, BeginRole(r, u, wanted) PROVE IInv'
  BY <1>2, BeginsQuietly DEF BeginRole
<1>3. ASSUME NEW u \in Person, BeginProfile(r, u) PROVE IInv'
  BY <1>3, BeginsQuietly DEF BeginProfile
<1>4. ASSUME NEW u \in Person, BeginErase(r, u) PROVE IInv'
  BY <1>4, BeginsQuietly DEF BeginErase
<1>5. ASSUME NEW u \in Person, BeginGrant(r, u) PROVE IInv'
  BY <1>5, BeginsQuietly DEF BeginGrant
<1>6. ASSUME NEW u \in Person, NEW a \in Account, resolveSlackUser(r, u, a) PROVE IInv'
  BY <1>6, BeginsQuietly DEF resolveSlackUser
<1>7. ASSUME NEW u \in Person, NEW a \in Account, NEW c \in Code, RequestSlackCode(r, u, a, c) PROVE IInv'
  BY <1>7, BeginsQuietly DEF RequestSlackCode
<1>8. ASSUME NEW u \in Person, NEW c \in Code, RequestTelegramLink(r, u, c) PROVE IInv'
  BY <1>8, BeginsQuietly DEF RequestTelegramLink
<1>9. ASSUME NEW u \in Person, NEW c \in Code \cup {None}, BeginConfirm(r, u, c) PROVE IInv'
  BY <1>9, BeginsQuietly DEF BeginConfirm
<1>10. ASSUME NEW a \in Account, NEW c \in Code, BeginConsume(r, a, c) PROVE IInv'
  BY <1>10, BeginsQuietly DEF BeginConsume, Holders
<1>. QED
  BY <1>1, <1>2, <1>3, <1>4, <1>5, <1>6, <1>7, <1>8, <1>9, <1>10 DEF Begins

------------------------------------------------------------------------------
(* The statements that only read and lock.                                    *)

\* CreateUser's count: who is not made an administrator was not the first.
LEMMA CountAllPreserves == ASSUME IInv, NEW r \in Request, CountAll(r) PROVE IInv'
<1>1. /\ request[r].op = "create"
      /\ RequestOK(request[r])
  BY DEF CountAll, Turn, IInv, Typed
<1>. DEFINE wanted == IF ~\E u \in Person : ~Is(u, "unused") /\ role[u] = "admin"
                      THEN "admin" ELSE request[r].role
<1>2. /\ Moves(r)
      /\ request'[r] = [request[r] EXCEPT !.step = "create", !.role = wanted]
  BY DEF CountAll, Moves, IInv, Typed
<1>3. wanted \in Roles /\ (wanted # "admin" => \E u \in Person : ~Is(u, "unused"))
  BY <1>1 DEF RequestOK, Roles
<1>. HIDE DEF wanted
<1>4. /\ RequestOK(request'[r])
      /\ request'[r].locks = request[r].locks /\ request'[r].op = "create"
      /\ request'[r].role = wanted
  BY <1>1, <1>2, <1>3 DEF RequestOK, Idle
<1>5. Kept(request'[r])
  BY <1>3, <1>4 DEF Kept, Holds, Reads, Lifecycle, Alone, Guarded, Together
<1>6. Apart(r, request'[r].locks)
  BY <1>4 DEF IInv, LocksApart
<1>. QED  BY <1>2, <1>4, <1>5, <1>6, QuietStep DEF CountAll

\* The advisory lock is held from here on.
LEMMA LockAdminLifecyclePreserves ==
  ASSUME IInv, NEW r \in Request, LockAdminLifecycle(r) PROVE IInv'
<1>. DEFINE q == request[r]  n == Onward(q, "person")
<1>1. q.op \in {"erase", "role"} /\ q.step = "lifecycle" /\ RequestOK(q)
  BY DEF LockAdminLifecycle, Turn, IInv, Typed
<1>2. n.op = q.op /\ n.step = "person" /\ n.locks = q.locks \cup Needs(q)
  BY <1>1, GoesOn
<1>3. Whole(<<"lifecycle">>) \in n.locks
  BY <1>1, <1>2, LocksOfStatements
<1>4. Kept(n)
  BY <1>1, <1>2, <1>3 DEF Kept, Holds, Reads, Lifecycle, Alone, Guarded, Together
<1>. QED  BY <1>4, QuietGoesOn DEF LockAdminLifecycle, Turn

\* The person is held alone from here on, and is active.
LEMMA LockUserPreserves == ASSUME IInv, NEW r \in Request, LockUser(r) PROVE IInv'
<1>. DEFINE q == request[r]  n == Onward(q, "guard")
<1>1. q.op \in {"erase", "role"} /\ q.step = "person" /\ RequestOK(q) /\ Kept(q)
  BY DEF LockUser, Turn, IInv, Typed
<1>2. n.op = q.op /\ n.step = "guard" /\ n.user = q.user /\ n.locks = q.locks \cup Needs(q)
  BY <1>1, GoesOn
<1>3. Whole(<<"lifecycle">>) \in n.locks /\ Whole(<<"person", n.user>>) \in n.locks
  BY <1>1, <1>2, LocksOfStatements DEF Kept, Holds, Lifecycle
<1>4. Is(q.user, "active") => Kept(n)
  BY <1>1, <1>2, <1>3 DEF Kept, Holds, Reads, Lifecycle, Alone, Guarded, Together
<1>. QED  BY <1>4, QuietGoesOn, QuietEnd DEF LockUser, Turn

\* Where the guard lets go on, another administrator is there.
LEMMA AnotherAdmin ==
  ASSUME Typed, OneOfThem, NEW u \in Person, Is(u, "active"),
         ~(role[u] = "admin" /\ Cardinality(Admins) <= 1)
  PROVE  \E v \in Admins : v # u
<1>1. Admins # {}
  BY DEF OneOfThem, Is
<1>2. CASE role[u] # "admin"
  BY <1>1, <1>2 DEF Admins
<1>3. CASE role[u] = "admin"
  <2>1. IsFiniteSet(Admins)
    BY FS_Subset, AccountsAssumption DEF Admins
  <2>2. SUFFICES ASSUME \A v \in Admins : v = u PROVE FALSE
    OBVIOUS
  <2>3. Admins = {u}
    BY <1>1, <2>2
  <2>4. Cardinality(Admins) = 1
    BY <2>3, FS_Singleton
  <2>. QED  BY <1>3, <2>4
<1>. QED  BY <1>2, <1>3

\* Past the guard another administrator stands as long as the lock is held.
LEMMA guardLastAdminPreserves == ASSUME IInv, NEW r \in Request, guardLastAdmin(r) PROVE IInv'
<1>. DEFINE q == request[r]
            step == IF q.op = "erase" THEN "links" ELSE "assign"
            n == Onward(q, step)
<1>1. q.op \in {"erase", "role"} /\ q.step = "guard" /\ RequestOK(q) /\ Kept(q)
  BY DEF guardLastAdmin, Turn, IInv, Typed
<1>2. n.op = q.op /\ n.step = step /\ n.user = q.user /\ n.role = q.role /\ q.locks \subseteq n.locks
  BY <1>1, GoesOn
<1>3. Holds(n) /\ Is(n.user, "active")
  BY <1>1, <1>2 DEF Kept, Holds, Reads, Lifecycle, Alone, Together
<1>4. ASSUME ~(role[q.user] = "admin" /\ q.role # "admin" /\ Cardinality(Admins) <= 1)
      PROVE  Kept(n)
  <2>1. n.role # "admin" => \E v \in Admins : v # n.user
    BY <1>1, <1>2, <1>3, <1>4, AnotherAdmin DEF IInv, RequestOK
  <2>. QED  BY <1>1, <1>2, <1>3, <2>1 DEF Kept, Reads, Alone, Together, Guarded
<1>. QED  BY <1>4, QuietGoesOn, QuietEnd DEF guardLastAdmin, Turn

\* The links there are have been found, and locked.
LEMMA SweepLinksPreserves == ASSUME IInv, NEW r \in Request, SweepLinks(r) PROVE IInv'
<1>. DEFINE q == request[r]  n == Onward(q, "tokens")
<1>1. q.op = "erase" /\ q.step = "links" /\ RequestOK(q) /\ Kept(q)
  BY DEF SweepLinks, Turn, IInv, Typed
<1>2. n.op = q.op /\ n.step = "tokens" /\ n.user = q.user /\ n.role = q.role
      /\ n.locks = q.locks \cup Needs(q)
  BY <1>1, GoesOn
<1>3. Holds(n)
  BY <1>1, <1>2 DEF Kept, Holds, Lifecycle, Alone, Together
<1>4. \A p \in Provider : link[p][n.user] # None => Whole(<<"link", p, n.user>>) \in n.locks
  BY <1>1, <1>2, LocksOfSweeps
<1>5. Kept(n)
  BY <1>1, <1>2, <1>3, <1>4 DEF Kept, Reads, Alone, Guarded, Together
<1>. QED  BY <1>5, QuietGoesOn DEF SweepLinks, Turn

\* The codes there are have been found, and locked.
LEMMA SweepTokensPreserves == ASSUME IInv, NEW r \in Request, SweepTokens(r) PROVE IInv'
<1>. DEFINE q == request[r]  n == Onward(q, "erase")
<1>1. q.op = "erase" /\ q.step = "tokens" /\ RequestOK(q) /\ Kept(q)
  BY DEF SweepTokens, Turn, IInv, Typed
<1>2. n.op = q.op /\ n.step = "erase" /\ n.user = q.user /\ n.role = q.role
      /\ n.locks = q.locks \cup Needs(q)
  BY <1>1, GoesOn
<1>3. Holds(n)
  BY <1>1, <1>2 DEF Kept, Holds, Lifecycle, Alone, Together
<1>4. \A p \in Provider : token[p][n.user] # None => Whole(<<"token", p, n.user>>) \in n.locks
  BY <1>1, <1>2, LocksOfSweeps
<1>5. Kept(n)
  BY <1>1, <1>2, <1>3, <1>4 DEF Kept, Reads, Alone, Guarded, Together
<1>. QED  BY <1>5, QuietGoesOn DEF SweepTokens, Turn

\* Whoever is given something is shared from here on, and is active.
LEMMA InsertPreserves == ASSUME IInv, NEW r \in Request, Insert(r) PROVE IInv'
<1>. DEFINE q == request[r]  n == Onward(q, "commit")
<1>1. q.op \in {"grant", "issue", "bind"} /\ q.step = "insert" /\ RequestOK(q)
  BY DEF Insert, Turn, IInv, Typed
<1>2. n.op = q.op /\ n.step = "commit" /\ n.user = q.user /\ n.locks = q.locks \cup Needs(q)
  BY <1>1, GoesOn
<1>3. Shared(n.user) \in n.locks
  BY <1>1, <1>2, LocksOfStatements
<1>4. Is(q.user, "active") => Kept(n)
  BY <1>1, <1>2, <1>3 DEF Kept, Holds, Reads, Lifecycle, Alone, Guarded, Together
<1>. QED  BY <1>4, QuietGoesOn, QuietEnd DEF Insert, Turn

\* Whoever answers a code is shared from here on, and is active.
LEMMA lockActiveUserPreserves == ASSUME IInv, NEW r \in Request, lockActiveUserTx(r) PROVE IInv'
<1>. DEFINE q == request[r]  n == Onward(q, "token")
<1>1. q.op \in {"confirm", "consume"} /\ q.step = "person" /\ RequestOK(q)
  BY DEF lockActiveUserTx, Turn, IInv, Typed
<1>2. n.op = q.op /\ n.step = "token" /\ n.user = q.user /\ n.locks = q.locks \cup Needs(q)
  BY <1>1, GoesOn
<1>3. Shared(n.user) \in n.locks
  BY <1>1, <1>2, LocksOfStatements
<1>4. Is(q.user, "active") => Kept(n)
  BY <1>1, <1>2, <1>3 DEF Kept, Holds, Reads, Lifecycle, Alone, Guarded, Together
<1>. QED  BY <1>4, QuietGoesOn, QuietEnd DEF lockActiveUserTx, Turn

\* A code that was answered goes on to the link under the same locks.
LEMMA RightCodePreserves == ASSUME IInv, NEW r \in Request, RightCode(r) PROVE IInv'
<1>. DEFINE q == request[r]  n == Onward(q, "write")
            account == IF q.op = "confirm" THEN token[q.provider][q.user].account ELSE q.account
<1>1. /\ q.op \in {"confirm", "consume"} /\ q.step = "token" /\ RequestOK(q) /\ Kept(q)
      /\ Open(q) /\ WaitsFor(r) = {}
  BY DEF RightCode, Turn, IInv, Typed
<1>2. RequestOK(n) /\ n.op = q.op /\ n.step = "write" /\ n.user = q.user
      /\ n.locks = q.locks \cup Needs(q)
  BY <1>1, GoesOn
<1>3. account \in Account \cup {None}
  BY <1>1 DEF Open, IInv, Typed, RequestOK, Token
<1>4. Moves(r) /\ request'[r] = [n EXCEPT !.account = account]
  BY DEF RightCode, Moves, IInv, Typed
<1>. HIDE DEF n, account
<1>5. /\ RequestOK(request'[r]) /\ request'[r].op = q.op /\ request'[r].step = "write"
      /\ request'[r].user = q.user /\ request'[r].locks = q.locks \cup Needs(q)
  BY <1>2, <1>3, <1>4 DEF RequestOK, Idle
<1>6. Kept(request'[r])
  BY <1>1, <1>5 DEF Kept, Holds, Reads, Lifecycle, Alone, Guarded, Together
<1>7. Apart(r, request'[r].locks)
  BY <1>1, <1>5, TurnIsApart DEF IInv
<1>. QED  BY <1>4, <1>5, <1>6, <1>7, QuietStep DEF RightCode

------------------------------------------------------------------------------
(* The statements that write.                                                 *)

\* A request that is over: what is left to show is about the tables and the others.
LEMMA OneEnds ==
  ASSUME IInv, NEW r \in Request, End(r)
  PROVE  /\ DOMAIN request' = Request
         /\ \A s \in Request : RequestOK(request'[s])
         /\ \A s \in Request \ {r} : request'[s] = request[s]
         /\ LocksApart'
         /\ request'[r] = Idle /\ Kept(request[r])'
<1>1. request'[r] = Idle /\ Moves(r)
  BY DEF End, Moves, IInv, Typed
<1>2. Kept(request[r])'
  BY <1>1 DEF Kept, Holds, Reads, Alone, Together, Guarded, Lifecycle, Idle
<1>. QED  BY <1>1, <1>2, OneMoves, IdleIsKept

\* Two requests do not hold the same thing, unless both share it.
LEMMA HeldOnce ==
  ASSUME IInv, NEW r \in Request, NEW s \in Request \ {r}, NEW o,
         Whole(o) \in request[r].locks
  PROVE  /\ Whole(o) \notin request[s].locks
         /\ \A u : o = <<"person", u>> => Shared(u) \notin request[s].locks
BY DEF IInv, LocksApart, Apart, Clash, Whole, Shared

\* What a request relies on stands while no row of a person and no role changes, and
\* no link and no code appears that belongs to the person it holds alone.
LEMMA OtherKept ==
  ASSUME IInv, NEW s \in Request, request'[s] = request[s], UNCHANGED <<person, role>>,
         Whole(<<"person", request[s].user>>) \in request[s].locks =>
           \A p \in Provider :
             /\ link'[p][request[s].user] # None => link[p][request[s].user] # None
             /\ token'[p][request[s].user] # None => token[p][request[s].user] # None
  PROVE  Kept(request[s])'
<1>. DEFINE q == request[s]
<1>1. request'[s] = q /\ Kept(q)
  BY DEF IInv
<1>2. ASSUME q.op = "erase", q.step \in {"tokens", "erase"}, NEW p \in Provider
      PROVE  /\ link'[p][q.user] # None => link[p][q.user] # None
             /\ token'[p][q.user] # None => token[p][q.user] # None
  BY <1>1, <1>2 DEF Kept, Holds, Alone
<1>3. Reads(q)'
  BY <1>1, <1>2 DEF Kept, Reads, Is, Admins, Alone, Together, Guarded
<1>. QED  BY <1>1, <1>3 DEF Kept, Holds, Lifecycle, Alone, Together

\* A profile is written only while its person is active.
LEMMA UpdateUserPreserves == ASSUME IInv, NEW r \in Request, UpdateUser(r) PROVE IInv'
<1>. DEFINE u == request[r].user
<1>1. /\ End(r) /\ UNCHANGED <<person, role, grants, link, token>>
      /\ profile' = IF Is(u, "active") THEN profile \cup {u} ELSE profile
      /\ u \in Person
  BY DEF UpdateUser, Turn, IInv, Typed, RequestOK
<1>2. Typed'
  BY <1>1, OneEnds DEF IInv, Typed
<1>3. \A s \in Request \ {r} : Kept(request[s])'
  BY <1>1, OneEnds, OtherKept
<1>4. OneOfThem' /\ ErasedOwnNothing'
  BY <1>1 DEF IInv, OneOfThem, ErasedOwnNothing, Admins, Is
<1>. QED  BY <1>1, <1>2, <1>3, <1>4, OneEnds DEF IInv

\* The first person is an administrator, and a later one takes none away.
LEMMA CreateUserPreserves == ASSUME IInv, NEW r \in Request, CreateUser(r) PROVE IInv'
<1>. DEFINE q == request[r]  u == q.user
<1>1. /\ q.op = "create" /\ q.step = "create" /\ u \in Person /\ q.role \in Roles
      /\ Kept(q) /\ End(r) /\ UNCHANGED <<grants, link, token>>
  BY DEF CreateUser, Turn, IInv, Typed, RequestOK
<1>2. CASE ~Is(u, "unused")
  <2>1. UNCHANGED <<people, link, token>>
    BY <1>1, <1>2 DEF CreateUser, people
  <2>. QED  BY <1>1, <2>1, QuietEnd
<1>3. CASE Is(u, "unused")
  <2>1. /\ person' = [person EXCEPT ![u] = "active"]
        /\ role' = [role EXCEPT ![u] = q.role]
        /\ profile' = profile \cup {u}
    BY <1>3 DEF CreateUser
  <2>2. Typed'
    BY <1>1, <2>1, OneEnds DEF IInv, Typed
  <2>3. /\ \A v \in Person \ {u} : person'[v] = person[v] /\ role'[v] = role[v]
        /\ person'[u] = "active" /\ role'[u] = q.role
    BY <1>1, <2>1 DEF IInv, Typed
  <2>4. Admins \subseteq Admins' /\ u \notin Admins
    BY <1>3, <2>3 DEF Admins, Is
  <2>5. ASSUME NEW s \in Request \ {r} PROVE Kept(request[s])'
    <3>1. request'[s] = request[s] /\ Kept(request[s]) /\ RequestOK(request[s])
      BY <1>1, OneEnds DEF IInv, Typed
    <3>2. Is(request[s].user, "active")' \/ ~(Alone(request[s]) \/ Together(request[s]))
      BY <2>3, <3>1 DEF Kept, Reads, Is, RequestOK, Alone, Together
    <3>3. (\E v \in Person : ~Is(v, "unused")) => (\E v \in Person : ~Is(v, "unused"))'
      BY <2>3 DEF Is
    <3>4. Reads(request[s])'
      BY <1>1, <2>4, <3>1, <3>2, <3>3 DEF Kept, Reads, Alone, Together, Guarded
    <3>. QED  BY <3>1, <3>4 DEF Kept, Holds, Lifecycle, Alone, Together
  <2>6. OneOfThem'
    <3>1. CASE q.role = "admin"
      BY <1>1, <2>3, <3>1 DEF OneOfThem, Admins, Is
    <3>2. CASE q.role # "admin"
      BY <1>1, <2>4, <3>2 DEF IInv, OneOfThem, Kept, Reads
    <3>. QED  BY <3>1, <3>2
  <2>7. ErasedOwnNothing'
    BY <1>1, <2>1, <2>3 DEF IInv, ErasedOwnNothing, Is
  <2>. QED  BY <1>1, <2>2, <2>5, <2>6, <2>7, OneEnds DEF IInv
<1>. QED  BY <1>2, <1>3

\* A demotion under the advisory lock leaves the administrator its guard saw.
LEMMA SetUserRolePreserves == ASSUME IInv, NEW r \in Request, SetUserRole(r) PROVE IInv'
<1>. DEFINE q == request[r]
            next == [Idle EXCEPT !.op = "profile", !.step = "profile", !.user = q.user]
<1>1. /\ q.op = "role" /\ q.step = "assign" /\ RequestOK(q) /\ q.user \in Person /\ q.role \in Roles
      /\ Kept(q) /\ UNCHANGED <<person, profile, grants, link, token>>
      /\ role' = [role EXCEPT ![q.user] = q.role]
  BY DEF SetUserRole, Turn, IInv, Typed, RequestOK
<1>2. /\ Is(q.user, "active") /\ Whole(<<"lifecycle">>) \in q.locks
      /\ q.role # "admin" => \E v \in Admins : v # q.user
  BY <1>1 DEF Kept, Holds, Reads, Lifecycle, Alone, Guarded
<1>3. Moves(r) /\ request'[r] = next
  BY DEF SetUserRole, Moves, IInv, Typed
<1>4. RequestOK(next) /\ next.locks = {} /\ next.op = "profile"
  BY <1>1, AccountsAssumption DEF RequestOK, Idle, Ops
<1>. HIDE DEF next
<1>5. /\ DOMAIN request' = Request
      /\ \A s \in Request : RequestOK(request'[s])
      /\ \A s \in Request \ {r} : request'[s] = request[s]
      /\ LocksApart'
  BY <1>3, <1>4, OneMoves DEF Apart
<1>6. Typed'
  BY <1>1, <1>5 DEF IInv, Typed
<1>7. \A v \in Person \ {q.user} : role'[v] = role[v]
  BY <1>1 DEF IInv, Typed
<1>8. Kept(request[r])'
  BY <1>3, <1>4 DEF Kept, Holds, Reads, Lifecycle, Alone, Guarded, Together
<1>9. ASSUME NEW s \in Request \ {r} PROVE Kept(request[s])'
  <2>1. request'[s] = request[s] /\ Kept(request[s])
    BY <1>5 DEF IInv
  <2>2. ~Lifecycle(request[s])
    BY <1>2, <2>1, HeldOnce DEF Kept, Holds
  <2>3. Reads(request[s])'
    BY <1>1, <2>1, <2>2 DEF Kept, Reads, Lifecycle, Alone, Together, Guarded, Is
  <2>. QED  BY <2>1, <2>3 DEF Kept, Holds, Lifecycle, Alone, Together
<1>10. OneOfThem'
  <2>1. CASE q.role = "admin"
    BY <1>1, <1>2, <2>1 DEF OneOfThem, Admins, Is, IInv, Typed
  <2>2. CASE q.role # "admin"
    BY <1>1, <1>2, <1>7, <2>2 DEF OneOfThem, Admins, Is
  <2>. QED  BY <2>1, <2>2
<1>11. ErasedOwnNothing'
  BY <1>1 DEF IInv, ErasedOwnNothing, Is
<1>. QED  BY <1>5, <1>6, <1>8, <1>9, <1>10, <1>11 DEF IInv

\* An erasure takes all there is: nothing was added since the sweeps, the person being held.
LEMMA ErasePreserves == ASSUME IInv, NEW r \in Request, Erase(r) PROVE IInv'
<1>. DEFINE q == request[r]  u == q.user
            Swept(kind, p) == Whole(<<kind, p, u>>) \in q.locks
<1>1. /\ q.op = "erase" /\ q.step = "erase" /\ u \in Person /\ q.role # "admin" /\ Kept(q) /\ End(r)
      /\ person' = [person EXCEPT ![u] = "erased"] /\ UNCHANGED role
      /\ profile' = profile \ {u} /\ grants' = grants \ {u}
  BY AccountsAssumption DEF Erase, Turn, IInv, Typed, RequestOK, Roles
<1>2. /\ link' = [p \in Provider |-> IF Swept("link", p) THEN [link[p] EXCEPT ![u] = None] ELSE link[p]]
      /\ token' = [p \in Provider |-> IF Swept("token", p) THEN [token[p] EXCEPT ![u] = None] ELSE token[p]]
  BY DEF Erase
<1>3. /\ Whole(<<"lifecycle">>) \in q.locks /\ Whole(<<"person", u>>) \in q.locks
      /\ \E v \in Admins : v # u
      /\ \A p \in Provider : (link[p][u] # None => Swept("link", p)) /\ (token[p][u] # None => Swept("token", p))
  BY <1>1 DEF Kept, Holds, Reads, Lifecycle, Alone, Guarded
<1>4. /\ \A v \in Person \ {u} : person'[v] = person[v]
      /\ person'[u] = "erased"
  BY <1>1 DEF IInv, Typed
<1>5. ASSUME NEW p \in Provider, NEW v \in Person
      PROVE  /\ link'[p][v] = IF v = u THEN None ELSE link[p][v]
             /\ token'[p][v] = IF v = u THEN None ELSE token[p][v]
  BY <1>2, <1>3 DEF IInv, Typed
<1>6. Typed'
  <2>1. person' \in [Person -> {"unused", "active", "erased"}]
    BY <1>1 DEF IInv, Typed
  <2>2. link' \in [Provider -> [Person -> Account \cup {None}]]
    BY <1>2 DEF IInv, Typed
  <2>3. token' \in [Provider -> [Person -> Token \cup {None}]]
    BY <1>2 DEF IInv, Typed
  <2>. QED  BY <1>1, <2>1, <2>2, <2>3, OneEnds DEF IInv, Typed
<1>7. ASSUME NEW s \in Request \ {r} PROVE Kept(request[s])'
  <2>. DEFINE o == request[s]
  <2>1. request'[s] = o /\ Kept(o) /\ RequestOK(o)
    BY <1>1, OneEnds DEF IInv, Typed
  <2>2. ~Lifecycle(o)
    BY <1>3, <2>1, HeldOnce DEF Kept, Holds
  <2>3. Together(o) => o.user \in Person \ {u}
    BY <1>3, <2>1, HeldOnce DEF Kept, Holds, Together, RequestOK
  <2>4. (\E v \in Person : ~Is(v, "unused")) => (\E v \in Person : ~Is(v, "unused"))'
    BY <1>4 DEF Is
  <2>5. Reads(o)'
    BY <1>4, <2>1, <2>2, <2>3, <2>4 DEF Kept, Reads, Lifecycle, Alone, Together, Guarded, Is
  <2>. QED  BY <2>1, <2>5 DEF Kept, Holds, Lifecycle, Alone, Together
<1>8. OneOfThem'
  BY <1>1, <1>3, <1>4 DEF OneOfThem, Admins, Is
<1>9. ErasedOwnNothing'
  BY <1>1, <1>4, <1>5 DEF IInv, ErasedOwnNothing, Is
<1>. QED  BY <1>1, <1>6, <1>7, <1>8, <1>9, OneEnds DEF IInv

\* What is inserted belongs to somebody who is active and held.
LEMMA CommitPreserves == ASSUME IInv, NEW r \in Request, Commit(r) PROVE IInv'
<1>. DEFINE q == request[r]  u == q.user
            row == [code |-> q.code, account |-> q.account, attempts |-> 0, expired |-> FALSE]
<1>1. /\ q.op \in {"grant", "issue", "bind"} /\ q.step = "commit" /\ u \in Person
      /\ RequestOK(q) /\ Kept(q) /\ End(r) /\ UNCHANGED <<person, role, profile>>
      /\ grants' = IF q.op = "grant" THEN grants \cup {u} ELSE grants
      /\ token' = IF q.op = "issue" THEN [token EXCEPT ![q.provider][u] = row] ELSE token
      /\ link' = IF q.op = "bind" THEN [link EXCEPT ![q.provider][u] = q.account] ELSE link
  BY DEF Commit, Turn, IInv, Typed, RequestOK
<1>2. Is(u, "active") /\ Shared(u) \in q.locks
  BY <1>1 DEF Kept, Holds, Reads, Together
<1>3. q.op = "issue" => row \in Token
  BY <1>1, AccountsAssumption DEF RequestOK, Token
<1>. HIDE DEF row
<1>4. Typed'
  <2>1. link' \in [Provider -> [Person -> Account \cup {None}]]
    BY <1>1 DEF IInv, Typed, RequestOK
  <2>2. token' \in [Provider -> [Person -> Token \cup {None}]]
    BY <1>1, <1>3 DEF IInv, Typed, RequestOK
  <2>. QED  BY <1>1, <2>1, <2>2, OneEnds DEF IInv, Typed
<1>5. \A p \in Provider, v \in Person \ {u} : link'[p][v] = link[p][v] /\ token'[p][v] = token[p][v]
  BY <1>1 DEF IInv, Typed
<1>6. ASSUME NEW s \in Request \ {r} PROVE Kept(request[s])'
  <2>1. request'[s] = request[s] /\ RequestOK(request[s]) /\ Holds(request[s]) /\ request[s].op \in Ops
    BY <1>1, OneEnds DEF IInv, Typed, Kept, RequestOK
  <2>2. Whole(<<"person", request[s].user>>) \in request[s].locks => request[s].user # u
    BY <1>2, HeldOnce
  <2>3. CASE request[s].op = "none"
    BY <2>1, <2>3 DEF Kept, Reads, Holds, Lifecycle, Alone, Together, Guarded
  <2>4. CASE request[s].op # "none"
    <3>1. request[s].user \in Person
      BY <2>1, <2>4 DEF RequestOK
    <3>. QED  BY <1>1, <1>5, <2>1, <2>2, <3>1, OtherKept
  <2>. QED  BY <2>3, <2>4
<1>7. OneOfThem'
  BY <1>1 DEF IInv, OneOfThem, Admins, Is
<1>8. ErasedOwnNothing'
  BY <1>1, <1>2, <1>5 DEF IInv, ErasedOwnNothing, Is
<1>. QED  BY <1>1, <1>4, <1>6, <1>7, <1>8, OneEnds DEF IInv

\* A code that is counted down or removed: none appears.
LEMMA CodeGoes ==
  ASSUME IInv, NEW r \in Request, End(r), UNCHANGED <<people, link>>,
         token' \in [Provider -> [Person -> Token \cup {None}]],
         \A p \in Provider, u \in Person : token'[p][u] # None => token[p][u] # None
  PROVE  IInv'
<1>1. UNCHANGED <<person, role, profile, grants, link>>
  BY DEF people
<1>2. Typed'
  BY <1>1, OneEnds DEF IInv, Typed
<1>3. ASSUME NEW s \in Request \ {r} PROVE Kept(request[s])'
  <2>1. request'[s] = request[s] /\ RequestOK(request[s])
    BY OneEnds DEF IInv, Typed
  <2>2. CASE request[s].op = "none"
    BY <2>1, <2>2 DEF IInv, Kept, Reads, Holds, Lifecycle, Alone, Together, Guarded
  <2>3. CASE request[s].op # "none"
    <3>1. request[s].user \in Person
      BY <2>1, <2>3 DEF RequestOK
    <3>. QED  BY <1>1, <2>1, <3>1, OtherKept
  <2>. QED  BY <2>2, <2>3
<1>4. OneOfThem'
  BY <1>1 DEF IInv, OneOfThem, Admins, Is
<1>5. ErasedOwnNothing'
  BY <1>1 DEF IInv, ErasedOwnNothing, Is
<1>. QED  BY <1>2, <1>3, <1>4, <1>5, OneEnds DEF IInv

\* A code that is over goes.
LEMMA NoCodePreserves == ASSUME IInv, NEW r \in Request, NoCode(r) PROVE IInv'
<1>. DEFINE q == request[r]
<1>1. q.provider \in Provider /\ q.user \in Person
  BY DEF NoCode, Turn, IInv, Typed, RequestOK
<1>2. \/ token' = token
      \/ token' = [token EXCEPT ![q.provider][q.user] = None]
  BY DEF NoCode
<1>3. token \in [Provider -> [Person -> Token \cup {None}]]
  BY DEF IInv, Typed
<1>4. token' \in [Provider -> [Person -> Token \cup {None}]]
  BY <1>1, <1>2, <1>3
<1>5. \A p \in Provider, u \in Person : token'[p][u] # None => token[p][u] # None
  BY <1>1, <1>2, <1>3
<1>. QED  BY <1>4, <1>5, CodeGoes DEF NoCode

\* A wrong entry counts, or removes the code.
LEMMA WrongCodePreserves == ASSUME IInv, NEW r \in Request, WrongCode(r) PROVE IInv'
<1>. DEFINE q == request[r]
            row == token[q.provider][q.user]
            left == IF row.attempts + 1 >= MaxAttempts THEN None ELSE [row EXCEPT !.attempts = @ + 1]
<1>1. /\ q.provider \in Provider /\ q.user \in Person /\ row \in Token
      /\ token' = [token EXCEPT ![q.provider][q.user] = left]
  BY DEF WrongCode, Turn, IInv, Typed, RequestOK, Open
<1>2. left \in Token \cup {None}
  <2>1. MaxAttempts \in Nat \ {0}
    BY AccountsAssumption
  <2>. QED  BY <1>1, <2>1 DEF Token
<1>. HIDE DEF left
<1>3. token' \in [Provider -> [Person -> Token \cup {None}]]
  BY <1>1, <1>2 DEF IInv, Typed
<1>4. row # None
  BY DEF WrongCode, Open
<1>5. \A p \in Provider, u \in Person : token'[p][u] # None => token[p][u] # None
  BY <1>1, <1>4 DEF IInv, Typed
<1>. QED  BY <1>3, <1>5, CodeGoes DEF WrongCode

\* What is linked belongs to somebody who is active and held.
LEMMA BindPreserves == ASSUME IInv, NEW r \in Request, Bind(r) PROVE IInv'
<1>. DEFINE q == request[r]  u == q.user
<1>1. /\ q.op \in {"confirm", "consume"} /\ q.step = "write" /\ u \in Person
      /\ RequestOK(q) /\ Kept(q) /\ End(r) /\ UNCHANGED people
  BY DEF Bind, Turn, IInv, Typed, RequestOK
<1>2. CASE UNCHANGED <<link, token>>
  BY <1>1, <1>2, QuietEnd
<1>3. CASE /\ link' = [link EXCEPT ![q.provider][u] = q.account]
           /\ token' = [token EXCEPT ![q.provider][u] = None]
  <2>1. Is(u, "active") /\ Shared(u) \in q.locks
    BY <1>1 DEF Kept, Holds, Reads, Together
  <2>2. UNCHANGED <<person, role, profile, grants>>
    BY <1>1 DEF people
  <2>3. Typed'
    BY <1>1, <1>3, <2>2, OneEnds DEF IInv, Typed, RequestOK
  <2>4. \A p \in Provider, v \in Person \ {u} : link'[p][v] = link[p][v] /\ token'[p][v] = token[p][v]
    BY <1>3 DEF IInv, Typed
  <2>5. ASSUME NEW s \in Request \ {r} PROVE Kept(request[s])'
    <3>1. request'[s] = request[s] /\ RequestOK(request[s])
      BY <1>1, OneEnds DEF IInv, Typed
    <3>2. Whole(<<"person", request[s].user>>) \in request[s].locks => request[s].user # u
      BY <2>1, HeldOnce
    <3>3. CASE request[s].op = "none"
      BY <3>1, <3>3 DEF IInv, Kept, Reads, Holds, Lifecycle, Alone, Together, Guarded
    <3>4. CASE request[s].op # "none"
      <4>1. request[s].user \in Person
        BY <3>1, <3>4 DEF RequestOK
      <4>. QED  BY <2>2, <2>4, <3>1, <3>2, <4>1, OtherKept
    <3>. QED  BY <3>3, <3>4
  <2>6. OneOfThem'
    BY <2>2 DEF IInv, OneOfThem, Admins, Is
  <2>7. ErasedOwnNothing'
    BY <2>1, <2>2, <2>4 DEF IInv, ErasedOwnNothing, Is
  <2>. QED  BY <1>1, <2>3, <2>5, <2>6, <2>7, OneEnds DEF IInv
<1>. QED  BY <1>2, <1>3 DEF Bind

------------------------------------------------------------------------------
(* The statements that are a transaction of their own.                        *)

\* No request moves, nobody is created, erased or given another role, and nothing appears.
LEMMA SomethingGoes ==
  ASSUME IInv, UNCHANGED <<person, role, profile, request>>,
         grants' \subseteq grants,
         link' \in [Provider -> [Person -> Account \cup {None}]],
         token' \in [Provider -> [Person -> Token \cup {None}]],
         \A p \in Provider, u \in Person :
           (link'[p][u] # None => link[p][u] # None) /\ (token'[p][u] # None => token[p][u] # None)
  PROVE  IInv'
<1>1. Typed' /\ LocksApart'
  BY DEF IInv, Typed, LocksApart, Apart
<1>2. ASSUME NEW s \in Request PROVE Kept(request[s])'
  <2>1. CASE request[s].op = "none"
    BY <2>1 DEF IInv, Kept, Reads, Holds, Lifecycle, Alone, Together, Guarded
  <2>2. CASE request[s].op # "none"
    <3>1. request[s].user \in Person
      BY <2>2 DEF IInv, Typed, RequestOK
    <3>. QED  BY <3>1, OtherKept
  <2>. QED  BY <2>1, <2>2
<1>3. OneOfThem' /\ ErasedOwnNothing'
  BY DEF IInv, OneOfThem, ErasedOwnNothing, Admins, Is
<1>. QED  BY <1>1, <1>2, <1>3 DEF IInv

\* An unlink, an expiry and a credential taken back.
LEMMA StatementsPreserve ==
  ASSUME IInv, NEW p \in Provider, NEW u \in Person,
         UnbindExternalIdentity(p, u) \/ Expire(p, u) \/ Revoke(u)
  PROVE  IInv'
<1>1. CASE UnbindExternalIdentity(p, u)
  <2>1. /\ link' \in [Provider -> [Person -> Account \cup {None}]]
        /\ \A o \in Provider, v \in Person : link'[o][v] # None => link[o][v] # None
    BY <1>1 DEF UnbindExternalIdentity, IInv, Typed
  <2>. QED  BY <1>1, <2>1, SomethingGoes DEF UnbindExternalIdentity, people, IInv, Typed
<1>2. CASE Expire(p, u)
  <2>1. token[p][u] \in Token
    BY <1>2 DEF Expire, IInv, Typed
  <2>. DEFINE late == [token[p][u] EXCEPT !.expired = TRUE]
  <2>2. late \in Token
    BY <2>1 DEF Token
  <2>3. token' = [token EXCEPT ![p][u] = late]
    BY <1>2 DEF Expire, IInv, Typed
  <2>. HIDE DEF late
  <2>4. token' \in [Provider -> [Person -> Token \cup {None}]]
    BY <2>2, <2>3 DEF IInv, Typed
  <2>5. \A o \in Provider, v \in Person : token'[o][v] # None => token[o][v] # None
    BY <1>2, <2>3 DEF Expire, IInv, Typed
  <2>. QED  BY <1>2, <2>4, <2>5, SomethingGoes DEF Expire, people, IInv, Typed
<1>3. CASE Revoke(u)
  BY <1>3, SomethingGoes DEF Revoke, IInv, Typed
<1>. QED  BY <1>1, <1>2, <1>3

------------------------------------------------------------------------------
(* The invariant, and what it is for.                                         *)

\* Nobody is there at first.
LEMMA InitHolds == Init => IInv
<1>. SUFFICES ASSUME Init PROVE IInv
  OBVIOUS
<1>1. \A r \in Request : request[r] = Idle
  BY DEF Init
<1>2. Typed
  BY <1>1, IdleIsKept DEF Init, Typed, Roles
<1>3. LocksApart /\ \A r \in Request : Kept(request[r])
  BY <1>1, IdleIsKept DEF LocksApart
<1>4. OneOfThem /\ ErasedOwnNothing
  BY DEF Init, OneOfThem, ErasedOwnNothing, Is
<1>. QED  BY <1>2, <1>3, <1>4 DEF IInv

\* Every statement of a request.
LEMMA StepsPreserve == ASSUME IInv, NEW r \in Request, Steps(r) PROVE IInv'
<1>1. Rollback(r) => IInv'
  BY QuietEnd DEF Rollback
<1>. QED
  BY <1>1, CountAllPreserves, CreateUserPreserves, LockAdminLifecyclePreserves, LockUserPreserves,
     guardLastAdminPreserves, SetUserRolePreserves, UpdateUserPreserves, SweepLinksPreserves,
     SweepTokensPreserves, ErasePreserves, InsertPreserves, CommitPreserves, lockActiveUserPreserves,
     NoCodePreserves, WrongCodePreserves, RightCodePreserves, BindPreserves DEF Steps

\* Every step.
LEMMA NextPreserves == IInv /\ [Next]_vars => IInv'
<1>. SUFFICES ASSUME IInv, [Next]_vars PROVE IInv'
  OBVIOUS
<1>1. CASE UNCHANGED vars
  BY <1>1, SomethingGoes DEF vars, IInv, Typed
<1>2. ASSUME NEW r \in Request, Begins(r) \/ Steps(r) PROVE IInv'
  BY <1>2, BeginsPreserve, StepsPreserve
<1>3. ASSUME NEW p \in Provider, NEW u \in Person, UnbindExternalIdentity(p, u) \/ Expire(p, u) PROVE IInv'
  BY <1>3, StatementsPreserve
<1>4. ASSUME NEW u \in Person, Revoke(u) PROVE IInv'
  <2>1. "slack" \in Provider
    BY DEF Provider
  <2>. QED  BY <1>4, <2>1, StatementsPreserve
<1>. QED  BY <1>1, <1>2, <1>3, <1>4 DEF Next

\* What every request may rely on under its locks, in every reachable state: the
\* induction behind the two theorems that follow.
THEOREM Invariance == Spec => []IInv
BY InitHolds, NextPreserves, PTL DEF Spec

\* Whatever requests are under way when a person is erased (lockActiveUserTx against
\* Service.Erase), none of them leaves or gives back anything of theirs.
THEOREM NothingComesBack == Spec => []ErasedOwnNothing
BY Invariance, PTL DEF IInv

\* However demotions, erasures and bootstraps interleave, guardLastAdmin under the
\* advisory lock leaves an administrator as long as anybody is active.
THEOREM SomebodyAdministers == Spec => []AnAdministratorRemains
<1>1. IInv => AnAdministratorRemains
  BY DEF IInv, OneOfThem, AnAdministratorRemains, Is
<1>. QED  BY <1>1, Invariance, PTL

------------------------------------------------------------------------------
(* The order of locks.                                                        *)

\* How far a request is.  Whoever it waits for is farther.
Rank(q) ==
  IF q.step = "lifecycle" THEN 0
  ELSE IF q.step \in {"person", "insert", "profile"} THEN 1
  ELSE IF q.step \in {"links", "token"} THEN 2
  ELSE IF q.step = "write" THEN 3
  ELSE IF q.step = "tokens" THEN 4 ELSE 5

Kind(lock) == lock.on[1]
Rows == {"person", "link", "account", "token", "code"}

\* What a statement may wait for, and what its request has locks on by then.
Asks(q) ==
  IF q.step = "lifecycle" THEN {"lifecycle"}
  ELSE IF q.step \in {"person", "profile"} THEN {"person"}
  ELSE IF q.step = "insert" THEN Rows
  ELSE IF q.step \in {"links", "write"} THEN {"link", "account"}
  ELSE IF q.step \in {"token", "tokens"} THEN {"token", "code"} ELSE {}

Carries(q) ==
  IF q.step \in {"none", "count", "create", "profile", "lifecycle", "insert"} THEN {}
  ELSE IF q.step = "person" THEN {"lifecycle"}
  ELSE IF q.step \in {"guard", "assign", "links"} THEN {"lifecycle", "person"}
  ELSE IF q.step = "tokens" THEN {"lifecycle", "person", "link", "account"}
  ELSE IF q.step = "token" THEN {"person"}
  ELSE IF q.step = "write" THEN {"person", "token", "code"}
  ELSE {"lifecycle"} \cup Rows

\* A request holds what its statements took, and no more; a code that is about to be
\* written is nobody else's, and one that is being answered is there.
Orderly(q) ==
  /\ \A h \in q.locks : Kind(h) \in Carries(q)
  /\ q.step \in {"links", "tokens"} => q.op = "erase"
  /\ q.step \in {"token", "write"} => q.op \in {"confirm", "consume"}
  /\ q.step = "person" /\ q.op \in {"confirm", "consume"} => q.locks = {}
  /\ q.step = "token" => q.locks \subseteq {Shared(q.user)}
  /\ q.op = "issue" /\ q.step = "commit" =>
       /\ Whole(<<"token", q.provider, q.user>>) \in q.locks
       /\ Whole(<<"code", q.provider, q.code>>) \in q.locks
       /\ Holders(q.provider, q.code) \subseteq {q.user}
  /\ q.step = "write" =>
       /\ token[q.provider][q.user] # None
       /\ TokenFound(q.provider, q.user) \subseteq q.locks
       /\ q.locks \subseteq {Shared(q.user)} \cup TokenFound(q.provider, q.user)

\* A code is one person's.
OneCode ==
  \A p \in Provider : \A u, v \in Person :
    token[p][u] # None /\ token[p][v] # None /\ token[p][u].code = token[p][v].code => u = v

CInv == IInv /\ OneCode /\ \A r \in Request : Orderly(request[r])

\* The rows a statement finds or claims.
LEMMA RowKinds ==
  /\ \A p, u : \A l \in TokenFound(p, u) : Kind(l) \in {"token", "code"}
  /\ \A p, u, c : \A l \in TokenClaimed(p, u, c) : Kind(l) \in {"token", "code"}
  /\ \A p, u : \A l \in LinkFound(p, u) : Kind(l) \in {"link", "account"}
  /\ \A p, u, a : \A l \in LinkClaimed(p, u, a) : Kind(l) \in {"link", "account"}
BY DEF TokenFound, TokenClaimed, LinkFound, LinkClaimed, Whole, Kind

\* A statement waits for what Asks says.
LEMMA AskedKinds ==
  ASSUME NEW q
  PROVE  \A l \in Needs(q) : Kind(l) \in Asks(q)
<1>1. \A l \in LocksPerson(q) : Kind(l) \in Asks(q)
  BY DEF LocksPerson, Asks, Kind, Whole, Shared, Rows
<1>2. \A l \in LocksRows(q) : Kind(l) \in Asks(q)
  <2>1. CASE q.step = "insert" /\ q.op = "issue"
    <3>1. LocksRows(q) = TokenClaimed(q.provider, q.user, q.code)
      BY <2>1, Zenon DEF LocksRows
    <3>. QED  BY <2>1, <3>1, RowKinds DEF Asks, Rows
  <2>2. CASE q.step = "insert" /\ q.op = "bind"
    <3>1. LocksRows(q) = LinkClaimed(q.provider, q.user, q.account)
      BY <2>2, Zenon DEF LocksRows
    <3>. QED  BY <2>2, <3>1, RowKinds DEF Asks, Rows
  <2>3. CASE q.step = "token" /\ q.op = "confirm"
    <3>1. LocksRows(q) = TokenFound(q.provider, q.user)
      BY <2>3, Zenon DEF LocksRows
    <3>2. Asks(q) = {"token", "code"}
      BY <2>3 DEF Asks
    <3>. QED  BY <3>1, <3>2, RowKinds
  <2>4. CASE q.step = "token" /\ q.op = "consume"
    <3>1. LocksRows(q) = UNION {TokenFound(q.provider, u) : u \in Holders(q.provider, q.code)}
      BY <2>4, Zenon DEF LocksRows
    <3>2. \A l \in LocksRows(q) : \E u \in Holders(q.provider, q.code) : l \in TokenFound(q.provider, u)
      BY <3>1
    <3>3. \A l \in LocksRows(q) : Kind(l) \in {"token", "code"}
      BY <3>2, RowKinds
    <3>4. Asks(q) = {"token", "code"}
      BY <2>4 DEF Asks
    <3>. QED  BY <3>3, <3>4
  <2>5. CASE q.step = "write"
    <3>1. LocksRows(q) = LinkClaimed(q.provider, q.user, q.account)
      BY <2>5, Zenon DEF LocksRows
    <3>2. Asks(q) = {"link", "account"}
      BY <2>5 DEF Asks
    <3>. QED  BY <3>1, <3>2, RowKinds
  <2>6. CASE q.step = "links"
    <3>1. LocksRows(q) = UNION {LinkFound(p, q.user) : p \in Provider}
      BY <2>6, Zenon DEF LocksRows
    <3>2. \A l \in LocksRows(q) : \E p \in Provider : l \in LinkFound(p, q.user)
      BY <3>1
    <3>3. \A l \in LocksRows(q) : Kind(l) \in {"link", "account"}
      BY <3>2, RowKinds
    <3>. QED  BY <2>6, <3>3 DEF Asks
  <2>7. CASE q.step = "tokens"
    <3>1. LocksRows(q) = UNION {TokenFound(p, q.user) : p \in Provider}
      BY <2>7, Zenon DEF LocksRows
    <3>2. \A l \in LocksRows(q) : \E p \in Provider : l \in TokenFound(p, q.user)
      BY <3>1
    <3>3. \A l \in LocksRows(q) : Kind(l) \in {"token", "code"}
      BY <3>2, RowKinds
    <3>4. Asks(q) = {"token", "code"}
      BY <2>7 DEF Asks
    <3>. QED  BY <3>3, <3>4
  <2>8. CASE /\ ~(q.step = "insert" /\ q.op \in {"issue", "bind"})
             /\ ~(q.step = "token" /\ q.op \in {"confirm", "consume"})
             /\ q.step \notin {"write", "links", "tokens"}
    <3>1. LocksRows(q) = {}
      BY <2>8 DEF LocksRows
    <3>. QED  BY <3>1
  <2>. QED  BY <2>1, <2>2, <2>3, <2>4, <2>5, <2>6, <2>7, <2>8
<1>. QED  BY <1>1, <1>2 DEF Needs

\* An erasure at the codes of a person does not wait for somebody who answers one: the
\* code would be that person's, who is held by both.
LEMMA SweepDoesNotWaitForAnswers ==
  ASSUME CInv, NEW r \in Request, NEW s \in WaitsFor(r), request[r].step = "tokens"
  PROVE  request[s].step # "write"
<1>. SUFFICES ASSUME request[s].step = "write" PROVE FALSE
  OBVIOUS
<1>1. PICK q, x : q = request[r] /\ x = request[s]
  OBVIOUS
<1>2. /\ s \in Request \ {r} /\ \E n \in Needs(q), h \in x.locks : Clash(n, h)
      /\ q.op = "erase" /\ x.op \in {"confirm", "consume"} /\ Orderly(x)
      /\ RequestOK(q) /\ RequestOK(x) /\ Kept(q) /\ Kept(x)
  BY <1>1 DEF CInv, IInv, Typed, WaitsFor, Orderly
<1>3. PICK n \in Needs(q), h \in x.locks : Clash(n, h)
  BY <1>2
<1>4. /\ q.user \in Person /\ x.user \in Person /\ x.provider \in Provider
      /\ token[x.provider][x.user] # None
  BY <1>1, <1>2 DEF RequestOK, Orderly
<1>5. q.user # x.user
  <2>1. Whole(<<"person", q.user>>) \in q.locks /\ Shared(x.user) \in x.locks
    BY <1>1, <1>2 DEF Kept, Holds, Alone, Together
  <2>. QED  BY <1>1, <1>2, <2>1, HeldOnce DEF CInv
<1>6. PICK p \in Provider : n \in TokenFound(p, q.user)
  <2>1. LocksPerson(q) = {}
    BY <1>1 DEF LocksPerson
  <2>2. LocksRows(q) = UNION {TokenFound(o, q.user) : o \in Provider}
    BY <1>1, Zenon DEF LocksRows
  <2>. QED  BY <1>3, <2>1, <2>2 DEF Needs
<1>7. /\ token[p][q.user] # None
      /\ \/ n = Whole(<<"token", p, q.user>>)
         \/ n = Whole(<<"code", p, token[p][q.user].code>>)
  BY <1>6 DEF TokenFound
<1>8. \/ h = Shared(x.user)
      \/ h = Whole(<<"token", x.provider, x.user>>)
      \/ h = Whole(<<"code", x.provider, token[x.provider][x.user].code>>)
  BY <1>1, <1>2, <1>3, <1>4 DEF Orderly, TokenFound
<1>9. n.on = h.on
  BY <1>3 DEF Clash
<1>10. p = x.provider /\ token[p][q.user].code = token[x.provider][x.user].code
  BY <1>5, <1>7, <1>8, <1>9 DEF Whole, Shared
<1>. QED  BY <1>4, <1>5, <1>6, <1>7, <1>10 DEF CInv, OneCode

\* Whoever a request waits for is farther.
LEMMA WaitsForTheFarther ==
  ASSUME CInv, NEW r \in Request, NEW s \in WaitsFor(r)
  PROVE  Rank(request[s]) > Rank(request[r])
<1>1. PICK q, x : q = request[r] /\ x = request[s]
  OBVIOUS
<1>2. s \in Request /\ \E n \in Needs(q), h \in x.locks : Clash(n, h)
  BY <1>1 DEF WaitsFor
<1>3. PICK n \in Needs(q), h \in x.locks : Clash(n, h)
  BY <1>2
<1>4. Kind(n) = Kind(h) /\ Kind(n) \in Asks(q) /\ Kind(h) \in Carries(x)
  BY <1>1, <1>2, <1>3, AskedKinds DEF Clash, Kind, CInv, Orderly
<1>5. ~(q.step = "tokens" /\ x.step = "write")
  BY <1>1, SweepDoesNotWaitForAnswers
<1>6. Rank(x) > Rank(q)
  BY <1>4, <1>5 DEF Rank, Asks, Carries, Rows
<1>. QED  BY <1>1, <1>6

\* So nobody waits in a circle.
LEMMA OrderMakesNoCircle == CInv => NoCircle
<1>. SUFFICES ASSUME CInv, NEW some \in (SUBSET Request) \ {{}},
                     \A r \in some : WaitsFor(r) \cap some # {}
              PROVE  FALSE
  BY DEF NoCircle
<1>. DEFINE Far(n) == \E r \in some : Rank(request[r]) >= n
<1>1. \A r \in some : \E s \in some : Rank(request[s]) > Rank(request[r])
  BY WaitsForTheFarther
<1>2. \A r \in some : Rank(request[r]) \in 0..5
  BY DEF Rank
<1>3. Far(0)
  <2>1. some # {}
    OBVIOUS
  <2>2. PICK r : r \in some
    BY <2>1
  <2>. QED  BY <1>2, <2>2
<1>4. ASSUME NEW n \in 0..5, Far(n) PROVE Far(n + 1)
  <2>1. PICK r \in some : Rank(request[r]) >= n
    BY <1>4
  <2>2. PICK s \in some : Rank(request[s]) > Rank(request[r])
    BY <1>1
  <2>3. Rank(request[r]) \in Int /\ Rank(request[s]) \in Int
    BY <1>2
  <2>4. Rank(request[s]) >= n + 1
    BY <2>1, <2>2, <2>3
  <2>. QED  BY <2>4
<1>. HIDE DEF Far
<1>5. Far(6)
  BY <1>3, <1>4
<1>. QED  BY <1>2, <1>5 DEF Far

------------------------------------------------------------------------------
(* The order of locks is kept.                                                *)

SameCode(p, u) ==
  /\ token'[p][u] = None <=> token[p][u] = None
  /\ token[p][u] # None => token'[p][u].code = token[p][u].code

\* A code changes under the lock on its row, and becomes another under the lock on that.
CodesMoveUnder(held) ==
  \A p \in Provider, u \in Person :
    \/ SameCode(p, u)
    \/ /\ Whole(<<"token", p, u>>) \in held
       /\ token'[p][u] # None => Whole(<<"code", p, token'[p][u].code>>) \in held

\* What the others hold stands while codes move under locks that theirs exclude.
LEMMA OthersStayOrderly ==
  ASSUME CInv, NEW r \in Request, NEW held, Apart(r, held), CodesMoveUnder(held),
         NEW s \in Request \ {r}, request'[s] = request[s]
  PROVE  Orderly(request[s])'
<1>1. PICK x : x = request[s] /\ x = request'[s]
  OBVIOUS
<1>2. Orderly(x) /\ RequestOK(x) /\ \A a \in held, b \in x.locks : ~Clash(a, b)
  BY <1>1 DEF CInv, IInv, Typed, Apart
<1>3. \A o : Whole(o) \in held => Whole(o) \notin x.locks
  BY <1>2 DEF Clash, Whole
<1>4. CASE x.op = "issue" /\ x.step = "commit"
  <2>1. PICK p, u, c : p = x.provider /\ u = x.user /\ c = x.code
    OBVIOUS
  <2>2. /\ p \in Provider /\ u \in Person /\ Whole(<<"code", p, c>>) \in x.locks
        /\ Holders(p, c) \subseteq {u}
    BY <1>2, <1>4, <2>1 DEF Orderly, RequestOK
  <2>3. ASSUME NEW v \in Person, token'[p][v] # None, token'[p][v].code = c
        PROVE  v \in Holders(p, c)
    <3>1. Whole(<<"code", p, token'[p][v].code>>) \notin held
      BY <1>3, <2>2, <2>3
    <3>2. SameCode(p, v)
      BY <2>2, <2>3, <3>1 DEF CodesMoveUnder
    <3>. QED  BY <2>3, <3>2 DEF SameCode, Holders
  <2>4. Holders(p, c)' \subseteq {u}
    BY <2>2, <2>3 DEF Holders
  <2>5. Orderly(x)'
    BY <1>2, <1>4, <2>1, <2>4 DEF Orderly, Carries
  <2>. QED  BY <1>1, <2>5
<1>5. CASE x.step = "write"
  <2>1. PICK p, u : p = x.provider /\ u = x.user
    OBVIOUS
  <2>2. /\ p \in Provider /\ u \in Person /\ token[p][u] # None
        /\ TokenFound(p, u) \subseteq x.locks
        /\ x.locks \subseteq {Shared(u)} \cup TokenFound(p, u)
    BY <1>2, <1>5, <2>1 DEF Orderly, RequestOK
  <2>3. Whole(<<"token", p, u>>) \in x.locks
    BY <2>2 DEF TokenFound
  <2>4. SameCode(p, u)
    BY <1>3, <2>2, <2>3 DEF CodesMoveUnder
  <2>5. token'[p][u] # None /\ TokenFound(p, u)' = TokenFound(p, u)
    BY <2>2, <2>4 DEF SameCode, TokenFound
  <2>6. Orderly(x)'
    BY <1>2, <1>5, <2>1, <2>2, <2>5 DEF Orderly, Carries
  <2>. QED  BY <1>1, <2>6
<1>6. CASE ~(x.op = "issue" /\ x.step = "commit") /\ x.step # "write"
  <2>1. Orderly(x)'
    BY <1>2, <1>6 DEF Orderly, Carries
  <2>. QED  BY <1>1, <2>1
<1>. QED  BY <1>4, <1>5, <1>6

\* A request that moves, and what is left to show of it.
LEMMA OneMovesInOrder ==
  ASSUME CInv, IInv', NEW r \in Request, Moves(r), NEW held, Apart(r, held), CodesMoveUnder(held),
         OneCode', Orderly(request[r])'
  PROVE  CInv'
<1>1. \A s \in Request \ {r} : request'[s] = request[s]
  BY DEF Moves, CInv, IInv, Typed
<1>2. \A s \in Request : Orderly(request[s])'
  BY <1>1, OthersStayOrderly
<1>. QED  BY <1>2 DEF CInv

\* Codes that only go are still one person's each.
LEMMA OneCodeStays ==
  ASSUME OneCode, \A p \in Provider, u \in Person : token'[p][u] = None \/ SameCode(p, u)
  PROVE  OneCode'
BY DEF OneCode, SameCode

\* A request that moves and leaves the codes alone.
LEMMA QuietInOrder ==
  ASSUME CInv, IInv', NEW r \in Request, Moves(r), token' = token, Orderly(request'[r])
  PROVE  CInv'
<1>1. CodesMoveUnder({}) /\ Apart(r, {})
  BY DEF CodesMoveUnder, SameCode, Apart
<1>2. OneCode'
  BY DEF CInv, OneCode
<1>3. PICK x : x = request'[r]
  OBVIOUS
<1>4. Orderly(x)'
  BY <1>3 DEF Orderly, TokenFound, Holders
<1>5. Orderly(request[r])'
  BY <1>3, <1>4
<1>. QED  BY <1>1, <1>2, <1>5, OneMovesInOrder

\* A request that holds nothing and is about to take its first lock, or is over.
LEMMA FreeIsOrderly ==
  ASSUME NEW q, q.locks = {}, q.step \in {"none", "count", "create", "profile", "lifecycle", "insert", "person"}
  PROVE  Orderly(q) /\ Orderly(q)'
BY DEF Orderly, Carries

\* A request that is over and leaves the codes alone.
LEMMA EndsInOrder ==
  ASSUME CInv, IInv', NEW r \in Request, End(r), token' = token
  PROVE  CInv'
<1>1. request'[r] = Idle /\ Moves(r)
  BY DEF End, Moves, CInv, IInv, Typed
<1>2. Orderly(request'[r])
  BY <1>1, FreeIsOrderly DEF Idle
<1>. QED  BY <1>1, <1>2, QuietInOrder

\* A request that goes on and leaves the codes alone.
LEMMA GoesOnInOrder ==
  ASSUME CInv, IInv', NEW r \in Request, NEW step, GoOn(r, step), token' = token,
         Orderly(Onward(request[r], step))
  PROVE  CInv'
<1>1. request'[r] = Onward(request[r], step) /\ Moves(r)
  BY DEF GoOn, Moves, CInv, IInv, Typed
<1>. QED  BY <1>1, QuietInOrder

\* A request that begins has no lock yet.
LEMMA BeginsInOrder ==
  ASSUME CInv, IInv', NEW r \in Request, Begins(r)
  PROVE  CInv'
<1>1. ASSUME NEW q, Begin(r, q), token' = token, q.locks = {},
             q.step \in {"count", "lifecycle", "profile", "insert", "person"}
      PROVE  CInv'
  <2>1. request'[r] = q /\ Moves(r)
    BY <1>1 DEF Begin, Moves, CInv, IInv, Typed
  <2>. QED  BY <1>1, <2>1, FreeIsOrderly, QuietInOrder
<1>. USE DEF Idle
<1>2. ASSUME NEW u \in Person, NEW wanted \in Roles, BeginCreate(r, u, wanted) \/ BeginRole(r, u, wanted) PROVE CInv'
  BY <1>1, <1>2 DEF BeginCreate, BeginRole
<1>3. ASSUME NEW u \in Person, BeginProfile(r, u) \/ BeginErase(r, u) \/ BeginGrant(r, u) PROVE CInv'
  BY <1>1, <1>3 DEF BeginProfile, BeginErase, BeginGrant
<1>4. ASSUME NEW u \in Person, NEW a \in Account, resolveSlackUser(r, u, a) PROVE CInv'
  BY <1>1, <1>4 DEF resolveSlackUser
<1>5. ASSUME NEW u \in Person, NEW a \in Account, NEW c \in Code, RequestSlackCode(r, u, a, c) PROVE CInv'
  BY <1>1, <1>5 DEF RequestSlackCode
<1>6. ASSUME NEW u \in Person, NEW c \in Code, RequestTelegramLink(r, u, c) PROVE CInv'
  BY <1>1, <1>6 DEF RequestTelegramLink
<1>7. ASSUME NEW u \in Person, NEW c \in Code \cup {None}, BeginConfirm(r, u, c) PROVE CInv'
  BY <1>1, <1>7 DEF BeginConfirm
<1>8. ASSUME NEW a \in Account, NEW c \in Code, BeginConsume(r, a, c) PROVE CInv'
  BY <1>1, <1>8 DEF BeginConsume
<1>. QED
  BY <1>2, <1>3, <1>4, <1>5, <1>6, <1>7, <1>8 DEF Begins

\* The statements of a creation, a role and a profile.
LEMMA PeopleInOrder ==
  ASSUME CInv, IInv', NEW r \in Request,
         CountAll(r) \/ CreateUser(r) \/ SetUserRole(r) \/ UpdateUser(r)
  PROVE  CInv'
<1>1. CASE CountAll(r)
  <2>1. PICK q : q = request[r]
    OBVIOUS
  <2>2. q.op = "create" /\ q.step = "count" /\ RequestOK(q) /\ Orderly(q)
    BY <1>1, <2>1 DEF CountAll, Turn, CInv, IInv, Typed
  <2>3. q.locks = {}
    BY <2>2 DEF Orderly, Carries
  <2>4. PICK wanted : request' = [request EXCEPT ![r] = [q EXCEPT !.step = "create", !.role = wanted]]
    BY <1>1, <2>1 DEF CountAll
  <2>5. Moves(r) /\ request'[r] = [q EXCEPT !.step = "create", !.role = wanted]
    BY <2>4 DEF Moves, CInv, IInv, Typed
  <2>6. request'[r].locks = {} /\ request'[r].step = "create"
    BY <2>2, <2>3, <2>5 DEF RequestOK, Idle
  <2>. QED  BY <1>1, <2>5, <2>6, FreeIsOrderly, QuietInOrder DEF CountAll
<1>2. CASE CreateUser(r) \/ UpdateUser(r)
  BY <1>2, EndsInOrder DEF CreateUser, UpdateUser
<1>3. CASE SetUserRole(r)
  <2>1. Moves(r) /\ request'[r] = [Idle EXCEPT !.op = "profile", !.step = "profile", !.user = request[r].user]
    BY <1>3 DEF SetUserRole, Moves, CInv, IInv, Typed
  <2>2. request'[r].locks = {} /\ request'[r].step = "profile"
    BY <2>1 DEF Idle
  <2>. QED  BY <1>3, <2>1, <2>2, FreeIsOrderly, QuietInOrder DEF SetUserRole
<1>. QED  BY <1>1, <1>2, <1>3

\* The advisory lock, a person, then the rows that belong to them.
LEMMA SweepsInOrder ==
  ASSUME CInv, IInv', NEW r \in Request,
         \/ LockAdminLifecycle(r) \/ LockUser(r) \/ guardLastAdmin(r)
         \/ SweepLinks(r) \/ SweepTokens(r)
  PROVE  CInv'
<1>1. PICK q : q = request[r]
  OBVIOUS
<1>2. RequestOK(q) /\ Orderly(q) /\ \A l \in Needs(q) : Kind(l) \in Asks(q)
  BY <1>1, AskedKinds DEF CInv, IInv, Typed
<1>3. ASSUME NEW step, q.op \in {"erase", "role"}, q.step \in {"lifecycle", "person", "guard", "links", "tokens"},
             step = IF q.step = "lifecycle" THEN "person"
                    ELSE IF q.step = "person" THEN "guard"
                    ELSE IF q.step = "guard" THEN IF q.op = "erase" THEN "links" ELSE "assign"
                    ELSE IF q.step = "links" THEN "tokens" ELSE "erase"
      PROVE  Orderly(Onward(q, step))
  <2>1. PICK n : n = Onward(q, step)
    OBVIOUS
  <2>2. n.op = q.op /\ n.step = step /\ n.locks = q.locks \cup Needs(q)
    BY <1>2, <2>1, GoesOn
  <2>3. \A h \in q.locks : Kind(h) \in Carries(q)
    BY <1>2 DEF Orderly
  <2>4. Carries(q) \cup Asks(q) \subseteq Carries(n)
    BY <1>3, <2>2 DEF Carries, Asks, Rows
  <2>5. \A h \in n.locks : Kind(h) \in Carries(n)
    BY <1>2, <2>2, <2>3, <2>4
  <2>6. n.step \in {"person", "guard", "links", "assign", "tokens", "erase"}
        /\ (n.step \in {"links", "tokens"} => n.op = "erase")
    BY <1>2, <1>3, <2>2 DEF Orderly
  <2>7. Orderly(n)
    BY <1>3, <2>2, <2>5, <2>6 DEF Orderly
  <2>. QED  BY <2>1, <2>7
<1>4. CASE LockAdminLifecycle(r)
  BY <1>1, <1>3, <1>4, GoesOnInOrder DEF LockAdminLifecycle, Turn
<1>5. CASE LockUser(r)
  BY <1>1, <1>3, <1>5, GoesOnInOrder, EndsInOrder DEF LockUser, Turn
<1>6. CASE guardLastAdmin(r)
  BY <1>1, <1>3, <1>6, GoesOnInOrder, EndsInOrder DEF guardLastAdmin, Turn
<1>7. CASE SweepLinks(r)
  BY <1>1, <1>2, <1>3, <1>7, GoesOnInOrder DEF SweepLinks, Turn
<1>8. CASE SweepTokens(r)
  BY <1>1, <1>2, <1>3, <1>8, GoesOnInOrder DEF SweepTokens, Turn
<1>. QED  BY <1>4, <1>5, <1>6, <1>7, <1>8

\* An insert claims its keys, and a code nobody else has.
LEMMA InsertInOrder ==
  ASSUME CInv, IInv', NEW r \in Request, Insert(r)
  PROVE  CInv'
<1>1. PICK q, n : q = request[r] /\ n = Onward(q, "commit")
  OBVIOUS
<1>2. /\ RequestOK(q) /\ q.op \in {"grant", "issue", "bind"} /\ q.step = "insert"
      /\ Orderly(q) /\ token' = token
  BY <1>1 DEF Insert, Turn, CInv, IInv, Typed
<1>3. /\ n.op = q.op /\ n.step = "commit" /\ n.user = q.user /\ n.provider = q.provider
      /\ n.code = q.code /\ n.locks = q.locks \cup Needs(q)
  BY <1>1, <1>2, GoesOn
<1>4. \A h \in n.locks : Kind(h) \in Carries(n)
  <2>1. \A h \in q.locks : Kind(h) \in Carries(q)
    BY <1>2 DEF Orderly
  <2>2. Carries(q) = {} /\ Asks(q) = Rows /\ Carries(n) = {"lifecycle"} \cup Rows
    BY <1>2, <1>3 DEF Carries, Asks
  <2>. QED  BY <1>3, <2>1, <2>2, AskedKinds
<1>5. ASSUME q.op = "issue"
      PROVE  /\ Whole(<<"token", q.provider, q.user>>) \in n.locks
             /\ Whole(<<"code", q.provider, q.code>>) \in n.locks
  <2>1. LocksRows(q) = TokenClaimed(q.provider, q.user, q.code)
    BY <1>2, <1>5, Zenon DEF LocksRows
  <2>. QED  BY <1>3, <2>1 DEF Needs, TokenClaimed
<1>6. Fits(q) => Orderly(n)
  <2>1. Fits(q) /\ q.op = "issue" => Holders(q.provider, q.code) \subseteq {q.user}
    BY DEF Fits
  <2>. QED  BY <1>3, <1>4, <1>5, <2>1 DEF Orderly
<1>. QED  BY <1>1, <1>2, <1>6, GoesOnInOrder, EndsInOrder DEF Insert

\* Whoever answers a code has locked nothing but themselves until they find it.
LEMMA lockActiveUserInOrder ==
  ASSUME CInv, IInv', NEW r \in Request, lockActiveUserTx(r)
  PROVE  CInv'
<1>1. PICK q, n : q = request[r] /\ n = Onward(q, "token")
  OBVIOUS
<1>2. /\ RequestOK(q) /\ q.op \in {"confirm", "consume"} /\ q.step = "person"
      /\ Orderly(q) /\ token' = token
  BY <1>1 DEF lockActiveUserTx, Turn, CInv, IInv, Typed
<1>3. n.op = q.op /\ n.step = "token" /\ n.user = q.user /\ n.locks = q.locks \cup Needs(q)
  BY <1>1, <1>2, GoesOn
<1>4. q.locks = {}
  BY <1>2 DEF Orderly
<1>5. Needs(q) = {Shared(q.user)}
  <2>1. LocksRows(q) = {}
    BY <1>2 DEF LocksRows
  <2>2. LocksPerson(q) = {Shared(q.user)}
    BY <1>2 DEF LocksPerson
  <2>. QED  BY <2>1, <2>2 DEF Needs
<1>6. \A h \in n.locks : Kind(h) \in Carries(n)
  BY <1>3, <1>4, <1>5 DEF Carries, Kind, Shared
<1>7. Orderly(n)
  BY <1>2, <1>3, <1>4, <1>5, <1>6 DEF Orderly
<1>. QED  BY <1>1, <1>2, <1>7, GoesOnInOrder, EndsInOrder DEF lockActiveUserTx

\* What a request that answers a code asks for: the row of its person, where that is the code.
LEMMA AnswerFinds ==
  ASSUME CInv, NEW r \in Request, NEW q, q = request[r], Turn(r, {"confirm", "consume"}, "token"),
         q.op = "confirm" \/ (token[q.provider][q.user] # None /\ token[q.provider][q.user].code = q.code)
  PROVE  Needs(q) = TokenFound(q.provider, q.user)
<1>1. q.op \in {"confirm", "consume"} /\ q.step = "token" /\ RequestOK(q)
  BY DEF Turn, CInv, IInv, Typed
<1>2. LocksPerson(q) = {}
  BY <1>1 DEF LocksPerson
<1>3. CASE q.op = "confirm"
  <2>1. LocksRows(q) = TokenFound(q.provider, q.user)
    BY <1>1, <1>3, Zenon DEF LocksRows
  <2>. QED  BY <1>2, <2>1 DEF Needs
<1>4. CASE q.op = "consume" /\ token[q.provider][q.user] # None /\ token[q.provider][q.user].code = q.code
  <2>1. LocksRows(q) = UNION {TokenFound(q.provider, u) : u \in Holders(q.provider, q.code)}
    BY <1>1, <1>4, Zenon DEF LocksRows
  <2>2. q.provider \in Provider /\ q.user \in Person
    BY <1>1 DEF RequestOK
  <2>3. \A u \in Holders(q.provider, q.code) : u = q.user
    BY <1>4, <2>2 DEF CInv, OneCode, Holders
  <2>4. q.user \in Holders(q.provider, q.code)
    BY <1>4, <2>2 DEF Holders
  <2>5. Holders(q.provider, q.code) = {q.user}
    BY <2>3, <2>4
  <2>. QED  BY <1>2, <2>1, <2>5 DEF Needs
<1>. QED  BY <1>1, <1>3, <1>4

\* A code that was answered is there, and held.
LEMMA RightCodeInOrder ==
  ASSUME CInv, IInv', NEW r \in Request, RightCode(r)
  PROVE  CInv'
<1>1. PICK q, n, p, u : q = request[r] /\ n = Onward(q, "write") /\ p = q.provider /\ u = q.user
  OBVIOUS
<1>2. /\ RequestOK(q) /\ q.op \in {"confirm", "consume"} /\ q.step = "token"
      /\ Orderly(q) /\ token' = token
      /\ Turn(r, {"confirm", "consume"}, "token")
      /\ token[p][u] # None /\ token[p][u].code = q.code
  BY <1>1 DEF RightCode, Turn, Open, CInv, IInv, Typed
<1>3. Needs(q) = TokenFound(p, u)
  BY <1>1, <1>2, AnswerFinds
<1>4. RequestOK(n) /\ n.op = q.op /\ n.step = "write" /\ n.user = u /\ n.provider = p
      /\ n.locks = q.locks \cup Needs(q)
  BY <1>1, <1>2, GoesOn
<1>5. PICK account : request' = [request EXCEPT ![r] = [n EXCEPT !.account = account]]
  BY <1>1 DEF RightCode
<1>6. PICK x : x = [n EXCEPT !.account = account]
  OBVIOUS
<1>7. Moves(r) /\ request'[r] = x
  BY <1>5, <1>6 DEF Moves, CInv, IInv, Typed
<1>8. x.op = q.op /\ x.step = "write" /\ x.user = u /\ x.provider = p /\ x.locks = q.locks \cup TokenFound(p, u)
  BY <1>3, <1>4, <1>6 DEF RequestOK, Idle
<1>9. q.locks \subseteq {Shared(u)} /\ \A h \in q.locks : Kind(h) = "person"
  BY <1>1, <1>2 DEF Orderly, Kind, Shared
<1>10. \A h \in x.locks : Kind(h) \in Carries(x)
  <2>1. Carries(x) = {"person", "token", "code"}
    BY <1>8 DEF Carries
  <2>. QED  BY <1>8, <1>9, <2>1, RowKinds
<1>11. Orderly(x)
  BY <1>2, <1>8, <1>9, <1>10 DEF Orderly
<1>. QED  BY <1>2, <1>7, <1>11, QuietInOrder

\* A request that writes under its locks and is over.
LEMMA WritesInOrder ==
  ASSUME CInv, IInv', NEW r \in Request, End(r), CodesMoveUnder(request[r].locks), OneCode'
  PROVE  CInv'
<1>1. request'[r] = Idle /\ Moves(r)
  BY DEF End, Moves, CInv, IInv, Typed
<1>2. Apart(r, request[r].locks)
  BY DEF CInv, IInv, LocksApart
<1>3. Orderly(Idle)'
  BY FreeIsOrderly DEF Idle
<1>4. Orderly(request[r])'
  BY <1>1, <1>3
<1>. QED  BY <1>1, <1>2, <1>4, OneMovesInOrder

\* A code that is inserted is its person's only.
LEMMA CommitInOrder ==
  ASSUME CInv, IInv', NEW r \in Request, Commit(r)
  PROVE  CInv'
<1>1. CASE request[r].op # "issue"
  BY <1>1, EndsInOrder DEF Commit
<1>2. CASE request[r].op = "issue"
  <2>1. PICK q, p, u, c, row :
          /\ q = request[r] /\ p = q.provider /\ u = q.user /\ c = q.code
          /\ row = [code |-> c, account |-> q.account, attempts |-> 0, expired |-> FALSE]
    OBVIOUS
  <2>2. /\ p \in Provider /\ u \in Person /\ q.step = "commit" /\ End(r)
        /\ token' = [token EXCEPT ![p][u] = row]
    BY <1>2, <2>1 DEF Commit, Turn, CInv, IInv, Typed, RequestOK
  <2>3. /\ Whole(<<"token", p, u>>) \in q.locks /\ Whole(<<"code", p, c>>) \in q.locks
        /\ Holders(p, c) \subseteq {u}
    BY <1>2, <2>1, <2>2 DEF CInv, Orderly
  <2>4. /\ token'[p][u] = row /\ row.code = c
        /\ \A o \in Provider, v \in Person : <<o, v>> # <<p, u>> => token'[o][v] = token[o][v]
    BY <2>1, <2>2 DEF CInv, IInv, Typed
  <2>5. CodesMoveUnder(q.locks)
    BY <2>3, <2>4 DEF CodesMoveUnder, SameCode
  <2>6. OneCode'
    <3>1. \A v \in Person \ {u} : token[p][v] # None => token[p][v].code # c
      BY <2>3 DEF Holders
    <3>. QED  BY <2>2, <2>4, <3>1 DEF CInv, OneCode
  <2>. QED  BY <2>1, <2>2, <2>5, <2>6, WritesInOrder
<1>. QED  BY <1>1, <1>2

\* An erasure removes the codes it holds.
LEMMA EraseInOrder ==
  ASSUME CInv, IInv', NEW r \in Request, Erase(r)
  PROVE  CInv'
<1>1. PICK q, u : q = request[r] /\ u = q.user
  OBVIOUS
<1>2. /\ u \in Person /\ End(r)
      /\ token' = [p \in Provider |-> IF Whole(<<"token", p, u>>) \in q.locks
                                      THEN [token[p] EXCEPT ![u] = None] ELSE token[p]]
  BY <1>1 DEF Erase, Turn, CInv, IInv, Typed, RequestOK
<1>3. \A p \in Provider, v \in Person :
        \/ SameCode(p, v)
        \/ token'[p][v] = None /\ Whole(<<"token", p, v>>) \in q.locks
  BY <1>2 DEF SameCode, CInv, IInv, Typed
<1>4. CodesMoveUnder(q.locks) /\ OneCode'
  BY <1>3, OneCodeStays DEF CodesMoveUnder, CInv
<1>. QED  BY <1>1, <1>2, <1>4, WritesInOrder

\* A link removes the code it was made with.
LEMMA BindInOrder ==
  ASSUME CInv, IInv', NEW r \in Request, Bind(r)
  PROVE  CInv'
<1>1. CASE token' = token
  BY <1>1, EndsInOrder DEF Bind
<1>2. CASE token' # token
  <2>1. PICK q, p, u : q = request[r] /\ p = q.provider /\ u = q.user
    OBVIOUS
  <2>2. /\ p \in Provider /\ u \in Person /\ q.step = "write" /\ End(r)
        /\ token' = [token EXCEPT ![p][u] = None]
    BY <1>2, <2>1 DEF Bind, Turn, CInv, IInv, Typed, RequestOK
  <2>3. Whole(<<"token", p, u>>) \in q.locks
    BY <2>1, <2>2 DEF CInv, Orderly, TokenFound
  <2>4. \A o \in Provider, v \in Person :
          \/ SameCode(o, v)
          \/ token'[o][v] = None /\ Whole(<<"token", o, v>>) \in q.locks
    BY <2>2, <2>3 DEF SameCode, CInv, IInv, Typed
  <2>5. CodesMoveUnder(q.locks) /\ OneCode'
    BY <2>4, OneCodeStays DEF CodesMoveUnder, CInv
  <2>. QED  BY <2>1, <2>2, <2>5, WritesInOrder
<1>. QED  BY <1>1, <1>2

\* An answer that fails counts on the row, or removes it, and holds it to do so.
LEMMA AnswersInOrder ==
  ASSUME CInv, IInv', NEW r \in Request, NoCode(r) \/ WrongCode(r)
  PROVE  CInv'
<1>1. CASE token' = token
  BY <1>1, EndsInOrder DEF NoCode, WrongCode
<1>2. CASE token' # token
  <2>1. PICK q, p, u, held : q = request[r] /\ p = q.provider /\ u = q.user /\ held = q.locks \cup Needs(q)
    OBVIOUS
  <2>2. /\ p \in Provider /\ u \in Person /\ Turn(r, {"confirm", "consume"}, "token") /\ End(r)
        /\ token[p][u] # None /\ WaitsFor(r) = {}
        /\ q.op = "confirm" \/ token[p][u].code = q.code
    BY <1>2, <2>1 DEF NoCode, WrongCode, Open, Turn, CInv, IInv, Typed, RequestOK
  <2>3. Needs(q) = TokenFound(p, u)
    BY <2>1, <2>2, AnswerFinds
  <2>4. Whole(<<"token", p, u>>) \in held /\ Whole(<<"code", p, token[p][u].code>>) \in held
    BY <2>1, <2>2, <2>3 DEF TokenFound
  <2>5. Apart(r, held)
    BY <2>1, <2>2, TurnIsApart DEF CInv, IInv
  <2>6. PICK left :
          /\ token' = [token EXCEPT ![p][u] = left]
          /\ left = None \/ left = [token[p][u] EXCEPT !.attempts = @ + 1]
    BY <1>2, <2>1 DEF NoCode, WrongCode
  <2>7. token[p][u] \in Token
    BY <2>2 DEF CInv, IInv, Typed
  <2>8. left = None \/ left.code = token[p][u].code
    BY <2>6, <2>7 DEF Token
  <2>9. /\ token'[p][u] = left
        /\ \A o \in Provider, v \in Person : <<o, v>> # <<p, u>> => token'[o][v] = token[o][v]
    BY <2>2, <2>6 DEF CInv, IInv, Typed
  <2>10. \A o \in Provider, v \in Person :
           \/ SameCode(o, v)
           \/ token'[o][v] = None /\ Whole(<<"token", o, v>>) \in held
    BY <2>2, <2>4, <2>8, <2>9 DEF SameCode
  <2>11. CodesMoveUnder(held) /\ OneCode'
    BY <2>10, OneCodeStays DEF CodesMoveUnder, CInv
  <2>12. request'[r] = Idle /\ Moves(r)
    BY <2>2 DEF End, Moves, CInv, IInv, Typed
  <2>13. Orderly(Idle)'
    BY FreeIsOrderly DEF Idle
  <2>14. Orderly(request[r])'
    BY <2>12, <2>13
  <2>. QED  BY <2>5, <2>11, <2>12, <2>14, OneMovesInOrder
<1>. QED  BY <1>1, <1>2

\* Every statement of a request.
LEMMA StepsInOrder ==
  ASSUME CInv, IInv', NEW r \in Request, Steps(r)
  PROVE  CInv'
<1>1. Rollback(r) => CInv'
  BY EndsInOrder DEF Rollback
<1>. QED
  BY <1>1, PeopleInOrder, SweepsInOrder, EraseInOrder, InsertInOrder, CommitInOrder,
     lockActiveUserInOrder, AnswersInOrder, RightCodeInOrder, BindInOrder DEF Steps

\* No request moves, and a code that expires is the same code.
LEMMA NobodyMovesInOrder ==
  ASSUME CInv, IInv', request' = request,
         \A p \in Provider, u \in Person : SameCode(p, u)
  PROVE  CInv'
<1>1. OneCode'
  BY OneCodeStays DEF CInv
<1>2. ASSUME NEW s \in Request PROVE Orderly(request[s])'
  <2>1. PICK x : x = request[s] /\ x = request'[s]
    OBVIOUS
  <2>2. Orderly(x) /\ RequestOK(x)
    BY <2>1 DEF CInv, IInv, Typed
  <2>3. PICK p, u, c : p = x.provider /\ u = x.user /\ c = x.code
    OBVIOUS
  <2>4. ASSUME x.op = "issue", x.step = "commit", Holders(p, c) \subseteq {u}
        PROVE  Holders(p, c)' \subseteq {u}
    <3>1. p \in Provider
      BY <2>2, <2>3, <2>4 DEF RequestOK
    <3>2. \A v \in Person : SameCode(p, v)
      BY <3>1
    <3>. QED  BY <2>4, <3>2 DEF SameCode, Holders
  <2>5. ASSUME x.step = "write"
        PROVE  /\ token'[p][u] = None <=> token[p][u] = None
               /\ token[p][u] # None => TokenFound(p, u)' = TokenFound(p, u)
    <3>1. p \in Provider /\ u \in Person
      BY <2>2, <2>3, <2>5 DEF RequestOK, Orderly
    <3>2. SameCode(p, u)
      BY <3>1
    <3>. QED  BY <3>2 DEF SameCode, TokenFound
  <2>6. CASE x.step = "write"
    <3>1. /\ token[p][u] # None /\ TokenFound(p, u) \subseteq x.locks
          /\ x.locks \subseteq {Shared(u)} \cup TokenFound(p, u)
      BY <2>2, <2>3, <2>6 DEF Orderly
    <3>2. Orderly(x)'
      BY <2>2, <2>3, <2>5, <2>6, <3>1 DEF Orderly, Carries
    <3>. QED  BY <2>1, <3>2
  <2>7. CASE x.step # "write"
    <3>1. Orderly(x)'
      BY <2>2, <2>3, <2>4, <2>7 DEF Orderly, Carries
    <3>. QED  BY <2>1, <3>1
  <2>. QED  BY <2>6, <2>7
<1>. QED  BY <1>1, <1>2 DEF CInv

\* Every step.
LEMMA NextInOrder == CInv /\ [Next]_vars => CInv'
<1>. SUFFICES ASSUME CInv, [Next]_vars PROVE CInv'
  OBVIOUS
<1>1. IInv'
  BY NextPreserves DEF CInv
<1>2. ASSUME request' = request, token' = token PROVE CInv'
  <2>1. \A p \in Provider, u \in Person : SameCode(p, u)
    BY <1>2 DEF SameCode
  <2>. QED  BY <1>1, <1>2, <2>1, NobodyMovesInOrder
<1>3. CASE UNCHANGED vars
  BY <1>2, <1>3 DEF vars
<1>4. ASSUME NEW r \in Request, Begins(r) \/ Steps(r) PROVE CInv'
  BY <1>1, <1>4, BeginsInOrder, StepsInOrder
<1>5. ASSUME NEW p \in Provider, NEW u \in Person, UnbindExternalIdentity(p, u) PROVE CInv'
  BY <1>2, <1>5 DEF UnbindExternalIdentity
<1>6. ASSUME NEW p \in Provider, NEW u \in Person, Expire(p, u) PROVE CInv'
  <2>. DEFINE late == [token[p][u] EXCEPT !.expired = TRUE]
  <2>1. token[p][u] # None /\ token[p][u] \in Token /\ request' = request
    BY <1>6 DEF Expire, CInv, IInv, Typed
  <2>2. late \in Token /\ late.code = token[p][u].code
    BY <2>1 DEF Token
  <2>3. late # None
    BY <2>2, AccountsAssumption
  <2>4. token' = [token EXCEPT ![p][u] = late]
    BY <1>6 DEF Expire, CInv, IInv, Typed
  <2>. HIDE DEF late
  <2>5. \A o \in Provider, v \in Person : SameCode(o, v)
    BY <2>1, <2>2, <2>3, <2>4 DEF SameCode, CInv, IInv, Typed
  <2>. QED  BY <1>1, <2>1, <2>5, NobodyMovesInOrder
<1>7. ASSUME NEW u \in Person, Revoke(u) PROVE CInv'
  BY <1>2, <1>7 DEF Revoke
<1>. QED  BY <1>3, <1>4, <1>5, <1>6, <1>7 DEF Next

\* No request is under way at first, and no code is there.
LEMMA InitInOrder == Init => CInv
<1>. SUFFICES ASSUME Init PROVE CInv
  OBVIOUS
<1>1. OneCode
  BY DEF Init, OneCode
<1>2. \A r \in Request : Orderly(request[r])
  BY FreeIsOrderly DEF Init, Idle
<1>. QED  BY <1>1, <1>2, InitHolds DEF CInv

\* However their statements interleave, requests take their locks in one order (lockActiveUserTx
\* before the rows of a person, Service.Erase the advisory lock first), and the one pair that does
\* not - an erasure at the codes, an answer at the link - is kept apart by the lock on the person.
THEOREM NobodyWaitsInACircle == Spec => []NoCircle
BY InitInOrder, NextInOrder, OrderMakesNoCircle, PTL DEF Spec

================================================================================
