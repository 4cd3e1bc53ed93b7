------------------------------ MODULE Accounts ------------------------------
(***************************************************************************)
(* People and what belongs to them: their role, their credentials, the     *)
(* messenger accounts they linked and the codes they link them with        *)
(* (store.go, identity_store.go, erasure/service.go, api/auth.go).  Each   *)
(* request is a transaction of several statements.  A statement waits for  *)
(* the locks that other transactions hold on what it touches, sees what    *)
(* was committed when it runs, and keeps its own locks until its           *)
(* transaction ends; what it wrote is seen when that commits.              *)
(***************************************************************************)
EXTENDS Integers, FiniteSets

CONSTANTS
  Person,       \* ids of people, used or not yet used
  Account,      \* accounts of a messenger
  Code,         \* one-time codes and deep-link tokens
  Request,      \* requests that may be under way together
  MaxAttempts,  \* wrong entries after which a code is gone (ConfirmIdentityLink: 3)
  None

Roles == {"admin", "user"}

\* A pending code; account is None for a deep link, which learns it at /start.
Token == [code : Code, account : Account \cup {None}, attempts : 0..(MaxAttempts - 1), expired : BOOLEAN]

ASSUME AccountsAssumption ==
  /\ None \notin Person \cup Account \cup Code \cup Roles
  /\ None \notin Token
  /\ IsFiniteSet(Person)
  /\ MaxAttempts \in Nat \ {0}

VARIABLES
  person,   \* the row in users: "unused", "active" or "erased" (deleted_at)
  role,     \* its role, which an erasure leaves alone
  profile,  \* people whose row carries a name, an address, a password
  grants,   \* people with an API token or a membership
  link,     \* external_identities: for a provider and a person, the account
  token,    \* link_tokens: for a provider and a person, the pending code
  request   \* the requests under way

vars == <<person, role, profile, grants, link, token, request>>
people == <<person, role, profile, grants>>

Provider == {"slack", "telegram"}

Is(u, state) == person[u] = state
Admins == {u \in Person : Is(u, "active") /\ role[u] = "admin"}
OthersHold(p, a, u) == \E v \in Person \ {u} : link[p][v] = a
Holders(p, c) == {u \in Person : token[p][u] # None /\ token[p][u].code = c}

-----------------------------------------------------------------------------
(* Locks: an object, taken alone or shared.                                *)

Whole(o) == [on |-> o, shared |-> FALSE]
Shared(u) == [on |-> <<"person", u>>, shared |-> TRUE]
Clash(a, b) == a.on = b.on /\ ~(a.shared /\ b.shared)

\* The rows a DELETE or a SELECT ... FOR UPDATE finds, with the unique keys they
\* occupy.  A row not committed yet is not found, and not waited for.
LinkFound(p, u) ==
  IF link[p][u] = None THEN {}
  ELSE {Whole(<<"link", p, u>>), Whole(<<"account", p, link[p][u]>>)}
TokenFound(p, u) ==
  IF token[p][u] = None THEN {}
  ELSE {Whole(<<"token", p, u>>), Whole(<<"code", p, token[p][u].code>>)}

\* The keys an INSERT claims: a conflicting one that is not committed is waited for.
LinkClaimed(p, u, a) == LinkFound(p, u) \cup {Whole(<<"link", p, u>>), Whole(<<"account", p, a>>)}
TokenClaimed(p, u, c) == TokenFound(p, u) \cup {Whole(<<"token", p, u>>), Whole(<<"code", p, c>>)}

Idle ==
  [op |-> "none", step |-> "none", user |-> None, provider |-> None,
   account |-> None, code |-> None, role |-> None, locks |-> {}]

\* Mutant: a change of role locks the person first, and then the number of administrators.
LocksRoleFirst(q) ==
  IF q.step = (IF q.op = "role" THEN "person" ELSE "lifecycle") THEN {Whole(<<"lifecycle">>)}
  ELSE IF \/ q.step = "profile"
          \/ q.step = "person" /\ q.op = "erase"
          \/ q.step = "lifecycle" /\ q.op = "role"
  THEN {Whole(<<"person", q.user>>)}
  ELSE IF q.step \in {"person", "insert"} THEN {Shared(q.user)} ELSE {}

\* What the next statement of a request locks: the advisory lock, then a person ...
LocksPerson(q) ==
  IF q.step = "lifecycle" THEN {Whole(<<"lifecycle">>)}
  ELSE IF q.step = "profile" \/ (q.step = "person" /\ q.op \in {"erase", "role"})
  THEN {Whole(<<"person", q.user>>)}
  ELSE IF q.step \in {"person", "insert"} THEN {Shared(q.user)} ELSE {}

\* ... then what belongs to them.
LocksRows(q) ==
  CASE q.step = "insert" /\ q.op = "issue" -> TokenClaimed(q.provider, q.user, q.code)
    [] q.step = "insert" /\ q.op = "bind" -> LinkClaimed(q.provider, q.user, q.account)
    [] q.step = "token" /\ q.op = "confirm" -> TokenFound(q.provider, q.user)
    [] q.step = "token" /\ q.op = "consume" ->
         UNION {TokenFound(q.provider, u) : u \in Holders(q.provider, q.code)}
    [] q.step = "write" -> LinkClaimed(q.provider, q.user, q.account)
    [] q.step = "links" -> UNION {LinkFound(p, q.user) : p \in Provider}
    [] q.step = "tokens" -> UNION {TokenFound(p, q.user) : p \in Provider}
    [] OTHER -> {}

Needs(q) == LocksPerson(q) \cup LocksRows(q)

WaitsFor(r) ==
  {s \in Request \ {r} : \E n \in Needs(request[r]), h \in request[s].locks : Clash(n, h)}

Turn(r, op, step) == request[r].op \in op /\ request[r].step = step /\ WaitsFor(r) = {}

\* A request begins with q, goes on to a step with the locks it took, or is over.
Begin(r, q) == request[r] = Idle /\ request' = [request EXCEPT ![r] = q]
Onward(q, step) == [q EXCEPT !.step = step, !.locks = @ \cup Needs(q)]
GoOn(r, step) == request' = [request EXCEPT ![r] = Onward(request[r], step)]
End(r) == request' = [request EXCEPT ![r] = Idle]

-----------------------------------------------------------------------------
(* A new person (CreateUser).                                              *)

BeginCreate(r, u, wanted) ==
  /\ Is(u, "unused")
  /\ Begin(r, [Idle EXCEPT !.op = "create", !.step = "count", !.user = u, !.role = wanted])
  /\ UNCHANGED <<people, link, token>>

\* The first one is an administrator; the count takes in the erased.
CountAll(r) ==
  LET q == request[r]
      first == ~\E u \in Person : ~Is(u, "unused") /\ role[u] = "admin"
  IN
  /\ Turn(r, {"create"}, "count")
  /\ request' = [request EXCEPT ![r] =
       [q EXCEPT !.step = "create", !.role = IF first THEN "admin" ELSE q.role]]
  /\ UNCHANGED <<people, link, token>>

CreateUser(r) ==
  LET u == request[r].user IN
  /\ Turn(r, {"create"}, "create")
  /\ IF Is(u, "unused")
     THEN /\ person' = [person EXCEPT ![u] = "active"]
          /\ role' = [role EXCEPT ![u] = request[r].role]
          /\ profile' = profile \cup {u}
     ELSE UNCHANGED <<person, role, profile>>
  /\ End(r)
  /\ UNCHANGED <<grants, link, token>>

-----------------------------------------------------------------------------
(* Another role, and another name, address, password or way of signing in  *)
(* (api.go UpdateUser; SetUserRole; UpdateUser, UpdateUserPassword,        *)
(* UpdateUserAuthProvider).  The caller has read the person as active.     *)

BeginRole(r, u, wanted) ==
  /\ Is(u, "active")
  /\ Begin(r, [Idle EXCEPT !.op = "role", !.step = "lifecycle", !.user = u, !.role = wanted])
  /\ UNCHANGED <<people, link, token>>

BeginProfile(r, u) ==
  /\ Is(u, "active")
  /\ Begin(r, [Idle EXCEPT !.op = "profile", !.step = "profile", !.user = u])
  /\ UNCHANGED <<people, link, token>>

\* pg_advisory_xact_lock
LockAdminLifecycle(r) ==
  /\ Turn(r, {"erase", "role"}, "lifecycle")
  /\ GoOn(r, "person")
  /\ UNCHANGED <<people, link, token>>

\* A person who is not active is not found, or was erased already.
LockUser(r) ==
  /\ Turn(r, {"erase", "role"}, "person")
  /\ IF Is(request[r].user, "active") THEN GoOn(r, "guard") ELSE End(r)
  /\ UNCHANGED <<people, link, token>>

\* Mutant: erased administrators are counted as well.
guardLastAdminOfAll(r) ==
  LET q == request[r] IN
  /\ Turn(r, {"erase", "role"}, "guard")
  /\ IF /\ role[q.user] = "admin" /\ q.role # "admin"
        /\ Cardinality({u \in Person : ~Is(u, "unused") /\ role[u] = "admin"}) <= 1
     THEN End(r)
     ELSE GoOn(r, IF q.op = "erase" THEN "links" ELSE "assign")
  /\ UNCHANGED <<people, link, token>>

\* An administrator who is the last one is neither demoted nor erased.
guardLastAdmin(r) ==
  LET q == request[r] IN
  /\ Turn(r, {"erase", "role"}, "guard")
  /\ IF role[q.user] = "admin" /\ q.role # "admin" /\ Cardinality(Admins) <= 1
     THEN End(r)
     ELSE GoOn(r, IF q.op = "erase" THEN "links" ELSE "assign")
  /\ UNCHANGED <<people, link, token>>

\* The handler writes the profile next, in a transaction of its own.
SetUserRole(r) ==
  LET q == request[r] IN
  /\ Turn(r, {"role"}, "assign")
  /\ role' = [role EXCEPT ![q.user] = q.role]
  /\ request' = [request EXCEPT ![r] = [Idle EXCEPT !.op = "profile", !.step = "profile", !.user = q.user]]
  /\ UNCHANGED <<person, profile, grants, link, token>>

UpdateUser(r) ==
  /\ Turn(r, {"profile"}, "profile")
  /\ profile' = IF Is(request[r].user, "active") THEN profile \cup {request[r].user} ELSE profile
  /\ End(r)
  /\ UNCHANGED <<person, role, grants, link, token>>

-----------------------------------------------------------------------------
(* An erasure (erasure/service.go Erase).  That nobody on duty is erased,  *)
(* and what becomes of words, of phones and of messages owed, is in Duty,  *)
(* Phone and Intake.                                                       *)

BeginErase(r, u) ==
  /\ ~Is(u, "unused")
  /\ Begin(r, [Idle EXCEPT !.op = "erase", !.step = "lifecycle", !.user = u])
  /\ UNCHANGED <<people, link, token>>

\* DeleteUserExternalIdentities, then DeleteUserLinkTokens: the rows they find.
SweepLinks(r) ==
  /\ Turn(r, {"erase"}, "links")
  /\ GoOn(r, "tokens")
  /\ UNCHANGED <<people, link, token>>

SweepTokens(r) ==
  /\ Turn(r, {"erase"}, "tokens")
  /\ GoOn(r, "erase")
  /\ UNCHANGED <<people, link, token>>

Erase(r) ==
  LET q == request[r]
      Swept(kind, p) == Whole(<<kind, p, q.user>>) \in q.locks
  IN
  /\ Turn(r, {"erase"}, "erase")
  /\ person' = [person EXCEPT ![q.user] = "erased"]
  /\ profile' = profile \ {q.user}
  /\ grants' = grants \ {q.user}
  /\ link' = [p \in Provider |-> IF Swept("link", p) THEN [link[p] EXCEPT ![q.user] = None] ELSE link[p]]
  /\ token' = [p \in Provider |-> IF Swept("token", p) THEN [token[p] EXCEPT ![q.user] = None] ELSE token[p]]
  /\ End(r)
  /\ UNCHANGED role

-----------------------------------------------------------------------------
(* What a person is given: a credential or a membership (CreateAPIToken,   *)
(* AddTeamMember), a code to link an account with (RequestSlackCode,       *)
(* RequestTelegramLink: IssueLinkToken), or the account of the same        *)
(* address (resolveSlackUser, tryLinkSlackUser:                            *)
(* BindExternalIdentityIfAbsent).  The caller has read the person as       *)
(* active; the INSERT asks again, under a shared lock on them.             *)

BeginGrant(r, u) ==
  /\ Is(u, "active")
  /\ Begin(r, [Idle EXCEPT !.op = "grant", !.step = "insert", !.user = u])
  /\ UNCHANGED <<people, link, token>>

RequestSlackCode(r, u, a, c) ==
  /\ Is(u, "active")
  /\ \A v \in Person \ {u} : Is(v, "active") => link["slack"][v] # a
  /\ Begin(r, [Idle EXCEPT !.op = "issue", !.step = "insert", !.user = u, !.provider = "slack",
                           !.account = a, !.code = c])
  /\ UNCHANGED <<people, link, token>>

RequestTelegramLink(r, u, c) ==
  /\ Is(u, "active")
  /\ link["telegram"][u] = None
  /\ Begin(r, [Idle EXCEPT !.op = "issue", !.step = "insert", !.user = u, !.provider = "telegram", !.code = c])
  /\ UNCHANGED <<people, link, token>>

resolveSlackUser(r, u, a) ==
  /\ Is(u, "active")
  /\ Begin(r, [Idle EXCEPT !.op = "bind", !.step = "insert", !.user = u, !.provider = "slack", !.account = a])
  /\ UNCHANGED <<people, link, token>>

\* A code somebody else has, a link that is there already or an account somebody
\* else linked is a conflict, and nothing is written.
Fits(q) ==
  CASE q.op = "grant" -> TRUE
    [] q.op = "issue" -> Holders(q.provider, q.code) \subseteq {q.user}
    [] q.op = "bind" -> link[q.provider][q.user] = None /\ ~OthersHold(q.provider, q.account, q.user)

Insert(r) ==
  LET q == request[r] IN
  /\ Turn(r, {"grant", "issue", "bind"}, "insert")
  /\ IF Is(q.user, "active") /\ Fits(q) THEN GoOn(r, "commit") ELSE End(r)
  /\ UNCHANGED <<people, link, token>>

Commit(r) ==
  LET q == request[r]
      row == [code |-> q.code, account |-> q.account, attempts |-> 0, expired |-> FALSE]
  IN
  /\ Turn(r, {"grant", "issue", "bind"}, "commit")
  /\ grants' = IF q.op = "grant" THEN grants \cup {q.user} ELSE grants
  /\ token' = IF q.op = "issue" THEN [token EXCEPT ![q.provider][q.user] = row] ELSE token
  /\ link' = IF q.op = "bind" THEN [link EXCEPT ![q.provider][q.user] = q.account] ELSE link
  /\ End(r)
  /\ UNCHANGED <<person, role, profile>>

-----------------------------------------------------------------------------
(* The code typed into the console (ConfirmSlackCode: ConfirmIdentityLink) *)
(* and the link opened in the messenger (handleTelegramStart:              *)
(* ConsumeLinkToken), where nobody is signed in.                           *)

\* The entry is a code, or something that is none.
BeginConfirm(r, u, c) ==
  /\ Is(u, "active")
  /\ Begin(r, [Idle EXCEPT !.op = "confirm", !.step = "person", !.user = u, !.provider = "slack", !.code = c])
  /\ UNCHANGED <<people, link, token>>

\* Whose token it is, read without a lock; no row, no link.
BeginConsume(r, a, c) ==
  /\ \E u \in Holders("telegram", c) :
       Begin(r, [Idle EXCEPT !.op = "consume", !.step = "person", !.user = u, !.provider = "telegram",
                             !.account = a, !.code = c])
  /\ UNCHANGED <<people, link, token>>

lockActiveUserTx(r) ==
  /\ Turn(r, {"confirm", "consume"}, "person")
  /\ IF Is(request[r].user, "active") THEN GoOn(r, "token") ELSE End(r)
  /\ UNCHANGED <<people, link, token>>

\* Is there a code this person can still answer, or this link still opens?
Open(q) ==
  /\ token[q.provider][q.user] # None /\ ~token[q.provider][q.user].expired
  /\ q.op = "consume" => q.user \in Holders(q.provider, q.code)

\* There is none; one that is over is removed.
NoCode(r) ==
  LET q == request[r]
      row == token[q.provider][q.user]
  IN
  /\ Turn(r, {"confirm", "consume"}, "token")
  /\ ~Open(q)
  /\ token' = IF row # None /\ (q.op = "confirm" \/ row.code = q.code)
              THEN [token EXCEPT ![q.provider][q.user] = None] ELSE token
  /\ End(r)
  /\ UNCHANGED <<people, link>>

\* A wrong entry is counted, and the last one allowed removes the code.
WrongCode(r) ==
  LET q == request[r]
      row == token[q.provider][q.user]
  IN
  /\ Turn(r, {"confirm"}, "token")
  /\ Open(q) /\ row.code # q.code
  /\ token' = [token EXCEPT ![q.provider][q.user] =
       IF row.attempts + 1 >= MaxAttempts THEN None ELSE [row EXCEPT !.attempts = @ + 1]]
  /\ End(r)
  /\ UNCHANGED <<people, link>>

\* Mutant: the row read again under its lock may be anybody's by now.
RightCodeOfAnybody(r) ==
  LET q == request[r] IN
  /\ Turn(r, {"confirm", "consume"}, "token")
  /\ \E u \in Holders(q.provider, q.code) :
       /\ q.op = "confirm" => u = q.user
       /\ ~token[q.provider][u].expired
       /\ request' = [request EXCEPT ![r] =
            [Onward(q, "write") EXCEPT !.user = u,
               !.account = IF q.op = "confirm" THEN token[q.provider][u].account ELSE q.account]]
  /\ UNCHANGED <<people, link, token>>

\* The row is this person's, also when it is read again under its lock.
RightCode(r) ==
  LET q == request[r]
      row == token[q.provider][q.user]
  IN
  /\ Turn(r, {"confirm", "consume"}, "token")
  /\ Open(q) /\ row.code = q.code
  /\ request' = [request EXCEPT ![r] =
       [Onward(q, "write") EXCEPT !.account = IF q.op = "confirm" THEN row.account ELSE q.account]]
  /\ UNCHANGED <<people, link, token>>

\* An account somebody else linked is left to them, and the code stays.
Bind(r) ==
  LET q == request[r] IN
  /\ Turn(r, {"confirm", "consume"}, "write")
  /\ IF OthersHold(q.provider, q.account, q.user)
     THEN UNCHANGED <<link, token>>
     ELSE /\ link' = [link EXCEPT ![q.provider][q.user] = q.account]
          /\ token' = [token EXCEPT ![q.provider][q.user] = None]
  /\ End(r)
  /\ UNCHANGED people

-----------------------------------------------------------------------------
(* One statement each: an unlink, a credential or a membership taken back; *)
(* time; and a request that fails or whose process dies, whose             *)
(* transaction leaves nothing.                                             *)

UnbindExternalIdentity(p, u) ==
  /\ link[p][u] # None
  /\ \A s \in Request : \A n \in LinkFound(p, u), h \in request[s].locks : ~Clash(n, h)
  /\ link' = [link EXCEPT ![p][u] = None]
  /\ UNCHANGED <<people, token, request>>

Revoke(u) ==
  /\ u \in grants
  /\ grants' = grants \ {u}
  /\ UNCHANGED <<person, role, profile, link, token, request>>

Expire(p, u) ==
  /\ token[p][u] # None /\ ~token[p][u].expired
  /\ token' = [token EXCEPT ![p][u].expired = TRUE]
  /\ UNCHANGED <<people, link, request>>

Rollback(r) ==
  /\ request[r] # Idle
  /\ End(r)
  /\ UNCHANGED <<people, link, token>>

-----------------------------------------------------------------------------

Init ==
  /\ person = [u \in Person |-> "unused"]
  /\ role = [u \in Person |-> "user"]
  /\ profile = {}
  /\ grants = {}
  /\ link = [p \in Provider |-> [u \in Person |-> None]]
  /\ token = [p \in Provider |-> [u \in Person |-> None]]
  /\ request = [r \in Request |-> Idle]

Begins(r) ==
  \/ \E u \in Person, wanted \in Roles : BeginCreate(r, u, wanted) \/ BeginRole(r, u, wanted)
  \/ \E u \in Person : BeginProfile(r, u) \/ BeginErase(r, u) \/ BeginGrant(r, u)
  \/ \E u \in Person, a \in Account : resolveSlackUser(r, u, a)
  \/ \E u \in Person, a \in Account, c \in Code : RequestSlackCode(r, u, a, c)
  \/ \E u \in Person, c \in Code : RequestTelegramLink(r, u, c)
  \/ \E u \in Person, c \in Code \cup {None} : BeginConfirm(r, u, c)
  \/ \E a \in Account, c \in Code : BeginConsume(r, a, c)

Steps(r) ==
  \/ CountAll(r) \/ CreateUser(r)
  \/ LockAdminLifecycle(r) \/ LockUser(r) \/ guardLastAdmin(r)
  \/ SetUserRole(r) \/ UpdateUser(r)
  \/ SweepLinks(r) \/ SweepTokens(r) \/ Erase(r)
  \/ Insert(r) \/ Commit(r)
  \/ lockActiveUserTx(r) \/ NoCode(r) \/ WrongCode(r) \/ RightCode(r) \/ Bind(r)
  \/ Rollback(r)

Next ==
  \/ \E r \in Request : Begins(r) \/ Steps(r)
  \/ \E p \in Provider, u \in Person : UnbindExternalIdentity(p, u) \/ Expire(p, u)
  \/ \E u \in Person : Revoke(u)

Spec == Init /\ [][Next]_vars

-----------------------------------------------------------------------------

TypeOK ==
  /\ person \in [Person -> {"unused", "active", "erased"}]
  /\ role \in [Person -> Roles]
  /\ profile \subseteq Person
  /\ grants \subseteq Person
  /\ link \in [Provider -> [Person -> Account \cup {None}]]
  /\ token \in [Provider -> [Person -> Token \cup {None}]]
  /\ \A r \in Request : request[r].user \in Person \cup {None}

\* An erasure is final (store.go activeUserCTE, UpdateUser; ConsumeLinkToken): whatever
\* was under way when a person was erased, nothing is left of them or given back to them
\* - no name or address, no credential or membership, no linked account, no pending code.
ErasedOwnNothing ==
  \A u \in Person : Is(u, "erased") =>
    /\ u \notin profile \cup grants
    /\ \A p \in Provider : link[p][u] = None /\ token[p][u] = None

\* As long as anybody is active, one of them is an administrator (SetUserRole,
\* guardLastAdmin, the bootstrap rule of CreateUser).
AnAdministratorRemains == (\E u \in Person : Is(u, "active")) => Admins # {}

\* No requests wait for each other in a circle (lockActiveUserTx: people before the rows
\* that belong to them; erasure: the advisory lock, people, the rest).
NoCircle == \A some \in (SUBSET Request) \ {{}} : \E r \in some : WaitsFor(r) \cap some = {}

=============================================================================
