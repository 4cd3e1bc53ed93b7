-------------------------- MODULE Integrations_proofs --------------------------
(***************************************************************************)
(* What follows the row of an integration, for any ids, tokens, instances, *)
(* requests and payloads and any deployment: the buttons of the cards, the *)
(* declared silence, and the tokens whose updates come here.               *)
(***************************************************************************)
EXTENDS Integrations, TLAPS

------------------------------------------------------------------------------
(* The shape of the state, and whom it may name.                           *)

RowOK(row) ==
  /\ DOMAIN row = {"state", "on", "token", "buttons", "silence"}
  /\ row.state \in {"unused", "here", "gone"}
  /\ row.on \in BOOLEAN /\ row.buttons \in BOOLEAN
  /\ row.on => row.state = "here"

\* An id that was given out: it never becomes unused again.
Known(id) == id \in Id /\ rows[id].state # "unused"

\* Of the outbound types there is one integration at most.
OneRow == type # "alertmanager" => \A i, j \in Here : i = j

RowsOK == DOMAIN rows = Id /\ (\A i \in Id : RowOK(rows[i])) /\ OneRow

GroupOK(g, group) ==
  /\ DOMAIN group = {"open", "card", "drawn", "final", "plan", "silence", "intake"}
  /\ group.card \in {"none", "live", "stuck"}
  /\ group.open \in BOOLEAN /\ group.drawn \in BOOLEAN /\ group.final \in BOOLEAN
  /\ group.open => ~group.final
  /\ group.final => group.card # "none"
  /\ group.card # "none" \/ group.plan # "none" => g \in deployment.incidents /\ type # "alertmanager"
  /\ group.intake = None \/ Known(group.intake)

GroupsOK == DOMAIN groups = Incident /\ \A g \in Incident : GroupOK(g, groups[g])

InstanceOK(x) ==
  /\ DOMAIN x = {"cache", "reading", "read", "syncer"}
  /\ \A e \in x.cache \cup x.read : Known(e.id)

InstancesOK == DOMAIN instances = Instance /\ \A i \in Instance : InstanceOK(instances[i])

\* Where a request or a start is, what it holds, and of which integration.
ActorOK(a, x) ==
  /\ DOMAIN x = {"pc", "at", "op", "id", "tokens", "keep", "todo", "owes", "saw", "read"}
  /\ RowOK(x.saw)
  /\ x.id = None \/ Known(x.id)
  /\ \A e \in x.read : Known(e.id)
  /\ x.pc \in {"scan", "test"} => a \in Request
  /\ x.id = None \/ x.pc \in {"idle", "down", "starting", "test"} =>
       x.tokens = {} /\ x.pc # "calling" /\ x.op # "create"
  /\ type = "telegram" => x.op # "test" /\ x.pc \notin {"test", "syncer"}

ActorsOK == DOMAIN actors = Actor /\ \A a \in Actor : ActorOK(a, actors[a])

PayloadOK(x) ==
  /\ DOMAIN x = {"pc", "at", "token", "id", "silence"}
  /\ x.pc # "idle" => Known(x.id) /\ type = "alertmanager"

PayloadsOK == DOMAIN payloads = Payload /\ \A p \in Payload : PayloadOK(payloads[p])

LeftOK == DOMAIN left = {"cards", "tokens", "silence"}

Shapes == RowsOK /\ GroupsOK /\ InstancesOK /\ ActorsOK /\ PayloadsOK /\ LeftOK

------------------------------------------------------------------------------
(* The cards.                                                              *)

\* Who will redraw a card: one who is to look for it, or has it on the list and owes
\* it, or a start that owes it and read the switch as it still is.
Covers(x, g) ==
  \/ x.pc = "scan"
  \/ x.pc = "raise" /\ g \in x.todo /\ g \in x.owes
  \/ x.pc = "starting" /\ g \in x.owes /\ x.saw.buttons = ButtonsOn

Behind(g) == groups[g].card # "none" /\ ~groups[g].final /\ groups[g].drawn # ButtonsOn

\* A card that is behind, failed or not, is left to the next start or somebody's.
CardsHeld ==
  \A g \in Incident : Behind(g) => g \in left.cards \/ \E a \in Actor : Covers(actors[a], g)

------------------------------------------------------------------------------
(* The webhook.                                                            *)

Own(id, t) == rows[id].on /\ rows[id].token = t

\* The tokens whose registration an actor is about to put right.
Pending(x) ==
  x.tokens \cup (CASE x.pc = "calling" -> {x.keep}
                   [] x.pc # "calling" /\ x.op = "create" /\ rows[x.id].on -> {rows[x.id].token}
                   [] OTHER -> {})

TokensHeld ==
  \A t \in Token : \/ t \in hooks <=> Current(t)
                   \/ t \in left.tokens
                   \/ \E a \in Actor : t \in Pending(actors[a])

\* The calls under way are what the row still asks for, or whoever changed it since
\* waits for their end, or is dead.
CallRight(a, t) ==
  \/ t = actors[a].keep <=> Own(actors[a].id, t)
  \/ \E b \in Actor \ {a} : actors[b].id = actors[a].id /\ t \in actors[b].tokens
  \/ t \in left.tokens

CallsHeld ==
  \A a \in Actor : actors[a].pc = "calling" =>
    \A t \in Token : t \in actors[a].tokens \cup {actors[a].keep} => CallRight(a, t)

OneCaller ==
  \A a, b \in Actor : actors[a].pc = "calling" /\ actors[b].pc = "calling"
                      /\ actors[a].id = actors[b].id => a = b

HooksHeld == type = "telegram" => TokensHeld /\ CallsHeld /\ OneCaller

IntegrationsInv == Shapes /\ CardsHeld /\ SilenceAsDeclared /\ HooksHeld

------------------------------------------------------------------------------
(* Lemmas about shapes.                                                    *)

\* A deployment is of one type, which no step changes.
LEMMA SameType == ASSUME UNCHANGED deployment PROVE type' = type
  BY DEF type

\* What may be written to the table.
LEMMA ConfigIsRow ==
  ASSUME NEW config \in Config
  PROVE  RowOK(config) /\ config.state = "here" /\ (type = "alertmanager" => ~config.buttons)
  BY DEF Config, RowOK

\* A row that never was, or is no more.
LEMMA AbsentIsRow ==
  ASSUME NEW state \in {"unused", "gone"}
  PROVE  RowOK(Absent(state)) /\ Absent(state).state = state /\ ~Absent(state).on
         /\ Absent(state).silence = 0
  BY DEF Absent, RowOK

\* An actor with nothing to do.
LEMMA IdleIsActor ==
  ASSUME NEW a
  PROVE  /\ ActorOK(a, Idle) /\ Idle.pc = "idle" /\ Idle.tokens = {} /\ Idle.op = "none"
         /\ Idle.id = None /\ Idle.owes = {}
         /\ DOMAIN Idle = {"pc", "at", "op", "id", "tokens", "keep", "todo", "owes", "saw", "read"}
         /\ Idle.saw = Absent("unused") /\ Idle.read = {}
  <1>1. RowOK(Absent("unused"))
    BY AbsentIsRow
  <1> QED BY <1>1 DEF ActorOK, Idle

\* What a load finds is in the table.
LEMMA FoundIsKnown ==
  ASSUME RowsOK, NEW e \in Found
  PROVE  Known(e.id)
  BY DEF Found, Enabled, Here, Known

\* One row rewritten by one that is in use: nobody known is forgotten.
LEMMA RowWritten ==
  ASSUME RowsOK, NEW id \in Id, NEW after, rows' = [rows EXCEPT ![id] = after], RowOK(after),
         UNCHANGED deployment, after.state \in {"here", "gone"},
         type # "alertmanager" /\ after.state = "here" => Here \subseteq {id}
  PROVE  /\ RowsOK' /\ rows'[id] = after /\ \A i \in Id \ {id} : rows'[i] = rows[i]
         /\ \A i : Known(i) => Known(i)'
         /\ Known(id)'
  <1>1. /\ DOMAIN rows' = Id /\ rows'[id] = after /\ \A i \in Id \ {id} : rows'[i] = rows[i]
    BY DEF RowsOK
  <1>2. \A i \in Id : RowOK(rows'[i])
    BY <1>1 DEF RowsOK
  <1>3. type' = type
    BY SameType
  <1>4. OneRow'
    <2> SUFFICES ASSUME type # "alertmanager", NEW i \in Here', NEW j \in Here' PROVE i = j
      BY <1>3 DEF OneRow
    <2>1. CASE after.state = "here"
      BY <1>1, <2>1 DEF Here
    <2>2. CASE after.state = "gone"
      BY <1>1, <2>2 DEF Here, RowsOK, OneRow
    <2> QED BY <2>1, <2>2
  <1>5. \A i : Known(i) => Known(i)'
    BY <1>1 DEF Known
  <1>6. Known(id)'
    BY <1>1 DEF Known
  <1> QED BY <1>1, <1>2, <1>4, <1>5, <1>6 DEF RowsOK

\* The same table knows the same ids.
LEMMA RowsStay ==
  ASSUME RowsOK, UNCHANGED <<deployment, rows>>
  PROVE  RowsOK' /\ \A i : Known(i) => Known(i)'
  BY DEF RowsOK, OneRow, Here, Known, type

\* What stays as it was names whom it may name.
LEMMA OthersStay ==
  ASSUME UNCHANGED deployment, \A i : Known(i) => Known(i)'
  PROVE  /\ GroupsOK /\ UNCHANGED groups => GroupsOK'
         /\ InstancesOK /\ UNCHANGED instances => InstancesOK'
         /\ ActorsOK /\ UNCHANGED actors => ActorsOK'
         /\ PayloadsOK /\ UNCHANGED payloads => PayloadsOK'
         /\ LeftOK /\ UNCHANGED left => LeftOK'
         /\ \A g, x : GroupOK(g, x) => GroupOK(g, x)'
         /\ \A a, x : ActorOK(a, x) => ActorOK(a, x)'
         /\ \A x : InstanceOK(x) => InstanceOK(x)'
         /\ \A x : PayloadOK(x) => PayloadOK(x)'
  <1>1. type' = type
    BY SameType
  <1>2. \A g, x : GroupOK(g, x) => GroupOK(g, x)'
    BY <1>1 DEF GroupOK
  <1>3. \A a, x : ActorOK(a, x) => ActorOK(a, x)'
    BY <1>1 DEF ActorOK
  <1>4. \A x : InstanceOK(x) => InstanceOK(x)'
    BY DEF InstanceOK
  <1>5. \A x : PayloadOK(x) => PayloadOK(x)'
    BY <1>1 DEF PayloadOK
  <1>6. LeftOK /\ UNCHANGED left => LeftOK'
    BY DEF LeftOK
  <1>7. GroupsOK /\ UNCHANGED groups => GroupsOK'
    BY <1>2 DEF GroupsOK
  <1>8. InstancesOK /\ UNCHANGED instances => InstancesOK'
    BY <1>4 DEF InstancesOK
  <1>9. ActorsOK /\ UNCHANGED actors => ActorsOK'
    BY <1>3 DEF ActorsOK
  <1>10. PayloadsOK /\ UNCHANGED payloads => PayloadsOK'
    BY <1>5 DEF PayloadsOK
  <1> QED BY <1>2, <1>3, <1>4, <1>5, <1>6, <1>7, <1>8, <1>9, <1>10

\* A step after which one actor is x.
Turns(a, x) ==
  DOMAIN actors' = Actor /\ actors'[a] = x /\ \A b \in Actor \ {a} : actors'[b] = actors[b]

\* One actor goes on.
LEMMA ActorSet ==
  ASSUME ActorsOK, UNCHANGED deployment, \A i : Known(i) => Known(i)',
         NEW a \in Actor, NEW x, Turns(a, x), ActorOK(a, x)'
  PROVE  ActorsOK'
  <1>1. DOMAIN actors' = Actor /\ actors'[a] = x /\ \A b \in Actor \ {a} : actors'[b] = actors[b]
    BY DEF Turns
  <1>2. \A b \in Actor \ {a} : ActorOK(b, actors[b])'
    <2> SUFFICES ASSUME NEW b \in Actor \ {a} PROVE ActorOK(b, actors[b])'
      OBVIOUS
    <2>1. PICK y : y = actors[b]
      OBVIOUS
    <2>2. ActorOK(b, y)'
      BY <2>1, OthersStay DEF ActorsOK
    <2>3. actors'[b] = y
      BY <1>1, <2>1
    <2> QED BY <2>2, <2>3
  <1>3. ActorOK(a, actors[a])'
    BY <1>1
  <1> QED BY <1>1, <1>2, <1>3 DEF ActorsOK

\* One alert group moves.
LEMMA GroupSet ==
  ASSUME GroupsOK, UNCHANGED <<deployment, rows>>, NEW g \in Incident, NEW x,
         groups' = [groups EXCEPT ![g] = x], GroupOK(g, x)
  PROVE  /\ GroupsOK' /\ groups'[g] = x /\ \A h \in Incident \ {g} : groups'[h] = groups[h]
  <1>1. DOMAIN groups' = Incident /\ groups'[g] = x /\ \A h \in Incident \ {g} : groups'[h] = groups[h]
    BY DEF GroupsOK
  <1>2. \A h, y : GroupOK(h, y) => GroupOK(h, y)'
    BY DEF GroupOK, Known, type
  <1>3. \A h \in Incident : GroupOK(h, groups'[h])
    BY <1>1 DEF GroupsOK
  <1>4. \A h \in Incident : GroupOK(h, groups[h])'
    BY <1>1, <1>3 DEF GroupOK, Known, type
  <1> QED BY <1>1, <1>4 DEF GroupsOK

\* One instance remembers something else.
LEMMA InstanceSet ==
  ASSUME InstancesOK, UNCHANGED <<deployment, rows>>, NEW i \in Instance, NEW x,
         instances' = [instances EXCEPT ![i] = x], InstanceOK(x)
  PROVE  InstancesOK'
  <1>1. DOMAIN instances' = Instance /\ \A j \in Instance : InstanceOK(instances'[j])
    BY DEF InstancesOK
  <1> QED BY <1>1 DEF InstancesOK, InstanceOK, Known

\* One payload is a step further.
LEMMA PayloadSet ==
  ASSUME PayloadsOK, UNCHANGED <<deployment, rows>>, NEW p \in Payload, NEW x,
         payloads' = [payloads EXCEPT ![p] = x], PayloadOK(x)
  PROVE  PayloadsOK'
  <1>1. DOMAIN payloads' = Payload /\ \A q \in Payload : PayloadOK(payloads'[q])
    BY DEF PayloadsOK
  <1> QED BY <1>1 DEF PayloadsOK, PayloadOK, Known, type

------------------------------------------------------------------------------
(* What stays true where nothing it is about is touched.                    *)

\* Where neither rows, cards nor actors move, every card that is behind stays somebody's.
LEMMA CardsStay ==
  ASSUME CardsHeld, UNCHANGED <<deployment, rows, groups, actors>>, left.cards \subseteq left'.cards
  PROVE  CardsHeld'
  <1>1. ButtonsOn' = ButtonsOn
    BY DEF ButtonsOn, Enabled, Here, type
  <1>2. \A g \in Incident : Behind(g)' => Behind(g)
    BY <1>1 DEF Behind
  <1>3. \A x, g : Covers(x, g) => Covers(x, g)'
    BY <1>1 DEF Covers
  <1>4. ASSUME NEW g \in Incident, Behind(g)'
        PROVE  g \in left'.cards \/ \E a \in Actor : Covers(actors[a], g)'
    <2>1. CASE g \in left.cards
      BY <2>1
    <2>2. CASE \E a \in Actor : Covers(actors[a], g)
      <3>1. PICK a \in Actor : Covers(actors[a], g)
        BY <2>2
      <3>2. PICK x : x = actors[a]
        OBVIOUS
      <3>3. Covers(x, g)'
        BY <1>3, <3>1, <3>2
      <3>4. Covers(actors[a], g)'
        BY <3>2, <3>3
      <3> QED BY <3>4
    <2> QED BY <1>2, <1>4, <2>1, <2>2 DEF CardsHeld
  <1> QED BY <1>4 DEF CardsHeld

\* Where neither rows nor incidents move, the declared silence stands as it did.
LEMMA SilenceStays ==
  ASSUME SilenceAsDeclared, UNCHANGED <<rows, groups>>, left'.silence = left.silence
  PROVE  SilenceAsDeclared'
  BY DEF SilenceAsDeclared, Declared

\* The part of an actor that the webhook is about.
SameCaller(x, y) ==
  /\ x.pc = "calling" <=> y.pc = "calling"
  /\ x.tokens = y.tokens /\ x.id = y.id /\ x.op = y.op /\ x.keep = y.keep

\* Where nobody's part in the webhook changes, the tokens stay as right as they were.
LEMMA HooksStay ==
  ASSUME HooksHeld, UNCHANGED <<deployment, rows, hooks>>, left'.tokens = left.tokens,
         \A a \in Actor : SameCaller(actors'[a], actors[a])
  PROVE  HooksHeld'
  <1> SUFFICES ASSUME type = "telegram" PROVE TokensHeld' /\ CallsHeld' /\ OneCaller'
    BY DEF HooksHeld, type
  <1>0. TokensHeld /\ CallsHeld /\ OneCaller
    BY DEF HooksHeld
  <1>1. \A t : Current(t)' = Current(t)
    BY DEF Current, Enabled, Here
  <1>2. \A a \in Actor : Pending(actors[a])' = Pending(actors[a])
    BY DEF Pending, SameCaller
  <1>3. TokensHeld'
    BY <1>0, <1>1, <1>2 DEF TokensHeld
  <1>4. \A id, t : Own(id, t)' = Own(id, t)
    BY DEF Own
  <1>5. \A a \in Actor, t \in Token : CallRight(a, t) => CallRight(a, t)'
    BY <1>4 DEF CallRight, SameCaller
  <1>6. CallsHeld'
    BY <1>0, <1>5 DEF CallsHeld, SameCaller
  <1>7. OneCaller'
    BY <1>0 DEF OneCaller, SameCaller
  <1> QED BY <1>3, <1>6, <1>7

\* Nothing but what instances and payloads hold, or what Slack holds, is touched.
LEMMA AsideHolds ==
  ASSUME IntegrationsInv, UNCHANGED <<deployment, rows, groups, actors, hooks, left>>,
         InstancesOK', PayloadsOK'
  PROVE  IntegrationsInv'
  <1>1. Shapes /\ CardsHeld /\ SilenceAsDeclared /\ HooksHeld
    BY DEF IntegrationsInv
  <1>2. RowsOK' /\ \A i : Known(i) => Known(i)'
    BY <1>1, RowsStay DEF Shapes
  <1>3. Shapes'
    BY <1>1, <1>2, OthersStay DEF Shapes
  <1>4. CardsHeld'
    BY <1>1, CardsStay
  <1>5. SilenceAsDeclared'
    BY <1>1, SilenceStays
  <1>6. HooksHeld'
    BY <1>1, HooksStay DEF SameCaller
  <1> QED BY <1>3, <1>4, <1>5, <1>6 DEF IntegrationsInv

------------------------------------------------------------------------------
(* An actor goes on, and nothing else does.                                 *)

\* What an actor may not lose when it goes on, being in no call before or after.
GoesOn(a, x) ==
  /\ actors[a].pc # "calling" /\ x.pc # "calling"
  /\ x.tokens = actors[a].tokens
  /\ x.id = actors[a].id \/ x.tokens = {}
  /\ actors[a].op = "create" => x.op = "create" /\ x.id = actors[a].id

\* The cards an actor was to redraw are still somebody's.
LEMMA CardsGoOn ==
  ASSUME CardsHeld, UNCHANGED <<deployment, rows, groups>>, NEW a \in Actor, NEW x, Turns(a, x),
         \A g \in Incident : Behind(g) /\ (g \in left.cards \/ Covers(actors[a], g)) =>
                               g \in left'.cards \/ Covers(x, g)
  PROVE  CardsHeld'
  <1> USE DEF Turns
  <1>1. ButtonsOn' = ButtonsOn
    BY DEF ButtonsOn, Enabled, Here, type
  <1>2. \A g \in Incident : Behind(g)' => Behind(g)
    BY <1>1 DEF Behind
  <1>3. \A y, g : Covers(y, g) => Covers(y, g)'
    BY <1>1 DEF Covers
  <1>4. ASSUME NEW g \in Incident, Behind(g)'
        PROVE  g \in left'.cards \/ \E b \in Actor : Covers(actors[b], g)'
    <2>1. Behind(g)
      BY <1>2, <1>4
    <2>2. CASE g \in left.cards \/ Covers(actors[a], g)
      <3>1. g \in left'.cards \/ Covers(x, g)
        BY <2>1, <2>2
      <3>2. CASE Covers(x, g)
        <4>1. Covers(x, g)'
          BY <1>3, <3>2
        <4>2. Covers(actors[a], g)'
          BY <4>1
        <4> QED BY <4>2
      <3> QED BY <3>1, <3>2
    <2>3. CASE \E b \in Actor \ {a} : Covers(actors[b], g)
      <3>1. PICK b \in Actor \ {a} : Covers(actors[b], g)
        BY <2>3
      <3>2. PICK y : y = actors[b]
        OBVIOUS
      <3>3. Covers(y, g)'
        BY <1>3, <3>1, <3>2
      <3>4. Covers(actors[b], g)'
        BY <3>2, <3>3
      <3> QED BY <3>4
    <2> QED BY <2>1, <2>2, <2>3 DEF CardsHeld
  <1> QED BY <1>4 DEF CardsHeld

\* The tokens an actor was to put right it still is.
LEMMA HooksGoOn ==
  ASSUME HooksHeld, UNCHANGED <<deployment, rows, hooks>>, left'.tokens = left.tokens,
         NEW a \in Actor, NEW x, Turns(a, x),
         type = "telegram" => GoesOn(a, x)
  PROVE  HooksHeld'
  <1> USE DEF Turns
  <1> SUFFICES ASSUME type = "telegram" PROVE TokensHeld' /\ CallsHeld' /\ OneCaller'
    BY DEF HooksHeld, type
  <1>0. TokensHeld /\ CallsHeld /\ OneCaller /\ GoesOn(a, x)
    BY DEF HooksHeld
  <1>1. \A t : Current(t)' = Current(t)
    BY DEF Current, Enabled, Here
  <1>2. \A b \in Actor \ {a} : Pending(actors[b])' = Pending(actors[b])
    BY DEF Pending
  <1>3. Pending(actors[a]) \subseteq Pending(actors[a])'
    BY <1>0 DEF Pending, GoesOn
  <1>4. TokensHeld'
    BY <1>0, <1>1, <1>2, <1>3 DEF TokensHeld
  <1>5. ASSUME NEW b \in Actor \ {a}, NEW t \in Token, CallRight(b, t)
        PROVE  CallRight(b, t)'
    <2>1. CASE t = actors[b].keep <=> Own(actors[b].id, t)
      BY <2>1 DEF CallRight, Own
    <2>2. CASE \E c \in Actor \ {b} : actors[c].id = actors[b].id /\ t \in actors[c].tokens
      BY <1>0, <2>2 DEF CallRight, GoesOn
    <2>3. CASE t \in left.tokens
      BY <2>3 DEF CallRight
    <2> QED BY <1>5, <2>1, <2>2, <2>3 DEF CallRight
  <1>6. CallsHeld'
    <2> SUFFICES ASSUME NEW b \in Actor, actors'[b].pc = "calling", NEW t \in Token,
                        t \in actors'[b].tokens \cup {actors'[b].keep}
                 PROVE  CallRight(b, t)'
      BY DEF CallsHeld
    <2>1. b # a
      BY <1>0 DEF GoesOn
    <2>2. CallRight(b, t)
      BY <1>0, <2>1 DEF CallsHeld
    <2> QED BY <1>5, <2>1, <2>2
  <1>7. OneCaller'
    BY <1>0 DEF OneCaller, GoesOn
  <1> QED BY <1>4, <1>6, <1>7

\* Both, with the shapes.
LEMMA TurnHolds ==
  ASSUME IntegrationsInv, NEW a \in Actor, NEW x, Turns(a, x),
         UNCHANGED <<deployment, rows, groups, payloads, hooks>>, InstancesOK', ActorOK(a, x),
         LeftOK', left'.tokens = left.tokens, left'.silence = left.silence,
         \A g \in Incident : Behind(g) /\ (g \in left.cards \/ Covers(actors[a], g)) =>
                               g \in left'.cards \/ Covers(x, g),
         type = "telegram" => GoesOn(a, x)
  PROVE  IntegrationsInv'
  <1>1. Shapes /\ CardsHeld /\ SilenceAsDeclared /\ HooksHeld
    BY DEF IntegrationsInv
  <1>2. RowsOK' /\ \A i : Known(i) => Known(i)'
    BY <1>1, RowsStay DEF Shapes
  <1>3. ActorOK(a, x)'
    BY <1>2, OthersStay
  <1>4. ActorsOK'
    BY <1>1, <1>2, <1>3, ActorSet DEF Shapes
  <1>5. Shapes'
    BY <1>1, <1>2, <1>4, OthersStay DEF Shapes
  <1>6. CardsHeld'
    BY <1>1, CardsGoOn
  <1>7. SilenceAsDeclared'
    BY <1>1, SilenceStays
  <1>8. HooksHeld'
    BY <1>1, HooksGoOn
  <1> QED BY <1>5, <1>6, <1>7, <1>8 DEF IntegrationsInv

------------------------------------------------------------------------------
(* The steps of an actor that are about it alone.                          *)

\* What an actor is about stays, wherever it is with it.
SameErrand(x, y) ==
  /\ DOMAIN x = DOMAIN y
  /\ x.id = y.id /\ x.op = y.op /\ x.tokens = y.tokens /\ x.saw = y.saw

\* Such an actor has the shape of one, and loses no token.
LEMMA ErrandGoesOn ==
  ASSUME NEW a \in Actor, NEW x, ActorOK(a, actors[a]), SameErrand(x, actors[a]),
         x.pc \in {"raise", "reload", "loaded", "syncer", "hook"},
         type = "telegram" => x.pc # "syncer", actors[a].pc # "calling",
         \A e \in x.read : Known(e.id)
  PROVE  ActorOK(a, x) /\ GoesOn(a, x)
  BY DEF ActorOK, SameErrand, GoesOn

\* An actor that has no token on its hands may become any other that has none.
LEMMA FreeGoesOn ==
  ASSUME NEW a \in Actor, NEW x, ActorOK(a, actors[a]),
         actors[a].pc \in {"idle", "down", "starting"} \/ actors[a].id = None,
         x.pc # "calling", x.tokens = {}
  PROVE  GoesOn(a, x)
  BY DEF ActorOK, GoesOn

\* One is in the table whom a request reads of it.
LEMMA EnabledIsKnown ==
  ASSUME RowsOK, NEW id \in Enabled
  PROVE  Known(id) /\ RowOK(rows[id])
  BY DEF RowsOK, Enabled, Here, Known

\* The test of an integration reads its row.
LEMMA TestReadsHolds ==
  ASSUME IntegrationsInv, NEW r \in Request, NEW i \in Instance, NEW id \in Id, TestReads(r, i, id)
  PROVE  IntegrationsInv'
  <1> DEFINE x == [Idle EXCEPT !.pc = "test", !.at = i, !.op = "test", !.id = id, !.saw = rows[id]]
  <1>1. Shapes
    BY DEF IntegrationsInv
  <1>2. r \in Actor /\ type = "slack" /\ actors[r].pc = "idle" /\ id \in Enabled
        /\ UNCHANGED <<deployment, rows, groups, instances, payloads, hooks, left>>
    BY DEF TestReads, Actor
  <1>3. Known(id) /\ RowOK(rows[id])
    BY <1>1, <1>2, EnabledIsKnown DEF Shapes
  <1>4. Turns(r, x)
    BY <1>1, <1>2 DEF TestReads, Turns, Shapes, ActorsOK
  <1>5. ActorOK(r, x)
    BY <1>2, <1>3, IdleIsActor DEF ActorOK
  <1>6. InstancesOK' /\ LeftOK'
    BY <1>1, <1>2, RowsStay, OthersStay DEF Shapes
  <1>7. \A g \in Incident : ~Covers(actors[r], g)
    BY <1>2 DEF Covers
  <1> HIDE DEF x
  <1> QED BY <1>2, <1>4, <1>5, <1>6, <1>7, TurnHolds

\* The test of an integration ends without a word.
LEMMA TestEndsHolds ==
  ASSUME IntegrationsInv, NEW r \in Actor, TestEnds(r)
  PROVE  IntegrationsInv'
  <1>1. Shapes
    BY DEF IntegrationsInv
  <1>2. actors[r].pc = "test" /\ UNCHANGED <<deployment, rows, groups, instances, payloads, hooks, left>>
    BY DEF TestEnds
  <1>3. Turns(r, Idle)
    BY <1>1 DEF TestEnds, Turns, Shapes, ActorsOK
  <1>4. ActorOK(r, Idle)
    BY IdleIsActor
  <1>5. InstancesOK' /\ LeftOK'
    BY <1>1, <1>2, RowsStay, OthersStay DEF Shapes
  <1>6. \A g \in Incident : ~Covers(actors[r], g)
    BY <1>2 DEF Covers
  <1>7. type # "telegram"
    BY <1>1, <1>2 DEF Shapes, ActorsOK, ActorOK
  <1> QED BY <1>2, <1>3, <1>4, <1>5, <1>6, <1>7, TurnHolds

\* The door makes its list of the cards that can be reached: of all that are behind.
LEMMA DoorScansHolds ==
  ASSUME IntegrationsInv, NEW r \in Actor, DoorScans(r)
  PROVE  IntegrationsInv'
  <1>1. Shapes
    BY DEF IntegrationsInv
  <1>2. actors[r].pc = "scan" /\ ActorOK(r, actors[r])
        /\ UNCHANGED <<deployment, rows, groups, instances, payloads, hooks, left>>
    BY <1>1 DEF DoorScans, Shapes, ActorsOK
  <1>3. PICK x : x = actors'[r]
    OBVIOUS
  <1>4. /\ Turns(r, x) /\ SameErrand(x, actors[r]) /\ x.pc = "raise"
        /\ x.todo = Reachable /\ x.owes = Reachable /\ x.read = actors[r].read
    BY <1>1, <1>2, <1>3 DEF DoorScans, Turns, SameErrand, Shapes, ActorsOK, ActorOK
  <1>5. ActorOK(r, x) /\ GoesOn(r, x)
    BY <1>2, <1>4, ErrandGoesOn DEF ActorOK
  <1>6. InstancesOK' /\ LeftOK'
    BY <1>1, <1>2, RowsStay, OthersStay DEF Shapes
  <1>7. \A g \in Incident : Behind(g) => g \in Reachable
    BY <1>1 DEF Behind, Reachable, Shapes, GroupsOK, GroupOK
  <1>8. \A g \in Incident : Behind(g) => Covers(x, g)
    BY <1>4, <1>7 DEF Covers
  <1> QED BY <1>2, <1>4, <1>5, <1>6, <1>8, TurnHolds

\* The door is through with its list.
LEMMA DoorEndsHolds ==
  ASSUME IntegrationsInv, NEW a \in Actor, DoorEnds(a)
  PROVE  IntegrationsInv'
  <1>1. Shapes
    BY DEF IntegrationsInv
  <1>2. actors[a].pc = "raise" /\ actors[a].todo = {} /\ ActorOK(a, actors[a])
        /\ UNCHANGED <<deployment, rows, groups, instances, payloads, hooks, left>>
    BY <1>1 DEF DoorEnds, Shapes, ActorsOK
  <1>3. PICK x : x = actors'[a]
    OBVIOUS
  <1>4. Turns(a, x) /\ SameErrand(x, actors[a]) /\ x.pc = "reload" /\ x.read = actors[a].read
    BY <1>1, <1>2, <1>3 DEF DoorEnds, Turns, SameErrand, Shapes, ActorsOK, ActorOK
  <1>5. ActorOK(a, x) /\ GoesOn(a, x)
    BY <1>2, <1>4, ErrandGoesOn DEF ActorOK
  <1>6. InstancesOK' /\ LeftOK'
    BY <1>1, <1>2, RowsStay, OthersStay DEF Shapes
  <1>7. \A g \in Incident : ~Covers(actors[a], g)
    BY <1>2 DEF Covers
  <1> QED BY <1>2, <1>4, <1>5, <1>6, <1>7, TurnHolds

\* A door that breaks leaves what it owes to the next start.
LEMMA DoorBreaksHolds ==
  ASSUME IntegrationsInv, NEW a \in Actor, DoorBreaks(a)
  PROVE  IntegrationsInv'
  <1>1. Shapes
    BY DEF IntegrationsInv
  <1>2. actors[a].pc = "raise" /\ ActorOK(a, actors[a])
        /\ UNCHANGED <<deployment, rows, groups, instances, payloads, hooks>>
    BY <1>1 DEF DoorBreaks, Shapes, ActorsOK
  <1>3. PICK x : x = actors'[a]
    OBVIOUS
  <1>4. Turns(a, x) /\ SameErrand(x, actors[a]) /\ x.pc = "reload" /\ x.read = actors[a].read
    BY <1>1, <1>2, <1>3 DEF DoorBreaks, Turns, SameErrand, Shapes, ActorsOK, ActorOK
  <1>5. ActorOK(a, x) /\ GoesOn(a, x)
    BY <1>2, <1>4, ErrandGoesOn DEF ActorOK
  <1>6. /\ LeftOK' /\ left'.cards = left.cards \cup actors[a].owes
        /\ left'.tokens = left.tokens /\ left'.silence = left.silence
    BY <1>1 DEF DoorBreaks, Shapes, LeftOK
  <1>7. InstancesOK'
    BY <1>1, <1>2, RowsStay, OthersStay DEF Shapes
  <1>8. \A g \in Incident : Covers(actors[a], g) => g \in left'.cards
    BY <1>2, <1>6 DEF Covers
  <1> QED BY <1>2, <1>4, <1>5, <1>6, <1>7, <1>8, TurnHolds

\* A start reads the switch, and takes over what was left undone.
LEMMA StartReadsHolds ==
  ASSUME IntegrationsInv, NEW i \in Instance, StartReads(i)
  PROVE  IntegrationsInv'
  <1> DEFINE x == [Idle EXCEPT !.pc = "starting", !.at = i, !.op = "start", !.owes = left.cards,
                                !.saw = [Absent("unused") EXCEPT !.buttons = ButtonsOn]]
  <1>1. Shapes
    BY DEF IntegrationsInv
  <1>2. i \in Actor /\ actors[i].pc = "down" /\ ActorOK(i, actors[i])
        /\ UNCHANGED <<deployment, rows, groups, instances, payloads, hooks>>
    BY <1>1 DEF StartReads, Actor, Shapes, ActorsOK
  <1>3. Turns(i, x)
    BY <1>1, <1>2 DEF StartReads, Turns, Shapes, ActorsOK
  <1>4. ButtonsOn \in BOOLEAN
    BY DEF ButtonsOn
  <1>5. RowOK(x.saw) /\ x.saw.buttons = ButtonsOn
    BY <1>4, AbsentIsRow, IdleIsActor DEF RowOK, Absent
  <1>6. /\ DOMAIN x = DOMAIN Idle /\ x.pc = "starting" /\ x.op = "start" /\ x.id = None
        /\ x.tokens = {} /\ x.read = {} /\ x.owes = left.cards
    BY IdleIsActor
  <1>7. LeftOK' /\ left'.tokens = left.tokens /\ left'.silence = left.silence
    BY <1>1 DEF StartReads, Shapes, LeftOK
  <1> HIDE DEF x
  <1>8. ActorOK(i, x)
    BY <1>5, <1>6, IdleIsActor DEF ActorOK
  <1>9. GoesOn(i, x)
    BY <1>2, <1>6, FreeGoesOn
  <1>10. InstancesOK'
    BY <1>1, <1>2, RowsStay, OthersStay DEF Shapes
  <1>11. \A g \in Incident : g \in left.cards \/ Covers(actors[i], g) => Covers(x, g)
    BY <1>2, <1>5, <1>6 DEF Covers
  <1> QED BY <1>2, <1>3, <1>7, <1>8, <1>9, <1>10, <1>11, TurnHolds

\* A start lists the cards whose picture differs from the switch as it read it.
LEMMA StartScansHolds ==
  ASSUME IntegrationsInv, NEW i \in Instance, StartScans(i)
  PROVE  IntegrationsInv'
  <1>1. Shapes
    BY DEF IntegrationsInv
  <1>2. i \in Actor /\ actors[i].pc = "starting" /\ ActorOK(i, actors[i])
        /\ UNCHANGED <<deployment, rows, groups, instances, payloads, hooks, left>>
    BY <1>1 DEF StartScans, Actor, Shapes, ActorsOK
  <1>3. PICK x : x = actors'[i]
    OBVIOUS
  <1>4. /\ Turns(i, x) /\ SameErrand(x, actors[i]) /\ x.pc = "raise"
        /\ x.read = actors[i].read /\ x.owes = actors[i].owes
        /\ x.todo = {g \in Reachable : ~groups[g].final /\ groups[g].drawn # actors[i].saw.buttons}
    BY <1>1, <1>2, <1>3 DEF StartScans, Turns, SameErrand, Shapes, ActorsOK, ActorOK
  <1>5. ActorOK(i, x) /\ GoesOn(i, x)
    BY <1>2, <1>4, ErrandGoesOn DEF ActorOK
  <1>6. InstancesOK' /\ LeftOK'
    BY <1>1, <1>2, RowsStay, OthersStay DEF Shapes
  <1>7. \A g \in Incident : Behind(g) => g \in Reachable
    BY <1>1 DEF Behind, Reachable, Shapes, GroupsOK, GroupOK
  <1>8. \A g \in Incident : Behind(g) /\ Covers(actors[i], g) => Covers(x, g)
    BY <1>2, <1>4, <1>7 DEF Covers, Behind
  <1> QED BY <1>2, <1>4, <1>5, <1>6, <1>8, TurnHolds

\* An instance reads what its cache shall hold.
LEMMA ReloadReadsHolds ==
  ASSUME IntegrationsInv, NEW a \in Actor, ReloadReads(a)
  PROVE  IntegrationsInv'
  <1>1. Shapes
    BY DEF IntegrationsInv
  <1>2. actors[a].pc = "reload" /\ ActorOK(a, actors[a])
        /\ UNCHANGED <<deployment, rows, groups, instances, payloads, hooks, left>>
    BY <1>1 DEF ReloadReads, Shapes, ActorsOK
  <1>3. PICK x : x = actors'[a]
    OBVIOUS
  <1>4. Turns(a, x) /\ SameErrand(x, actors[a]) /\ x.pc = "loaded" /\ x.read = Found
    BY <1>1, <1>2, <1>3 DEF ReloadReads, Turns, SameErrand, Shapes, ActorsOK, ActorOK
  <1>5. \A e \in x.read : Known(e.id)
    BY <1>1, <1>4, FoundIsKnown DEF Shapes
  <1>6. ActorOK(a, x) /\ GoesOn(a, x)
    BY <1>2, <1>4, <1>5, ErrandGoesOn
  <1>7. InstancesOK' /\ LeftOK'
    BY <1>1, <1>2, RowsStay, OthersStay DEF Shapes
  <1>8. \A g \in Incident : ~Covers(actors[a], g)
    BY <1>2 DEF Covers
  <1> QED BY <1>2, <1>4, <1>6, <1>7, <1>8, TurnHolds

\* What follows the reload of a cache: of the Telegram integration, the webhook always.
LEMMA ProceedGoesOn ==
  ASSUME NEW a \in Actor, ActorOK(a, actors[a]), actors[a].pc \in {"reload", "loaded"}
  PROVE  LET x == Proceed(a, After(actors[a].op))
         IN ActorOK(a, x) /\ (type = "telegram" => GoesOn(a, x))
  <1> DEFINE x == Proceed(a, After(actors[a].op))
  <1>1. CASE After(actors[a].op) = "idle"
    <2>1. x = Idle
      BY <1>1 DEF Proceed
    <2>2. type # "telegram"
      BY <1>1 DEF After, ActorOK
    <2> QED BY <2>1, <2>2, IdleIsActor
  <1>2. CASE After(actors[a].op) # "idle"
    <2>1. PICK y : y = x
      OBVIOUS
    <2>2. y = [actors[a] EXCEPT !.pc = After(actors[a].op), !.read = {}]
      BY <1>2, <2>1 DEF Proceed
    <2>3. SameErrand(y, actors[a]) /\ y.pc = After(actors[a].op) /\ y.read = {}
      BY <2>2 DEF SameErrand, ActorOK
    <2>4. y.pc \in {"syncer", "hook"} /\ (type = "telegram" => y.pc # "syncer")
      BY <1>2, <2>3 DEF After
    <2>5. ActorOK(a, y) /\ GoesOn(a, y)
      BY <2>3, <2>4, ErrandGoesOn
    <2> QED BY <2>1, <2>5
  <1> QED BY <1>1, <1>2

\* The cache holds what was read, and the actor goes on to the effect.
LEMMA ReloadSetsHolds ==
  ASSUME IntegrationsInv, NEW a \in Actor, ReloadSets(a)
  PROVE  IntegrationsInv'
  <1>1. Shapes
    BY DEF IntegrationsInv
  <1>2. actors[a].pc = "loaded" /\ ActorOK(a, actors[a])
        /\ UNCHANGED <<deployment, rows, groups, payloads, hooks, left>>
    BY <1>1 DEF ReloadSets, Shapes, ActorsOK
  <1>3. PICK x : x = Proceed(a, After(actors[a].op))
    OBVIOUS
  <1>4. Turns(a, x)
    BY <1>1, <1>2, <1>3 DEF ReloadSets, Turns, Shapes, ActorsOK
  <1>5. ActorOK(a, x) /\ (type = "telegram" => GoesOn(a, x))
    BY <1>2, <1>3, ProceedGoesOn
  <1>6. InstancesOK'
    <2>1. CASE actors[a].at \in Instance
      <3> DEFINE y == [instances[actors[a].at] EXCEPT !.cache = actors[a].read]
      <3>1. InstanceOK(instances[actors[a].at])
        BY <1>1, <2>1 DEF Shapes, InstancesOK
      <3>2. InstanceOK(y)
        BY <1>2, <3>1 DEF InstanceOK, ActorOK
      <3>3. instances' = [instances EXCEPT ![actors[a].at] = y]
        BY DEF ReloadSets
      <3> QED BY <1>1, <1>2, <2>1, <3>2, <3>3, InstanceSet DEF Shapes
    <2>2. CASE actors[a].at \notin Instance
      <3>1. DOMAIN instances' = Instance /\ \A i \in Instance : instances'[i] = instances[i]
        BY <1>1, <2>2 DEF ReloadSets, Shapes, InstancesOK
      <3>2. \A i \in Instance : InstanceOK(instances'[i])
        BY <1>1, <3>1 DEF Shapes, InstancesOK
      <3> QED BY <1>2, <3>1, <3>2 DEF InstancesOK, InstanceOK, Known
    <2> QED BY <2>1, <2>2
  <1>7. LeftOK'
    BY <1>1, <1>2 DEF Shapes, LeftOK
  <1>8. \A g \in Incident : ~Covers(actors[a], g)
    BY <1>2 DEF Covers
  <1> QED BY <1>2, <1>4, <1>5, <1>6, <1>7, <1>8, TurnHolds

\* A request goes on with the cache it had.
LEMMA ReloadFailsHolds ==
  ASSUME IntegrationsInv, NEW a \in Actor, ReloadFails(a)
  PROVE  IntegrationsInv'
  <1>1. Shapes
    BY DEF IntegrationsInv
  <1>2. actors[a].pc = "reload" /\ ActorOK(a, actors[a])
        /\ UNCHANGED <<deployment, rows, groups, instances, payloads, hooks, left>>
    BY <1>1 DEF ReloadFails, Shapes, ActorsOK
  <1>3. PICK x : x = Proceed(a, After(actors[a].op))
    OBVIOUS
  <1>4. Turns(a, x)
    BY <1>1, <1>2, <1>3 DEF ReloadFails, Turns, Shapes, ActorsOK
  <1>5. ActorOK(a, x) /\ (type = "telegram" => GoesOn(a, x))
    BY <1>2, <1>3, ProceedGoesOn
  <1>6. InstancesOK' /\ LeftOK'
    BY <1>1, <1>2, RowsStay, OthersStay DEF Shapes
  <1>7. \A g \in Incident : ~Covers(actors[a], g)
    BY <1>2 DEF Covers
  <1> QED BY <1>2, <1>4, <1>5, <1>6, <1>7, TurnHolds

\* The syncer is restarted with the token the cache holds.
LEMMA RestartSyncerHolds ==
  ASSUME IntegrationsInv, NEW a \in Actor, RestartSyncer(a)
  PROVE  IntegrationsInv'
  <1>1. Shapes
    BY DEF IntegrationsInv
  <1>2. actors[a].pc = "syncer" /\ UNCHANGED <<deployment, rows, groups, payloads, hooks, left>>
    BY DEF RestartSyncer
  <1>3. Turns(a, Idle)
    BY <1>1 DEF RestartSyncer, Turns, Shapes, ActorsOK
  <1>4. ActorOK(a, Idle)
    BY IdleIsActor
  <1>5. InstancesOK'
    <2>1. PICK i, token : instances' = [instances EXCEPT ![i].syncer = Started(@, token)]
      BY DEF RestartSyncer
    <2>2. DOMAIN instances' = Instance
      BY <1>1, <2>1 DEF Shapes, InstancesOK
    <2>3. \A j \in Instance : InstanceOK(instances'[j])
      BY <1>1, <2>1 DEF Shapes, InstancesOK, InstanceOK
    <2> QED BY <1>2, <2>2, <2>3 DEF InstancesOK, InstanceOK, Known
  <1>6. LeftOK'
    BY <1>1, <1>2 DEF Shapes, LeftOK
  <1>7. \A g \in Incident : ~Covers(actors[a], g)
    BY <1>2 DEF Covers
  <1>8. type # "telegram"
    BY <1>1, <1>2 DEF Shapes, ActorsOK, ActorOK
  <1> QED BY <1>2, <1>3, <1>4, <1>5, <1>6, <1>7, <1>8, TurnHolds

\* A start turns to the integration it finds enabled, or to nothing.
LEMMA RegisterOnStartupHolds ==
  ASSUME IntegrationsInv, NEW i \in Actor, RegisterOnStartup(i)
  PROVE  IntegrationsInv'
  <1>1. Shapes
    BY DEF IntegrationsInv
  <1>2. /\ actors[i].pc = "hook" /\ actors[i].id = None /\ ActorOK(i, actors[i])
        /\ UNCHANGED <<deployment, rows, groups, instances, payloads, hooks, left>>
    BY <1>1 DEF RegisterOnStartup, Shapes, ActorsOK
  <1>3. PICK x : x = actors'[i]
    OBVIOUS
  <1>4. Turns(i, x) /\ ActorOK(i, x) /\ x.pc # "calling" /\ x.tokens = {}
    <2>1. CASE Enabled = {}
      <3>1. Turns(i, Idle) /\ x = Idle
        BY <1>1, <1>3, <2>1 DEF RegisterOnStartup, Turns, Shapes, ActorsOK
      <3> QED BY <3>1, IdleIsActor
    <2>2. CASE Enabled # {}
      <3>1. PICK id \in Enabled : actors' = [actors EXCEPT ![i].id = id]
        BY <2>2 DEF RegisterOnStartup
      <3>2. Known(id)
        BY <1>1, <3>1, EnabledIsKnown DEF Shapes
      <3>3. /\ Turns(i, x) /\ DOMAIN x = DOMAIN actors[i] /\ x.id = id /\ x.pc = "hook"
            /\ x.saw = actors[i].saw /\ x.read = actors[i].read /\ x.op = actors[i].op
            /\ x.tokens = actors[i].tokens
        BY <1>1, <1>2, <1>3, <3>1 DEF Turns, Shapes, ActorsOK, ActorOK
      <3> QED BY <1>2, <3>2, <3>3 DEF ActorOK
    <2> QED BY <2>1, <2>2
  <1>5. GoesOn(i, x)
    BY <1>2, <1>4, FreeGoesOn
  <1>6. InstancesOK' /\ LeftOK'
    BY <1>1, <1>2, RowsStay, OthersStay DEF Shapes
  <1>7. \A g \in Incident : ~Covers(actors[i], g)
    BY <1>2 DEF Covers
  <1> QED BY <1>2, <1>4, <1>5, <1>6, <1>7, TurnHolds

------------------------------------------------------------------------------
(* The steps of instances and payloads, and of Slack.                      *)

\* An instance's own refresh of its cache reads the table, and then sets what it read.
LEMMA RunsHolds ==
  ASSUME IntegrationsInv, NEW i \in Instance, Runs(i)
  PROVE  IntegrationsInv'
  <1>1. Shapes /\ InstanceOK(instances[i])
    BY DEF IntegrationsInv, Shapes, InstancesOK
  <1>2. UNCHANGED <<deployment, rows, groups, actors, payloads, hooks, left>>
    BY DEF Runs, RefreshReads, RefreshSets
  <1>3. \E y : instances' = [instances EXCEPT ![i] = y] /\ InstanceOK(y)
    <2>1. CASE RefreshReads(i)
      <3> DEFINE y == [instances[i] EXCEPT !.reading = TRUE, !.read = Found]
      <3>1. InstanceOK(y)
        BY <1>1, FoundIsKnown DEF InstanceOK, Shapes
      <3>2. instances' = [instances EXCEPT ![i] = y]
        BY <1>1, <2>1 DEF RefreshReads, Shapes, InstancesOK
      <3> QED BY <3>1, <3>2
    <2>2. CASE RefreshSets(i)
      <3> DEFINE y == [instances[i] EXCEPT !.cache = instances[i].read, !.reading = FALSE, !.read = {}]
      <3>1. InstanceOK(y)
        BY <1>1 DEF InstanceOK
      <3>2. instances' = [instances EXCEPT ![i] = y]
        BY <1>1, <2>2 DEF RefreshSets, Shapes, InstancesOK
      <3> QED BY <3>1, <3>2
    <2> QED BY <2>1, <2>2 DEF Runs
  <1>4. InstancesOK'
    BY <1>1, <1>2, <1>3, InstanceSet DEF Shapes
  <1>5. PayloadsOK'
    BY <1>1, <1>2, RowsStay, OthersStay DEF Shapes
  <1> QED BY <1>2, <1>4, <1>5, AsideHolds

\* A syncer reads who is on duty, writes it, or forgets what it wrote.
LEMMA SyncsHolds ==
  ASSUME IntegrationsInv, NEW i \in Instance, Syncs(i) \/ SentExpires(i)
  PROVE  IntegrationsInv'
  <1>1. Shapes /\ InstanceOK(instances[i])
    BY DEF IntegrationsInv, Shapes, InstancesOK
  <1>2. UNCHANGED <<deployment, rows, groups, actors, payloads, hooks, left>>
    BY DEF Syncs, SyncReads, SyncWrites, SentExpires
  <1>3. DOMAIN instances' = Instance /\ \A j \in Instance : InstanceOK(instances'[j])
    <2>1. CASE SyncReads(i)
      BY <1>1, <2>1 DEF SyncReads, Shapes, InstancesOK, InstanceOK
    <2>2. ASSUME NEW accepted, SyncWrites(i, accepted)
          PROVE  DOMAIN instances' = Instance /\ \A j \in Instance : InstanceOK(instances'[j])
      BY <1>1, <2>2 DEF SyncWrites, Shapes, InstancesOK, InstanceOK
    <2>3. CASE SentExpires(i)
      BY <1>1, <2>3 DEF SentExpires, Shapes, InstancesOK, InstanceOK
    <2> QED BY <2>1, <2>2, <2>3 DEF Syncs
  <1>4. InstancesOK'
    BY <1>2, <1>3 DEF InstancesOK, InstanceOK, Known
  <1>5. PayloadsOK'
    BY <1>1, <1>2, RowsStay, OthersStay DEF Shapes
  <1> QED BY <1>2, <1>4, <1>5, AsideHolds

\* Somebody else is on duty.
LEMMA DutyTurnsHolds ==
  ASSUME IntegrationsInv, DutyTurns
  PROVE  IntegrationsInv'
  <1>1. Shapes
    BY DEF IntegrationsInv
  <1>2. UNCHANGED <<deployment, rows, groups, instances, actors, payloads, hooks, left>>
    BY DEF DutyTurns
  <1>3. InstancesOK' /\ PayloadsOK'
    BY <1>1, <1>2, RowsStay, OthersStay DEF Shapes
  <1> QED BY <1>2, <1>3, AsideHolds

\* A payload is known by the cache of an instance.
LEMMA PayloadArrivesHolds ==
  ASSUME IntegrationsInv, NEW p \in Payload, NEW i \in Instance, NEW token, PayloadArrives(p, i, token)
  PROVE  IntegrationsInv'
  <1>1. Shapes /\ InstanceOK(instances[i])
    BY DEF IntegrationsInv, Shapes, InstancesOK
  <1>2. type = "alertmanager" /\ UNCHANGED <<deployment, rows, groups, instances, actors, hooks, left>>
    BY DEF PayloadArrives
  <1>3. PICK e \in instances[i].cache :
          payloads' = [payloads EXCEPT ![p] =
            [NoPayload EXCEPT !.pc = "known", !.at = i, !.token = token, !.id = e.id]]
    BY DEF PayloadArrives
  <1> DEFINE y == [NoPayload EXCEPT !.pc = "known", !.at = i, !.token = token, !.id = e.id]
  <1>4. PayloadOK(y)
    BY <1>1, <1>2 DEF PayloadOK, NoPayload, InstanceOK
  <1>5. payloads' = [payloads EXCEPT ![p] = y]
    BY <1>3
  <1> HIDE DEF y
  <1>6. PayloadsOK'
    BY <1>1, <1>2, <1>4, <1>5, PayloadSet DEF Shapes
  <1>7. InstancesOK'
    BY <1>1, <1>2, RowsStay, OthersStay DEF Shapes
  <1> QED BY <1>2, <1>6, <1>7, AsideHolds

\* A payload is verified by the table.
LEMMA PayloadVerifiedHolds ==
  ASSUME IntegrationsInv, NEW p \in Payload, PayloadVerified(p)
  PROVE  IntegrationsInv'
  <1>1. Shapes /\ PayloadOK(payloads[p])
    BY DEF IntegrationsInv, Shapes, PayloadsOK
  <1>2. payloads[p].pc = "known" /\ UNCHANGED <<deployment, rows, groups, instances, actors, hooks, left>>
    BY DEF PayloadVerified
  <1>3. \E y : payloads' = [payloads EXCEPT ![p] = y] /\ PayloadOK(y)
    <2>1. PayloadOK(NoPayload)
      BY DEF PayloadOK, NoPayload
    <2> DEFINE y == [payloads[p] EXCEPT !.pc = "taken", !.silence = rows[payloads[p].id].silence]
    <2>2. PayloadOK(y)
      BY <1>1, <1>2 DEF PayloadOK
    <2>3. \/ payloads' = [payloads EXCEPT ![p] = y]
          \/ payloads' = [payloads EXCEPT ![p] = NoPayload]
      BY <1>1 DEF PayloadVerified, Shapes, PayloadsOK
    <2> QED BY <2>1, <2>2, <2>3
  <1>4. PayloadsOK'
    BY <1>1, <1>2, <1>3, PayloadSet DEF Shapes
  <1>5. InstancesOK'
    BY <1>1, <1>2, RowsStay, OthersStay DEF Shapes
  <1> QED BY <1>2, <1>4, <1>5, AsideHolds

------------------------------------------------------------------------------
(* The commands.                                                           *)

\* The part of an alert group that the buttons are about.
SameCard(x, y) == x.card = y.card /\ x.drawn = y.drawn /\ x.final = y.final

\* The row a command writes, by a request that has nothing else on its hands.
Rewritten(r, id, after) ==
  /\ rows' = [rows EXCEPT ![id] = after]
  /\ RowOK(after) /\ after.state \in {"here", "gone"}
  /\ type # "alertmanager" /\ after.state = "here" => Here \subseteq {id}
  /\ UNCHANGED <<deployment, instances, payloads, hooks>>
  /\ actors[r].pc \in {"idle", "test"}
  /\ left.cards \subseteq left'.cards /\ left'.tokens = left.tokens

\* A token whose place in a row changed is on the request's hands, or the row is new and
\* the request about to register it.
Taken(x, id, t) == (Own(id, t)' <=> Own(id, t)) \/ t \in x.tokens \/ (~Known(id) /\ t \in Pending(x)')

\* The cards stay somebody's when the switch moves with a door behind it, or at the cost
\* of the next start.
LEMMA CommandCards ==
  ASSUME Shapes, CardsHeld, NEW r \in Actor, NEW x, NEW id \in Id, NEW after,
         Turns(r, x), Rewritten(r, id, after), \A g \in Incident : SameCard(groups'[g], groups[g]),
         ButtonsOn' = ButtonsOn \/ x.pc = "scan" \/ deployment.incidents \subseteq left'.cards
  PROVE  CardsHeld'
  <1> USE DEF Turns
  <1> SUFFICES ASSUME NEW g \in Incident, Behind(g)'
               PROVE  g \in left'.cards \/ \E a \in Actor : Covers(actors[a], g)'
    BY DEF CardsHeld
  <1>1. CASE x.pc = "scan"
    <2>1. Covers(x, g)'
      BY <1>1 DEF Covers
    <2>2. Covers(actors[r], g)'
      BY <2>1
    <2> QED BY <2>2
  <1>2. CASE deployment.incidents \subseteq left'.cards
    <2>1. g \in deployment.incidents
      BY DEF Behind, SameCard, Shapes, GroupsOK, GroupOK
    <2> QED BY <1>2, <2>1
  <1>3. CASE ButtonsOn' = ButtonsOn
    <2>1. Behind(g)
      BY <1>3 DEF Behind, SameCard
    <2>2. ~Covers(actors[r], g)
      BY DEF Covers, Rewritten
    <2>3. CASE g \in left.cards
      BY <2>3 DEF Rewritten
    <2>4. CASE \E b \in Actor \ {r} : Covers(actors[b], g)
      <3>1. PICK b \in Actor \ {r} : Covers(actors[b], g)
        BY <2>4
      <3>2. PICK y : y = actors[b]
        OBVIOUS
      <3>3. Covers(y, g)'
        BY <1>3, <3>1, <3>2 DEF Covers
      <3>4. Covers(actors[b], g)'
        BY <3>2, <3>3
      <3> QED BY <3>4
    <2> QED BY <2>1, <2>2, <2>3, <2>4 DEF CardsHeld
  <1> QED BY <1>1, <1>2, <1>3

\* The tokens stay somebody's, and no call under way is wrong behind its caller's back.
LEMMA CommandHooks ==
  ASSUME Shapes, HooksHeld, NEW r \in Actor, NEW x, NEW id \in Id, NEW after,
         Turns(r, x), Rewritten(r, id, after), RowsOK', x.id = id, x.pc # "calling",
         type = "telegram" => \A t \in Token : Taken(x, id, t)
  PROVE  HooksHeld'
  <1> USE DEF Turns
  <1> SUFFICES ASSUME type = "telegram" PROVE TokensHeld' /\ CallsHeld' /\ OneCaller'
    BY DEF HooksHeld, type, Rewritten
  <1>0. TokensHeld /\ CallsHeld /\ OneCaller /\ \A t \in Token : Taken(x, id, t)
    BY DEF HooksHeld
  <1>1. \A i \in Id \ {id} : rows'[i] = rows[i]
    BY DEF Rewritten, Shapes, RowsOK
  <1>2. actors[r].tokens = {} /\ actors[r].pc = "idle" /\ Pending(actors[r]) = {}
    BY DEF Pending, Rewritten, Shapes, ActorsOK, ActorOK
  <1>3. ~Known(id) => \A t : ~Own(id, t)
    BY DEF Known, Own, Shapes, RowsOK, RowOK
  <1>4. \A t : Current(t) <=> \E i \in Id : Own(i, t)
    BY DEF Current, Own, Enabled, Here, Shapes, RowsOK, RowOK
  <1>5. \A t : Current(t)' <=> \E i \in Id : Own(i, t)'
    BY DEF Current, Own, Enabled, Here, Shapes, RowsOK, RowOK
  <1>6. \A i \in Id \ {id}, t \in Token : (Own(i, t)' <=> Own(i, t))
    BY <1>1 DEF Own
  <1>7. \A b \in Actor \ {r} : actors[b].id = None \/ Known(actors[b].id)
    BY DEF Shapes, ActorsOK, ActorOK
  <1>8. ASSUME NEW b \in Actor \ {r}, NEW t \in Token, t \in Pending(actors[b]), t \notin Pending(x)'
        PROVE  t \in Pending(actors[b])'
    <2>1. actors'[b] = actors[b]
      OBVIOUS
    <2>2. CASE t \in actors[b].tokens \/ actors[b].pc = "calling"
      BY <1>8, <2>1, <2>2 DEF Pending
    <2>3. CASE t \notin actors[b].tokens /\ actors[b].pc # "calling"
      <3>1. actors[b].op = "create" /\ Own(actors[b].id, t)
        BY <1>8, <2>3 DEF Pending, Own
      <3>2. actors[b].id # None
        BY <3>1 DEF Shapes, ActorsOK, ActorOK
      <3>3. Known(actors[b].id)
        BY <1>7, <3>2
      <3>4. Own(actors[b].id, t)'
        <4>1. CASE actors[b].id = id
          <5>1. t \notin x.tokens
            BY <1>8 DEF Pending
          <5>2. Own(id, t)' <=> Own(id, t)
            BY <1>0, <3>3, <4>1, <5>1 DEF Taken
          <5> QED BY <2>1, <3>1, <4>1, <5>2
        <4>2. CASE actors[b].id # id
          BY <1>6, <2>1, <3>1, <3>3, <4>2 DEF Known
        <4> QED BY <4>1, <4>2
      <3> QED BY <2>1, <2>3, <3>1, <3>4 DEF Pending, Own
    <2> QED BY <2>2, <2>3
  <1>9. TokensHeld'
    <2> SUFFICES ASSUME NEW t \in Token, t \notin left'.tokens,
                        ~\E b \in Actor : t \in Pending(actors[b])'
                 PROVE  (t \in hooks <=> Current(t))'
      BY DEF TokensHeld
    <2>1. t \notin Pending(x)'
      <3>1. Pending(actors[r])' = Pending(x)'
        OBVIOUS
      <3> QED BY <3>1
    <2>2. t \notin x.tokens
      BY <2>1 DEF Pending
    <2>3. Own(id, t)' <=> Own(id, t)
      BY <1>0, <2>1, <2>2 DEF Taken
    <2>4. Current(t)' = Current(t)
      BY <1>4, <1>5, <1>6, <2>3
    <2>5. t \in hooks <=> Current(t)
      BY <1>0, <1>2, <1>8, <2>1 DEF TokensHeld, Rewritten
    <2> QED BY <2>4, <2>5 DEF Rewritten
  <1>10. CallsHeld'
    <2> SUFFICES ASSUME NEW b \in Actor, actors'[b].pc = "calling", NEW t \in Token,
                        t \in actors'[b].tokens \cup {actors'[b].keep}
                 PROVE  CallRight(b, t)'
      BY DEF CallsHeld
    <2>1. b # r /\ actors'[b] = actors[b] /\ actors'[r] = x
      OBVIOUS
    <2>2. CallRight(b, t)
      BY <1>0, <2>1 DEF CallsHeld
    <2>3. Known(actors[b].id)
      BY <1>7, <2>1 DEF Shapes, ActorsOK, ActorOK
    <2>4. CASE t = actors[b].keep <=> Own(actors[b].id, t)
      <3>1. CASE actors[b].id = id /\ t \in x.tokens
        BY <2>1, <3>1 DEF CallRight
      <3>2. CASE actors[b].id = id /\ t \notin x.tokens
        <4>1. Own(id, t)' <=> Own(id, t)
          BY <1>0, <2>3, <3>2 DEF Taken
        <4> QED BY <2>1, <2>4, <3>2, <4>1 DEF CallRight
      <3>3. CASE actors[b].id # id
        <4>1. Own(actors[b].id, t)' <=> Own(actors[b].id, t)
          BY <1>6, <2>1, <2>3, <3>3 DEF Known
        <4> QED BY <2>1, <2>4, <4>1 DEF CallRight
      <3> QED BY <3>1, <3>2, <3>3
    <2>5. CASE \E c \in Actor \ {b} : actors[c].id = actors[b].id /\ t \in actors[c].tokens
      BY <1>2, <2>1, <2>5 DEF CallRight
    <2>6. CASE t \in left.tokens
      BY <2>6 DEF CallRight, Rewritten
    <2> QED BY <2>2, <2>4, <2>5, <2>6 DEF CallRight
  <1>11. OneCaller'
    BY <1>0 DEF OneCaller
  <1> QED BY <1>9, <1>10, <1>11

\* The same of the whole invariant.
LEMMA CommandHolds ==
  ASSUME IntegrationsInv, NEW r \in Request, NEW x, NEW id \in Id, NEW after,
         Turns(r, x), Rewritten(r, id, after), \A g \in Incident : SameCard(groups'[g], groups[g]),
         ButtonsOn' = ButtonsOn \/ x.pc = "scan" \/ deployment.incidents \subseteq left'.cards,
         x.id = id, x.pc # "calling", Known(id)' => ActorOK(r, x)',
         (\A i : Known(i) => Known(i)') => GroupsOK' /\ SilenceAsDeclared', LeftOK',
         type = "telegram" => \A t \in Token : Taken(x, id, t)
  PROVE  IntegrationsInv'
  <1>1. Shapes /\ CardsHeld /\ HooksHeld /\ r \in Actor
    BY DEF IntegrationsInv, Actor
  <1>2. RowsOK' /\ (\A i : Known(i) => Known(i)') /\ Known(id)'
    BY <1>1, RowWritten DEF Rewritten, Shapes
  <1>3. ActorsOK'
    BY <1>1, <1>2, ActorSet DEF Shapes, Rewritten
  <1>4. Shapes'
    BY <1>1, <1>2, <1>3, OthersStay DEF Shapes, Rewritten
  <1>5. CardsHeld'
    BY <1>1, CommandCards
  <1>6. HooksHeld'
    BY <1>1, <1>2, CommandHooks
  <1> QED BY <1>2, <1>4, <1>5, <1>6 DEF IntegrationsInv

\* The open incidents of an integration are brought to what its row declares now; the rest
\* is as it was.
LEMMA SilenceDeclared ==
  ASSUME Shapes, SilenceAsDeclared, NEW id \in Id, NEW after, UNCHANGED deployment,
         rows' = [rows EXCEPT ![id] = after], \A i : Known(i) => Known(i)',
         NEW seconds, seconds = Declared(after), DeclareSilence(id, seconds),
         left'.silence = left.silence \ {g \in Incident : groups[g].intake = id}
  PROVE  GroupsOK' /\ SilenceAsDeclared'
  <1>1. /\ DOMAIN groups' = Incident
        /\ \A g \in Incident : /\ groups'[g].intake = groups[g].intake
                               /\ groups'[g].open = groups[g].open
                               /\ GroupOK(g, groups'[g])
                               /\ groups[g].intake # id => groups'[g].silence = groups[g].silence
                               /\ groups[g].intake = id /\ groups[g].open => groups'[g].silence = seconds
    <2>1. DOMAIN groups' = Incident
      BY DEF DeclareSilence
    <2>2. ASSUME NEW g \in Incident
          PROVE  /\ groups'[g].intake = groups[g].intake
                 /\ groups'[g].open = groups[g].open
                 /\ GroupOK(g, groups'[g])
                 /\ groups[g].intake # id => groups'[g].silence = groups[g].silence
                 /\ groups[g].intake = id /\ groups[g].open => groups'[g].silence = seconds
      <3>1. GroupOK(g, groups[g])
        BY DEF Shapes, GroupsOK
      <3>2. CASE groups[g].intake = id /\ groups[g].open
        <4>1. groups'[g] = [groups[g] EXCEPT !.silence = seconds]
          BY <3>2 DEF DeclareSilence
        <4> QED BY <3>1, <3>2, <4>1 DEF GroupOK
      <3>3. CASE ~(groups[g].intake = id /\ groups[g].open)
        <4>1. groups'[g] = groups[g]
          BY <3>3 DEF DeclareSilence
        <4> QED BY <3>1, <3>3, <4>1
      <3> QED BY <3>2, <3>3
    <2> QED BY <2>1, <2>2
  <1>2. GroupsOK'
    <2> SUFFICES ASSUME NEW g \in Incident PROVE GroupOK(g, groups[g])'
      BY <1>1 DEF GroupsOK
    <2>1. PICK y : y = groups'[g]
      OBVIOUS
    <2>2. GroupOK(g, y)'
      BY <1>1, <2>1, OthersStay
    <2> QED BY <2>1, <2>2
  <1>3. rows'[id] = after /\ \A i \in Id \ {id} : rows'[i] = rows[i]
    BY DEF Shapes, RowsOK
  <1>4. SilenceAsDeclared'
    <2> SUFFICES ASSUME NEW g \in Incident, groups'[g].open, groups'[g].intake # None,
                        groups'[g].silence # Declared(rows'[groups'[g].intake])
                 PROVE  g \in left'.silence
      BY DEF SilenceAsDeclared, Declared
    <2>1. groups[g].intake # id
      BY <1>1, <1>3
    <2>2. rows'[groups[g].intake] = rows[groups[g].intake]
      BY <1>1, <1>3, <2>1 DEF Shapes, GroupsOK, GroupOK, Known
    <2>3. g \in left.silence
      BY <1>1, <2>1, <2>2 DEF SilenceAsDeclared
    <2> QED BY <2>1, <2>3
  <1> QED BY <1>2, <1>4

\* What a declaration of silence leaves of the cards.
LEMMA SilenceCards ==
  ASSUME Shapes, NEW id, NEW seconds, DeclareSilence(id, seconds)
  PROVE  \A g \in Incident : SameCard(groups'[g], groups[g])
  <1> SUFFICES ASSUME NEW g \in Incident PROVE SameCard(groups'[g], groups[g])
    OBVIOUS
  <1>1. \/ groups'[g] = [groups[g] EXCEPT !.silence = seconds]
        \/ groups'[g] = groups[g]
    BY DEF DeclareSilence
  <1> QED BY <1>1 DEF SameCard, Shapes, GroupsOK, GroupOK

\* Whether the buttons are switched on, after one row is rewritten.
LEMMA SwitchMoves ==
  ASSUME RowsOK, NEW id \in Id, NEW after, rows' = [rows EXCEPT ![id] = after], RowOK(after),
         UNCHANGED deployment,
         type # "alertmanager" => (after.on /\ after.buttons <=> rows[id].on /\ rows[id].buttons)
  PROVE  ButtonsOn' = ButtonsOn
  <1>1. rows'[id] = after /\ \A i \in Id \ {id} : rows'[i] = rows[i]
    BY DEF RowsOK
  <1>2. \A i \in Id : rows[i].on => rows[i].state = "here"
    BY DEF RowsOK, RowOK
  <1>3. \A i \in Id : rows'[i].on => rows'[i].state = "here"
    BY <1>1, <1>2 DEF RowOK
  <1>4. ButtonsOn <=> type # "alertmanager" /\ \E i \in Id : rows[i].on /\ rows[i].buttons
    BY <1>2 DEF ButtonsOn, Enabled, Here
  <1>5. ButtonsOn' <=> type # "alertmanager" /\ \E i \in Id : rows'[i].on /\ rows'[i].buttons
    BY <1>3 DEF ButtonsOn, Enabled, Here, type
  <1> QED BY <1>1, <1>4, <1>5 DEF ButtonsOn

\* An integration is created.
LEMMA CreateHolds ==
  ASSUME IntegrationsInv, NEW r \in Request, NEW i \in Instance, NEW id \in Id, NEW config \in Config,
         CreateCommits(r, i, id, config)
  PROVE  IntegrationsInv'
  <1> DEFINE x == [Idle EXCEPT !.pc = "reload", !.at = i, !.op = "create", !.id = id]
  <1>1. Shapes /\ SilenceAsDeclared /\ r \in Actor
    BY DEF IntegrationsInv, Actor
  <1>2. /\ actors[r].pc = "idle" /\ rows[id].state = "unused" /\ rows' = [rows EXCEPT ![id] = config]
        /\ type = "alertmanager" \/ Here = {}
        /\ UNCHANGED <<deployment, groups, instances, payloads, hooks>>
    BY DEF CreateCommits
  <1>3. /\ LeftOK' /\ left'.tokens = left.tokens /\ left'.silence = left.silence
        /\ left.cards \subseteq left'.cards
        /\ config.on /\ config.buttons => deployment.incidents \subseteq left'.cards
    BY <1>1 DEF CreateCommits, LeftByMove, Shapes, LeftOK
  <1>4. Rewritten(r, id, config)
    BY <1>2, <1>3, ConfigIsRow DEF Rewritten
  <1>5. Turns(r, x)
    BY <1>1 DEF CreateCommits, Turns, Shapes, ActorsOK
  <1>6. /\ DOMAIN x = DOMAIN Idle /\ x.pc = "reload" /\ x.op = "create" /\ x.id = id
        /\ x.tokens = {} /\ x.saw = Idle.saw /\ x.read = {}
    BY IdleIsActor
  <1> HIDE DEF x
  <1>7. ~rows[id].on /\ ~Known(id)
    BY <1>1, <1>2 DEF Shapes, RowsOK, RowOK, Known
  <1>8. ButtonsOn' = ButtonsOn \/ deployment.incidents \subseteq left'.cards
    <2>1. CASE config.on /\ config.buttons
      BY <1>3, <2>1
    <2>2. CASE ~(config.on /\ config.buttons)
      BY <1>1, <1>2, <1>7, <2>2, ConfigIsRow, SwitchMoves DEF Shapes
    <2> QED BY <2>1, <2>2
  <1>9. Known(id)' => ActorOK(r, x)'
    <2>1. id # None /\ RowOK(x.saw)
      BY <1>6, IdleIsActor, AbsentIsRow, IntegrationsAssumption
    <2>2. DOMAIN x = {"pc", "at", "op", "id", "tokens", "keep", "todo", "owes", "saw", "read"}
      BY <1>6, IdleIsActor
    <2> QED BY <1>6, <2>1, <2>2 DEF ActorOK
  <1>10. (\A j : Known(j) => Known(j)') => GroupsOK' /\ SilenceAsDeclared'
    <2> SUFFICES ASSUME \A j : Known(j) => Known(j)' PROVE GroupsOK' /\ SilenceAsDeclared'
      OBVIOUS
    <2>1. GroupsOK'
      BY <1>1, <1>2, OthersStay DEF Shapes
    <2>2. \A g \in Incident : groups[g].intake # None => rows'[groups[g].intake] = rows[groups[g].intake]
      BY <1>1, <1>2, <1>7 DEF Shapes, GroupsOK, GroupOK, Known, RowsOK
    <2>3. SilenceAsDeclared'
      BY <1>1, <1>2, <1>3, <2>2 DEF SilenceAsDeclared, Declared
    <2> QED BY <2>1, <2>3
  <1>11. \A t \in Token : Taken(x, id, t)
    <2> SUFFICES ASSUME NEW t \in Token, Own(id, t)' PROVE t \in Pending(x)'
      BY <1>7 DEF Taken, Own
    <2>1. rows'[x.id].on /\ rows'[x.id].token = t
      BY <1>6 DEF Own
    <2> QED BY <1>6, <2>1 DEF Pending
  <1>12. \A g \in Incident : SameCard(groups'[g], groups[g])
    BY <1>2 DEF SameCard
  <1> QED BY <1>3, <1>4, <1>5, <1>6, <1>8, <1>9, <1>10, <1>11, <1>12, CommandHolds

\* A row is edited, by a request that asks or by a test.
LEMMA EditHolds ==
  ASSUME IntegrationsInv, NEW r \in Request, NEW i, NEW op \in {"update", "test"}, NEW id \in Here,
         NEW after, RowOK(after), after.state = "here", Edits(r, i, op, id, after),
         actors[r].pc \in {"idle", "test"}, type = "telegram" => op # "test"
  PROVE  IntegrationsInv'
  <1>1. Shapes /\ SilenceAsDeclared /\ r \in Actor /\ id \in Id /\ RowOK(rows[id])
    BY DEF IntegrationsInv, Actor, Here, Shapes, RowsOK
  <1>0. PICK x : x = [Idle EXCEPT !.pc = IF ButtonsMoved(rows[id], after) THEN "scan" ELSE "reload",
                                  !.at = i, !.op = op, !.id = id,
                                  !.tokens = {rows[id].token, after.token}]
    OBVIOUS
  <1>2. /\ rows' = [rows EXCEPT ![id] = after] /\ DeclareSilence(id, Declared(after))
        /\ UNCHANGED <<deployment, instances, payloads, hooks>>
    BY DEF Edits
  <1>3. /\ LeftOK' /\ left'.tokens = left.tokens /\ left'.cards = left.cards
        /\ left'.silence = left.silence \ {g \in Incident : groups[g].intake = id}
    BY <1>1 DEF Edits, Shapes, LeftOK
  <1>4. type # "alertmanager" => Here \subseteq {id}
    BY <1>1 DEF Shapes, RowsOK, OneRow
  <1>5. Rewritten(r, id, after)
    BY <1>2, <1>3, <1>4 DEF Rewritten
  <1>6. Turns(r, x)
    BY <1>1, <1>0 DEF Edits, Turns, Shapes, ActorsOK
  <1>7. /\ DOMAIN x = DOMAIN Idle /\ x.op = op /\ x.id = id
        /\ x.tokens = {rows[id].token, after.token} /\ x.saw = Idle.saw /\ x.read = {}
        /\ x.pc = IF ButtonsMoved(rows[id], after) THEN "scan" ELSE "reload"
    BY <1>0, IdleIsActor
  <1>8. ButtonsOn' = ButtonsOn \/ x.pc = "scan"
    <2>1. CASE ButtonsMoved(rows[id], after)
      BY <1>7, <2>1
    <2>2. CASE ~ButtonsMoved(rows[id], after)
      <3>1. type # "alertmanager" => after.on = rows[id].on /\ after.buttons = rows[id].buttons
        BY <2>2 DEF ButtonsMoved
      <3> QED BY <1>1, <1>2, <3>1, SwitchMoves DEF Shapes
    <2> QED BY <2>1, <2>2
  <1>9. Known(id)' => ActorOK(r, x)'
    <2>1. id # None /\ RowOK(x.saw)
      BY <1>1, <1>7, IdleIsActor, AbsentIsRow, IntegrationsAssumption
    <2>2. DOMAIN x = {"pc", "at", "op", "id", "tokens", "keep", "todo", "owes", "saw", "read"}
      BY <1>7, IdleIsActor
    <2>3. x.pc \in {"scan", "reload"}
      BY <1>7
    <2>4. type' = type
      BY <1>2, SameType
    <2>5. x.op = op /\ x.id = id /\ x.read = {}
      BY <1>7
    <2> QED BY <2>1, <2>2, <2>3, <2>4, <2>5 DEF ActorOK
  <1>10. (\A j : Known(j) => Known(j)') => GroupsOK' /\ SilenceAsDeclared'
    BY <1>1, <1>2, <1>3, SilenceDeclared
  <1>11. \A t \in Token : Taken(x, id, t)
    <2> SUFFICES ASSUME NEW t \in Token, t \notin x.tokens PROVE Own(id, t)' <=> Own(id, t)
      BY DEF Taken
    <2>1. rows'[id] = after
      BY <1>1, <1>2 DEF Shapes, RowsOK
    <2> QED BY <1>7, <2>1 DEF Own
  <1>12. \A g \in Incident : SameCard(groups'[g], groups[g])
    BY <1>1, <1>2, SilenceCards
  <1>13. x.pc # "calling" /\ x.id = id
    BY <1>7
  <1> QED BY <1>1, <1>3, <1>5, <1>6, <1>8, <1>9, <1>10, <1>11, <1>12, <1>13, CommandHolds

\* An edit that an administrator asks for.
LEMMA UpdateHolds ==
  ASSUME IntegrationsInv, NEW r \in Request, NEW i \in Instance, NEW id \in Id, NEW after \in Config,
         UpdateCommits(r, i, id, after)
  PROVE  IntegrationsInv'
  BY ConfigIsRow, EditHolds DEF UpdateCommits

\* The test of a Slack integration writes over what was committed meanwhile.
LEMMA TestCommitsHolds ==
  ASSUME IntegrationsInv, NEW r \in Actor, TestCommits(r)
  PROVE  IntegrationsInv'
  <1>1. Shapes
    BY DEF IntegrationsInv
  <1>2. /\ actors[r].pc = "test" /\ actors[r].id \in Here
        /\ Edits(r, actors[r].at, "test", actors[r].id,
                 [rows[actors[r].id] EXCEPT !.token = actors[r].saw.token,
                                            !.buttons = actors[r].saw.buttons])
    BY DEF TestCommits
  <1>3. ActorOK(r, actors[r]) /\ RowOK(rows[actors[r].id]) /\ rows[actors[r].id].state = "here"
    BY <1>1, <1>2 DEF Shapes, ActorsOK, RowsOK, Here
  <1> DEFINE after == [rows[actors[r].id] EXCEPT !.token = actors[r].saw.token,
                                                !.buttons = actors[r].saw.buttons]
  <1>4. RowOK(after) /\ after.state = "here"
    BY <1>3 DEF RowOK, ActorOK
  <1>5. r \in Request /\ type # "telegram"
    BY <1>2, <1>3 DEF ActorOK
  <1> HIDE DEF after
  <1>6. Edits(r, actors[r].at, "test", actors[r].id, after)
    BY <1>2 DEF after
  <1> QED BY <1>2, <1>4, <1>5, <1>6, EditHolds

\* An integration is deleted.
LEMMA DeleteHolds ==
  ASSUME IntegrationsInv, NEW r \in Request, NEW i \in Instance, NEW id \in Id, DeleteCommits(r, i, id)
  PROVE  IntegrationsInv'
  <1>1. Shapes /\ SilenceAsDeclared /\ r \in Actor /\ RowOK(rows[id])
    BY DEF IntegrationsInv, Actor, Shapes, RowsOK
  <1>0. PICK x : x = [Idle EXCEPT !.pc = "reload", !.at = i, !.op = "delete", !.id = id,
                                  !.tokens = {rows[id].token}]
    OBVIOUS
  <1> DEFINE moved == rows[id].on /\ rows[id].buttons
             after == Absent("gone")
  <1>2. /\ rows' = [rows EXCEPT ![id] = after] /\ DeclareSilence(id, 0)
        /\ actors[r].pc = "idle" /\ UNCHANGED <<deployment, instances, payloads, hooks>>
    BY DEF DeleteCommits
  <1>3. /\ LeftOK' /\ left'.tokens = left.tokens /\ left.cards \subseteq left'.cards
        /\ left'.silence = left.silence \ {g \in Incident : groups[g].intake = id}
        /\ moved => deployment.incidents \subseteq left'.cards
    BY <1>1 DEF DeleteCommits, LeftByMove, Shapes, LeftOK
  <1>4. RowOK(after) /\ after.state = "gone" /\ ~after.on /\ Declared(after) = 0
    BY AbsentIsRow DEF Declared
  <1>5. Turns(r, x)
    BY <1>1, <1>0 DEF DeleteCommits, Turns, Shapes, ActorsOK
  <1>6. /\ DOMAIN x = DOMAIN Idle /\ x.pc = "reload" /\ x.op = "delete" /\ x.id = id
        /\ x.tokens = {rows[id].token} /\ x.saw = Idle.saw /\ x.read = {}
    BY <1>0, IdleIsActor
  <1> HIDE DEF after
  <1>7. Rewritten(r, id, after)
    BY <1>2, <1>3, <1>4 DEF Rewritten
  <1>8. ButtonsOn' = ButtonsOn \/ deployment.incidents \subseteq left'.cards
    <2>1. CASE moved
      BY <1>3, <2>1
    <2>2. CASE ~moved
      BY <1>1, <1>2, <1>4, <2>2, SwitchMoves DEF Shapes
    <2> QED BY <2>1, <2>2
  <1>9. Known(id)' => ActorOK(r, x)'
    <2>1. id # None /\ RowOK(x.saw)
      BY <1>6, IdleIsActor, AbsentIsRow, IntegrationsAssumption
    <2>2. DOMAIN x = {"pc", "at", "op", "id", "tokens", "keep", "todo", "owes", "saw", "read"}
      BY <1>6, IdleIsActor
    <2>3. x.op = "delete" /\ x.id = id /\ x.read = {} /\ x.pc = "reload"
      BY <1>6
    <2> QED BY <2>1, <2>2, <2>3 DEF ActorOK
  <1>10. (\A j : Known(j) => Known(j)') => GroupsOK' /\ SilenceAsDeclared'
    BY <1>1, <1>2, <1>3, <1>4, SilenceDeclared
  <1>11. \A t \in Token : Taken(x, id, t)
    <2> SUFFICES ASSUME NEW t \in Token, t \notin x.tokens PROVE Own(id, t)' <=> Own(id, t)
      BY DEF Taken
    <2>1. rows'[id] = after
      BY <1>1, <1>2 DEF Shapes, RowsOK
    <2> QED BY <1>4, <1>6, <2>1 DEF Own
  <1>12. \A g \in Incident : SameCard(groups'[g], groups[g])
    BY <1>1, <1>2, SilenceCards
  <1>13. x.pc # "calling" /\ x.id = id
    BY <1>6
  <1> QED BY <1>1, <1>3, <1>5, <1>13, <1>7, <1>8, <1>9, <1>10, <1>11, <1>12, CommandHolds

------------------------------------------------------------------------------
(* The alert groups.                                                       *)

\* One alert group becomes y, and nobody's part in the webhook or in another card changes.
BecomesGroup(g, y) ==
  /\ groups' = [groups EXCEPT ![g] = y] /\ GroupOK(g, y)
  /\ UNCHANGED <<deployment, rows, instances, hooks>>
  /\ left'.tokens = left.tokens
  /\ \A a \in Actor : SameCaller(actors'[a], actors[a])
  /\ \A h \in Incident \ {g} :
       /\ h \in left.cards => h \in left'.cards
       /\ h \in left.silence => h \in left'.silence
       /\ \A a \in Actor : Covers(actors[a], h) => Covers(actors'[a], h)

\* Neither a card behind the switch nor a silence behind the row goes unnoticed.
LEMMA GroupHolds ==
  ASSUME IntegrationsInv, NEW g \in Incident, NEW y, BecomesGroup(g, y), ActorsOK', PayloadsOK', LeftOK',
         y.card # "none" /\ ~y.final /\ y.drawn # ButtonsOn =>
           g \in left'.cards \/ \E a \in Actor : Covers(actors'[a], g),
         y.open /\ y.intake # None /\ y.silence # Declared(rows[y.intake]) => g \in left'.silence
  PROVE  IntegrationsInv'
  <1> USE DEF BecomesGroup
  <1>1. Shapes /\ CardsHeld /\ SilenceAsDeclared /\ HooksHeld
    BY DEF IntegrationsInv
  <1>2. GroupsOK' /\ groups'[g] = y /\ \A h \in Incident \ {g} : groups'[h] = groups[h]
    BY <1>1, GroupSet DEF Shapes
  <1>3. RowsOK' /\ \A i : Known(i) => Known(i)'
    BY <1>1, RowsStay DEF Shapes
  <1>4. Shapes'
    BY <1>1, <1>2, <1>3, OthersStay DEF Shapes
  <1>5. ButtonsOn' = ButtonsOn
    BY DEF ButtonsOn, Enabled, Here, type
  <1>6. \A h, x : Covers(x, h) => Covers(x, h)'
    BY <1>5 DEF Covers
  <1>7. ASSUME NEW h \in Incident, NEW a \in Actor, Covers(actors'[a], h)
        PROVE  Covers(actors[a], h)'
    <2>1. PICK x : x = actors'[a]
      OBVIOUS
    <2>2. Covers(x, h)'
      BY <1>6, <1>7, <2>1
    <2> QED BY <2>1, <2>2
  <1>8. CardsHeld'
    <2> SUFFICES ASSUME NEW h \in Incident, Behind(h)'
                 PROVE  h \in left'.cards \/ \E a \in Actor : Covers(actors[a], h)'
      BY DEF CardsHeld
    <2>1. CASE h = g
      <3>1. y.card # "none" /\ ~y.final /\ y.drawn # ButtonsOn
        BY <1>2, <1>5, <2>1 DEF Behind
      <3> QED BY <1>7, <2>1, <3>1
    <2>2. CASE h # g
      <3>1. Behind(h)
        BY <1>2, <1>5, <2>2 DEF Behind
      <3>2. h \in left.cards \/ \E a \in Actor : Covers(actors[a], h)
        BY <1>1, <3>1 DEF CardsHeld
      <3> QED BY <1>7, <2>2, <3>2
    <2> QED BY <2>1, <2>2
  <1>9. SilenceAsDeclared'
    BY <1>1, <1>2 DEF SilenceAsDeclared, Declared
  <1>10. HooksHeld'
    BY <1>1, HooksStay
  <1> QED BY <1>4, <1>8, <1>9, <1>10 DEF IntegrationsInv

\* A card drawn anew shows the switch as it is, and keeps the rest.
LEMMA RedrawnIsCurrent ==
  ASSUME Shapes, NEW g \in Incident
  PROVE  LET y == Redrawn(g)
         IN /\ GroupOK(g, y)
            /\ y.card = "none" \/ y.final \/ y.drawn = ButtonsOn
            /\ y.card = groups[g].card /\ y.open = groups[g].open /\ y.intake = groups[g].intake
            /\ y.silence = groups[g].silence /\ y.plan = groups[g].plan /\ y.final = groups[g].final
  <1>1. GroupOK(g, groups[g]) /\ ButtonsOn \in BOOLEAN
    BY DEF Shapes, GroupsOK, ButtonsOn
  <1> QED BY <1>1 DEF Redrawn, GroupOK

\* The door redraws one card of its list.
LEMMA DoorRaisesHolds ==
  ASSUME IntegrationsInv, NEW a \in Actor, NEW g \in Incident, DoorRaises(a, g)
  PROVE  IntegrationsInv'
  <1>1. Shapes /\ SilenceAsDeclared
    BY DEF IntegrationsInv
  <1>2. actors[a].pc = "raise" /\ ActorOK(a, actors[a])
        /\ UNCHANGED <<deployment, rows, instances, payloads, hooks>>
    BY <1>1 DEF DoorRaises, Shapes, ActorsOK
  <1>3. PICK x : x = actors'[a]
    OBVIOUS
  <1>4. /\ Turns(a, x) /\ DOMAIN x = DOMAIN actors[a] /\ x.pc = "raise"
        /\ x.read = actors[a].read /\ x.keep = actors[a].keep
        /\ x.id = actors[a].id /\ x.op = actors[a].op
        /\ x.tokens = actors[a].tokens /\ x.saw = actors[a].saw
        /\ x.todo = actors[a].todo \ {g} /\ x.owes = actors[a].owes \ {g}
    BY <1>1, <1>2, <1>3 DEF DoorRaises, Turns, Shapes, ActorsOK, ActorOK
  <1>5. ActorOK(a, x)
    BY <1>2, <1>4 DEF ActorOK
  <1>6. \A b \in Actor : SameCaller(actors'[b], actors[b])
    BY <1>2, <1>4 DEF SameCaller, Turns
  <1>7. \A h \in Incident \ {g}, b \in Actor : Covers(actors[b], h) => Covers(actors'[b], h)
    <2>1. \A h \in Incident \ {g} : Covers(actors[a], h) => Covers(x, h)
      BY <1>2, <1>4 DEF Covers
    <2> QED BY <1>4, <2>1 DEF Turns
  <1>8. LeftOK' /\ left'.tokens = left.tokens /\ left'.silence = left.silence
        /\ left'.cards = left.cards \ {g}
    BY <1>1 DEF DoorRaises, Shapes, LeftOK
  <1>9. PICK y : y = Redrawn(g)
    OBVIOUS
  <1>10. /\ GroupOK(g, y)
         /\ y.card = "none" \/ y.final \/ y.drawn = ButtonsOn
         /\ y.open = groups[g].open /\ y.intake = groups[g].intake /\ y.silence = groups[g].silence
    BY <1>1, <1>9, RedrawnIsCurrent
  <1>11. BecomesGroup(g, y)
    BY <1>2, <1>6, <1>7, <1>8, <1>9, <1>10 DEF BecomesGroup, DoorRaises
  <1>12. RowsOK' /\ \A i : Known(i) => Known(i)'
    BY <1>1, <1>2, RowsStay DEF Shapes
  <1>13. ActorsOK'
    BY <1>1, <1>2, <1>4, <1>5, <1>12, OthersStay, ActorSet DEF Shapes
  <1>14. PayloadsOK'
    BY <1>1, <1>2, <1>12, OthersStay DEF Shapes
  <1>15. y.open /\ y.intake # None /\ y.silence # Declared(rows[y.intake]) => g \in left'.silence
    BY <1>1, <1>8, <1>10 DEF SilenceAsDeclared
  <1> QED BY <1>8, <1>10, <1>11, <1>13, <1>14, <1>15, GroupHolds

\* An alert group moves, and actors and payloads do not.
LEMMA GroupOnly ==
  ASSUME IntegrationsInv, NEW g \in Incident, NEW y, groups' = [groups EXCEPT ![g] = y], GroupOK(g, y),
         UNCHANGED <<deployment, rows, instances, actors, payloads, hooks>>,
         LeftOK', left'.tokens = left.tokens, left'.silence = left.silence,
         left.cards \ {g} \subseteq left'.cards,
         y.open => groups[g].open, y.intake = groups[g].intake, y.silence = groups[g].silence,
         y.card # "none" /\ ~y.final /\ y.drawn # ButtonsOn =>
           g \in left'.cards \/ (Behind(g) /\ left'.cards = left.cards)
  PROVE  IntegrationsInv'
  <1>1. Shapes /\ CardsHeld /\ SilenceAsDeclared
    BY DEF IntegrationsInv
  <1>2. BecomesGroup(g, y)
    BY DEF BecomesGroup, SameCaller
  <1>3. RowsOK' /\ \A i : Known(i) => Known(i)'
    BY <1>1, RowsStay DEF Shapes
  <1>4. ActorsOK' /\ PayloadsOK'
    BY <1>1, <1>3, OthersStay DEF Shapes
  <1>5. y.card # "none" /\ ~y.final /\ y.drawn # ButtonsOn =>
          g \in left'.cards \/ \E a \in Actor : Covers(actors'[a], g)
    BY <1>1 DEF CardsHeld
  <1>6. y.open /\ y.intake # None /\ y.silence # Declared(rows[y.intake]) => g \in left'.silence
    BY <1>1 DEF SilenceAsDeclared
  <1> QED BY <1>2, <1>4, <1>5, <1>6, GroupHolds

\* The engine reads what the first picture will show.
LEMMA PlanReadsHolds ==
  ASSUME IntegrationsInv, NEW g \in Incident, PlanReads(g)
  PROVE  IntegrationsInv'
  <1>1. Shapes /\ GroupOK(g, groups[g])
    BY DEF IntegrationsInv, Shapes, GroupsOK
  <1>2. PICK plan : groups' = [groups EXCEPT ![g].plan = plan]
    BY DEF PlanReads
  <1> DEFINE y == [groups[g] EXCEPT !.plan = plan]
  <1>3. g \in deployment.incidents /\ type # "alertmanager"
        /\ UNCHANGED <<deployment, rows, instances, actors, payloads, hooks, left>>
    BY DEF PlanReads
  <1>4. GroupOK(g, y) /\ y.open = groups[g].open /\ y.intake = groups[g].intake
        /\ y.silence = groups[g].silence /\ y.card = groups[g].card /\ y.final = groups[g].final
        /\ y.drawn = groups[g].drawn
    BY <1>1, <1>3 DEF GroupOK
  <1>5. LeftOK' /\ groups' = [groups EXCEPT ![g] = y]
    BY <1>1, <1>2, <1>3 DEF Shapes, LeftOK
  <1> HIDE DEF y
  <1> QED BY <1>3, <1>4, <1>5, GroupOnly DEF Behind

\* A plan of before is admitted as it was read, and its card left to the next start.
LEMMA AdmitsHolds ==
  ASSUME IntegrationsInv, NEW g \in Incident, Admits(g)
  PROVE  IntegrationsInv'
  <1>1. Shapes /\ GroupOK(g, groups[g])
    BY DEF IntegrationsInv, Shapes, GroupsOK
  <1> DEFINE drawn == groups[g].plan = "on"
             y == [groups[g] EXCEPT !.plan = "none", !.card = "live", !.drawn = drawn]
  <1>2. groups[g].plan # "none" /\ groups[g].open
        /\ UNCHANGED <<deployment, rows, instances, actors, payloads, hooks>>
    BY DEF Admits
  <1>3. GroupOK(g, y) /\ y.open = groups[g].open /\ y.intake = groups[g].intake
        /\ y.silence = groups[g].silence /\ y.drawn = drawn
    BY <1>1, <1>2 DEF GroupOK
  <1>4. groups' = [groups EXCEPT ![g] = y]
    BY <1>1 DEF Admits, Shapes, GroupsOK
  <1>5. LeftOK' /\ left'.tokens = left.tokens /\ left'.silence = left.silence
        /\ left'.cards = IF drawn # ButtonsOn THEN left.cards \cup {g} ELSE left.cards \ {g}
    BY <1>1 DEF Admits, Shapes, LeftOK
  <1> HIDE DEF y, drawn
  <1>6. left.cards \ {g} \subseteq left'.cards /\ (drawn # ButtonsOn => g \in left'.cards)
    BY <1>5
  <1> QED BY <1>2, <1>3, <1>4, <1>5, <1>6, GroupOnly

\* A merge, a note, an acknowledgement, a resolution, a press: the picture with it.
LEMMA RaisesHolds ==
  ASSUME IntegrationsInv, NEW g \in Incident, Raises(g)
  PROVE  IntegrationsInv'
  <1>1. Shapes /\ GroupOK(g, groups[g])
    BY DEF IntegrationsInv, Shapes, GroupsOK
  <1>2. groups[g].open /\ groups[g].card # "none"
        /\ UNCHANGED <<deployment, rows, instances, actors, payloads, hooks>>
    BY DEF Raises
  <1>3. PICK z : z = Redrawn(g)
    OBVIOUS
  <1>4. /\ GroupOK(g, z)
        /\ z.card = "none" \/ z.final \/ z.drawn = ButtonsOn
        /\ z.card = groups[g].card /\ z.intake = groups[g].intake /\ z.silence = groups[g].silence
        /\ z.open = groups[g].open /\ z.final = groups[g].final
    BY <1>1, <1>3, RedrawnIsCurrent
  <1>5. PICK over \in BOOLEAN : groups' = [groups EXCEPT ![g] = [z EXCEPT !.open = ~over, !.final = over]]
    BY <1>3 DEF Raises
  <1> DEFINE y == [z EXCEPT !.open = ~over, !.final = over]
  <1>6. z.drawn = ButtonsOn
    BY <1>1, <1>2, <1>4 DEF GroupOK
  <1>7. GroupOK(g, y) /\ y.intake = groups[g].intake /\ y.silence = groups[g].silence
        /\ y.drawn = ButtonsOn
    BY <1>2, <1>4, <1>6 DEF GroupOK
  <1>8. groups' = [groups EXCEPT ![g] = y]
    BY <1>5
  <1>9. LeftOK' /\ left'.tokens = left.tokens /\ left'.silence = left.silence
        /\ left'.cards = left.cards \ {g}
    BY <1>1 DEF Raises, Shapes, LeftOK
  <1> HIDE DEF y
  <1> QED BY <1>2, <1>7, <1>8, <1>9, GroupOnly

\* A card fails, or is brought back.
LEMMA CardMovesHolds ==
  ASSUME IntegrationsInv, NEW g \in Incident, CardFails(g) \/ Revives(g)
  PROVE  IntegrationsInv'
  <1>1. Shapes /\ GroupOK(g, groups[g])
    BY DEF IntegrationsInv, Shapes, GroupsOK
  <1>2. /\ groups[g].card # "none"
        /\ UNCHANGED <<deployment, rows, instances, actors, payloads, hooks, left>>
    BY DEF CardFails, Revives
  <1>3. PICK card \in {"live", "stuck"} : groups' = [groups EXCEPT ![g].card = card]
    BY DEF CardFails, Revives
  <1> DEFINE y == [groups[g] EXCEPT !.card = card]
  <1>4. GroupOK(g, y) /\ y.open = groups[g].open /\ y.intake = groups[g].intake
        /\ y.silence = groups[g].silence /\ y.final = groups[g].final /\ y.drawn = groups[g].drawn
    BY <1>1, <1>2, <1>3 DEF GroupOK
  <1>5. LeftOK' /\ groups' = [groups EXCEPT ![g] = y]
    BY <1>1, <1>2, <1>3 DEF Shapes, LeftOK
  <1> HIDE DEF y
  <1> QED BY <1>2, <1>4, <1>5, GroupOnly DEF Behind

\* An alert group is resolved by those who sent it.
LEMMA ResolvesHolds ==
  ASSUME IntegrationsInv, NEW g \in Incident, Resolves(g)
  PROVE  IntegrationsInv'
  <1>1. Shapes /\ GroupOK(g, groups[g])
    BY DEF IntegrationsInv, Shapes, GroupsOK
  <1>2. UNCHANGED <<deployment, rows, instances, actors, payloads, hooks, left>>
    BY DEF Resolves
  <1> DEFINE y == [groups[g] EXCEPT !.open = FALSE]
  <1>3. GroupOK(g, y) /\ ~y.open /\ y.intake = groups[g].intake
        /\ y.silence = groups[g].silence /\ y.final = groups[g].final /\ y.drawn = groups[g].drawn
        /\ y.card = groups[g].card
    BY <1>1 DEF GroupOK
  <1>4. LeftOK' /\ groups' = [groups EXCEPT ![g] = y]
    BY <1>1, <1>2 DEF Resolves, Shapes, LeftOK
  <1> HIDE DEF y
  <1> QED BY <1>2, <1>3, <1>4, GroupOnly DEF Behind

\* A payload is stored with the silence of when it was verified.
LEMMA PayloadAppliesHolds ==
  ASSUME IntegrationsInv, NEW p \in Payload, NEW g \in Incident, PayloadApplies(p, g)
  PROVE  IntegrationsInv'
  <1>1. Shapes /\ CardsHeld /\ GroupOK(g, groups[g]) /\ PayloadOK(payloads[p])
    BY DEF IntegrationsInv, Shapes, GroupsOK, PayloadsOK
  <1>2. /\ payloads[p].pc = "taken" /\ payloads' = [payloads EXCEPT ![p] = NoPayload]
        /\ UNCHANGED <<deployment, rows, instances, actors, hooks>>
    BY DEF PayloadApplies
  <1>3. PICK q : q = payloads[p]
    OBVIOUS
  <1> DEFINE y == [groups[g] EXCEPT !.open = TRUE, !.intake = q.id, !.silence = q.silence]
  <1>4. Known(q.id) /\ groups[g].card = "none" /\ ~groups[g].final
    BY <1>1, <1>2, <1>3 DEF PayloadOK, GroupOK
  <1>5. GroupOK(g, y) /\ y.card = "none" /\ y.intake = q.id /\ y.silence = q.silence
    BY <1>1, <1>4 DEF GroupOK
  <1>6. groups' = [groups EXCEPT ![g] = y]
    BY <1>1, <1>3 DEF PayloadApplies, Shapes, GroupsOK
  <1>7. LeftOK' /\ left'.tokens = left.tokens /\ left'.cards = left.cards
        /\ left'.silence = IF q.silence # Declared(rows[q.id]) THEN left.silence \cup {g}
                           ELSE left.silence \ {g}
    BY <1>1, <1>3 DEF PayloadApplies, Shapes, LeftOK
  <1> HIDE DEF y
  <1>8. BecomesGroup(g, y)
    BY <1>2, <1>5, <1>6, <1>7 DEF BecomesGroup, SameCaller
  <1>9. y.open /\ y.intake # None /\ y.silence # Declared(rows[y.intake]) => g \in left'.silence
    BY <1>5, <1>7
  <1>10. ActorsOK'
    BY <1>1, <1>2, RowsStay, OthersStay DEF Shapes
  <1>11. PayloadOK(NoPayload)
    BY DEF PayloadOK, NoPayload
  <1>12. PayloadsOK'
    BY <1>1, <1>2, <1>11, PayloadSet DEF Shapes
  <1> QED BY <1>5, <1>7, <1>8, <1>9, <1>10, <1>12, GroupHolds

------------------------------------------------------------------------------
(* The webhook.                                                            *)

\* Who has no integration, or stands at the beginning, has no token on its hands.
LEMMA NothingPending ==
  ASSUME NEW a \in Actor, ActorOK(a, actors[a]), actors[a].id = None
  PROVE  Pending(actors[a]) = {}
  BY DEF ActorOK, Pending

\* Under the lock on its integration an actor reads what the row asks for.
LEMMA HookLocksHolds ==
  ASSUME IntegrationsInv, NEW a \in Actor, HookLocks(a)
  PROVE  IntegrationsInv'
  <1>1. Shapes /\ CardsHeld /\ SilenceAsDeclared /\ HooksHeld
    BY DEF IntegrationsInv
  <1>2. /\ actors[a].pc = "hook" /\ actors[a].id # None /\ ActorOK(a, actors[a])
        /\ UNCHANGED <<deployment, rows, groups, instances, payloads, hooks, left>>
        /\ \A b \in Actor \ {a} : ~(actors[b].pc = "calling" /\ actors[b].id = actors[a].id)
    BY <1>1 DEF HookLocks, Shapes, ActorsOK
  <1>3. PICK x : x = actors'[a]
    OBVIOUS
  <1>4. /\ Turns(a, x) /\ SameErrand(x, actors[a]) /\ x.pc = "calling"
        /\ x.read = actors[a].read
        /\ x.keep = IF rows[actors[a].id].on THEN rows[actors[a].id].token ELSE None
    BY <1>1, <1>2, <1>3 DEF HookLocks, Turns, SameErrand, Shapes, ActorsOK, ActorOK
  <1>5. ActorOK(a, x)
    BY <1>2, <1>4 DEF ActorOK, SameErrand
  <1>6. RowsOK' /\ \A i : Known(i) => Known(i)'
    BY <1>1, <1>2, RowsStay DEF Shapes
  <1>7. ActorsOK'
    BY <1>1, <1>2, <1>4, <1>5, <1>6, OthersStay, ActorSet DEF Shapes
  <1>8. Shapes'
    BY <1>1, <1>2, <1>6, <1>7, OthersStay DEF Shapes
  <1>9. CardsHeld'
    <2>1. \A g \in Incident : ~Covers(actors[a], g)
      BY <1>2 DEF Covers
    <2> QED BY <1>1, <1>2, <1>4, <2>1, CardsGoOn
  <1>10. SilenceAsDeclared'
    BY <1>1, <1>2, SilenceStays
  <1>11. ASSUME type = "telegram" PROVE TokensHeld' /\ CallsHeld' /\ OneCaller'
    <2>0. TokensHeld /\ CallsHeld /\ OneCaller
      BY <1>1, <1>11 DEF HooksHeld
    <2>1. actors'[a] = x /\ \A b \in Actor \ {a} : actors'[b] = actors[b]
      BY <1>4 DEF Turns
    <2>2. \A t : Current(t)' = Current(t)
      BY <1>2 DEF Current, Enabled, Here
    <2>3. \A b \in Actor \ {a} : Pending(actors[b])' = Pending(actors[b])
      BY <1>2, <2>1 DEF Pending
    <2>4. Pending(actors[a]) \subseteq Pending(actors[a])'
      BY <1>2, <1>4, <2>1 DEF Pending, SameErrand
    <2>5. TokensHeld'
      BY <1>2, <2>0, <2>2, <2>3, <2>4 DEF TokensHeld
    <2>6. CallsHeld'
      <3> SUFFICES ASSUME NEW b \in Actor, actors'[b].pc = "calling", NEW t \in Token,
                          t \in actors'[b].tokens \cup {actors'[b].keep}
                   PROVE  CallRight(b, t)'
        BY DEF CallsHeld
      <3>1. CASE b = a
        <4>1. t # None
          BY IntegrationsAssumption
        <4>2. t = x.keep <=> Own(actors[a].id, t)
          BY <1>4, <4>1 DEF Own
        <4>3. Own(actors[a].id, t)' <=> Own(actors[a].id, t)
          BY <1>2, <1>4, <2>1 DEF Own, SameErrand
        <4> QED BY <2>1, <3>1, <4>2, <4>3 DEF CallRight
      <3>2. CASE b # a
        <4>1. CallRight(b, t)
          BY <2>0, <2>1, <3>2 DEF CallsHeld
        <4>2. actors'[b] = actors[b] /\ rows' = rows /\ left' = left
          BY <1>2, <2>1, <3>2
        <4>3. CASE t = actors[b].keep <=> Own(actors[b].id, t)
          BY <4>2, <4>3 DEF CallRight, Own
        <4>4. CASE \E c \in Actor \ {b} : actors[c].id = actors[b].id /\ t \in actors[c].tokens
          BY <1>4, <2>1, <4>2, <4>4 DEF CallRight, SameErrand
        <4>5. CASE t \in left.tokens
          BY <4>2, <4>5 DEF CallRight
        <4> QED BY <4>1, <4>3, <4>4, <4>5 DEF CallRight
      <3> QED BY <3>1, <3>2
    <2>7. OneCaller'
      BY <1>2, <1>4, <2>0, <2>1 DEF OneCaller, SameErrand
    <2> QED BY <2>5, <2>6, <2>7
  <1>12. HooksHeld'
    BY <1>2, <1>11 DEF HooksHeld, type
  <1> QED BY <1>8, <1>9, <1>10, <1>12 DEF IntegrationsInv

\* The calls put right what the row still asks for, or leave it to whoever changed it.
LEMMA HookCallsHolds ==
  ASSUME IntegrationsInv, NEW a \in Actor, NEW failed \in SUBSET Token, HookCalls(a, failed)
  PROVE  IntegrationsInv'
  <1>1. Shapes /\ CardsHeld /\ SilenceAsDeclared /\ HooksHeld
    BY DEF IntegrationsInv
  <1>2. PICK gone, set : gone = actors[a].tokens \ {actors[a].keep} /\ set = {actors[a].keep} \ {None}
    OBVIOUS
  <1>3. /\ actors[a].pc = "calling" /\ failed \subseteq gone \cup set
        /\ UNCHANGED <<deployment, rows, groups, instances, payloads>>
        /\ hooks' = (hooks \ (gone \ failed)) \cup (set \ failed)
    BY <1>2 DEF HookCalls
  <1>4. /\ LeftOK' /\ left'.cards = left.cards /\ left'.silence = left.silence
        /\ left'.tokens =
             (left.tokens \ {t \in gone \cup set : (t \in hooks') = Current(t) /\ ~Crossed(a, t)})
             \cup failed \cup TakenOff(a, gone)
    BY <1>1, <1>2 DEF HookCalls, Shapes, LeftOK
  <1>5. Turns(a, Idle)
    BY <1>1 DEF HookCalls, Turns, Shapes, ActorsOK
  <1>6. RowsOK' /\ \A i : Known(i) => Known(i)'
    BY <1>1, <1>3, RowsStay DEF Shapes
  <1>7. ActorOK(a, Idle)'
    BY <1>3, <1>6, IdleIsActor, OthersStay
  <1>8. ActorsOK'
    BY <1>1, <1>3, <1>5, <1>6, <1>7, ActorSet DEF Shapes
  <1>9. Shapes'
    BY <1>1, <1>3, <1>4, <1>6, <1>8, OthersStay DEF Shapes
  <1>10. CardsHeld'
    <2>1. \A g \in Incident : ~Covers(actors[a], g)
      BY <1>3 DEF Covers
    <2> QED BY <1>1, <1>3, <1>4, <1>5, <2>1, CardsGoOn
  <1>11. SilenceAsDeclared'
    BY <1>1, <1>3, <1>4, SilenceStays
  <1>12. ASSUME type = "telegram" PROVE TokensHeld' /\ CallsHeld' /\ OneCaller'
    <2>0. TokensHeld /\ CallsHeld /\ OneCaller
      BY <1>1, <1>12 DEF HooksHeld
    <2>1. actors'[a] = Idle /\ \A b \in Actor \ {a} : actors'[b] = actors[b]
      BY <1>5 DEF Turns
    <2>2. \A t : Current(t)' = Current(t)
      BY <1>3 DEF Current, Enabled, Here
    <2>3. \A b \in Actor \ {a} : Pending(actors[b])' = Pending(actors[b])
      BY <1>3, <2>1 DEF Pending
    <2>4. \A t \in Token : t \in Pending(actors[a]) => t \in gone \cup set
      BY <1>2, <1>3, IntegrationsAssumption DEF Pending
    <2>5. TokensHeld'
      <3> SUFFICES ASSUME NEW t \in Token, t \notin left'.tokens,
                          ~\E b \in Actor : t \in Pending(actors[b])'
                   PROVE  (t \in hooks <=> Current(t))'
        BY DEF TokensHeld
      <3>1. ~\E b \in Actor \ {a} : t \in Pending(actors[b])
        BY <2>3
      <3>2. CASE t \notin gone \cup set
        <4>1. t \in hooks' <=> t \in hooks
          BY <1>3, <3>2
        <4>2. t \notin left.tokens
          BY <1>4, <3>2
        <4> QED BY <2>0, <2>2, <2>4, <3>1, <3>2, <4>1, <4>2 DEF TokensHeld
      <3>3. CASE t \in gone \cup set
        <4>1. CallRight(a, t)
          BY <1>2, <1>3, <2>0, <3>3 DEF CallsHeld
        <4>2. t \notin failed /\ t \notin TakenOff(a, gone)
          BY <1>4
        <4>3. CASE t \in left.tokens
          <5>1. (t \in hooks') = Current(t)
            BY <1>4, <4>3
          <5> QED BY <2>2, <5>1
        <4>4. CASE \E b \in Actor \ {a} : actors[b].id = actors[a].id /\ t \in actors[b].tokens
          BY <3>1, <4>4 DEF Pending
        <4>5. CASE t = actors[a].keep <=> Own(actors[a].id, t)
          <5>1. actors[a].id \in Id /\ RowOK(rows[actors[a].id])
            BY <1>1, <1>3 DEF Shapes, ActorsOK, ActorOK, Known, RowsOK
          <5>2. CASE t = actors[a].keep
            <6>1. t \in hooks'
              BY <1>2, <1>3, <3>3, <4>2, <5>2
            <6>2. Current(t)
              BY <4>5, <5>1, <5>2 DEF Own, Current, Enabled, Here, RowOK
            <6> QED BY <2>2, <6>1, <6>2
          <5>3. CASE t # actors[a].keep
            <6>1. t \in gone /\ t \notin set
              BY <1>2, <3>3, <5>3
            <6>2. t \notin hooks'
              BY <1>3, <4>2, <6>1
            <6>3. ~Current(t)
              <7> SUFFICES ASSUME NEW i \in Enabled, rows[i].token = t PROVE FALSE
                BY DEF Current
              <7>1. i # actors[a].id
                BY <4>5, <5>3 DEF Own, Enabled
              <7>2. t \in TakenOff(a, gone)
                BY <6>1, <7>1 DEF TakenOff
              <7> QED BY <4>2, <7>2
            <6> QED BY <2>2, <6>2, <6>3
          <5> QED BY <5>2, <5>3
        <4> QED BY <4>1, <4>3, <4>4, <4>5 DEF CallRight
      <3> QED BY <3>2, <3>3
    <2>6. CallsHeld'
      <3> SUFFICES ASSUME NEW b \in Actor, actors'[b].pc = "calling", NEW t \in Token,
                          t \in actors'[b].tokens \cup {actors'[b].keep}
                   PROVE  CallRight(b, t)'
        BY DEF CallsHeld
      <3>1. b # a /\ actors'[b] = actors[b]
        BY <2>1, IdleIsActor
      <3>2. CallRight(b, t)
        BY <2>0, <3>1 DEF CallsHeld
      <3>3. CASE t = actors[b].keep <=> Own(actors[b].id, t)
        BY <1>3, <3>1, <3>3 DEF CallRight, Own
      <3>4. CASE \E c \in Actor \ {b} : actors[c].id = actors[b].id /\ t \in actors[c].tokens
        <4>1. PICK c \in Actor \ {b} : actors[c].id = actors[b].id /\ t \in actors[c].tokens
          BY <3>4
        <4>2. c # a
          BY <1>3, <2>0, <3>1, <4>1 DEF OneCaller
        <4> QED BY <2>1, <3>1, <4>1, <4>2 DEF CallRight
      <3>5. CASE t \in left.tokens
        <4>1. Crossed(a, t)
          BY <3>1 DEF Crossed
        <4>2. t \in left'.tokens
          BY <1>4, <3>5, <4>1
        <4> QED BY <4>2 DEF CallRight
      <3> QED BY <3>2, <3>3, <3>4, <3>5 DEF CallRight
    <2>7. OneCaller'
      BY <2>0, <2>1, IdleIsActor DEF OneCaller
    <2> QED BY <2>5, <2>6, <2>7
  <1>13. HooksHeld'
    BY <1>3, <1>12 DEF HooksHeld, type
  <1> QED BY <1>9, <1>10, <1>11, <1>13 DEF IntegrationsInv

------------------------------------------------------------------------------
(* The end of an instance.                                                 *)

\* Those who die with instance i.
Dead(i) == {a \in Actor : actors[a].pc # "idle" /\ actors[a].at = i} \ {i}

\* What a dead actor would still have put right is among what is left, or somebody else's.
LEMMA DeadLeave ==
  ASSUME Shapes, HooksHeld, type = "telegram", NEW a \in Actor, NEW t \in Token, t \in Pending(actors[a])
  PROVE  /\ actors[a].id # None
         /\ \/ t \in actors[a].tokens \cup {rows[actors[a].id].token}
            \/ t \in left.tokens
            \/ \E b \in Actor \ {a} : actors[b].id = actors[a].id /\ t \in actors[b].tokens
  <1>1. ActorOK(a, actors[a]) /\ CallsHeld
    BY DEF Shapes, ActorsOK, HooksHeld
  <1>2. actors[a].id # None
    BY <1>1, NothingPending
  <1>3. CASE actors[a].pc = "calling"
    <2>1. t \in actors[a].tokens \cup {actors[a].keep}
      BY <1>3 DEF Pending
    <2>2. CallRight(a, t)
      BY <1>1, <1>3, <2>1 DEF CallsHeld
    <2>3. CASE t = actors[a].keep <=> Own(actors[a].id, t)
      BY <1>2, <2>1, <2>3 DEF Own
    <2> QED BY <1>2, <2>2, <2>3 DEF CallRight
  <1>4. CASE actors[a].pc # "calling"
    BY <1>2, <1>4 DEF Pending
  <1> QED BY <1>3, <1>4

\* An instance that dies leaves to repair what it, and its requests, were about to do.
LEMMA CrashHolds ==
  ASSUME IntegrationsInv, NEW i \in Instance, Crash(i)
  PROVE  IntegrationsInv'
  <1>1. Shapes /\ CardsHeld /\ SilenceAsDeclared /\ HooksHeld /\ i \in Actor
    BY DEF IntegrationsInv, Actor
  <1>2. PICK dead : dead = Dead(i)
    OBVIOUS
  <1>3. UNCHANGED <<deployment, rows, groups, hooks>>
    BY DEF Crash
  <1>4. /\ DOMAIN actors' = Actor
        /\ actors'[i] = [Idle EXCEPT !.pc = "down"]
        /\ \A a \in dead : actors'[a] = Idle
        /\ \A a \in Actor \ (dead \cup {i}) : actors'[a] = actors[a]
    BY <1>1, <1>2 DEF Crash, Dead
  <1>5. dead \subseteq Actor
    BY <1>2 DEF Dead
  <1>6. /\ LeftOK' /\ left'.silence = left.silence /\ left.cards \subseteq left'.cards
        /\ left.tokens \subseteq left'.tokens
        /\ left'.cards = left.cards \cup UNION {IF actors[a].pc = "scan" THEN deployment.incidents
                                                ELSE actors[a].owes : a \in dead \cup {i}}
        /\ left'.tokens = left.tokens \cup
             UNION {actors[a].tokens \cup {rows[actors[a].id].token} :
                    a \in {b \in IF type = "telegram" THEN dead \cup {i} ELSE {} : actors[b].id # None}}
    BY <1>1, <1>2 DEF Crash, Dead, Shapes, LeftOK
  <1>7. \A a \in dead \cup {i} : /\ actors[a].pc = "scan" => deployment.incidents \subseteq left'.cards
                                 /\ actors[a].pc # "scan" => actors[a].owes \subseteq left'.cards
    <2> SUFFICES ASSUME NEW a \in dead \cup {i}
                 PROVE  (IF actors[a].pc = "scan" THEN deployment.incidents ELSE actors[a].owes)
                          \subseteq left'.cards
      OBVIOUS
    <2> QED BY <1>6
  <1>8. type = "telegram" =>
          \A a \in dead \cup {i} : actors[a].id # None =>
            actors[a].tokens \cup {rows[actors[a].id].token} \subseteq left'.tokens
    BY <1>6
  <1>9. RowsOK' /\ \A j : Known(j) => Known(j)'
    BY <1>1, <1>3, RowsStay DEF Shapes
  <1>10. PICK down : down = [Idle EXCEPT !.pc = "down"]
    OBVIOUS
  <1>11. /\ ActorOK(i, down) /\ down.pc = "down" /\ down.tokens = {} /\ down.id = None
         /\ DOMAIN down = DOMAIN Idle
    <2>1. /\ DOMAIN down = DOMAIN Idle /\ down.pc = "down" /\ down.tokens = {} /\ down.id = None
          /\ down.op = "none" /\ down.saw = Absent("unused") /\ down.read = {}
      BY <1>10, IdleIsActor
    <2> QED BY <2>1, IdleIsActor, AbsentIsRow DEF ActorOK
  <1>12. ActorsOK'
    <2>1. \A a \in Actor : ActorOK(a, actors'[a])
      <3> SUFFICES ASSUME NEW a \in Actor PROVE ActorOK(a, actors'[a])
        OBVIOUS
      <3>1. CASE a = i
        BY <1>4, <1>10, <1>11, <3>1
      <3>2. CASE a \in dead /\ a # i
        BY <1>4, <3>2, IdleIsActor
      <3>3. CASE a \notin dead \cup {i}
        BY <1>1, <1>4, <3>3 DEF Shapes, ActorsOK
      <3> QED BY <3>1, <3>2, <3>3
    <2>2. ASSUME NEW a \in Actor PROVE ActorOK(a, actors[a])'
      <3>1. PICK x : x = actors'[a]
        OBVIOUS
      <3>2. ActorOK(a, x)'
        BY <1>3, <1>9, <2>1, <3>1, OthersStay
      <3> QED BY <3>1, <3>2
    <2> QED BY <1>4, <2>2 DEF ActorsOK
  <1>13. InstancesOK'
    <2> DEFINE y == [cache |-> {}, reading |-> FALSE, read |-> {}, syncer |-> NoSyncer]
    <2>1. InstanceOK(y)
      BY DEF InstanceOK
    <2>2. instances' = [instances EXCEPT ![i] = y]
      BY DEF Crash
    <2> HIDE DEF y
    <2> QED BY <1>1, <1>3, <2>1, <2>2, InstanceSet DEF Shapes
  <1>14. PayloadsOK'
    <2>1. DOMAIN payloads' = Payload /\ \A p \in Payload : payloads'[p] \in {NoPayload, payloads[p]}
      BY DEF Crash
    <2>2. \A p \in Payload : PayloadOK(payloads'[p])
      BY <1>1, <2>1 DEF PayloadOK, NoPayload, Shapes, PayloadsOK
    <2> QED BY <1>3, <2>1, <2>2 DEF PayloadsOK, PayloadOK, Known, type
  <1>15. GroupsOK'
    BY <1>1, <1>3, <1>9, OthersStay DEF Shapes
  <1>16. CardsHeld'
    <2>1. ButtonsOn' = ButtonsOn
      BY <1>3 DEF ButtonsOn, Enabled, Here, type
    <2> SUFFICES ASSUME NEW g \in Incident, Behind(g)'
                 PROVE  g \in left'.cards \/ \E a \in Actor : Covers(actors[a], g)'
      BY DEF CardsHeld
    <2>2. Behind(g) /\ g \in deployment.incidents
      BY <1>1, <1>3, <2>1 DEF Behind, Shapes, GroupsOK, GroupOK
    <2>3. CASE g \in left.cards
      BY <1>6, <2>3
    <2>4. CASE \E a \in Actor : Covers(actors[a], g)
      <3>1. PICK a \in Actor : Covers(actors[a], g)
        BY <2>4
      <3>2. CASE a \in dead \cup {i}
        BY <1>7, <2>2, <3>1, <3>2 DEF Covers
      <3>3. CASE a \notin dead \cup {i}
        <4>1. PICK x : x = actors[a]
          OBVIOUS
        <4>2. Covers(x, g)'
          BY <2>1, <3>1, <4>1 DEF Covers
        <4>3. Covers(actors[a], g)'
          BY <1>4, <3>3, <4>1, <4>2
        <4> QED BY <4>3
      <3> QED BY <3>2, <3>3
    <2> QED BY <1>1, <2>2, <2>3, <2>4 DEF CardsHeld
  <1>17. SilenceAsDeclared'
    BY <1>1, <1>3, <1>6, SilenceStays
  <1>18. ASSUME type = "telegram" PROVE TokensHeld' /\ CallsHeld' /\ OneCaller'
    <2>0. TokensHeld /\ CallsHeld /\ OneCaller
      BY <1>1, <1>18 DEF HooksHeld
    <2>1. \A a \in dead \cup {i} : actors'[a].pc # "calling" /\ actors'[a].tokens = {}
      BY <1>4, <1>10, <1>11, IdleIsActor
    <2>2. \A t : Current(t)' = Current(t)
      BY <1>3 DEF Current, Enabled, Here
    <2>3. \A a \in Actor \ (dead \cup {i}) : Pending(actors[a])' = Pending(actors[a])
      BY <1>3, <1>4 DEF Pending
    <2>4. ASSUME NEW b \in Actor, NEW t \in Token, t \in actors[b].tokens
          PROVE  t \in left'.tokens \/ b \notin dead \cup {i}
      <3>1. actors[b].id # None
        BY <1>1, <2>4 DEF Shapes, ActorsOK, ActorOK
      <3> QED BY <1>8, <1>18, <2>4, <3>1
    <2>5. TokensHeld'
      <3> SUFFICES ASSUME NEW t \in Token, t \notin left'.tokens,
                          ~\E b \in Actor : t \in Pending(actors[b])'
                   PROVE  (t \in hooks <=> Current(t))'
        BY DEF TokensHeld
      <3>1. ~\E b \in Actor \ (dead \cup {i}) : t \in Pending(actors[b])
        BY <2>3
      <3>2. ASSUME NEW a \in dead \cup {i}, t \in Pending(actors[a]) PROVE FALSE
        <4>1. /\ actors[a].id # None
              /\ \/ t \in actors[a].tokens \cup {rows[actors[a].id].token}
                 \/ t \in left.tokens
                 \/ \E b \in Actor \ {a} : actors[b].id = actors[a].id /\ t \in actors[b].tokens
          BY <1>1, <1>5, <1>18, <3>2, DeadLeave
        <4>2. CASE t \in actors[a].tokens \cup {rows[actors[a].id].token}
          BY <1>8, <1>18, <4>1, <4>2
        <4>3. CASE t \in left.tokens
          BY <1>6, <4>3
        <4>4. CASE \E b \in Actor \ {a} : actors[b].id = actors[a].id /\ t \in actors[b].tokens
          BY <2>4, <3>1, <4>4 DEF Pending
        <4> QED BY <4>1, <4>2, <4>3, <4>4
      <3> QED BY <1>3, <1>6, <2>0, <2>2, <3>1, <3>2 DEF TokensHeld
    <2>6. CallsHeld'
      <3> SUFFICES ASSUME NEW b \in Actor, actors'[b].pc = "calling", NEW t \in Token,
                          t \in actors'[b].tokens \cup {actors'[b].keep}
                   PROVE  CallRight(b, t)'
        BY DEF CallsHeld
      <3>1. b \notin dead \cup {i} /\ actors'[b] = actors[b]
        BY <1>4, <2>1
      <3>2. CallRight(b, t)
        BY <2>0, <3>1 DEF CallsHeld
      <3>3. CASE t = actors[b].keep <=> Own(actors[b].id, t)
        BY <1>3, <3>1, <3>3 DEF CallRight, Own
      <3>4. CASE \E c \in Actor \ {b} : actors[c].id = actors[b].id /\ t \in actors[c].tokens
        <4>1. PICK c \in Actor \ {b} : actors[c].id = actors[b].id /\ t \in actors[c].tokens
          BY <3>4
        <4>2. t \in left'.tokens \/ actors'[c] = actors[c]
          BY <1>4, <2>4, <4>1
        <4> QED BY <3>1, <4>1, <4>2 DEF CallRight
      <3>5. CASE t \in left.tokens
        BY <1>6, <3>5 DEF CallRight
      <3> QED BY <3>2, <3>3, <3>4, <3>5 DEF CallRight
    <2>7. OneCaller'
      <3> SUFFICES ASSUME NEW b \in Actor, NEW c \in Actor, actors'[b].pc = "calling",
                          actors'[c].pc = "calling", actors'[b].id = actors'[c].id
                   PROVE  b = c
        BY DEF OneCaller
      <3>1. actors'[b] = actors[b] /\ actors'[c] = actors[c]
        BY <1>4, <2>1
      <3> QED BY <2>0, <3>1 DEF OneCaller
    <2> QED BY <2>5, <2>6, <2>7
  <1>19. HooksHeld'
    BY <1>3, <1>18 DEF HooksHeld, type
  <1>20. Shapes'
    BY <1>6, <1>9, <1>12, <1>13, <1>14, <1>15 DEF Shapes
  <1> QED BY <1>16, <1>17, <1>19, <1>20 DEF IntegrationsInv

------------------------------------------------------------------------------
(* Together.                                                               *)

\* At the beginning one integration is enabled, and everything follows it.
LEMMA InitHolds ==
  ASSUME Init
  PROVE  IntegrationsInv
  <1>1. PICK first \in Id, config \in Config :
          rows = [i \in Id |-> IF i = first THEN config ELSE Absent("unused")]
    BY DEF Init
  <1>2. /\ \A i \in Id \ {first} : rows[i] = Absent("unused")
        /\ DOMAIN rows = Id /\ rows[first] = config
    BY <1>1
  <1>3. RowsOK
    <2>1. \A i \in Id : RowOK(rows[i])
      BY <1>2, ConfigIsRow, AbsentIsRow
    <2>2. \A i \in Here : i = first
      BY <1>2, AbsentIsRow DEF Here
    <2> QED BY <1>2, <2>1, <2>2 DEF RowsOK, OneRow
  <1>4. /\ DOMAIN groups = Incident
        /\ \A g \in Incident :
             /\ DOMAIN groups[g] = {"open", "card", "drawn", "final", "plan", "silence", "intake"}
             /\ groups[g].open \in BOOLEAN /\ groups[g].drawn = FALSE /\ groups[g].final = FALSE
             /\ groups[g].card = "none" /\ groups[g].plan = "none" /\ groups[g].intake = None
    BY DEF Init
  <1>5. GroupsOK
    BY <1>4 DEF GroupsOK, GroupOK
  <1>6. InstancesOK
    <2>1. /\ DOMAIN instances = Instance
          /\ \A i \in Instance : /\ DOMAIN instances[i] = {"cache", "reading", "read", "syncer"}
                                 /\ instances[i].cache = Found /\ instances[i].read = {}
      BY DEF Init
    <2> QED BY <1>3, <2>1, FoundIsKnown DEF InstancesOK, InstanceOK
  <1>7. DOMAIN actors = Actor /\ \A a \in Actor : actors[a] = Idle
    BY DEF Init
  <1>8. ActorsOK
    BY <1>7, IdleIsActor DEF ActorsOK
  <1>9. PayloadsOK
    BY DEF Init, PayloadsOK, PayloadOK, NoPayload
  <1>10. LeftOK
    BY DEF Init, LeftOK
  <1>11. CardsHeld
    BY <1>4 DEF CardsHeld, Behind
  <1>12. SilenceAsDeclared
    BY <1>4 DEF SilenceAsDeclared
  <1>13. HooksHeld
    <2> SUFFICES ASSUME type = "telegram" PROVE TokensHeld /\ CallsHeld /\ OneCaller
      BY DEF HooksHeld
    <2>1. hooks = {rows[i].token : i \in Enabled}
      BY DEF Init
    <2>2. TokensHeld
      BY <2>1 DEF TokensHeld, Current
    <2> QED BY <1>7, <2>2, IdleIsActor DEF CallsHeld, OneCaller
  <1> QED BY <1>3, <1>5, <1>6, <1>8, <1>9, <1>10, <1>11, <1>12, <1>13 DEF IntegrationsInv, Shapes

\* No step of anybody breaks it.
LEMMA NextHolds ==
  ASSUME IntegrationsInv, [Next]_vars
  PROVE  IntegrationsInv'
  <1>1. CASE UNCHANGED vars
    <2>1. Shapes
      BY DEF IntegrationsInv
    <2>2. UNCHANGED <<deployment, rows, groups, instances, actors, payloads, hooks, left>>
      BY <1>1 DEF vars
    <2>3. InstancesOK' /\ PayloadsOK'
      BY <2>1, <2>2, RowsStay, OthersStay DEF Shapes
    <2> QED BY <2>2, <2>3, AsideHolds
  <1>2. ASSUME NEW r \in Request, NEW i \in Instance, Commands(r, i) PROVE IntegrationsInv'
    BY <1>2, CreateHolds, UpdateHolds, DeleteHolds, TestReadsHolds DEF Commands
  <1>3. ASSUME NEW a \in Actor, Proceeds(a) PROVE IntegrationsInv'
    <2>1. CASE TestCommits(a) \/ TestEnds(a)
      BY <2>1, TestCommitsHolds, TestEndsHolds
    <2>2. CASE DoorScans(a) \/ DoorEnds(a) \/ DoorBreaks(a) \/ \E g \in Incident : DoorRaises(a, g)
      BY <2>2, DoorScansHolds, DoorEndsHolds, DoorBreaksHolds, DoorRaisesHolds
    <2>3. CASE ReloadReads(a) \/ ReloadSets(a) \/ ReloadFails(a) \/ RestartSyncer(a)
      BY <2>3, ReloadReadsHolds, ReloadSetsHolds, ReloadFailsHolds, RestartSyncerHolds
    <2>4. CASE RegisterOnStartup(a) \/ HookLocks(a) \/ \E failed \in SUBSET Token : HookCalls(a, failed)
      BY <2>4, RegisterOnStartupHolds, HookLocksHolds, HookCallsHolds
    <2> QED BY <1>3, <2>1, <2>2, <2>3, <2>4 DEF Proceeds
  <1>4. ASSUME NEW i \in Instance,
               StartReads(i) \/ StartScans(i) \/ Runs(i) \/ Syncs(i) \/ SentExpires(i) \/ Crash(i)
        PROVE  IntegrationsInv'
    BY <1>4, StartReadsHolds, StartScansHolds, RunsHolds, SyncsHolds, CrashHolds
  <1>5. ASSUME NEW g \in Incident, IncidentMoves(g) PROVE IntegrationsInv'
    BY <1>5, PlanReadsHolds, AdmitsHolds, RaisesHolds, CardMovesHolds, ResolvesHolds
    DEF IncidentMoves, Moves, Press
  <1>6. ASSUME NEW p \in Payload, PayloadMoves(p) PROVE IntegrationsInv'
    BY <1>6, PayloadArrivesHolds, PayloadVerifiedHolds, PayloadAppliesHolds DEF PayloadMoves
  <1>7. CASE DutyTurns
    BY <1>7, DutyTurnsHolds
  <1> QED BY <1>1, <1>2, <1>3, <1>4, <1>5, <1>6, <1>7 DEF Next

\* The inductive invariant holds in every reachable state.
LEMMA InvHolds == Spec => []IntegrationsInv
  <1>1. Init => IntegrationsInv
    BY InitHolds
  <1>2. IntegrationsInv /\ [Next]_vars => IntegrationsInv'
    BY NextHolds
  <1> QED BY <1>1, <1>2, PTL DEF Spec

------------------------------------------------------------------------------
(* The theorems.                                                           *)

\* For any number of instances and administrators and any edits, faults and crashes: an
\* alert group shows the buttons and the silence of the row, unless somebody is about to
\* change it or the next start is (RaiseInteractivity, ReconcileInteractivity,
\* declareSilenceTx).
THEOREM GroupsGoByTheRow == Spec => []GroupsFollowTheRow
  <1>1. IntegrationsInv => GroupsFollowTheRow
    <2> SUFFICES ASSUME IntegrationsInv PROVE ButtonsAsSwitched
      BY DEF GroupsFollowTheRow, IntegrationsInv
    <2> SUFFICES ASSUME NEW g \in Incident, groups[g].card = "live", ~groups[g].final,
                        groups[g].drawn # ButtonsOn
                 PROVE  \/ g \in left.cards \cup UNION {actors[a].owes : a \in Actor}
                        \/ \E r \in Request : actors[r].pc = "scan"
      BY DEF ButtonsAsSwitched
    <2>1. g \in left.cards \/ \E a \in Actor : Covers(actors[a], g)
      BY DEF IntegrationsInv, CardsHeld, Behind
    <2>2. ASSUME NEW a \in Actor, Covers(actors[a], g)
          PROVE  \/ \E b \in Actor : g \in actors[b].owes
                 \/ \E r \in Request : actors[r].pc = "scan"
      BY <2>2 DEF Covers, IntegrationsInv, Shapes, ActorsOK, ActorOK
    <2> QED BY <2>1, <2>2
  <1> QED BY <1>1, InvHolds, PTL

\* Telegram sends here the updates of the enabled integration's token and of no other,
\* whatever order the effects of edits run in on any number of instances
\* (reconcileTelegramWebhook).
THEOREM HooksGoByTheRow == Spec => []HooksFollowTheRow
  <1>1. IntegrationsInv => HooksFollowTheRow
    <2> SUFFICES ASSUME IntegrationsInv, NEW t \in Token, t \notin left.tokens, t \notin Unsettled,
                        type = "telegram"
                 PROVE  t \in hooks <=> Current(t)
      BY DEF HooksFollowTheRow
    <2>1. Shapes /\ HooksHeld /\ TokensHeld
      BY DEF IntegrationsInv, HooksHeld
    <2>2. ASSUME NEW a \in Actor, actors[a].id # None,
                 t \in actors[a].tokens \cup {rows[actors[a].id].token}
          PROVE  FALSE
      BY <2>2 DEF Unsettled
    <2>3. ASSUME NEW a \in Actor, t \in Pending(actors[a]) PROVE FALSE
      <3>1. /\ actors[a].id # None
            /\ \/ t \in actors[a].tokens \cup {rows[actors[a].id].token}
               \/ t \in left.tokens
               \/ \E b \in Actor \ {a} : actors[b].id = actors[a].id /\ t \in actors[b].tokens
        BY <2>1, <2>3, DeadLeave
      <3> QED BY <2>2, <3>1
    <2> QED BY <2>1, <2>3 DEF TokensHeld
  <1> QED BY <1>1, InvHolds, PTL

==============================================================================
