------------------------------- MODULE MCFanOut -------------------------------
EXTENDS FanOut, Snapshots, TLC

CONSTANT s1

\* One subscriber in the scope of both events.
BothHeard == (1 :> {s1}) @@ (2 :> {s1})

\* More identifiers than a snapshot keeps lines, in the order of their bytes.
IdList ==
  <<"a", "b", "l01", "l02", "l03", "l04", "l05", "l06", "l07", "l08", "l09", "l10", "l11", "l12",
    "l13", "l14", "l15", "l16", "l17", "l18", "l19", "l20", "l21", "slack">>

AllIds == {IdList[n] : n \in DOMAIN IdList}

IdOrder ==
  {<<IdList[m], IdList[n]>> : <<m, n>> \in {p \in (DOMAIN IdList) \X (DOMAIN IdList) : p[1] < p[2]}}

------------------------------------------------------------------------------
(* The grammar of the keys, on two identifiers.                            *)

Card(kind, ref) ==
  [slot |-> [kind |-> kind, index |-> 0], provider |-> "slack",
   target |-> [kind |-> "channel", ref |-> ref], editable |-> TRUE, override |-> NULL,
   stop |-> FALSE, timing |-> [kind |-> "relative_to_admission", offset |-> 0, at |-> 0, maxAge |-> 0],
   expiry |-> NULL, completion |-> "on_acceptance", policy |-> "retry"]

Thread(kind, ref) == [Card(kind, ref) EXCEPT !.target.kind = "thread"]

Batch(group, list) ==
  [kind |-> "escalation", version |-> CurrentGrammarVersion("escalation"), request |-> "",
   group |-> group, revision |-> 0, digest |-> "content", schema |-> 2, commitments |-> list]

\* Every list of at most two of these, as one escalation admission.
Promises == {Card("firehose", "a"), Card("policy", "a"), Thread("policy", "a"), Thread("policy", "b")}
Lists == {<<>>} \cup {<<c>> : c \in Promises} \cup {<<c, d>> : c, d \in Promises}

\* What is admitted: nothing twice, and a thread only with its card.
ASSUME AdmittedLists ==
  {list \in Lists : EscalationAdmits(Batch("a", list))} =
    {<<>>} \cup {<<Card(k, "a")>> : k \in {"firehose", "policy"}}
           \cup {<<Card(k, "a"), Card(l, "a")>> : <<k, l>> \in {<<"firehose", "policy">>, <<"policy", "firehose">>}}
           \cup {<<Card("policy", "a"), Thread("policy", "a")>>, <<Thread("policy", "a"), Card("policy", "a")>>}

\* The order of the list is not part of the promise; anything else is.
ASSUME FingerprintsOfLists ==
  \A g, h \in {"a", "b"}, l, m \in Lists :
    LET b == Batch(g, l)
        d == Batch(h, m)
    IN EscalationAdmits(b) /\ EscalationAdmits(d) =>
         ((EscalationBatchKeyOf(b) = EscalationBatchKeyOf(d) /\ EscalationFingerprint(b) = EscalationFingerprint(d))
            <=> (g = h /\ Listed(l) = Listed(m)))

\* The codec, on the short strings of two bytes.
Short == {<<>>} \cup {<<x>> : x \in {0, 255}} \cup {<<x, y>> : x, y \in {0, 255}}

ASSUME CodecOnShortStrings ==
  /\ Be32(258) = <<0, 0, 1, 2>> /\ Be32(16777216) = <<1, 0, 0, 0>>
  /\ \A a, b, x, y \in Short : Enc(a) \o x = Enc(b) \o y => a = b /\ x = y
  /\ \A a \in Short : EncPresent(a) # EncAbsent

------------------------------------------------------------------------------
(* Snapshots, around the limits of what they keep.                         *)

Text(n) == [k \in 1..n |-> "a"]

Alert(id, at, n) ==
  [id |-> id, status |-> "firing", at |-> at, name |-> Text(n), severity |-> "", slackUser |-> NULL,
   dashboard |-> "text", runbook |-> "", description |-> Text(n)]

\* Lines at one instant and at many, the latest first.
Line(k, sameTime, actor) ==
  [id |-> IdList[k], type |-> "note", message |-> Text(302 - k), actor |-> actor,
   at |-> IF sameTime THEN 1 ELSE 100 - k]

Input(title, alerts, lines, omitted, providers) ==
  [group |-> "a", revision |-> 1, status |-> "new", title |-> title, severity |-> "", team |-> NULL,
   onboarded |-> TRUE, groupURL |-> NULL, externalURL |-> NULL, zone |-> "UTC",
   acknowledgedBy |-> NULL, resolvedBy |-> Text(101), alerts |-> alerts, setupURL |-> NULL,
   timeline |-> lines, omitted |-> omitted, providers |-> providers]

Histories ==
  {[k \in 1..2 |-> Line(k, FALSE, actor)] : actor \in {NULL, <<>>, SystemActor, Text(104)}}
    \cup {[k \in 1..n |-> Line(k, n = 22, NULL)] : n \in {20, 21, 22}}

AlertLists ==
  {<<>>, <<Alert("b", 1, 121), Alert("a", 1, 199)>>, <<Alert("a", 1, 199), Alert("b", 1, 121)>>,
   <<Alert("a", 2, 203), Alert("b", 1, 120)>>, <<Alert("a", 1, 0), Alert("a", 2, 0)>>}

Inputs ==
  {Input(Text(n), <<>>, <<>>, 1, <<"telegram", "slack", "telegram">>) : n \in {0, 200, 201, 203, 204}}
    \cup {Input(<<>>, alerts, <<>>, 0, <<>>) : alerts \in AlertLists}
    \cup {Input(<<>>, <<>>, lines, 2, <<"slack">>) : lines \in Histories}

\* What is accepted is accepted again and is then as it was, each line of history is
\* kept or counted, and an alert that is there twice is refused.
ASSUME CanonicalOnce ==
  \A in \in Inputs :
    LET s == Canonical(in) IN
    /\ in \in SnapshotInputs
    /\ Accepts(in) <=> KeysDiffer([n \in DOMAIN in.alerts |-> in.alerts[n].id])
    /\ Accepts(in) =>
         /\ s \in SnapshotInputs /\ Accepts(s) /\ Canonical(s) = s
         /\ Len(s.timeline) <= TimelineLength
         /\ Len(s.timeline) + s.omitted = Len(in.timeline) + in.omitted

\* The order of the alerts is nothing; a text past its limit is what is kept of it.
ASSUME DigestsOfSnapshots ==
  /\ \A in, other \in {Input(<<>>, alerts, <<>>, 0, <<>>) : alerts \in AlertLists} :
       Accepts(in) /\ Accepts(other) =>
         (SnapshotDigest(Canonical(in)) = SnapshotDigest(Canonical(other))
            <=> Listed(in.alerts) = Listed(other.alerts))
  /\ CheckedSnapshot(StoredRow(Input(Text(201), <<>>, <<>>, 0, <<>>), FALSE), "a", FALSE) = "rendered"
  /\ Canonical(Input(Text(201), <<>>, <<>>, 0, <<>>)) = Canonical(Input(Text(204), <<>>, <<>>, 0, <<>>))
===============================================================================
