------------------------------- MODULE Snapshots -------------------------------
(***************************************************************************)
(* The state a message is rendered from (internal/outbound/keys,           *)
(* snapshot.go): how a live alert group is frozen into it                  *)
(* (internal/outbound/providers), its one canonical form, its three        *)
(* digests, and what a later transaction accepts as that state again       *)
(* (internal/store, outbound_store.go).                                    *)
(*                                                                         *)
(* Pure operators, over the materials of Keys.  A text that is cut is the  *)
(* sequence of its runes; every other text is an atom.  A line of history  *)
(* and an alert both have an id - an alert's is its fingerprint - and an   *)
(* instant, at, whose zone is nothing to anyone; instants are those whose  *)
(* nanoseconds fit 64 bits.  A stored row is the names its JSON has and    *)
(* the value they decode to, a name left out being its zero value.         *)
(***************************************************************************)
EXTENDS Keys

CONSTANTS
  Runes,     \* the characters of a text that is cut
  ByteOrder  \* the order of the identifiers' bytes: its pairs

ASSUME SnapshotsAssumption ==
  /\ "." \in Runes /\ "UTC" \in Zones
  /\ ByteOrder \subseteq Ids \X Ids
  /\ \A i \in Ids : <<i, i>> \notin ByteOrder
  /\ \A i, j \in Ids : i # j => <<i, j>> \in ByteOrder \/ <<j, i>> \in ByteOrder
  /\ \A i, j, k \in Ids : <<i, j>> \in ByteOrder /\ <<j, k>> \in ByteOrder => <<i, k>> \in ByteOrder

------------------------------------------------------------------------------
(* The closed sets, and the shape of a snapshot.                           *)

GroupStatuses == {"new", "processing", "triggered", "acknowledged", "resolved", "closed"}

AlertStatuses == {"firing", "resolved"}

TimelineEventTypes ==
  {"created", "alert_added", "alert_resolved", "acknowledged", "resolved", "notification_sent",
   "notification_failed", "note", "status_change"}

InteractiveProviders == {"slack", "telegram"}

Optional == Texts \cup {"", NULL}

\* A page of an instance: of its group, or where teams are set up.
Links == Texts \X (Ids \cup {"", "teams"})

CutTexts == Seq(Runes)

OptionalCutTexts == CutTexts \cup {NULL}

AlertSnapshots ==
  [id : Ids \cup {""}, status : AlertStatuses \cup Texts, at : Nat, name : CutTexts,
   severity : Texts \cup {""},
   slackUser : Optional, dashboard : Optional, runbook : Optional, description : OptionalCutTexts]

TimelineLines ==
  [id : Ids \cup {""}, type : TimelineEventTypes \cup Texts, message : CutTexts,
   actor : OptionalCutTexts, at : Nat]

SnapshotInputs ==
  [group : Ids \cup {""}, revision : Int, status : GroupStatuses \cup Texts, title : CutTexts,
   severity : Texts \cup {""}, team : Optional, onboarded : BOOLEAN, groupURL : Links \cup {NULL},
   externalURL : Optional, zone : Zones \cup {"", "Local"}, acknowledgedBy : OptionalCutTexts,
   resolvedBy : OptionalCutTexts, alerts : Seq(AlertSnapshots), setupURL : Links \cup {NULL},
   timeline : Seq(TimelineLines), omitted : Int, providers : Seq(InteractiveProviders \cup Texts)]

------------------------------------------------------------------------------
(* Cutting and sorting.                                                    *)

AlertDescriptionLimit == 120
AlertNameLimit == 200
TitleLimit == 200
TimelineMessageLimit == 300
ActorLimit == 100

\* How many lines of history are kept: the latest.
TimelineLength == 20

Ellipsis == <<".", ".", ".">>

Cut(text, limit) == IF Len(text) <= limit THEN text ELSE SubSeq(text, 1, limit) \o Ellipsis

CutOpt(text, limit) == IF text = NULL THEN NULL ELSE Cut(text, limit)

\* By the instant, then by the id: total where no id is there twice.
Earlier(x, y) == x.at < y.at \/ (x.at = y.at /\ <<x.id, y.id>> \in ByteOrder)

\* How many come before x.
Rank(x, S) == Cardinality({y \in S : Earlier(y, x)})

Sorted(S) == [k \in 1..Cardinality(S) |-> CHOOSE x \in S : Rank(x, S) = k - 1]

NamedOnce(list) ==
  /\ \A n \in DOMAIN list : list[n].id # ""
  /\ KeysDiffer([n \in DOMAIN list |-> list[n].id])

------------------------------------------------------------------------------
(* The canonical form.                                                     *)

\* Without these a snapshot is about nothing.  A zone means the same on every instance.
Identified(in) ==
  /\ in.group # "" /\ in.revision >= 0
  /\ in.status \in GroupStatuses /\ in.zone \in Zones

AlertsFit(list) ==
  /\ NamedOnce(list)
  /\ \A a \in Listed(list) : a.status \in AlertStatuses /\ a.at # NoTime

TimelineFits(list, omitted) ==
  /\ omitted >= 0 /\ NamedOnce(list)
  /\ \A line \in Listed(list) : line.type \in TimelineEventTypes /\ line.at # NoTime

Accepts(in) ==
  /\ Identified(in) /\ AlertsFit(in.alerts) /\ TimelineFits(in.timeline, in.omitted)
  /\ Listed(in.providers) \subseteq InteractiveProviders

\* Version 1 cut a description and stored a name whole.
DescriptionCut(a) == [a EXCEPT !.description = CutOpt(@, AlertDescriptionLimit)]

CanonicalAlert(a) == [DescriptionCut(a) EXCEPT !.name = Cut(@, AlertNameLimit)]

CanonicalAlerts(list) == Sorted({CanonicalAlert(a) : a \in Listed(list)})

SystemActor == <<"s", "y", "s", "t", "e", "m">>

\* Nobody in particular is nobody.
ActorNamed(actor) == IF actor \in {<<>>, SystemActor} THEN NULL ELSE actor

CanonicalLine(line) ==
  [line EXCEPT !.message = Cut(@, TimelineMessageLimit), !.actor = CutOpt(ActorNamed(@), ActorLimit)]

LinesDropped(list) == IF Len(list) > TimelineLength THEN Len(list) - TimelineLength ELSE 0

CanonicalTimeline(list) ==
  SubSeq(Sorted({CanonicalLine(line) : line \in Listed(list)}), LinesDropped(list) + 1, Len(list))

\* Each once, in the order of their names.
CanonicalProviders(list) ==
  (IF "slack" \in Listed(list) THEN <<"slack">> ELSE <<>>)
    \o (IF "telegram" \in Listed(list) THEN <<"telegram">> ELSE <<>>)

\* What is dropped is counted, and the count is shown.
Canonical(in) ==
  [in EXCEPT !.title = Cut(@, TitleLimit),
             !.acknowledgedBy = CutOpt(@, ActorLimit), !.resolvedBy = CutOpt(@, ActorLimit),
             !.alerts = CanonicalAlerts(@),
             !.timeline = CanonicalTimeline(@), !.omitted = @ + LinesDropped(in.timeline),
             !.providers = CanonicalProviders(@)]

ButtonsOn(s, provider) == provider \in Listed(s.providers)

------------------------------------------------------------------------------
(* The digests.                                                            *)

AlertFields(a) ==
  <<a.id, a.status, a.at, a.name, a.severity, EncOpt(a.slackUser), EncOpt(a.dashboard),
    EncOpt(a.runbook), EncOpt(a.description)>>

LineFields(line) == <<line.id, line.type, line.message, EncOpt(line.actor), line.at>>

\* The material under its tags.  Tag 14 was retired, and is written no more.
SnapshotFields(s) ==
  <<s.group, s.revision, s.status, s.title, s.severity, EncOpt(s.team), EncBool(s.onboarded),
    EncOpt(s.groupURL), EncOpt(s.externalURL), s.zone, EncOpt(s.acknowledgedBy),
    EncOpt(s.resolvedBy), [n \in DOMAIN s.alerts |-> AlertFields(s.alerts[n])], "retired",
    EncOpt(s.setupURL), [n \in DOMAIN s.timeline |-> LineFields(s.timeline[n])], s.omitted,
    s.providers>>

Tags == (1..18) \ {14}

\* A card shows everything but the history; a thread the alerts and the history.
CardTags == {tag \in Tags : tag <= 15 \/ tag = 18}

ThreadTags == {2, 10, 13, 16, 17}

V1Tags == {tag \in Tags : tag <= 15}

DigestOf(protocol, tags, s) == Digest(<<protocol, [tag \in tags |-> SnapshotFields(s)[tag]]>>)

SnapshotDigest(s) == DigestOf("render_snapshot/v2", Tags, s)

CardDigest(s) == DigestOf("render_snapshot/v2/card", CardTags, s)

ThreadDigest(s) == DigestOf("render_snapshot/v2/thread", ThreadTags, s)

SnapshotDigestV1(s) == DigestOf("render_snapshot/v1", V1Tags, s)

\* What is built is canonical, and its digests are of what it holds.
NewRenderSnapshot(in) ==
  [content |-> Canonical(in), schema |-> 2, digest |-> SnapshotDigest(Canonical(in)),
   card |-> CardDigest(Canonical(in)), thread |-> ThreadDigest(Canonical(in))]

------------------------------------------------------------------------------
(* Version 1: read by two, written by none.                                *)

HistoryNames == {"timeline", "timeline_omitted", "interactive_providers"}

SnapshotNames(schema) ==
  {"alert_group_id", "revision", "status", "title", "severity", "team_label", "team_onboarded",
   "group_url", "external_url", "display_timezone", "acknowledged_by", "resolved_by", "alerts",
   "team_setup_url"} \cup (IF schema = 1 THEN {} ELSE HistoryNames)

CanonicalV1(in) == [in EXCEPT !.alerts = Sorted({DescriptionCut(a) : a \in Listed(@)})]

DecodeRenderSnapshotV1(in) ==
  [content |-> CanonicalV1(in), schema |-> 1, digest |-> SnapshotDigestV1(CanonicalV1(in)),
   card |-> NULL, thread |-> NULL]

\* A row with none of the names has no history.
AcceptsV1(in) ==
  /\ Identified(in) /\ AlertsFit(in.alerts)
  /\ in.timeline = <<>> /\ in.omitted = 0 /\ in.providers = <<>>

------------------------------------------------------------------------------
(* What a transaction takes for the state again.                           *)

\* A stored row: [names, value, revision, schema, digest, final].  What is stored is the
\* canonical form, in version 2.
StoredRow(in, final) ==
  [names |-> SnapshotNames(2), value |-> Canonical(in), revision |-> in.revision, schema |-> 2,
   digest |-> SnapshotDigest(Canonical(in)), final |-> final]

Reads(schema, admission) == schema = 2 \/ (schema = 1 /\ admission)

Canonicalises(row) ==
  /\ row.names \subseteq SnapshotNames(row.schema)
  /\ IF row.schema = 1 THEN AcceptsV1(row.value) ELSE Accepts(row.value)

ReadBack(row) ==
  IF row.schema = 1 THEN DecodeRenderSnapshotV1(row.value) ELSE NewRenderSnapshot(row.value)

\* It is what its digest says.
Intact(row) == Canonicalises(row) /\ ReadBack(row).digest = row.digest

\* It is what was admitted, and about the right thing.
IsWhatWentIn(row, group) ==
  /\ Intact(row)
  /\ ReadBack(row).content.group = group /\ ReadBack(row).content.revision = row.revision

\* A schema of another build is left to it; damage ends the commitment.
CheckedSnapshot(row, group, admission) ==
  IF ~Reads(row.schema, admission) THEN "left_alone"
  ELSE IF IsWhatWentIn(row, group) THEN "rendered" ELSE "undeliverable"

\* The group's row, or an admission's: NULL where there is none.
LockedSnapshot(row, group) ==
  IF row = NULL THEN "undeliverable" ELSE CheckedSnapshot(row, group, FALSE)

AdmittedSnapshot(row, group) ==
  IF row = NULL THEN "undeliverable" ELSE CheckedSnapshot(row, group, TRUE)

\* A group's row of version 1 that is intact becomes one of version 2, with the history as
\* it stands when the first build of version 2 starts, and the buttons its cards have.
Rebuildable(row) == row.schema = 1 /\ Intact(row)

\* The states from which a card can still be brought to a revision.
ReachableCardStatuses == {"pending", "sending", "idle", "manual_review", "permanent_failed", "expired"}

\* The cards' rows: [form, status, provider, schema, interactive].  Only the first schema of
\* a payload says anything about buttons.
DrawnButtons(cards) ==
  {c.provider : c \in {d \in cards : /\ d.form = "editable" /\ d.status \in ReachableCardStatuses
                                    /\ d.schema = 1 /\ d.interactive}}

RebuiltInput(row, history, omitted, buttons) ==
  [ReadBack(row).content EXCEPT !.timeline = history, !.omitted = omitted, !.providers = buttons]

\* A group's row from before there were digests of forms is given them; one that is not
\* intact stops the start, as one that is not rebuildable does.
FormDigestsOf(row) ==
  IF row.schema = 2 /\ Intact(row) THEN <<ReadBack(row).card, ReadBack(row).thread>> ELSE NULL

\* Which of two forms a kind is drawn from, and for a kind of another build neither.
ContentForm(kind) ==
  IF kind \in EscalationKinds THEN "snapshot" ELSE IF kind \in Kinds THEN "payload" ELSE NULL

\* A commitment's row: [kind, schema, payload, digest, form, target, group].
ExecutableHere(intent) ==
  IF ContentForm(intent.kind) = NULL \/ ~KnowsPayloadSchema(intent.kind, intent.schema)
  THEN "left_alone"
  ELSE IF /\ Decodes(intent.kind, intent.schema, intent.payload)
          /\ PayloadDigest(intent.kind, intent.schema, intent.payload.value) = intent.digest
  THEN "executable" ELSE "undeliverable"

\* A card follows its group, the reply that closes a thread waits for the last revision,
\* and any other message renders what its batch was admitted from.
AttemptContent(intent, current, admitted) ==
  IF ContentForm(intent.kind) = NULL THEN "left_alone"
  ELSE IF ContentForm(intent.kind) = "payload" THEN "rendered"
  ELSE IF intent.form = "editable" THEN LockedSnapshot(current, intent.group)
  ELSE IF intent.form # "one_shot" THEN "left_alone"
  ELSE IF intent.target # "thread_reply" THEN AdmittedSnapshot(admitted, intent.group)
  ELSE IF LockedSnapshot(current, intent.group) = "rendered" /\ ~current.final THEN "left_alone"
  ELSE LockedSnapshot(current, intent.group)

------------------------------------------------------------------------------
(* Freezing a live group.                                                  *)

Opt(text) == IF text = "" THEN NULL ELSE text

OptCut(text) == IF text = <<>> THEN NULL ELSE text

\* The first of two that is there.
FirstOf(text, other, none) == IF text = none THEN other ELSE text

\* An alert with no start has the one of its group; its fingerprint is nobody's to invent.
AlertSnapshot(alert, created) ==
  [id |-> alert.fingerprint, status |-> alert.status,
   at |-> FirstOf(alert.startsAt, created, NoTime),
   name |-> alert.labels.alertname, severity |-> alert.labels.severity,
   slackUser |-> Opt(alert.labels.slack_user),
   dashboard |-> Opt(FirstOf(alert.annotations.dashboard, alert.labels.dashboard, "")),
   runbook |-> Opt(alert.annotations.runbook),
   description |-> OptCut(FirstOf(alert.annotations.description, alert.annotations.summary, <<>>))]

\* The rows of the history are all there: none of a query's is nil.
HistoryOf(events) ==
  [n \in DOMAIN events |->
     [id |-> events[n].id, type |-> events[n].type, message |-> events[n].message,
      actor |-> OptCut(events[n].actor), at |-> events[n].at]]

ZoneName(zone) == IF zone \in Zones THEN zone ELSE "UTC"

Link(selfURL, page) == IF selfURL = "" THEN NULL ELSE <<selfURL, page>>

\* view is [group, resolved, selfURL, onboarded, zone, timeline, omitted, interactive]; the
\* status of a group being resolved is told before its row has it.
ViewOf(view) ==
  LET g == view.group IN
  [group |-> g.id, revision |-> 0, status |-> IF view.resolved THEN "resolved" ELSE g.status,
   title |-> g.title, severity |-> g.severity, team |-> Opt(g.team), onboarded |-> view.onboarded,
   groupURL |-> Link(view.selfURL, g.id), externalURL |-> Opt(g.externalURL),
   zone |-> ZoneName(view.zone),
   acknowledgedBy |-> OptCut(g.acknowledgedBy), resolvedBy |-> OptCut(g.resolvedBy),
   alerts |-> [n \in DOMAIN g.alerts |-> AlertSnapshot(g.alerts[n], g.created)],
   setupURL |-> Link(view.selfURL, "teams"), timeline |-> HistoryOf(view.timeline),
   omitted |-> view.omitted, providers |-> view.interactive]

\* The state of a group at one revision, which is kept if it is accepted.
FreezeAt(view, revision) == [ViewOf(view) EXCEPT !.revision = revision]

================================================================================
