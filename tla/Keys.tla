---------------------------------- MODULE Keys ----------------------------------
(***************************************************************************)
(* The identity grammar of outbound delivery (internal/outbound/keys):     *)
(* when two things are the same commitment, the same admission, the same   *)
(* content or the same answer.                                             *)
(*                                                                         *)
(* Pure operators.  The codec is modelled byte by byte.  Every field is    *)
(* written after its length, so a material - what a digest is taken of -   *)
(* is elsewhere the tuple of its fields: Admission_proofs shows that the   *)
(* bytes decide the tuple.  SHA-256 is taken to give two materials two     *)
(* digests, and a digest is the material itself.  Identifiers are members  *)
(* of Ids, an absent optional value is NULL, times are natural numbers.    *)
(***************************************************************************)
EXTENDS Integers, Sequences, FiniteSets

CONSTANTS
  Ids,         \* the identifiers that are not empty; an event's holds no colon
  RequestIds,  \* those an operator may send: at most MaxClientRequestID bytes
  Zones,       \* the IANA time zones, "Local" not being one
  Texts,       \* words and bodies that are not empty and valid UTF-8
  NULL         \* no value

ASSUME KeysAssumption ==
  /\ "" \notin Ids
  /\ RequestIds \subseteq Ids

------------------------------------------------------------------------------
(* The codec.                                                              *)

Bytes == 0..255

\* An unsigned integer of 32 bits, the highest byte first.
Be32(n) ==
  <<(((n \div 256) \div 256) \div 256) % 256, ((n \div 256) \div 256) % 256, (n \div 256) % 256, n % 256>>

\* The lengths that fit one.
Fits32(n) == ((n \div 256) \div 256) \div 256 < 256

\* A field: its length, then its bytes.
Enc(b) == Be32(Len(b)) \o b

\* Absence and emptiness differ in the marker, which is a field of its own.
Marker(present) == Enc(IF present THEN <<49>> ELSE <<48>>)

EncAbsent == Marker(FALSE)

EncPresent(b) == Marker(TRUE) \o Enc(b)

\* The same on the level of fields.
EncOpt(x) == IF x = NULL THEN <<"0">> ELSE <<"1", x>>

EncBool(b) == IF b THEN "1" ELSE "0"

\* How often each identifier is named: a list of independent items is written in the
\* order of its bytes, whatever order it came in.
Counted(list) == [id \in Ids |-> Cardinality({n \in DOMAIN list : list[n] = id})]

Digest(material) == material

\* A readable prefix, a colon, and the digest, whose length is fixed.
DigestKey(prefix, material) == <<prefix, Digest(material)>>

------------------------------------------------------------------------------
(* Kinds.                                                                  *)

Kinds == {"escalation", "escalation_replay", "handoff", "webhook_event", "webhook_replay"}

EscalationKinds == {"escalation", "escalation_replay"}

WebhookKinds == {"webhook_event", "webhook_replay"}

Replays == {"escalation_replay", "webhook_replay"}

\* Which workers execute a kind.
FamilyOf(kind) ==
  IF kind \in EscalationKinds THEN "notification"
  ELSE IF kind = "handoff" THEN "handoff" ELSE "webhook"

SupportedVersions(kind) == IF kind \in Kinds THEN {1} ELSE {}

CurrentGrammarVersion(kind) == CHOOSE version \in SupportedVersions(kind) : TRUE

CheckVersion(kind, version) == version \in SupportedVersions(kind)

\* Only a re-admission carries the operator's id, and it always does.
RequestIDFits(kind, id) == IF kind \in Replays THEN id \in RequestIds ELSE id = ""

------------------------------------------------------------------------------
(* Slots and targets.                                                      *)

Slots == {slot \in [kind : {"firehose", "policy"}, index : Nat] :
            slot.kind = "firehose" => slot.index = 0}

\* The firehose writes an empty field where a policy's step writes its number.
SlotField(slot) == IF slot.kind = "firehose" THEN -1 ELSE slot.index

TargetKinds == {"channel", "user", "subscriber", "thread", "thread_reply"}

EscalationTargets == {"channel", "user", "thread", "thread_reply"}

TargetsOf(kinds) == [kind : kinds, ref : Ids]

IsSatellite(target) == target.kind \in {"thread", "thread_reply"}

------------------------------------------------------------------------------
(* Keys.                                                                   *)

\* What one escalation commitment is identified by.
EscalationIntents(kind) ==
  {i \in [group : Ids, request : Ids \cup {""}, slot : Slots, provider : Ids,
          target : TargetsOf(EscalationTargets)] : RequestIDFits(kind, i.request)}

\* The replay's id is a field a first admission does not have; kinds differ before it.
EscalationKey(kind, version, i) ==
  DigestKey(i.group,
    IF kind = "escalation_replay"
    THEN <<FamilyOf(kind), kind, version, i.group, i.request, i.slot.kind,
           SlotField(i.slot), i.provider, i.target.kind, i.target.ref>>
    ELSE <<FamilyOf(kind), kind, version, i.group, i.slot.kind,
           SlotField(i.slot), i.provider, i.target.kind, i.target.ref>>)

\* The claim a producer takes before any network call.
EscalationBatchKey(kind, version, group, request) ==
  DigestKey(group,
    IF kind = "escalation_replay"
    THEN <<FamilyOf(kind), kind, version, group, request>>
    ELSE <<FamilyOf(kind), kind, version, group>>)

\* Every key the claim could already be written under.
CandidateBatchKeys(kind, group, request) ==
  {EscalationBatchKey(kind, version, group, request) : version \in SupportedVersions(kind)}

HandoffKinds == {"handoff", "added_to_active_shift"}

\* A shift change: who is on duty, on which schedule, from when, by which revision.
Occurrences == [kind : HandoffKinds, schedule : Ids, source : Ids \cup {""}, group : Ids \cup {""},
                users : Seq(Ids), start : Nat, revision : Ids \cup {""}]

OccurrenceDigest(o) ==
  Digest(<<"handoff_occurrence", o.kind, o.schedule, o.source, o.group, Counted(o.users),
           o.start, o.revision>>)

OccurrenceKey(o) == <<o.schedule, OccurrenceDigest(o)>>

HandoffKey(version, o, provider, user) ==
  DigestKey(o.schedule, <<FamilyOf("handoff"), "handoff", version, OccurrenceDigest(o), provider, user>>)

WebhookKey(kind, version, event, integration, request) ==
  DigestKey(event,
    IF kind = "webhook_replay"
    THEN <<FamilyOf(kind), kind, version, event, integration, request>>
    ELSE <<FamilyOf(kind), kind, version, event, integration>>)

\* A claim says that it is one: a replay's would be its commitment's bytes otherwise.
WebhookBatchKey(kind, version, event, integration, request) ==
  DigestKey(event,
    IF kind = "webhook_replay"
    THEN <<FamilyOf(kind), kind, version, "admission", event, integration, request>>
    ELSE <<FamilyOf(kind), kind, version, "admission", event>>)

\* What the provider is asked to make, and what it is asked to change.
CreateKey(intent, generation) ==
  DigestKey(intent, <<"outbound_create_key/v1", intent, generation>>)

\* By the revision and not by the generation: a revision applied twice is one key twice.
MutationKey(intent, operation, revision) ==
  DigestKey(intent, <<"outbound_mutation_key/v1", intent, operation, revision>>)

------------------------------------------------------------------------------
(* When.                                                                   *)

NoTime == 0

TimingSpecs == [kind : {"relative_to_admission", "absolute", "bounded"},
                offset : Int, at : Nat, maxAge : Int]

\* Each kind refuses the other kinds' fields.
TimingFits(t) ==
  /\ t.kind = "relative_to_admission" => t.offset >= 0 /\ t.at = NoTime /\ t.maxAge = 0
  /\ t.kind = "absolute" => t.at # NoTime /\ t.offset = 0 /\ t.maxAge = 0
  /\ t.kind = "bounded" => t.at # NoTime /\ t.maxAge > 0 /\ t.offset = 0

TimingField(t) ==
  IF t.kind = "relative_to_admission" THEN <<t.kind, t.offset>>
  ELSE IF t.kind = "bounded" THEN <<t.kind, t.at, t.maxAge>>
  ELSE <<t.kind, t.at>>

Timings == {t \in TimingSpecs : TimingFits(t)}

Deadlines == Timings \cup {NULL}

DeadlineField(t) == IF t = NULL THEN <<"0">> ELSE <<"1", TimingField(t)>>

------------------------------------------------------------------------------
(* What is carried out: the payload of a commitment.                       *)

\* Version 1 carried the buttons and stopped nothing, version 2 the other way round.
EscalationPayloads(schema) ==
  {p \in [slot : Slots, target : TargetsOf(EscalationTargets), override : Texts \cup {"", NULL},
          interactive : BOOLEAN, stop : BOOLEAN] :
     IF schema = 1 THEN ~p.stop ELSE ~p.interactive}

HandoffPayloads ==
  {p \in [kind : HandoffKinds, team : Ids \cup {""}, schedule : Ids, zone : Zones, grid : Nat,
          start : Nat, end : Nat, target : TargetsOf({"user"})] :
     p.grid # NoTime /\ p.start # NoTime /\ p.end # NoTime}

WebhookEventTypes == {"alert_group.firing", "alert_group.acknowledged", "alert_group.resolved"}

WebhookPayloads ==
  [target : TargetsOf({"subscriber"}), event : Ids, type : WebhookEventTypes, body : Texts]

\* Stated per kind: how one kind of content is written is nothing to another.
KnowsPayloadSchema(kind, schema) ==
  \/ kind \in EscalationKinds /\ schema \in {1, 2}
  \/ kind \in {"handoff"} \cup WebhookKinds /\ schema = 1

Payloads(kind, schema) ==
  IF ~KnowsPayloadSchema(kind, schema) THEN {}
  ELSE IF kind \in EscalationKinds THEN EscalationPayloads(schema)
  ELSE IF kind = "handoff" THEN HandoffPayloads ELSE WebhookPayloads

\* The stored names of a payload's fields.  One left out is its zero value.
StoredNames(kind, schema) ==
  IF kind \in EscalationKinds
  THEN {"slot", "target", "message_override", IF schema = 1 THEN "interactive" ELSE "stop_on_failure"}
  ELSE IF kind = "handoff"
  THEN {"kind", "team_name", "schedule_id", "timezone", "grid_slot_start", "assignment_start",
        "assignment_end", "target"}
  ELSE {"target", "event_id", "event_type", "body"}

\* A stored row is read by its own schema: no unknown name, nothing after the value.
\* raw is [names, trailing, value], names being empty for a row with no payload.
Decodes(kind, schema, raw) ==
  /\ KnowsPayloadSchema(kind, schema)
  /\ raw.names # {} /\ raw.names \subseteq StoredNames(kind, schema)
  /\ ~raw.trailing
  /\ raw.value \in Payloads(kind, schema)

\* What a handler executes: version 1 in the shape of version 2, stopping nothing, its
\* buttons not read.
DecodeEscalationPayload(schema, p) == IF schema = 1 THEN [p EXCEPT !.interactive = FALSE] ELSE p

PayloadFields(kind, schema, p) ==
  IF kind \in EscalationKinds
  THEN <<p.slot.kind, SlotField(p.slot), p.target.kind, p.target.ref, EncOpt(p.override),
         EncBool(IF schema = 1 THEN p.interactive ELSE p.stop)>>
  ELSE IF kind = "handoff"
  THEN <<p.kind, p.team, p.schedule, p.zone, p.grid, p.start, p.end, p.target.kind, p.target.ref>>
  ELSE <<p.target.kind, p.target.ref, p.event, p.type, p.body>>

PayloadDigest(kind, schema, p) ==
  Digest(<<"outbound_payload_digest/v1", kind, schema, PayloadFields(kind, schema, p)>>)

------------------------------------------------------------------------------
(* What is promised: a proposal, and the fingerprint of an admission.      *)

Operations == {"send", "update", "resolve", "deliver"}

CompletionModes == {"on_acceptance", "on_provider_receipt"}

AmbiguityPolicies == {"retry", "reconcile_then_retry", "manual_review", "assume_accepted"}

\* What it is about: a revision of a group, a shift change, an event.
ContentRef(group, revision, digest) == <<"revision", group, revision, digest>>

OccurrenceRef(digest) == <<"occurrence", digest>>

EventRef(event) == <<"event", event>>

\* The fourteen fields, under their numbers.
SubmitIntent(kind, version, operation, content, schema, c, payload) ==
  <<kind, version, c.provider, c.target.kind, c.target.ref, operation, EncBool(c.editable), content,
    TimingField(c.timing), DeadlineField(c.expiry), c.completion, c.policy, schema,
    PayloadFields(kind, schema, payload)>>

OutcomeOfAdmission(materials) == IF materials = {} THEN "no_targets" ELSE "admitted"

\* No two materials of an admission are the same: no two keys are.
BatchFingerprint(content, materials) ==
  Digest(<<"outbound_batch_fingerprint/v1", OutcomeOfAdmission(materials), EncOpt(content), materials>>)

AttemptOutcomes ==
  {"accepted", "retryable_rejection", "permanent_rejection", "ambiguous", "canceled"}

ProviderResultDetails ==
  {"acceptance_proven", "delivery_proven", "definitely_absent", "inconclusive"}

\* What a provider said of an attempt.  A revision never applied is not revision zero.
CompletionReports ==
  [outcome : AttemptOutcomes, class : Texts \cup {"", NULL}, status : Texts \cup {"", NULL},
   receipt : Ids \cup {"", NULL}, revision : Nat \cup {NULL},
   detail : ProviderResultDetails \cup {NULL}]

CompletionFingerprint(c) ==
  Digest(<<"outbound_completion_fingerprint/v1", c.outcome, EncOpt(c.class), EncOpt(c.status),
           EncOpt(c.receipt), EncOpt(c.revision), EncOpt(c.detail)>>)

------------------------------------------------------------------------------
(* The three admissions.  A batch lists its commitments in any order, and  *)
(* its admission sorts them by key.                                        *)

Listed(list) == {list[n] : n \in DOMAIN list}

\* An escalation's: [kind, version, request, group, revision, digest, schema, commitments].
\* A satellite is Slack's, and says nothing of its own.
CommitmentFits(c) ==
  /\ c.slot.kind = "firehose" => ~c.stop
  /\ IsSatellite(c.target) =>
       /\ c.provider = "slack"
       /\ c.editable <=> c.target.kind = "thread"
       /\ c.expiry = NULL /\ c.override = NULL /\ ~c.stop

EscalationCommitments ==
  {c \in [slot : Slots, provider : Ids, target : TargetsOf(EscalationTargets), editable : BOOLEAN,
          override : Texts \cup {"", NULL}, stop : BOOLEAN, timing : Timings, expiry : Deadlines,
          completion : CompletionModes, policy : AmbiguityPolicies] : CommitmentFits(c)}

IntentOf(b, c) ==
  [group |-> b.group, request |-> b.request, slot |-> c.slot, provider |-> c.provider,
   target |-> c.target]

KeyOf(b, c) == EscalationKey(b.kind, b.version, IntentOf(b, c))

\* The card a satellite follows, by the key its own admission gives it.
ParentKey(b, c) ==
  IF IsSatellite(c.target)
  THEN EscalationKey(b.kind, b.version,
         [group |-> b.group, request |-> b.request, slot |-> c.slot, provider |-> c.provider,
          target |-> [kind |-> "channel", ref |-> c.target.ref]])
  ELSE NULL

EscalationMaterial(b, c) ==
  SubmitIntent(b.kind, b.version, "send", ContentRef(b.group, b.revision, b.digest), 2, c,
    [slot |-> c.slot, target |-> c.target, override |-> c.override, interactive |-> FALSE,
     stop |-> c.stop])

\* The keys of a list's commitments, in its order.
KeysDiffer(keys) == \A m, n \in DOMAIN keys : keys[m] = keys[n] => m = n

EscalationAdmits(b) ==
  /\ b.kind \in EscalationKinds /\ CheckVersion(b.kind, b.version)
  /\ b.group \in Ids /\ b.schema = 2
  /\ RequestIDFits(b.kind, b.request)
  /\ Listed(b.commitments) \subseteq EscalationCommitments
  /\ KeysDiffer([n \in DOMAIN b.commitments |-> KeyOf(b, b.commitments[n])])
  /\ \A c \in Listed(b.commitments) : IsSatellite(c.target) =>
       \E card \in Listed(b.commitments) : KeyOf(b, card) = ParentKey(b, c)

EscalationBatchKeyOf(b) == EscalationBatchKey(b.kind, b.version, b.group, b.request)

EscalationFingerprint(b) ==
  BatchFingerprint(b.digest, {EscalationMaterial(b, c) : c \in Listed(b.commitments)})

\* A handover's: [version, occurrence, team, zone, grid, end, maxAge, recipients].  One
\* deadline for all: the end of the shift or its age, whichever is earlier.
HandoffDeadline(b) == [kind |-> "bounded", offset |-> 0, at |-> b.end, maxAge |-> b.maxAge]

Announcement(b, user) ==
  [kind |-> b.occurrence.kind, team |-> b.team, schedule |-> b.occurrence.schedule, zone |-> b.zone,
   grid |-> b.grid, start |-> b.occurrence.start, end |-> b.end,
   target |-> [kind |-> "user", ref |-> user]]

HandoffRecipients ==
  [provider : Ids, user : Ids, timing : Timings, completion : CompletionModes,
   policy : AmbiguityPolicies]

HandoffCommitment(b, r) ==
  [provider |-> r.provider, target |-> [kind |-> "user", ref |-> r.user], editable |-> FALSE,
   timing |-> r.timing, expiry |-> HandoffDeadline(b), completion |-> r.completion,
   policy |-> r.policy]

HandoffMaterial(b, r) ==
  SubmitIntent("handoff", b.version, "send", OccurrenceRef(OccurrenceDigest(b.occurrence)), 1,
    HandoffCommitment(b, r), Announcement(b, r.user))

HandoffAdmits(b) ==
  /\ CheckVersion("handoff", b.version)
  /\ b.occurrence \in Occurrences /\ b.occurrence.start # NoTime
  /\ TimingFits(HandoffDeadline(b))
  /\ Listed(b.recipients) \subseteq HandoffRecipients
  /\ \A r \in Listed(b.recipients) :
       /\ r.user \in Listed(b.occurrence.users)
       /\ Announcement(b, r.user) \in HandoffPayloads
  /\ KeysDiffer([n \in DOMAIN b.recipients |->
       HandoffKey(b.version, b.occurrence, b.recipients[n].provider, b.recipients[n].user)])

HandoffFingerprint(b) ==
  BatchFingerprint(OccurrenceDigest(b.occurrence),
    {HandoffMaterial(b, r) : r \in Listed(b.recipients)})

\* A webhook's: [kind, version, event, type, body, audience, request, expiry].  It is about
\* no content of its own: its payload is a copy of the event.
Delivery(b, integration) ==
  [target |-> [kind |-> "subscriber", ref |-> integration], event |-> b.event, type |-> b.type,
   body |-> b.body]

WebhookCommitment(b, integration) ==
  [provider |-> "webhook", target |-> [kind |-> "subscriber", ref |-> integration],
   editable |-> FALSE,
   timing |-> [kind |-> "relative_to_admission", offset |-> 0, at |-> NoTime, maxAge |-> 0],
   expiry |-> [kind |-> "relative_to_admission", offset |-> b.expiry, at |-> NoTime, maxAge |-> 0],
   completion |-> "on_acceptance", policy |-> "retry"]

WebhookMaterial(b, integration) ==
  SubmitIntent(b.kind, b.version, "deliver", EventRef(b.event), 1, WebhookCommitment(b, integration),
    Delivery(b, integration))

WebhookAdmits(b) ==
  /\ b.kind \in WebhookKinds /\ CheckVersion(b.kind, b.version)
  /\ b.event \in Ids /\ b.type \in WebhookEventTypes /\ b.body # ""
  /\ b.expiry > 0
  /\ RequestIDFits(b.kind, b.request)
  /\ b.kind = "webhook_replay" => Len(b.audience) = 1
  /\ Listed(b.audience) \subseteq Ids
  /\ KeysDiffer(b.audience)
  /\ b.audience # <<>> => b.body \in Texts

WebhookBatchKeyOf(b) ==
  WebhookBatchKey(b.kind, b.version, b.event,
    IF b.kind = "webhook_replay" THEN b.audience[1] ELSE "", b.request)

WebhookFingerprint(b) ==
  BatchFingerprint(NULL, {WebhookMaterial(b, integration) : integration \in Listed(b.audience)})

================================================================================
