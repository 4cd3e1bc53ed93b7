---------------------------- MODULE Admission_proofs ----------------------------
(***************************************************************************)
(* What an admission rests on. The identity grammar (Keys), for any        *)
(* identifiers: no two promises share a key, no two admissions or answers  *)
(* share a fingerprint. The state a message is rendered from (Snapshots),  *)
(* for any texts and zones and any length of its lists: it has one         *)
(* canonical form, its digests tell apart what they are of, and what is    *)
(* rendered later is what was admitted. And the way in (Intake), for any   *)
(* alerts, payloads, policies and duties, and any number of requests,      *)
(* engines and people: what was reported is held, what was admitted is     *)
(* current, and every step of a policy is answered.                        *)
(***************************************************************************)
EXTENDS Snapshots, Intake, SequenceTheorems, FiniteSetTheorems, TLAPS

------------------------------------------------------------------------------
(* The codec: the bytes decide the fields.                                 *)

\* A number is its quotient and its last byte.
LEMMA LastByte ==
  ASSUME NEW k \in Nat
  PROVE  k \div 256 \in Nat /\ k % 256 \in 0..255 /\ k = 256 * (k \div 256) + (k % 256)
  OBVIOUS

\* Two numbers of one quotient and one last byte are one number.
LEMMA SameByBytes ==
  ASSUME NEW m \in Nat, NEW n \in Nat, m \div 256 = n \div 256, m % 256 = n % 256
  PROVE  m = n
  BY LastByte

\* A number below 256 is its last byte.
LEMMA SameHighByte ==
  ASSUME NEW m \in Nat, NEW n \in Nat, m < 256, n < 256, m % 256 = n % 256
  PROVE  m = n
  OBVIOUS

\* be32 of two lengths differs where the lengths do.
LEMMA Be32TellsApart ==
  ASSUME NEW m \in Nat, NEW n \in Nat, Fits32(m), Fits32(n), Be32(m) = Be32(n)
  PROVE  m = n
  <1> DEFINE Q(k) == k \div 256
  <1>1. /\ Q(m) \in Nat /\ Q(Q(m)) \in Nat /\ Q(Q(Q(m))) \in Nat
        /\ Q(n) \in Nat /\ Q(Q(n)) \in Nat /\ Q(Q(Q(n))) \in Nat
    BY LastByte
  <1>2. /\ Q(Q(Q(m))) < 256 /\ Q(Q(Q(n))) < 256
        /\ Q(Q(Q(m))) % 256 = Q(Q(Q(n))) % 256 /\ Q(Q(m)) % 256 = Q(Q(n)) % 256
        /\ Q(m) % 256 = Q(n) % 256 /\ m % 256 = n % 256
    BY DEF Be32, Fits32
  <1>3. Q(Q(Q(m))) = Q(Q(Q(n)))
    <2> HIDE DEF Q
    <2> QED BY <1>1, <1>2, SameHighByte
  <1>4. Q(Q(m)) = Q(Q(n))
    BY <1>1, <1>2, <1>3, SameByBytes
  <1>5. Q(m) = Q(n)
    BY <1>1, <1>2, <1>4, SameByBytes
  <1> QED BY <1>2, <1>5, SameByBytes

\* Four bytes, a content and what follows it, each where it is found.
Joins(s, h, b, x) ==
  /\ Len(s) = 4 + Len(b) + Len(x)
  /\ \A i \in 1..4 : s[i] = h[i]
  /\ \A i \in 1..Len(b) : s[4 + i] = b[i]
  /\ \A i \in 1..Len(x) : s[4 + Len(b) + i] = x[i]

\* Where the parts of a field and what follows it are in their joining.
LEMMA JoinShape ==
  ASSUME NEW h \in Seq(Bytes), NEW b \in Seq(Bytes), NEW x \in Seq(Bytes), Len(h) = 4
  PROVE  Joins((h \o b) \o x, h, b, x)
  <1>1. Len(b) \in Nat /\ Len(x) \in Nat
    BY LenProperties
  <1>2. /\ h \o b \in Seq(Bytes) /\ Len(h \o b) = 4 + Len(b)
        /\ \A i \in 1..(4 + Len(b)) : (h \o b)[i] = IF i <= 4 THEN h[i] ELSE b[i - 4]
    <2>1. /\ h \o b \in Seq(Bytes) /\ Len(h \o b) = Len(h) + Len(b)
          /\ \A i \in 1..(Len(h) + Len(b)) : (h \o b)[i] = IF i <= Len(h) THEN h[i] ELSE b[i - Len(h)]
      BY ConcatProperties, Zenon
    <2> DEFINE joined == h \o b
    <2> HIDE DEF joined
    <2>2. joined \in Seq(Bytes) /\ Len(joined) = 4 + Len(b)
      BY <2>1 DEF joined
    <2> QED BY <2>1
  <1> DEFINE hb == h \o b
  <1>3. /\ hb \in Seq(Bytes) /\ Len(hb) = 4 + Len(b)
        /\ \A i \in 1..4 : hb[i] = h[i]
        /\ \A i \in 1..Len(b) : hb[4 + i] = b[i]
    BY <1>1, <1>2
  <1> HIDE DEF hb
  <1>4. /\ Len(hb \o x) = Len(hb) + Len(x)
        /\ \A i \in 1..(Len(hb) + Len(x)) : (hb \o x)[i] = IF i <= Len(hb) THEN hb[i] ELSE x[i - Len(hb)]
    BY <1>3, ConcatProperties
  <1>5. /\ Len(hb \o x) = 4 + Len(b) + Len(x)
        /\ \A i \in 1..4 : (hb \o x)[i] = h[i]
        /\ \A i \in 1..Len(b) : (hb \o x)[4 + i] = b[i]
        /\ \A i \in 1..Len(x) : (hb \o x)[4 + Len(b) + i] = x[i]
    BY <1>1, <1>3, <1>4
  <1> QED BY <1>5 DEF hb, Joins

\* A length is written in four bytes.
LEMMA Be32IsBytes ==
  ASSUME NEW n \in Nat
  PROVE  Be32(n) \in Seq(Bytes) /\ Len(Be32(n)) = 4
  <1>1. \A k \in Nat : k \div 256 \in Nat /\ k % 256 \in Bytes
    BY LastByte DEF Bytes
  <1> QED BY <1>1, LenProperties DEF Be32

\* No field is the beginning of another: whatever follows, the first field is read as it
\* was written, and so is the rest.
THEOREM FieldsAreReadAsWritten ==
  ASSUME NEW a \in Seq(Bytes), NEW b \in Seq(Bytes), Fits32(Len(a)), Fits32(Len(b)),
         NEW x \in Seq(Bytes), NEW y \in Seq(Bytes), Enc(a) \o x = Enc(b) \o y
  PROVE  a = b /\ x = y
  <1> DEFINE h == Be32(Len(a))
             k == Be32(Len(b))
             s == (h \o a) \o x
  <1>1. Len(a) \in Nat /\ Len(b) \in Nat /\ Len(x) \in Nat /\ Len(y) \in Nat
    BY LenProperties
  <1>2. h \in Seq(Bytes) /\ Len(h) = 4 /\ k \in Seq(Bytes) /\ Len(k) = 4
    BY <1>1, Be32IsBytes
  <1>3. s = (k \o b) \o y
    BY DEF Enc
  <1> HIDE DEF h, k
  <1>4. Joins((h \o a) \o x, h, a, x) /\ Joins((k \o b) \o y, k, b, y)
    BY <1>2, JoinShape, Zenon
  <1>5. Joins(s, h, a, x) /\ Joins(s, k, b, y)
    BY <1>3, <1>4, Zenon
  <1> HIDE DEF s
  <1>6. /\ Len(s) = 4 + Len(a) + Len(x) /\ Len(s) = 4 + Len(b) + Len(y)
        /\ \A i \in 1..4 : s[i] = h[i] /\ s[i] = k[i]
        /\ \A i \in 1..Len(a) : s[4 + i] = a[i]
        /\ \A i \in 1..Len(b) : s[4 + i] = b[i]
        /\ \A i \in 1..Len(x) : s[4 + Len(a) + i] = x[i]
        /\ \A i \in 1..Len(y) : s[4 + Len(b) + i] = y[i]
    BY <1>5 DEF Joins
  <1>7. h = k
    <2>1. \A i \in 1..4 : h[i] = k[i]
      BY <1>6
    <2> QED BY <1>2, <2>1, SeqEqual
  <1>8. Len(a) = Len(b)
    BY <1>1, <1>7, Be32TellsApart DEF h, k
  <1>9. a = b
    <2>1. \A i \in 1..Len(a) : a[i] = b[i]
      BY <1>6, <1>8
    <2> QED BY <1>8, <2>1, SeqEqual
  <1>10. x = y
    <2>1. Len(x) = Len(y)
      BY <1>1, <1>6, <1>8
    <2>2. \A i \in 1..Len(x) : x[i] = y[i]
      BY <1>6, <1>8, <2>1
    <2> QED BY <2>1, <2>2, SeqEqual
  <1> QED BY <1>9, <1>10

Associates(p, q, r) == (p \o q) \o r = p \o (q \o r)

\* Three strings of bytes, joined from either end.
LEMMA BytesJoinInAnyOrder ==
  ASSUME NEW p \in Seq(Bytes), NEW q \in Seq(Bytes), NEW r \in Seq(Bytes)
  PROVE  Associates(p, q, r)
  BY ConcatAssociative, SMT DEF Associates

\* Absent, empty and present stay three things, whatever follows.
THEOREM AbsenceIsNotEmptiness ==
  ASSUME NEW a \in Seq(Bytes), NEW b \in Seq(Bytes), Fits32(Len(a)), Fits32(Len(b)),
         NEW x \in Seq(Bytes), NEW y \in Seq(Bytes)
  PROVE  /\ EncPresent(a) \o x # EncAbsent \o y
         /\ EncPresent(a) \o x = EncPresent(b) \o y => a = b /\ x = y
  <1> DEFINE zero == <<48>>
             one == <<49>>
  <1>1. zero \in Seq(Bytes) /\ one \in Seq(Bytes) /\ Len(zero) = 1 /\ Len(one) = 1 /\ zero # one
    BY DEF Bytes
  <1>2. Fits32(Len(zero)) /\ Fits32(Len(one))
    BY <1>1 DEF Fits32
  <1> HIDE DEF zero, one
  <1>3. ASSUME NEW f \in Seq(Bytes)
        PROVE  Enc(f) \in Seq(Bytes)
    <2>1. Len(f) \in Nat
      BY LenProperties
    <2>2. Be32(Len(f)) \in Seq(Bytes)
      BY <2>1, Be32IsBytes
    <2> QED BY <2>2, ConcatProperties DEF Enc
  <1>4. /\ EncPresent(a) \o x = Enc(one) \o (Enc(a) \o x)
        /\ EncPresent(b) \o y = Enc(one) \o (Enc(b) \o y)
        /\ EncAbsent = Enc(zero)
    <2>1. EncPresent(a) = Enc(one) \o Enc(a) /\ EncPresent(b) = Enc(one) \o Enc(b)
      BY DEF EncPresent, Marker, one
    <2>2. Enc(one) \in Seq(Bytes) /\ Enc(a) \in Seq(Bytes) /\ Enc(b) \in Seq(Bytes)
      BY <1>1, <1>3
    <2>3. (Enc(one) \o Enc(a)) \o x = Enc(one) \o (Enc(a) \o x)
          /\ (Enc(one) \o Enc(b)) \o y = Enc(one) \o (Enc(b) \o y)
      <3>1. Associates(Enc(one), Enc(a), x) /\ Associates(Enc(one), Enc(b), y)
        BY <2>2, BytesJoinInAnyOrder
      <3> QED BY <3>1 DEF Associates
    <2>4. EncAbsent = Enc(zero)
      BY DEF EncAbsent, Marker, zero
    <2> QED BY <2>1, <2>3, <2>4, Zenon
  <1>5. Enc(a) \o x \in Seq(Bytes) /\ Enc(b) \o y \in Seq(Bytes)
    BY <1>3, ConcatProperties, Zenon
  <1> DEFINE ax == Enc(a) \o x
             by == Enc(b) \o y
  <1> HIDE DEF ax, by
  <1>6. /\ ax \in Seq(Bytes) /\ by \in Seq(Bytes)
        /\ EncPresent(a) \o x = Enc(one) \o ax /\ EncPresent(b) \o y = Enc(one) \o by
    BY <1>4, <1>5 DEF ax, by
  <1>7. Enc(one) \o ax # Enc(zero) \o y
    BY <1>1, <1>2, <1>6, FieldsAreReadAsWritten
  <1>8. Enc(one) \o ax = Enc(one) \o by => ax = by
    BY <1>1, <1>2, <1>6, FieldsAreReadAsWritten
  <1>9. ax = by => a = b /\ x = y
    BY FieldsAreReadAsWritten DEF ax, by
  <1> QED BY <1>4, <1>6, <1>7, <1>8, <1>9

------------------------------------------------------------------------------
(* Keys: one key, one commitment.                                          *)

\* The field a slot is written as tells it from the others of its kind.
LEMMA SlotsHaveFields ==
  ASSUME NEW s \in Slots, NEW t \in Slots, s.kind = t.kind, SlotField(s) = SlotField(t)
  PROVE  s = t
  BY DEF Slots, SlotField

\* A target is its kind and its reference.
LEMMA TargetsArePairs ==
  ASSUME NEW K, NEW s \in TargetsOf(K), NEW t \in TargetsOf(K), s.kind = t.kind, s.ref = t.ref
  PROVE  s = t
  BY DEF TargetsOf

\* A key names one commitment of one escalation: the kind, the group, the operator's
\* request, the slot, the provider and the recipient are all in it.
THEOREM EscalationKeysTellApart ==
  ASSUME NEW k \in EscalationKinds, NEW l \in EscalationKinds, NEW v, NEW w,
         NEW i \in EscalationIntents(k), NEW j \in EscalationIntents(l),
         EscalationKey(k, v, i) = EscalationKey(l, w, j)
  PROVE  k = l /\ v = w /\ i = j
  <1>1. k = l /\ v = w
    BY DEF EscalationKinds, EscalationKey, DigestKey, Digest
  <1>2. /\ i.group = j.group /\ i.slot.kind = j.slot.kind /\ SlotField(i.slot) = SlotField(j.slot)
        /\ i.provider = j.provider /\ i.target.kind = j.target.kind /\ i.target.ref = j.target.ref
    BY <1>1 DEF EscalationKinds, EscalationKey, DigestKey, Digest
  <1>3. i.request = j.request
    BY <1>1 DEF EscalationKinds, EscalationKey, DigestKey, Digest, EscalationIntents, RequestIDFits, Replays
  <1>4. i.slot = j.slot /\ i.target = j.target
    BY <1>2, SlotsHaveFields, TargetsArePairs DEF EscalationIntents
  <1>5. /\ i = [group |-> i.group, request |-> i.request, slot |-> i.slot,
               provider |-> i.provider, target |-> i.target]
        /\ j = [group |-> j.group, request |-> j.request, slot |-> j.slot,
               provider |-> j.provider, target |-> j.target]
    BY DEF EscalationIntents
  <1> QED BY <1>1, <1>2, <1>3, <1>4, <1>5

\* One claim, one group and one decision about it.
THEOREM EscalationClaimsTellApart ==
  ASSUME NEW k \in EscalationKinds, NEW l \in EscalationKinds, NEW v, NEW w, NEW g, NEW h,
         NEW r, NEW q, RequestIDFits(k, r), RequestIDFits(l, q),
         EscalationBatchKey(k, v, g, r) = EscalationBatchKey(l, w, h, q)
  PROVE  k = l /\ v = w /\ g = h /\ r = q
  <1>1. k = l /\ v = w /\ g = h
    BY DEF EscalationKinds, EscalationBatchKey, DigestKey, Digest
  <1>2. r = q
    BY <1>1 DEF EscalationKinds, EscalationBatchKey, DigestKey, Digest, RequestIDFits, Replays
  <1> QED BY <1>1, <1>2

\* A shift change's claim and its announcements: the occurrence, whom it names, and how
\* often, but not the order they came in.
THEOREM HandoffKeysTellApart ==
  ASSUME NEW o, NEW p, NEW v, NEW w, NEW provider, NEW other, NEW user, NEW person,
         HandoffKey(v, o, provider, user) = HandoffKey(w, p, other, person)
  PROVE  /\ v = w /\ provider = other /\ user = person
         /\ OccurrenceKey(o) = OccurrenceKey(p)
         /\ o.kind = p.kind /\ o.source = p.source /\ o.group = p.group
         /\ Counted(o.users) = Counted(p.users) /\ o.start = p.start /\ o.revision = p.revision
  <1>1. o.schedule = p.schedule /\ v = w /\ provider = other /\ user = person
        /\ OccurrenceDigest(o) = OccurrenceDigest(p)
    BY DEF HandoffKey, DigestKey, Digest
  <1>2. /\ o.kind = p.kind /\ o.source = p.source /\ o.group = p.group
        /\ Counted(o.users) = Counted(p.users) /\ o.start = p.start /\ o.revision = p.revision
    BY <1>1 DEF OccurrenceDigest, Digest
  <1> QED BY <1>1, <1>2 DEF OccurrenceKey

\* One subscriber of one event, and of one replay of it.
THEOREM WebhookKeysTellApart ==
  ASSUME NEW k \in WebhookKinds, NEW l \in WebhookKinds, NEW v, NEW w, NEW e, NEW f, NEW s, NEW t,
         NEW r, NEW q, RequestIDFits(k, r), RequestIDFits(l, q),
         WebhookKey(k, v, e, s, r) = WebhookKey(l, w, f, t, q)
  PROVE  k = l /\ v = w /\ e = f /\ s = t /\ r = q
  <1>1. k = l /\ v = w /\ e = f /\ s = t
    BY DEF WebhookKinds, WebhookKey, DigestKey, Digest
  <1>2. r = q
    BY <1>1 DEF WebhookKinds, WebhookKey, DigestKey, Digest, RequestIDFits, Replays
  <1> QED BY <1>1, <1>2

\* An event is fanned out under one claim; a replay under its subscriber's and its own.
THEOREM WebhookClaimsTellApart ==
  ASSUME NEW k \in WebhookKinds, NEW l \in WebhookKinds, NEW v, NEW w, NEW e, NEW f, NEW s, NEW t,
         NEW r, NEW q, RequestIDFits(k, r), RequestIDFits(l, q),
         WebhookBatchKey(k, v, e, s, r) = WebhookBatchKey(l, w, f, t, q)
  PROVE  k = l /\ v = w /\ e = f /\ r = q /\ (k = "webhook_replay" => s = t)
  <1>1. k = l /\ v = w /\ e = f
    BY DEF WebhookKinds, WebhookBatchKey, DigestKey, Digest
  <1>2. r = q /\ (k = "webhook_replay" => s = t)
    BY <1>1 DEF WebhookKinds, WebhookBatchKey, DigestKey, Digest, RequestIDFits, Replays
  <1> QED BY <1>1, <1>2

\* The literal in a claim keeps it from being the commitment it admits.
THEOREM ClaimsAreNotCommitments ==
  ASSUME NEW k \in WebhookKinds, NEW l \in WebhookKinds, NEW v, NEW w, NEW e, NEW f, NEW s, NEW t,
         NEW r, NEW q, f # "admission"
  PROVE  WebhookBatchKey(k, v, e, s, r) # WebhookKey(l, w, f, t, q)
  <1>1. CASE k = "webhook_replay"
    BY <1>1 DEF WebhookKinds, WebhookBatchKey, WebhookKey, DigestKey, Digest
  <1>2. CASE k = "webhook_event"
    BY <1>2 DEF WebhookKinds, WebhookBatchKey, WebhookKey, DigestKey, Digest
  <1> QED BY <1>1, <1>2 DEF WebhookKinds

\* A commitment is made anew under a new generation's key; a change keeps its key whatever
\* the generation, and is no creation.
THEOREM ProviderKeysTellApart ==
  ASSUME NEW i, NEW j, NEW g, NEW h, NEW op, NEW other, NEW r, NEW q
  PROVE  /\ CreateKey(i, g) = CreateKey(j, h) <=> i = j /\ g = h
         /\ MutationKey(i, op, r) = MutationKey(j, other, q) <=> i = j /\ op = other /\ r = q
         /\ CreateKey(i, g) # MutationKey(j, op, r)
  BY DEF CreateKey, MutationKey, DigestKey, Digest

------------------------------------------------------------------------------
(* Fingerprints: one fingerprint, one content.                             *)

\* Each kind of timing writes every field it may set (timing.fields).
LEMMA TimingsTellApart ==
  ASSUME NEW t \in Timings, NEW u \in Timings, TimingField(t) = TimingField(u)
  PROVE  t = u
  <1>1. t.kind = u.kind
    BY DEF Timings, TimingSpecs, TimingField
  <1>2. t.offset = u.offset /\ t.at = u.at /\ t.maxAge = u.maxAge
    BY <1>1 DEF Timings, TimingSpecs, TimingFits, TimingField
  <1> QED BY <1>1, <1>2 DEF Timings, TimingSpecs

\* No deadline is not a deadline of zero.
LEMMA DeadlinesTellApart ==
  ASSUME NEW t \in Deadlines, NEW u \in Deadlines, DeadlineField(t) = DeadlineField(u)
  PROVE  t = u
  BY TimingsTellApart DEF Deadlines, DeadlineField

\* An absent value is written unlike every present one (encOpt).
LEMMA OptionsTellApart ==
  ASSUME NEW x, NEW y, EncOpt(x) = EncOpt(y)
  PROVE  x = y
  BY DEF EncOpt

\* A boolean's field is its value.
LEMMA BooleansTellApart ==
  ASSUME NEW x \in BOOLEAN, NEW y \in BOOLEAN, EncBool(x) = EncBool(y)
  PROVE  x = y
  BY DEF EncBool

\* A provider's answer, told twice, is the same answer in every part or another one: a
\* revision never applied is not revision zero, no detail is not an empty one.
THEOREM AnswersTellApart ==
  ASSUME NEW c \in CompletionReports, NEW d \in CompletionReports,
         CompletionFingerprint(c) = CompletionFingerprint(d)
  PROVE  c = d
  <1>1. /\ c.outcome = d.outcome /\ EncOpt(c.class) = EncOpt(d.class)
        /\ EncOpt(c.status) = EncOpt(d.status) /\ EncOpt(c.receipt) = EncOpt(d.receipt)
        /\ EncOpt(c.revision) = EncOpt(d.revision) /\ EncOpt(c.detail) = EncOpt(d.detail)
    BY DEF CompletionFingerprint, Digest
  <1>2. /\ c.class = d.class /\ c.status = d.status /\ c.receipt = d.receipt
        /\ c.revision = d.revision /\ c.detail = d.detail
    BY <1>1, OptionsTellApart
  <1>3. /\ c = [outcome |-> c.outcome, class |-> c.class, status |-> c.status,
               receipt |-> c.receipt, revision |-> c.revision, detail |-> c.detail]
        /\ d = [outcome |-> d.outcome, class |-> d.class, status |-> d.status,
               receipt |-> d.receipt, revision |-> d.revision, detail |-> d.detail]
    BY DEF CompletionReports
  <1> QED BY <1>1, <1>2, <1>3

\* An escalation's payload of one version is the fields it is written as.
LEMMA EscalationPayloadsTellApart ==
  ASSUME NEW k \in EscalationKinds, NEW l \in EscalationKinds, NEW v \in {1, 2},
         NEW p \in EscalationPayloads(v), NEW q \in EscalationPayloads(v),
         PayloadFields(k, v, p) = PayloadFields(l, v, q)
  PROVE  p = q
  <1>1. /\ p.slot.kind = q.slot.kind /\ SlotField(p.slot) = SlotField(q.slot)
        /\ p.target.kind = q.target.kind /\ p.target.ref = q.target.ref
        /\ EncOpt(p.override) = EncOpt(q.override)
        /\ EncBool(IF v = 1 THEN p.interactive ELSE p.stop) = EncBool(IF v = 1 THEN q.interactive ELSE q.stop)
    BY DEF PayloadFields
  <1>2. p.slot = q.slot /\ p.target = q.target
    BY <1>1, SlotsHaveFields, TargetsArePairs DEF EscalationPayloads
  <1>3. p.override = q.override
    BY <1>1, OptionsTellApart
  <1>4. /\ p.interactive \in BOOLEAN /\ p.stop \in BOOLEAN /\ (v = 1 => ~p.stop) /\ (v = 2 => ~p.interactive)
        /\ q.interactive \in BOOLEAN /\ q.stop \in BOOLEAN /\ (v = 1 => ~q.stop) /\ (v = 2 => ~q.interactive)
    <2>1. /\ p.interactive \in BOOLEAN /\ p.stop \in BOOLEAN
          /\ q.interactive \in BOOLEAN /\ q.stop \in BOOLEAN
      BY DEF EscalationPayloads
    <2>2. /\ IF v = 1 THEN ~p.stop ELSE ~p.interactive
          /\ IF v = 1 THEN ~q.stop ELSE ~q.interactive
      BY DEF EscalationPayloads
    <2>3. v = 2 => v # 1
      OBVIOUS
    <2> QED BY <2>1, <2>2, <2>3, Zenon
  <1>5. p.interactive = q.interactive /\ p.stop = q.stop
    BY <1>1, <1>4, BooleansTellApart
  <1>6. /\ p = [slot |-> p.slot, target |-> p.target, override |-> p.override,
               interactive |-> p.interactive, stop |-> p.stop]
        /\ q = [slot |-> q.slot, target |-> q.target, override |-> q.override,
               interactive |-> q.interactive, stop |-> q.stop]
    BY DEF EscalationPayloads
  <1> QED BY <1>2, <1>3, <1>5, <1>6

\* An announcement is the fields it is written as.
LEMMA HandoffPayloadsTellApart ==
  ASSUME NEW p \in HandoffPayloads, NEW q \in HandoffPayloads,
         PayloadFields("handoff", 1, p) = PayloadFields("handoff", 1, q)
  PROVE  p = q
  <1>1. /\ p.kind = q.kind /\ p.team = q.team /\ p.schedule = q.schedule /\ p.zone = q.zone
        /\ p.grid = q.grid /\ p.start = q.start /\ p.end = q.end
        /\ p.target.kind = q.target.kind /\ p.target.ref = q.target.ref
    BY DEF PayloadFields, EscalationKinds
  <1>2. p.target = q.target
    BY <1>1, TargetsArePairs DEF HandoffPayloads
  <1>3. /\ p = [kind |-> p.kind, team |-> p.team, schedule |-> p.schedule, zone |-> p.zone,
               grid |-> p.grid, start |-> p.start, end |-> p.end, target |-> p.target]
        /\ q = [kind |-> q.kind, team |-> q.team, schedule |-> q.schedule, zone |-> q.zone,
               grid |-> q.grid, start |-> q.start, end |-> q.end, target |-> q.target]
    BY DEF HandoffPayloads
  <1> QED BY <1>1, <1>2, <1>3

\* A delivery of an event is the fields it is written as.
LEMMA WebhookPayloadsTellApart ==
  ASSUME NEW k \in WebhookKinds, NEW p \in WebhookPayloads, NEW q \in WebhookPayloads,
         PayloadFields(k, 1, p) = PayloadFields(k, 1, q)
  PROVE  p = q
  <1>1. /\ p.target.kind = q.target.kind /\ p.target.ref = q.target.ref
        /\ p.event = q.event /\ p.type = q.type /\ p.body = q.body
    BY DEF PayloadFields, EscalationKinds, WebhookKinds
  <1>2. p.target = q.target
    BY <1>1, TargetsArePairs DEF WebhookPayloads
  <1>3. /\ p = [target |-> p.target, event |-> p.event, type |-> p.type, body |-> p.body]
        /\ q = [target |-> q.target, event |-> q.event, type |-> q.type, body |-> q.body]
    BY DEF WebhookPayloads
  <1> QED BY <1>1, <1>2, <1>3

\* What a stored payload's digest was taken of: two versions of an escalation's payload
\* can be written in the same bytes, and their digests still differ.
THEOREM PayloadDigestsTellApart ==
  ASSUME NEW k, NEW l, NEW v, NEW w, NEW p \in Payloads(k, v), NEW q \in Payloads(l, w),
         PayloadDigest(k, v, p) = PayloadDigest(l, w, q)
  PROVE  k = l /\ v = w /\ p = q
  <1>1. k = l /\ v = w /\ PayloadFields(k, v, p) = PayloadFields(k, v, q)
    BY DEF PayloadDigest, Digest
  <1>2. KnowsPayloadSchema(k, v)
    BY DEF Payloads
  <1>3. CASE k \in EscalationKinds
    <2>1. v \in {1, 2}
      BY <1>2, <1>3 DEF KnowsPayloadSchema, EscalationKinds, WebhookKinds
    <2>2. p \in EscalationPayloads(v) /\ q \in EscalationPayloads(v)
      BY <1>1, <1>2, <1>3 DEF Payloads
    <2> QED BY <1>1, <1>3, <2>1, <2>2, EscalationPayloadsTellApart
  <1>4. CASE k = "handoff"
    <2>1. v = 1
      BY <1>2, <1>4 DEF KnowsPayloadSchema, EscalationKinds
    <2>2. p \in HandoffPayloads /\ q \in HandoffPayloads
      BY <1>1, <1>2, <1>4 DEF Payloads, EscalationKinds
    <2> QED BY <1>1, <1>4, <2>1, <2>2, HandoffPayloadsTellApart
  <1>5. CASE k \in WebhookKinds
    <2>1. v = 1
      BY <1>2, <1>5 DEF KnowsPayloadSchema, EscalationKinds, WebhookKinds
    <2>2. p \in WebhookPayloads /\ q \in WebhookPayloads
      BY <1>1, <1>2, <1>5 DEF Payloads, EscalationKinds, WebhookKinds
    <2> QED BY <1>1, <1>5, <2>1, <2>2, WebhookPayloadsTellApart
  <1> QED BY <1>2, <1>3, <1>4, <1>5 DEF KnowsPayloadSchema

\* A row is read by the schema it was written under: the other version's does not know
\* the one name they do not share.
THEOREM VersionsReadTheirOwn ==
  ASSUME NEW k \in EscalationKinds, NEW v \in {1, 2}, NEW w \in {1, 2}, NEW raw,
         raw.names = StoredNames(k, v), Decodes(k, w, raw)
  PROVE  v = w
  BY DEF Decodes, StoredNames

------------------------------------------------------------------------------
(* Snapshots: one canonical form.                                          *)

\* A text that was cut is past its limit still, and cutting it again cuts the same.
LEMMA CutOnce ==
  ASSUME NEW text \in CutTexts, NEW limit \in Nat
  PROVE  /\ Cut(text, limit) \in CutTexts
         /\ Cut(Cut(text, limit), limit) = Cut(text, limit)
         /\ Cut(text, limit) = text \/ Len(Cut(text, limit)) = limit + 3
  <1>1. Len(text) \in Nat
    BY LenProperties DEF CutTexts
  <1>2. CASE Len(text) <= limit
    BY <1>2 DEF Cut
  <1>3. CASE Len(text) > limit
    <2> DEFINE head == SubSeq(text, 1, limit)
    <2>1. head \in Seq(Runes) /\ Len(head) = limit /\ \A k \in 1..limit : head[k] = text[k]
      BY <1>1, <1>3, SubSeqProperties DEF CutTexts
    <2>2. Ellipsis \in Seq(Runes) /\ Len(Ellipsis) = 3
      BY SnapshotsAssumption DEF Ellipsis
    <2>3. Cut(text, limit) = head \o Ellipsis
      BY <1>1, <1>3 DEF Cut
    <2> DEFINE cut == head \o Ellipsis
    <2> HIDE DEF head
    <2>4. cut \in Seq(Runes) /\ Len(cut) = limit + 3 /\ \A k \in 1..limit : cut[k] = head[k]
      <3>1. cut \in Seq(Runes) /\ Len(cut) = Len(head) + Len(Ellipsis)
        BY <2>1, <2>2, ConcatProperties
      <3>2. \A k \in 1..(Len(head) + Len(Ellipsis)) : cut[k] = IF k <= Len(head) THEN head[k] ELSE Ellipsis[k - Len(head)]
        BY <2>1, <2>2, ConcatProperties
      <3> HIDE DEF cut
      <3> QED BY <2>1, <2>2, <3>1, <3>2
    <2> HIDE DEF cut
    <2> DEFINE again == SubSeq(cut, 1, limit)
    <2>5. again \in Seq(Runes) /\ Len(again) = limit /\ \A k \in 1..limit : again[k] = cut[k]
      BY <2>4, SubSeqProperties
    <2> HIDE DEF again
    <2>6. again = head
      BY <2>1, <2>4, <2>5, SeqEqual
    <2>7. Cut(cut, limit) = again \o Ellipsis
      BY <2>4 DEF Cut, again
    <2>8. Cut(text, limit) = cut
      BY <2>3 DEF cut
    <2> QED BY <2>4, <2>6, <2>7, <2>8 DEF CutTexts, cut
  <1> QED BY <1>1, <1>2, <1>3

\* An absent text stays absent.
LEMMA CutOptOnce ==
  ASSUME NEW text \in OptionalCutTexts, NEW limit \in Nat
  PROVE  /\ CutOpt(text, limit) \in OptionalCutTexts
         /\ CutOpt(CutOpt(text, limit), limit) = CutOpt(text, limit)
  <1>1. CASE text = NULL
    BY <1>1 DEF CutOpt, OptionalCutTexts
  <1>2. CASE text # NULL
    <2>1. text \in CutTexts /\ CutOpt(text, limit) = Cut(text, limit)
      BY <1>2 DEF CutOpt, OptionalCutTexts
    <2>2. Cut(text, limit) \in CutTexts /\ Cut(Cut(text, limit), limit) = Cut(text, limit)
      BY <2>1, CutOnce
    <2> QED BY <2>1, <2>2 DEF CutOpt, OptionalCutTexts
  <1> QED BY <1>1, <1>2

------------------------------------------------------------------------------
\* What a list is sorted by: finitely many, each with its instant and an id of its own.
Orderable(S) ==
  /\ IsFiniteSet(S)
  /\ \A x \in S : x.at \in Nat /\ x.id \in Ids
  /\ \A x, y \in S : x.id = y.id => x = y

Ascending(list) == \A m, n \in DOMAIN list : m < n => Earlier(list[m], list[n])

\* Of two different ones one is earlier, none is earlier than itself, and what is earlier
\* than an earlier one is earlier.
LEMMA EarlierOrders ==
  ASSUME NEW S, Orderable(S)
  PROVE  /\ \A x \in S : ~Earlier(x, x)
         /\ \A x, y \in S : x # y => Earlier(x, y) \/ Earlier(y, x)
         /\ \A x, y, z \in S : Earlier(x, y) /\ Earlier(y, z) => Earlier(x, z)
  <1>1. \A x \in S : ~Earlier(x, x)
    BY SnapshotsAssumption DEF Orderable, Earlier
  <1>2. ASSUME NEW x \in S, NEW y \in S, x # y
        PROVE  Earlier(x, y) \/ Earlier(y, x)
    <2>1. x.at \in Nat /\ y.at \in Nat /\ x.id \in Ids /\ y.id \in Ids /\ x.id # y.id
      BY <1>2 DEF Orderable
    <2>2. <<x.id, y.id>> \in ByteOrder \/ <<y.id, x.id>> \in ByteOrder
      BY <2>1, SnapshotsAssumption
    <2> QED BY <2>1, <2>2 DEF Earlier
  <1>3. ASSUME NEW x \in S, NEW y \in S, NEW z \in S, Earlier(x, y), Earlier(y, z)
        PROVE  Earlier(x, z)
    <2>1. /\ x.at \in Nat /\ y.at \in Nat /\ z.at \in Nat
          /\ x.id \in Ids /\ y.id \in Ids /\ z.id \in Ids
      BY DEF Orderable
    <2>2. <<x.id, y.id>> \in ByteOrder /\ <<y.id, z.id>> \in ByteOrder => <<x.id, z.id>> \in ByteOrder
      BY <2>1, SnapshotsAssumption
    <2> QED BY <1>3, <2>1, <2>2 DEF Earlier
  <1> QED BY <1>1, <1>2, <1>3

\* The later has more before it, and nobody has itself before it.
LEMMA RanksGrow ==
  ASSUME NEW S, Orderable(S)
  PROVE  /\ \A x \in S : Rank(x, S) \in 0..(Cardinality(S) - 1)
         /\ \A x, y \in S : Earlier(x, y) => Rank(x, S) < Rank(y, S)
         /\ \A x, y \in S : Rank(x, S) = Rank(y, S) => x = y
  <1> DEFINE Before(x) == {y \in S : Earlier(y, x)}
  <1>1. IsFiniteSet(S) /\ Cardinality(S) \in Nat
    BY FS_CardinalityType DEF Orderable
  <1>2. \A x \in S : Before(x) \in SUBSET S /\ x \notin Before(x)
    BY EarlierOrders
  <1>3. \A x \in S : Rank(x, S) = Cardinality(Before(x))
    BY DEF Rank
  <1> HIDE DEF Before
  <1>4. ASSUME NEW x \in S
        PROVE  IsFiniteSet(Before(x)) /\ Rank(x, S) \in 0..(Cardinality(S) - 1)
    <2>1. IsFiniteSet(Before(x)) /\ Cardinality(Before(x)) <= Cardinality(S)
          /\ (Cardinality(S) = Cardinality(Before(x)) => S = Before(x))
      BY <1>1, <1>2, FS_Subset
    <2>2. Cardinality(Before(x)) \in Nat
      BY <2>1, FS_CardinalityType
    <2> QED BY <1>1, <1>2, <1>3, <2>1, <2>2
  <1>5. ASSUME NEW x \in S, NEW y \in S, Earlier(x, y)
        PROVE  Rank(x, S) < Rank(y, S)
    <2>1. Before(x) \in SUBSET Before(y) /\ x \in Before(y)
      BY <1>5, EarlierOrders DEF Before
    <2>2. IsFiniteSet(Before(y))
      BY <1>4
    <2>3. Cardinality(Before(x)) <= Cardinality(Before(y))
          /\ (Cardinality(Before(y)) = Cardinality(Before(x)) => Before(y) = Before(x))
      BY <2>1, <2>2, FS_Subset
    <2>4. Rank(x, S) \in Int /\ Rank(y, S) \in Int
      BY <1>4
    <2> QED BY <1>2, <1>3, <2>1, <2>3, <2>4
  <1>6. ASSUME NEW x \in S, NEW y \in S, Rank(x, S) = Rank(y, S)
        PROVE  x = y
    <2>1. Rank(x, S) \in Int /\ Rank(y, S) \in Int
      BY <1>4
    <2> QED BY <1>5, <1>6, <2>1, EarlierOrders
  <1> QED BY <1>4, <1>5, <1>6

\* What is sorted is listed, each once and in order.
LEMMA SortedLists ==
  ASSUME NEW S, Orderable(S)
  PROVE  /\ Sorted(S) \in Seq(S) /\ Len(Sorted(S)) = Cardinality(S)
         /\ Listed(Sorted(S)) = S /\ Ascending(Sorted(S))
         /\ \A k \in 1..Cardinality(S) : Rank(Sorted(S)[k], S) = k - 1
  <1> DEFINE n == Cardinality(S)
             rank == [x \in S |-> Rank(x, S)]
             list == Sorted(S)
  <1>1. IsFiniteSet(S) /\ n \in Nat
    BY FS_CardinalityType DEF Orderable
  <1>2. /\ \A x \in S : Rank(x, S) \in 0..(n - 1)
        /\ \A x, y \in S : Rank(x, S) = Rank(y, S) => x = y
    BY RanksGrow
  <1>3. rank \in Injection(S, 0..(n - 1))
    BY <1>2 DEF Injection, IsInjective
  <1>4. IsFiniteSet(0..(n - 1)) /\ Cardinality(0..(n - 1)) = n
    BY <1>1, FS_Interval
  <1> HIDE DEF rank, n
  <1>5. rank \in Surjection(S, 0..(n - 1))
    BY <1>3, <1>4, FS_Injection DEF n
  <1>6. ASSUME NEW k \in 1..n
        PROVE  \E x \in S : Rank(x, S) = k - 1
    <2>1. k - 1 \in 0..(n - 1)
      BY <1>1
    <2> QED BY <1>5, <2>1 DEF Surjection, rank
  <1>7. list = [k \in 1..n |-> CHOOSE x \in S : Rank(x, S) = k - 1]
    BY DEF Sorted, n
  <1> HIDE DEF list
  <1>8. \A k \in 1..n : list[k] \in S /\ Rank(list[k], S) = k - 1
    BY <1>6, <1>7
  <1>9. list \in [1..n -> S]
    BY <1>7, <1>8
  <1>10. list \in Seq(S) /\ Len(list) = n /\ DOMAIN list = 1..n
    BY <1>1, <1>9, SeqDef, LenProperties
  <1>11. ASSUME NEW x \in S
         PROVE  \E k \in 1..n : list[k] = x
    <2>1. Rank(x, S) + 1 \in 1..n /\ Rank(x, S) \in Int
      BY <1>1, <1>2
    <2>2. Rank(list[Rank(x, S) + 1], S) = Rank(x, S) /\ list[Rank(x, S) + 1] \in S
      BY <1>8, <2>1
    <2> QED BY <1>2, <2>1, <2>2
  <1>12. Listed(list) = S
    BY <1>8, <1>10, <1>11 DEF Listed
  <1>13. ASSUME NEW i \in 1..n, NEW j \in 1..n, i < j
         PROVE  Earlier(list[i], list[j])
    <2>1. Rank(list[i], S) = i - 1 /\ Rank(list[j], S) = j - 1 /\ list[i] \in S /\ list[j] \in S
      BY <1>8
    <2>2. Rank(list[i], S) < Rank(list[j], S)
      BY <1>13, <2>1
    <2>3. ~Earlier(list[j], list[i]) /\ list[i] # list[j]
      BY <2>1, <2>2, RanksGrow
    <2> QED BY <2>1, <2>3, EarlierOrders
  <1>14. Ascending(list)
    BY <1>10, <1>13 DEF Ascending
  <1> QED BY <1>8, <1>10, <1>12, <1>14 DEF list, n

\* A list in order is what its elements sort to.
LEMMA AscendingIsSorted ==
  ASSUME NEW R, NEW list \in Seq(R), Orderable(Listed(list)), Ascending(list)
  PROVE  Sorted(Listed(list)) = list /\ Cardinality(Listed(list)) = Len(list)
  <1> DEFINE S == Listed(list)
             n == Len(list)
  <1>1. n \in Nat /\ DOMAIN list = 1..n /\ list \in [1..n -> R]
    BY LenProperties
  <1>2. S = {list[k] : k \in 1..n}
    BY <1>1 DEF Listed
  <1>3. \A i, j \in 1..n : list[i] = list[j] => i = j
    BY <1>1, <1>2, EarlierOrders DEF Ascending
  <1>4. ASSUME NEW k \in 0..n
        PROVE  Cardinality({list[i] : i \in 1..k}) = k
    <2> DEFINE T == {list[i] : i \in 1..k}
               f == [i \in 1..k |-> list[i]]
    <2>1. f \in Bijection(1..k, T)
      BY <1>1, <1>3 DEF Bijection, Injection, Surjection, IsInjective
    <2>2. IsFiniteSet(1..k) /\ Cardinality(1..k) = k
      BY <1>1, FS_Interval
    <2> HIDE DEF f, T
    <2>3. ExistsBijection(1..k, T)
      BY <2>1 DEF ExistsBijection
    <2> QED BY <2>2, <2>3, FS_Bijection DEF T
  <1>5. Cardinality(S) = n
    BY <1>1, <1>2, <1>4
  <1>6. ASSUME NEW k \in 1..n
        PROVE  list[k] \in S /\ Rank(list[k], S) = k - 1
    <2>1. list[k] \in S
      BY <1>2
    <2>2. k - 1 \in 0..n
      BY <1>1
    <2>3. {y \in S : Earlier(y, list[k])} = {list[i] : i \in 1..(k - 1)}
      <3>1. ASSUME NEW i \in 1..n
            PROVE  Earlier(list[i], list[k]) <=> i \in 1..(k - 1)
        <4>1. i < k => Earlier(list[i], list[k])
          BY <1>1 DEF Ascending
        <4>2. i > k => Earlier(list[k], list[i])
          BY <1>1 DEF Ascending
        <4>3. list[i] \in S /\ ~Earlier(list[k], list[k])
          BY <1>2, <2>1, EarlierOrders
        <4>4. Earlier(list[i], list[k]) /\ Earlier(list[k], list[i]) => Earlier(list[k], list[k])
          BY <2>1, <4>3, EarlierOrders
        <4> QED BY <1>1, <4>1, <4>2, <4>3, <4>4
      <3> QED BY <1>1, <1>2, <3>1
    <2>4. Cardinality({list[i] : i \in 1..(k - 1)}) = k - 1
      BY <1>4, <2>2
    <2> QED BY <2>1, <2>3, <2>4 DEF Rank
  <1> HIDE DEF S, n
  <1>7. \A x, y \in S : Rank(x, S) = Rank(y, S) => x = y
    BY RanksGrow DEF S
  <1>8. \A k \in 1..n : (CHOOSE x \in S : Rank(x, S) = k - 1) = list[k]
    BY <1>6, <1>7
  <1>9. Sorted(S) = [k \in 1..n |-> CHOOSE x \in S : Rank(x, S) = k - 1]
    BY <1>5 DEF Sorted
  <1>10. Sorted(S) = [k \in 1..n |-> list[k]]
    BY <1>8, <1>9
  <1> QED BY <1>1, <1>5, <1>10 DEF S, n

\* The positions of a list of n.
LEMMA Positions ==
  ASSUME NEW n \in Nat
  PROVE  IsFiniteSet(1..n) /\ Cardinality(1..n) = n
  BY FS_Interval

\* Ids that differ tell the elements of a list apart, which is all its order needs.
LEMMA NamedOnceIsOrderable ==
  ASSUME NEW R, NEW list \in Seq(R), NamedOnce(list),
         \A k \in DOMAIN list : list[k].at \in Nat /\ list[k].id \in Ids \cup {""}
  PROVE  Orderable(Listed(list)) /\ Cardinality(Listed(list)) = Len(list)
  <1>1. PICK n \in Nat : n = Len(list) /\ DOMAIN list = 1..n
    BY LenProperties
  <1>2. PICK S : S = Listed(list)
    OBVIOUS
  <1> DEFINE f == [k \in 1..n |-> list[k]]
  <1>3. \A j, k \in 1..n : list[j].id = list[k].id => j = k
    BY <1>1 DEF NamedOnce, KeysDiffer
  <1>4. \A k \in 1..n : list[k].id \in Ids /\ list[k].at \in Nat
    BY <1>1 DEF NamedOnce
  <1>5. f \in Bijection(1..n, S)
    BY <1>1, <1>2, <1>3 DEF Bijection, Injection, Surjection, IsInjective, Listed
  <1>6. IsFiniteSet(1..n) /\ Cardinality(1..n) = n
    BY Positions
  <1> HIDE DEF f
  <1>7. ExistsBijection(1..n, S)
    BY <1>5 DEF ExistsBijection
  <1>8. IsFiniteSet(S) /\ Cardinality(S) = n
    BY <1>6, <1>7, FS_Bijection
  <1>9. \A x \in S : \E k \in 1..n : x = list[k]
    BY <1>1, <1>2 DEF Listed
  <1>10. ASSUME NEW x \in S
         PROVE  x.at \in Nat /\ x.id \in Ids
    <2>1. PICK k \in 1..n : x = list[k]
      BY <1>9
    <2> QED BY <1>4, <2>1
  <1>11. ASSUME NEW x \in S, NEW y \in S, x.id = y.id
         PROVE  x = y
    <2>1. PICK k \in 1..n : x = list[k]
      BY <1>9
    <2>2. PICK j \in 1..n : y = list[j]
      BY <1>9
    <2>3. list[k].id = list[j].id
      BY <1>11, <2>1, <2>2
    <2>4. k = j
      BY <1>3, <2>3
    <2> QED BY <2>1, <2>2, <2>4
  <1> QED BY <1>1, <1>2, <1>8, <1>10, <1>11 DEF Orderable

\* And a list in order names each once.
LEMMA AscendingIsNamedOnce ==
  ASSUME NEW R, NEW list \in Seq(R), Orderable(Listed(list)), Ascending(list)
  PROVE  NamedOnce(list)
  <1>1. Len(list) \in Nat /\ DOMAIN list = 1..Len(list)
    BY LenProperties
  <1>2. \A n \in DOMAIN list : list[n] \in Listed(list) /\ list[n].id \in Ids
    BY DEF Listed, Orderable
  <1>3. ASSUME NEW m \in DOMAIN list, NEW n \in DOMAIN list, list[m].id = list[n].id
        PROVE  m = n
    <2>1. list[m] = list[n]
      BY <1>2, <1>3 DEF Orderable
    <2>2. ~Earlier(list[m], list[n]) /\ ~Earlier(list[n], list[m])
      BY <1>2, <2>1, EarlierOrders
    <2> QED BY <1>1, <2>2 DEF Ascending
  <1>4. \A n \in DOMAIN list : list[n].id # ""
    BY <1>2, KeysAssumption
  <1>5. KeysDiffer([n \in DOMAIN list |-> list[n].id])
    BY <1>3 DEF KeysDiffer
  <1> QED BY <1>4, <1>5 DEF NamedOnce

\* An alert is cut once.
LEMMA AlertCutOnce ==
  ASSUME NEW a \in AlertSnapshots
  PROVE  /\ CanonicalAlert(a) \in AlertSnapshots
         /\ CanonicalAlert(a).id = a.id /\ CanonicalAlert(a).at = a.at
         /\ CanonicalAlert(a).status = a.status
         /\ CanonicalAlert(CanonicalAlert(a)) = CanonicalAlert(a)
  <1> DEFINE b == CanonicalAlert(a)
             d == CutOpt(a.description, AlertDescriptionLimit)
             m == Cut(a.name, AlertNameLimit)
  <1>1. a.description \in OptionalCutTexts /\ a.name \in CutTexts
    BY DEF AlertSnapshots
  <1>2. AlertDescriptionLimit \in Nat /\ AlertNameLimit \in Nat
    BY DEF AlertDescriptionLimit, AlertNameLimit
  <1>3. /\ d \in OptionalCutTexts /\ CutOpt(d, AlertDescriptionLimit) = d
        /\ m \in CutTexts /\ Cut(m, AlertNameLimit) = m
    BY <1>1, <1>2, CutOnce, CutOptOnce
  <1> HIDE DEF d, m
  <1>4. b = [id |-> a.id, status |-> a.status, at |-> a.at, name |-> m, severity |-> a.severity,
             slackUser |-> a.slackUser, dashboard |-> a.dashboard, runbook |-> a.runbook,
             description |-> d]
    <2>1. a = [id |-> a.id, status |-> a.status, at |-> a.at, name |-> a.name, severity |-> a.severity,
               slackUser |-> a.slackUser, dashboard |-> a.dashboard, runbook |-> a.runbook,
               description |-> a.description]
      BY DEF AlertSnapshots
    <2>2. DescriptionCut(a) = [a EXCEPT !.description = d]
      BY DEF DescriptionCut, d
    <2>3. DescriptionCut(a) =
            [id |-> a.id, status |-> a.status, at |-> a.at, name |-> a.name, severity |-> a.severity,
             slackUser |-> a.slackUser, dashboard |-> a.dashboard, runbook |-> a.runbook,
             description |-> d]
      BY <2>1, <2>2
    <2>4. b = [DescriptionCut(a) EXCEPT !.name = m]
      BY <2>3 DEF CanonicalAlert, m
    <2> QED BY <2>3, <2>4
  <1> HIDE DEF b
  <1>5. b \in AlertSnapshots /\ b.id = a.id /\ b.at = a.at /\ b.status = a.status
        /\ b.description = d /\ b.name = m
    <2>1. b.id = a.id /\ b.at = a.at /\ b.status = a.status /\ b.description = d /\ b.name = m
      BY <1>4
    <2>2. /\ a.id \in Ids \cup {""} /\ a.status \in AlertStatuses \cup Texts /\ a.at \in Nat /\ a.severity \in Texts \cup {""}
          /\ a.slackUser \in Optional /\ a.dashboard \in Optional /\ a.runbook \in Optional
      BY DEF AlertSnapshots
    <2>3. b \in AlertSnapshots
      BY <1>3, <1>4, <2>2 DEF AlertSnapshots
    <2> QED BY <2>1, <2>3
  <1>6. DescriptionCut(b) = b
    BY <1>3, <1>5 DEF AlertSnapshots, DescriptionCut
  <1>7. CanonicalAlert(b) = b
    BY <1>3, <1>5, <1>6 DEF AlertSnapshots, CanonicalAlert
  <1> QED BY <1>5, <1>7 DEF b

\* A list of alerts that fit, each cut or not and all of them sorted, fits.
LEMMA AlertsResorted ==
  ASSUME NEW list \in Seq(AlertSnapshots), AlertsFit(list), NEW cut \in Seq(AlertSnapshots),
         DOMAIN cut = DOMAIN list,
         \A n \in DOMAIN cut : /\ cut[n].id = list[n].id /\ cut[n].status = list[n].status
                              /\ cut[n].at = list[n].at,
         NEW C, C = Sorted(Listed(cut))
  PROVE  /\ C \in Seq(AlertSnapshots) /\ AlertsFit(C)
         /\ Listed(C) = Listed(cut) /\ Ascending(C)
  <1>1. /\ DOMAIN list = 1..Len(list) /\ \A n \in DOMAIN list : list[n] \in AlertSnapshots
        /\ DOMAIN cut = 1..Len(cut) /\ \A n \in DOMAIN cut : cut[n] \in AlertSnapshots
    BY LenProperties
  <1>2. \A n \in DOMAIN cut : cut[n].at \in Nat /\ cut[n].id \in Ids \cup {""}
    BY <1>1 DEF AlertSnapshots
  <1>3. NamedOnce(cut)
    <2>1. /\ \A n \in DOMAIN list : list[n].id # ""
          /\ KeysDiffer([n \in DOMAIN list |-> list[n].id])
      BY DEF AlertsFit, NamedOnce
    <2>2. [n \in DOMAIN list |-> list[n].id] = [n \in DOMAIN cut |-> cut[n].id]
      OBVIOUS
    <2>3. \A n \in DOMAIN cut : cut[n].id # ""
      BY <2>1
    <2> QED BY <2>1, <2>2, <2>3 DEF NamedOnce
  <1>4. PICK S : S = Listed(cut)
    OBVIOUS
  <1>5. Orderable(S)
    BY <1>2, <1>3, <1>4, NamedOnceIsOrderable
  <1>6. \A x \in S : x \in AlertSnapshots /\ x.status \in AlertStatuses /\ x.at # NoTime
    <2>1. \A n \in DOMAIN list : list[n].status \in AlertStatuses /\ list[n].at # NoTime
      BY DEF AlertsFit, Listed
    <2> QED BY <1>1, <1>4, <2>1 DEF Listed
  <1>7. C \in Seq(S) /\ Listed(C) = S /\ Ascending(C)
    BY <1>4, <1>5, SortedLists
  <1>8. C \in Seq(AlertSnapshots)
    <2>1. PICK n \in Nat : C \in [1..n -> S]
      BY <1>7, SeqDef
    <2>2. C \in [1..n -> AlertSnapshots]
      BY <1>6, <2>1
    <2> QED BY <2>2, SeqDef
  <1>9. NamedOnce(C)
    BY <1>5, <1>7, AscendingIsNamedOnce
  <1>10. AlertsFit(C)
    BY <1>6, <1>7, <1>9 DEF AlertsFit
  <1> QED BY <1>4, <1>7, <1>8, <1>10

\* The canonical list of alerts is one, and is its own.
LEMMA AlertsAreCanonicalOnce ==
  ASSUME NEW list \in Seq(AlertSnapshots), AlertsFit(list)
  PROVE  /\ CanonicalAlerts(list) \in Seq(AlertSnapshots) /\ AlertsFit(CanonicalAlerts(list))
         /\ CanonicalAlerts(CanonicalAlerts(list)) = CanonicalAlerts(list)
         /\ Listed(CanonicalAlerts(list)) = {CanonicalAlert(a) : a \in Listed(list)}
         /\ Ascending(CanonicalAlerts(list))
  <1> DEFINE cut == [n \in 1..Len(list) |-> CanonicalAlert(list[n])]
             S == {CanonicalAlert(a) : a \in Listed(list)}
             C == CanonicalAlerts(list)
  <1>1. Len(list) \in Nat /\ DOMAIN list = 1..Len(list) /\ \A n \in 1..Len(list) : list[n] \in AlertSnapshots
    BY LenProperties
  <1>2. \A n \in 1..Len(list) : /\ CanonicalAlert(list[n]) \in AlertSnapshots
                                /\ CanonicalAlert(list[n]).id = list[n].id
                                /\ CanonicalAlert(list[n]).status = list[n].status
                                /\ CanonicalAlert(list[n]).at = list[n].at
                                /\ CanonicalAlert(CanonicalAlert(list[n])) = CanonicalAlert(list[n])
    BY <1>1, AlertCutOnce
  <1>3. cut \in [1..Len(list) -> AlertSnapshots]
    BY <1>2
  <1>4. cut \in Seq(AlertSnapshots) /\ DOMAIN cut = DOMAIN list
    BY <1>1, <1>3, SeqDef
  <1>5. Listed(cut) = S
    BY <1>1, <1>4 DEF Listed
  <1>6. \A n \in DOMAIN cut : /\ cut[n].id = list[n].id /\ cut[n].status = list[n].status
                              /\ cut[n].at = list[n].at
    BY <1>1, <1>2
  <1> HIDE DEF cut
  <1>7. C = Sorted(Listed(cut))
    BY <1>5 DEF CanonicalAlerts
  <1> HIDE DEF C
  <1>8. C \in Seq(AlertSnapshots) /\ AlertsFit(C) /\ Listed(C) = Listed(cut) /\ Ascending(C)
    BY <1>4, <1>6, <1>7, AlertsResorted
  <1>9. \A x \in S : CanonicalAlert(x) = x
    BY <1>1, <1>2 DEF Listed
  <1>10. {CanonicalAlert(a) : a \in S} = S
    <2> HIDE DEF S
    <2> QED BY <1>9
  <1>11. CanonicalAlerts(C) = C
    BY <1>5, <1>7, <1>8, <1>10 DEF CanonicalAlerts
  <1> QED BY <1>5, <1>8, <1>11 DEF C

\* A line is cut once, and a cut never makes its actor nobody.
LEMMA LineCutOnce ==
  ASSUME NEW line \in TimelineLines
  PROVE  /\ CanonicalLine(line) \in TimelineLines
         /\ CanonicalLine(line).id = line.id /\ CanonicalLine(line).at = line.at
         /\ CanonicalLine(line).type = line.type
         /\ CanonicalLine(CanonicalLine(line)) = CanonicalLine(line)
  <1> DEFINE b == CanonicalLine(line)
             m == Cut(line.message, TimelineMessageLimit)
             who == ActorNamed(line.actor)
             c == CutOpt(who, ActorLimit)
  <1>1. line.message \in CutTexts /\ line.actor \in OptionalCutTexts
    BY DEF TimelineLines
  <1>2. TimelineMessageLimit \in Nat /\ ActorLimit \in Nat /\ ActorLimit = 100
    BY DEF TimelineMessageLimit, ActorLimit
  <1>3. m \in CutTexts /\ Cut(m, TimelineMessageLimit) = m
    BY <1>1, <1>2, CutOnce
  <1>4. who \in OptionalCutTexts
    BY <1>1 DEF ActorNamed, OptionalCutTexts
  <1>5. c \in OptionalCutTexts /\ CutOpt(c, ActorLimit) = c
    BY <1>2, <1>4, CutOptOnce
  <1>6. ActorNamed(c) = c
    <2>1. CASE who = NULL
      BY <2>1 DEF ActorNamed, CutOpt
    <2>2. CASE who # NULL
      <3>1. who = line.actor /\ who \notin {<<>>, SystemActor}
        BY <2>2 DEF ActorNamed
      <3>2. who \in CutTexts
        BY <2>2, <3>1, <1>1 DEF OptionalCutTexts
      <3>3. c = Cut(who, ActorLimit)
        BY <2>2 DEF CutOpt
      <3>4. c = who \/ Len(c) = 103
        <4>1. Cut(who, ActorLimit) = who \/ Len(Cut(who, ActorLimit)) = ActorLimit + 3
          BY <1>2, <3>2, CutOnce
        <4> HIDE DEF c, who
        <4> QED BY <1>2, <3>3, <4>1
      <3>5. Len(<<>>) = 0 /\ Len(SystemActor) = 6
        BY DEF SystemActor
      <3> HIDE DEF c, who
      <3>6. c # <<>> /\ c # SystemActor
        <4>1. CASE c = who
          BY <3>1, <4>1
        <4>2. CASE Len(c) = 103
          <5>1. c = <<>> => Len(c) = Len(<<>>)
            BY Zenon
          <5>2. c = SystemActor => Len(c) = Len(SystemActor)
            BY Zenon
          <5> QED BY <3>5, <4>2, <5>1, <5>2
        <4> QED BY <3>4, <4>1, <4>2
      <3> QED BY <3>6 DEF ActorNamed
    <2> QED BY <2>1, <2>2
  <1> HIDE DEF m, c, who
  <1>7. b = [id |-> line.id, type |-> line.type, message |-> m, actor |-> c, at |-> line.at]
    <2>1. line = [id |-> line.id, type |-> line.type, message |-> line.message, actor |-> line.actor,
                  at |-> line.at]
      BY DEF TimelineLines
    <2>2. b = [line EXCEPT !.message = m, !.actor = c]
      BY DEF CanonicalLine, m, c, who
    <2> HIDE DEF b
    <2> QED BY <2>1, <2>2
  <1> HIDE DEF b
  <1>8. b \in TimelineLines /\ b.id = line.id /\ b.at = line.at /\ b.type = line.type
        /\ b.message = m /\ b.actor = c
    <2>1. line.id \in Ids \cup {""} /\ line.type \in TimelineEventTypes \cup Texts /\ line.at \in Nat
      BY DEF TimelineLines
    <2>2. b \in TimelineLines
      BY <1>3, <1>5, <1>7, <2>1 DEF TimelineLines
    <2> QED BY <1>7, <2>2
  <1>9. CanonicalLine(b) = b
    BY <1>3, <1>5, <1>6, <1>8 DEF TimelineLines, CanonicalLine
  <1> QED BY <1>8, <1>9 DEF b

\* What is kept of a sorted list: its end, in its order, and later than the rest.
KeptOf(tail, S, d) ==
  /\ tail \in Seq(S) /\ Len(tail) = Cardinality(S) - d
  /\ Listed(tail) \subseteq S /\ Orderable(Listed(tail))
  /\ Ascending(tail) /\ NamedOnce(tail) /\ Sorted(Listed(tail)) = tail
  /\ \A x \in Listed(tail), y \in S \ Listed(tail) : Earlier(y, x)

\* All but the first d of a sorted list are that.
LEMMA EndOfSorted ==
  ASSUME NEW S, Orderable(S), NEW d \in Nat, d <= Cardinality(S),
         NEW tail, tail = SubSeq(Sorted(S), d + 1, Cardinality(S))
  PROVE  KeptOf(tail, S, d)
  <1>1. PICK n \in Nat : n = Cardinality(S) /\ IsFiniteSet(S)
    BY FS_CardinalityType DEF Orderable
  <1>2. PICK list : list = Sorted(S)
    OBVIOUS
  <1>3. /\ list \in Seq(S) /\ Len(list) = n /\ Listed(list) = S /\ Ascending(list)
    BY <1>1, <1>2, SortedLists
  <1>4. DOMAIN list = 1..n /\ \A k \in 1..n : list[k] \in S
    BY <1>3, LenProperties
  <1>5. tail \in Seq(S) /\ Len(tail) = n - d /\ \A k \in 1..(n - d) : tail[k] = list[d + k]
    <2>1. \A k \in (d + 1)..n : list[k] \in S
      BY <1>4
    <2>2. /\ SubSeq(list, d + 1, n) \in Seq(S)
          /\ Len(SubSeq(list, d + 1, n)) = IF d + 1 <= n THEN n - (d + 1) + 1 ELSE 0
          /\ \A k \in 1..(n - (d + 1) + 1) : SubSeq(list, d + 1, n)[k] = list[(d + 1) + k - 1]
      BY <2>1, SubSeqProperties
    <2>3. tail = SubSeq(list, d + 1, n)
      BY <1>1, <1>2
    <2>4. /\ tail \in Seq(S)
          /\ Len(tail) = IF d + 1 <= n THEN n - (d + 1) + 1 ELSE 0
          /\ \A k \in 1..(n - (d + 1) + 1) : tail[k] = list[(d + 1) + k - 1]
      BY <2>2, <2>3, Zenon
    <2> QED BY <1>1, <2>4
  <1>6. DOMAIN tail = 1..(n - d)
    BY <1>5, LenProperties
  <1>a. \A k \in 1..(n - d) : d + k \in 1..n
    OBVIOUS
  <1>7. Listed(tail) \subseteq S
    <2>1. \A k \in 1..(n - d) : tail[k] \in S
      BY <1>4, <1>5, <1>a
    <2> QED BY <1>6, <2>1 DEF Listed
  <1>8. Orderable(Listed(tail))
    <2>1. IsFiniteSet(Listed(tail))
      BY <1>1, <1>7, FS_Subset
    <2> QED BY <1>7, <2>1 DEF Orderable
  <1>9. Ascending(tail)
    <2>1. ASSUME NEW i \in 1..(n - d), NEW j \in 1..(n - d), i < j
          PROVE  Earlier(tail[i], tail[j])
      <3>1. d + i \in 1..n /\ d + j \in 1..n /\ d + i < d + j
        BY <2>1, <1>a
      <3>2. Earlier(list[d + i], list[d + j])
        BY <1>3, <1>4, <3>1 DEF Ascending
      <3> QED BY <1>5, <3>2
    <2> QED BY <1>6, <2>1 DEF Ascending
  <1>10. NamedOnce(tail) /\ Sorted(Listed(tail)) = tail
    BY <1>5, <1>8, <1>9, AscendingIsNamedOnce, AscendingIsSorted
  <1>11. ASSUME NEW x \in Listed(tail), NEW y \in S \ Listed(tail)
         PROVE  Earlier(y, x)
    <2>1. PICK k \in 1..(n - d) : x = list[d + k]
      BY <1>5, <1>6 DEF Listed
    <2>2. PICK j \in 1..n : y = list[j]
      BY <1>3, <1>4 DEF Listed
    <2>3. j <= d
      <3>1. ASSUME j > d
            PROVE  FALSE
        <4>1. j - d \in 1..(n - d) /\ d + (j - d) = j
          BY <3>1
        <4>2. tail[j - d] = y
          BY <1>5, <2>2, <4>1
        <4> QED BY <1>6, <4>1, <4>2, <1>11 DEF Listed
      <3> QED BY <3>1
    <2>4. d + k \in 1..n /\ j < d + k
      BY <2>3
    <2> QED BY <1>3, <1>4, <2>1, <2>2, <2>4 DEF Ascending
  <1> QED BY <1>1, <1>5, <1>7, <1>8, <1>9, <1>10, <1>11 DEF KeptOf

\* What the last lines of a history are: a list within the limit loses none.
LEMMA LinesDroppedBounds ==
  ASSUME NEW R, NEW list \in Seq(R)
  PROVE  /\ LinesDropped(list) \in Nat /\ LinesDropped(list) <= Len(list)
         /\ Len(list) - LinesDropped(list) <= TimelineLength
         /\ Len(list) <= TimelineLength => LinesDropped(list) = 0
  <1>1. Len(list) \in Nat
    BY LenProperties
  <1> QED BY <1>1 DEF LinesDropped, TimelineLength

\* The canonical history is one, and is its own.  No line goes without being counted, and
\* none is kept before one that went.
LEMMA TimelineIsCanonicalOnce ==
  ASSUME NEW list \in Seq(TimelineLines), NEW omitted \in Int, TimelineFits(list, omitted)
  PROVE  /\ CanonicalTimeline(list) \in Seq(TimelineLines)
         /\ TimelineFits(CanonicalTimeline(list), omitted + LinesDropped(list))
         /\ CanonicalTimeline(CanonicalTimeline(list)) = CanonicalTimeline(list)
         /\ LinesDropped(CanonicalTimeline(list)) = 0
         /\ Len(CanonicalTimeline(list)) <= TimelineLength
         /\ Len(CanonicalTimeline(list)) + LinesDropped(list) = Len(list)
         /\ \A x \in Listed(CanonicalTimeline(list)),
              y \in {CanonicalLine(line) : line \in Listed(list)} \ Listed(CanonicalTimeline(list)) :
              Earlier(y, x)
  <1> DEFINE cut == [n \in 1..Len(list) |-> CanonicalLine(list[n])]
  <1>1. Len(list) \in Nat /\ DOMAIN list = 1..Len(list) /\ \A n \in 1..Len(list) : list[n] \in TimelineLines
    BY LenProperties
  <1>2. \A n \in 1..Len(list) : /\ CanonicalLine(list[n]) \in TimelineLines
                                /\ CanonicalLine(list[n]).id = list[n].id
                                /\ CanonicalLine(list[n]).type = list[n].type
                                /\ CanonicalLine(list[n]).at = list[n].at
                                /\ CanonicalLine(CanonicalLine(list[n])) = CanonicalLine(list[n])
    BY <1>1, LineCutOnce
  <1>3. cut \in [1..Len(list) -> TimelineLines]
    BY <1>2
  <1>4. cut \in Seq(TimelineLines) /\ Len(cut) = Len(list) /\ DOMAIN cut = 1..Len(list)
    BY <1>1, <1>3, SeqDef, LenProperties
  <1>5. PICK S : S = {CanonicalLine(line) : line \in Listed(list)}
    OBVIOUS
  <1>6. Listed(cut) = S
    BY <1>1, <1>4, <1>5 DEF Listed
  <1>7. \A n \in DOMAIN cut : cut[n].id = list[n].id /\ cut[n].at \in Nat /\ cut[n].id \in Ids \cup {""}
    BY <1>1, <1>2, <1>4 DEF TimelineLines
  <1>8. NamedOnce(cut)
    <2>1. /\ \A n \in DOMAIN list : list[n].id # ""
          /\ KeysDiffer([n \in DOMAIN list |-> list[n].id])
      BY DEF TimelineFits, NamedOnce
    <2>2. DOMAIN cut = DOMAIN list
      BY <1>1, <1>4
    <2>3. [n \in DOMAIN list |-> list[n].id] = [n \in DOMAIN cut |-> cut[n].id]
      BY <1>7, <2>2
    <2>4. \A n \in DOMAIN cut : cut[n].id # ""
      BY <1>7, <2>1, <2>2
    <2> HIDE DEF cut
    <2> QED BY <2>1, <2>3, <2>4 DEF NamedOnce
  <1> HIDE DEF cut
  <1>9. Orderable(S) /\ Cardinality(S) = Len(list)
    BY <1>4, <1>6, <1>7, <1>8, NamedOnceIsOrderable
  <1>10. \A x \in S : x \in TimelineLines /\ x.type \in TimelineEventTypes /\ x.at # NoTime /\ CanonicalLine(x) = x
    BY <1>1, <1>2, <1>5 DEF TimelineFits, Listed
  <1>11. PICK d : d = LinesDropped(list)
    OBVIOUS
  <1>12. /\ d \in Nat /\ d <= Cardinality(S) /\ Len(list) - d <= TimelineLength
    BY <1>9, <1>11, LinesDroppedBounds
  <1>13. PICK C : C = CanonicalTimeline(list)
    OBVIOUS
  <1>14. C = SubSeq(Sorted(S), d + 1, Cardinality(S))
    BY <1>5, <1>9, <1>11, <1>13 DEF CanonicalTimeline
  <1>15. /\ C \in Seq(S) /\ Len(C) = Cardinality(S) - d
         /\ Listed(C) \subseteq S /\ Orderable(Listed(C))
         /\ Ascending(C) /\ NamedOnce(C) /\ Sorted(Listed(C)) = C
         /\ \A x \in Listed(C), y \in S \ Listed(C) : Earlier(y, x)
    <2>1. Orderable(S) /\ d \in Nat /\ d <= Cardinality(S) /\ C = SubSeq(Sorted(S), d + 1, Cardinality(S))
      BY <1>9, <1>12, <1>14
    <2>2. KeptOf(C, S, d)
      BY <2>1, EndOfSorted
    <2> QED BY <2>2 DEF KeptOf
  <1>16. C \in Seq(TimelineLines)
    <2>1. PICK n \in Nat : C \in [1..n -> S]
      BY <1>15, SeqDef
    <2>2. C \in [1..n -> TimelineLines]
      BY <1>10, <2>1
    <2> QED BY <2>2, SeqDef
  <1>17. TimelineFits(C, omitted + d)
    <2>1. omitted + d >= 0
      BY <1>12 DEF TimelineFits
    <2> QED BY <1>10, <1>15, <2>1 DEF TimelineFits
  <1>18. Len(C) \in Nat /\ Len(C) + d = Len(list) /\ Len(C) <= TimelineLength
    BY <1>1, <1>9, <1>12, <1>15
  <1>19. LinesDropped(C) = 0
    BY <1>16, <1>18, LinesDroppedBounds
  <1>20. {CanonicalLine(line) : line \in Listed(C)} = Listed(C)
    BY <1>10, <1>15
  <1>21. CanonicalTimeline(C) = SubSeq(C, 1, Len(C))
    <2>1. CanonicalTimeline(C) = SubSeq(Sorted(Listed(C)), LinesDropped(C) + 1, Len(C))
      BY <1>20 DEF CanonicalTimeline
    <2> QED BY <1>15, <1>19, <2>1
  <1>22. SubSeq(C, 1, Len(C)) = C
    <2>1. DOMAIN C = 1..Len(C) /\ \A k \in 1..Len(C) : C[k] \in S
      BY <1>15, LenProperties
    <2>2. /\ SubSeq(C, 1, Len(C)) \in Seq(S)
          /\ Len(SubSeq(C, 1, Len(C))) = IF 1 <= Len(C) THEN Len(C) - 1 + 1 ELSE 0
          /\ \A k \in 1..(Len(C) - 1 + 1) : SubSeq(C, 1, Len(C))[k] = C[1 + k - 1]
      BY <1>18, <2>1, SubSeqProperties
    <2>3. PICK same : same = SubSeq(C, 1, Len(C))
      OBVIOUS
    <2>4. /\ same \in Seq(S)
          /\ Len(same) = IF 1 <= Len(C) THEN Len(C) - 1 + 1 ELSE 0
          /\ \A k \in 1..(Len(C) - 1 + 1) : same[k] = C[1 + k - 1]
      BY <2>2, <2>3, Zenon
    <2>5. Len(same) = Len(C) /\ \A k \in 1..Len(C) : same[k] = C[k]
      BY <1>18, <2>4
    <2> QED BY <1>15, <2>3, <2>4, <2>5, SeqEqual
  <1> QED BY <1>5, <1>11, <1>13, <1>15, <1>16, <1>17, <1>18, <1>19, <1>21, <1>22

\* Two lists of one are a list of two.
LEMMA OneThenOne ==
  ASSUME NEW x, NEW y
  PROVE  <<x>> \o <<y>> = <<x, y>>
  <1>1. <<x>> \in Seq({x, y}) /\ <<y>> \in Seq({x, y}) /\ <<x, y>> \in Seq({x, y})
        /\ Len(<<x>>) = 1 /\ Len(<<y>>) = 1 /\ Len(<<x, y>>) = 2
    OBVIOUS
  <1>2. PICK p, q, both : p = <<x>> /\ q = <<y>> /\ both = p \o q
    OBVIOUS
  <1>3. p \in Seq({x, y}) /\ q \in Seq({x, y}) /\ Len(p) = 1 /\ Len(q) = 1 /\ p[1] = x /\ q[1] = y
    BY <1>1, <1>2
  <1>4. /\ both \in Seq({x, y}) /\ Len(both) = Len(p) + Len(q)
        /\ \A k \in 1..(Len(p) + Len(q)) : both[k] = IF k <= Len(p) THEN p[k] ELSE q[k - Len(p)]
    BY <1>2, <1>3, ConcatProperties
  <1>5. Len(both) = 2 /\ both[1] = x /\ both[2] = y
    BY <1>3, <1>4
  <1>6. both = <<x, y>>
    <2>1. PICK pair : pair = <<x, y>>
      OBVIOUS
    <2>2. pair \in Seq({x, y}) /\ Len(pair) = 2 /\ pair[1] = x /\ pair[2] = y
      BY <1>1, <2>1
    <2>3. \A k \in 1..2 : k = 1 \/ k = 2
      OBVIOUS
    <2>4. Len(both) = Len(pair) /\ \A k \in 1..Len(both) : both[k] = pair[k]
      BY <1>5, <2>2, <2>3
    <2> QED BY <1>4, <2>1, <2>2, <2>4, SeqEqual
  <1> QED BY <1>2, <1>6

\* The buttons are listed once, in one order.
LEMMA ProvidersAreCanonicalOnce ==
  ASSUME NEW list
  PROVE  /\ CanonicalProviders(list) \in Seq(InteractiveProviders)
         /\ Listed(CanonicalProviders(list)) \subseteq InteractiveProviders
         /\ Listed(CanonicalProviders(list)) = Listed(list) \cap InteractiveProviders
         /\ CanonicalProviders(CanonicalProviders(list)) = CanonicalProviders(list)
  <1> DEFINE S == Listed(list)
             C == CanonicalProviders(list)
  <1>1. <<>> \o <<>> = <<>> /\ <<"slack">> \o <<>> = <<"slack">> /\ <<>> \o <<"telegram">> = <<"telegram">>
        /\ <<"slack">> \o <<"telegram">> = <<"slack", "telegram">>
    <2>1. <<"slack">> \in Seq(InteractiveProviders) /\ <<"telegram">> \in Seq(InteractiveProviders)
          /\ <<>> \in Seq(InteractiveProviders)
      BY DEF InteractiveProviders
    <2>2. <<>> \o <<>> = <<>> /\ <<"slack">> \o <<>> = <<"slack">> /\ <<>> \o <<"telegram">> = <<"telegram">>
      BY <2>1, ConcatEmptySeq, Zenon
    <2>3. <<"slack">> \o <<"telegram">> = <<"slack", "telegram">>
      <3>1. PICK x, y : x = "slack" /\ y = "telegram"
        OBVIOUS
      <3>2. <<x>> \o <<y>> = <<x, y>>
        BY OneThenOne
      <3> QED BY <3>1, <3>2, Zenon
    <2> QED BY <2>2, <2>3, Zenon
  <1>2. /\ "slack" \notin S /\ "telegram" \notin S => C = <<>>
        /\ "slack" \in S /\ "telegram" \notin S => C = <<"slack">>
        /\ "slack" \notin S /\ "telegram" \in S => C = <<"telegram">>
        /\ "slack" \in S /\ "telegram" \in S => C = <<"slack", "telegram">>
    BY <1>1 DEF CanonicalProviders
  <1>3. /\ Listed(<<>>) = {} /\ Listed(<<"slack">>) = {"slack"} /\ Listed(<<"telegram">>) = {"telegram"}
        /\ Listed(<<"slack", "telegram">>) = {"slack", "telegram"}
    BY DEF Listed
  <1> HIDE DEF C, S
  <1>4. Listed(C) = S \cap InteractiveProviders
    BY <1>2, <1>3 DEF InteractiveProviders
  <1>5. C \in Seq(InteractiveProviders)
    <2>1. C \in {<<>>, <<"slack">>, <<"telegram">>, <<"slack", "telegram">>}
      BY <1>2, Zenon
    <2>2. <<"slack">> \in Seq(InteractiveProviders) /\ <<"telegram">> \in Seq(InteractiveProviders) /\ <<>> \in Seq(InteractiveProviders)
          /\ <<"slack", "telegram">> \in Seq(InteractiveProviders)
      BY DEF InteractiveProviders
    <2> QED BY <2>1, <2>2, Zenon
  <1>6. /\ CanonicalProviders(C) =
            (IF "slack" \in Listed(C) THEN <<"slack">> ELSE <<>>)
              \o (IF "telegram" \in Listed(C) THEN <<"telegram">> ELSE <<>>)
        /\ C = (IF "slack" \in S THEN <<"slack">> ELSE <<>>)
              \o (IF "telegram" \in S THEN <<"telegram">> ELSE <<>>)
    BY DEF CanonicalProviders, C, S
  <1>7. /\ "slack" \in Listed(C) <=> "slack" \in S
        /\ "telegram" \in Listed(C) <=> "telegram" \in S
    BY <1>4 DEF InteractiveProviders
  <1>8. CanonicalProviders(C) = C
    BY <1>6, <1>7, Zenon
  <1> QED BY <1>4, <1>5, <1>8 DEF C, S

\* A snapshot is its fields.
LEMMA SnapshotsAreTheirFields ==
  ASSUME NEW s \in SnapshotInputs, NEW t \in SnapshotInputs,
         /\ s.group = t.group /\ s.revision = t.revision /\ s.status = t.status
         /\ s.title = t.title /\ s.severity = t.severity /\ s.team = t.team
         /\ s.onboarded = t.onboarded /\ s.groupURL = t.groupURL
         /\ s.externalURL = t.externalURL /\ s.zone = t.zone
         /\ s.acknowledgedBy = t.acknowledgedBy /\ s.resolvedBy = t.resolvedBy
         /\ s.alerts = t.alerts /\ s.setupURL = t.setupURL /\ s.timeline = t.timeline
         /\ s.omitted = t.omitted /\ s.providers = t.providers
  PROVE  s = t
  <1>1. s = [group |-> s.group, revision |-> s.revision, status |-> s.status,
     title |-> s.title, severity |-> s.severity, team |-> s.team,
     onboarded |-> s.onboarded, groupURL |-> s.groupURL,
     externalURL |-> s.externalURL, zone |-> s.zone,
     acknowledgedBy |-> s.acknowledgedBy, resolvedBy |-> s.resolvedBy,
     alerts |-> s.alerts, setupURL |-> s.setupURL, timeline |-> s.timeline,
     omitted |-> s.omitted, providers |-> s.providers]
    BY DEF SnapshotInputs
  <1>2. t = [group |-> t.group, revision |-> t.revision, status |-> t.status,
     title |-> t.title, severity |-> t.severity, team |-> t.team,
     onboarded |-> t.onboarded, groupURL |-> t.groupURL,
     externalURL |-> t.externalURL, zone |-> t.zone,
     acknowledgedBy |-> t.acknowledgedBy, resolvedBy |-> t.resolvedBy,
     alerts |-> t.alerts, setupURL |-> t.setupURL, timeline |-> t.timeline,
     omitted |-> t.omitted, providers |-> t.providers]
    BY DEF SnapshotInputs
  <1> QED BY <1>1, <1>2

\* What canonicalising settles, and what it leaves alone.
LEMMA CanonicalHas ==
  ASSUME NEW in \in SnapshotInputs
  PROVE  Canonical(in) =
           [group |-> in.group, revision |-> in.revision, status |-> in.status,
            title |-> Cut(in.title, TitleLimit), severity |-> in.severity,
            team |-> in.team, onboarded |-> in.onboarded, groupURL |-> in.groupURL,
            externalURL |-> in.externalURL, zone |-> in.zone,
            acknowledgedBy |-> CutOpt(in.acknowledgedBy, ActorLimit),
            resolvedBy |-> CutOpt(in.resolvedBy, ActorLimit),
            alerts |-> CanonicalAlerts(in.alerts), setupURL |-> in.setupURL,
            timeline |-> CanonicalTimeline(in.timeline),
            omitted |-> in.omitted + LinesDropped(in.timeline),
            providers |-> CanonicalProviders(in.providers)]
  <1>1. PICK t, a, r, l, h, o, b :
          /\ t = Cut(in.title, TitleLimit)
          /\ a = CutOpt(in.acknowledgedBy, ActorLimit) /\ r = CutOpt(in.resolvedBy, ActorLimit)
          /\ l = CanonicalAlerts(in.alerts)
          /\ h = CanonicalTimeline(in.timeline) /\ o = in.omitted + LinesDropped(in.timeline)
          /\ b = CanonicalProviders(in.providers)
    OBVIOUS
  <1>2. Canonical(in) = [in EXCEPT !.title = t, !.acknowledgedBy = a, !.resolvedBy = r, !.alerts = l,
                                   !.timeline = h, !.omitted = o, !.providers = b]
    BY <1>1, Zenon DEF Canonical
  <1>3. in = [group |-> in.group, revision |-> in.revision, status |-> in.status,
      title |-> in.title, severity |-> in.severity, team |-> in.team,
      onboarded |-> in.onboarded, groupURL |-> in.groupURL,
      externalURL |-> in.externalURL, zone |-> in.zone,
      acknowledgedBy |-> in.acknowledgedBy, resolvedBy |-> in.resolvedBy,
      alerts |-> in.alerts, setupURL |-> in.setupURL, timeline |-> in.timeline,
      omitted |-> in.omitted, providers |-> in.providers]
    BY DEF SnapshotInputs
  <1>4. Canonical(in) =
          [group |-> in.group, revision |-> in.revision, status |-> in.status,
           title |-> t, severity |-> in.severity, team |-> in.team,
           onboarded |-> in.onboarded, groupURL |-> in.groupURL,
           externalURL |-> in.externalURL, zone |-> in.zone, acknowledgedBy |-> a,
           resolvedBy |-> r, alerts |-> l, setupURL |-> in.setupURL, timeline |-> h,
           omitted |-> o, providers |-> b]
    BY <1>2, <1>3
  <1> QED BY <1>1, <1>4, Zenon

\* What is accepted is accepted again once it is canonical, and is then as it was: a stored
\* snapshot canonicalises back to itself (NewRenderSnapshot).
THEOREM SnapshotsAreCanonicalOnce ==
  ASSUME NEW in \in SnapshotInputs, Accepts(in)
  PROVE  /\ Canonical(in) \in SnapshotInputs /\ Accepts(Canonical(in))
         /\ Canonical(Canonical(in)) = Canonical(in)
  <1>1. /\ in.group \in Ids \cup {""} /\ in.revision \in Int /\ in.status \in GroupStatuses \cup Texts
        /\ in.title \in CutTexts /\ in.severity \in Texts \cup {""} /\ in.team \in Optional
        /\ in.onboarded \in BOOLEAN /\ in.groupURL \in Links \cup {NULL} /\ in.externalURL \in Optional
        /\ in.zone \in Zones \cup {"", "Local"} /\ in.acknowledgedBy \in OptionalCutTexts
        /\ in.resolvedBy \in OptionalCutTexts /\ in.alerts \in Seq(AlertSnapshots)
        /\ in.setupURL \in Links \cup {NULL} /\ in.timeline \in Seq(TimelineLines)
        /\ in.omitted \in Int /\ in.providers \in Seq(InteractiveProviders \cup Texts)
    BY DEF SnapshotInputs
  <1>2. PICK t, a, r, l, h, o, b :
          /\ t = Cut(in.title, TitleLimit)
          /\ a = CutOpt(in.acknowledgedBy, ActorLimit) /\ r = CutOpt(in.resolvedBy, ActorLimit)
          /\ l = CanonicalAlerts(in.alerts)
          /\ h = CanonicalTimeline(in.timeline) /\ o = in.omitted + LinesDropped(in.timeline)
          /\ b = CanonicalProviders(in.providers)
    OBVIOUS
  <1>3. PICK s : s = Canonical(in)
    OBVIOUS
  <1>4. s = [group |-> in.group, revision |-> in.revision, status |-> in.status,
     title |-> t, severity |-> in.severity, team |-> in.team,
     onboarded |-> in.onboarded, groupURL |-> in.groupURL,
     externalURL |-> in.externalURL, zone |-> in.zone, acknowledgedBy |-> a,
     resolvedBy |-> r, alerts |-> l, setupURL |-> in.setupURL, timeline |-> h,
     omitted |-> o, providers |-> b]
    BY <1>2, <1>3, CanonicalHas, Zenon
  <1>5. t \in CutTexts /\ Cut(t, TitleLimit) = t
    BY <1>1, <1>2, CutOnce DEF TitleLimit
  <1>6. /\ a \in OptionalCutTexts /\ CutOpt(a, ActorLimit) = a
        /\ r \in OptionalCutTexts /\ CutOpt(r, ActorLimit) = r
    BY <1>1, <1>2, CutOptOnce DEF ActorLimit
  <1>7. Identified(in) /\ AlertsFit(in.alerts) /\ TimelineFits(in.timeline, in.omitted)
    BY DEF Accepts
  <1>8. l \in Seq(AlertSnapshots) /\ AlertsFit(l) /\ CanonicalAlerts(l) = l
    BY <1>1, <1>2, <1>7, AlertsAreCanonicalOnce
  <1>9. /\ h \in Seq(TimelineLines) /\ TimelineFits(h, o) /\ CanonicalTimeline(h) = h
        /\ LinesDropped(h) = 0
    BY <1>1, <1>2, <1>7, TimelineIsCanonicalOnce
  <1>10. o \in Int
    <2>1. in.timeline \in Seq(TimelineLines)
      BY <1>1
    <2>2. LinesDropped(in.timeline) \in Nat
      BY <2>1, LinesDroppedBounds
    <2>3. PICK m : m = in.omitted
      OBVIOUS
    <2>4. PICK d : d = LinesDropped(in.timeline)
      OBVIOUS
    <2>5. m \in Int /\ d \in Nat
      BY <1>1, <2>2, <2>3, <2>4, Zenon
    <2>6. m + d \in Int
      BY <2>5
    <2> QED BY <1>2, <2>3, <2>4, <2>6, Zenon
  <1>11. b \in Seq(InteractiveProviders) /\ Listed(b) \subseteq InteractiveProviders /\ CanonicalProviders(b) = b
    BY <1>2, ProvidersAreCanonicalOnce
  <1>12. b \in Seq(InteractiveProviders \cup Texts)
    <2>1. PICK n \in Nat : b \in [1..n -> InteractiveProviders]
      BY <1>11, SeqDef
    <2>2. b \in [1..n -> InteractiveProviders \cup Texts]
      BY <2>1
    <2> QED BY <2>2, SeqDef
  <1>13. s \in SnapshotInputs
    BY <1>1, <1>4, <1>5, <1>6, <1>8, <1>9, <1>10, <1>12 DEF SnapshotInputs
  <1>14. /\ s.title = t /\ s.acknowledgedBy = a /\ s.resolvedBy = r /\ s.alerts = l /\ s.timeline = h
         /\ s.omitted = o /\ s.providers = b /\ s.group = in.group /\ s.revision = in.revision
         /\ s.status = in.status /\ s.zone = in.zone
    BY <1>4
  <1>15. Accepts(s)
    <2>1. Identified(s)
      BY <1>7, <1>14 DEF Identified
    <2> QED BY <1>8, <1>9, <1>11, <1>14, <2>1 DEF Accepts
  <1>16. Canonical(s) = s
    <2>1. PICK again : again = Canonical(s)
      OBVIOUS
    <2>2. /\ again.title = Cut(s.title, TitleLimit)
          /\ again.acknowledgedBy = CutOpt(s.acknowledgedBy, ActorLimit)
          /\ again.resolvedBy = CutOpt(s.resolvedBy, ActorLimit)
          /\ again.alerts = CanonicalAlerts(s.alerts) /\ again.timeline = CanonicalTimeline(s.timeline)
          /\ again.omitted = s.omitted + LinesDropped(s.timeline)
          /\ again.providers = CanonicalProviders(s.providers)
          /\ again.group = s.group /\ again.revision = s.revision /\ again.status = s.status
          /\ again.severity = s.severity /\ again.team = s.team /\ again.onboarded = s.onboarded
          /\ again.groupURL = s.groupURL /\ again.externalURL = s.externalURL /\ again.zone = s.zone
          /\ again.setupURL = s.setupURL
      BY <1>13, <2>1, CanonicalHas
    <2>3. /\ again.title = s.title /\ again.acknowledgedBy = s.acknowledgedBy
          /\ again.resolvedBy = s.resolvedBy /\ again.alerts = s.alerts
          /\ again.timeline = s.timeline /\ again.providers = s.providers
      BY <1>5, <1>6, <1>8, <1>9, <1>11, <1>14, <2>2, Zenon
    <2>4. again.omitted = s.omitted
      BY <1>9, <1>10, <1>14, <2>2
    <2>5. again \in SnapshotInputs
      <3>1. again = [group |-> again.group, revision |-> again.revision, status |-> again.status,
                     title |-> again.title, severity |-> again.severity, team |-> again.team,
                     onboarded |-> again.onboarded, groupURL |-> again.groupURL,
                     externalURL |-> again.externalURL, zone |-> again.zone,
                     acknowledgedBy |-> again.acknowledgedBy, resolvedBy |-> again.resolvedBy,
                     alerts |-> again.alerts, setupURL |-> again.setupURL,
                     timeline |-> again.timeline, omitted |-> again.omitted,
                     providers |-> again.providers]
        BY <1>13, <2>1, CanonicalHas
      <3>2. /\ s.group \in Ids \cup {""} /\ s.revision \in Int /\ s.status \in GroupStatuses \cup Texts
            /\ s.title \in CutTexts /\ s.severity \in Texts \cup {""} /\ s.team \in Optional
            /\ s.onboarded \in BOOLEAN /\ s.groupURL \in Links \cup {NULL} /\ s.externalURL \in Optional
            /\ s.zone \in Zones \cup {"", "Local"} /\ s.acknowledgedBy \in OptionalCutTexts
            /\ s.resolvedBy \in OptionalCutTexts /\ s.alerts \in Seq(AlertSnapshots)
            /\ s.setupURL \in Links \cup {NULL} /\ s.timeline \in Seq(TimelineLines)
            /\ s.omitted \in Int /\ s.providers \in Seq(InteractiveProviders \cup Texts)
        BY <1>13 DEF SnapshotInputs
      <3>3. /\ again.group \in Ids \cup {""} /\ again.revision \in Int /\ again.status \in GroupStatuses \cup Texts
            /\ again.title \in CutTexts /\ again.severity \in Texts \cup {""} /\ again.team \in Optional
            /\ again.onboarded \in BOOLEAN /\ again.groupURL \in Links \cup {NULL}
            /\ again.externalURL \in Optional /\ again.zone \in Zones \cup {"", "Local"}
            /\ again.acknowledgedBy \in OptionalCutTexts /\ again.resolvedBy \in OptionalCutTexts
            /\ again.alerts \in Seq(AlertSnapshots) /\ again.setupURL \in Links \cup {NULL}
            /\ again.timeline \in Seq(TimelineLines) /\ again.omitted \in Int
            /\ again.providers \in Seq(InteractiveProviders \cup Texts)
        BY <2>2, <2>3, <2>4, <3>2, Zenon
      <3> QED BY <3>1, <3>3 DEF SnapshotInputs
    <2>6. again = s
      BY <1>13, <2>2, <2>3, <2>4, <2>5, SnapshotsAreTheirFields
    <2> QED BY <2>1, <2>6
  <1> QED BY <1>3, <1>13, <1>15, <1>16

\* A line of history that is not kept is counted, and none is kept before one that is not:
\* what a thread leaves out is its beginning, and it says how much (canonicalTimeline).
THEOREM NoLineGoesUncounted ==
  ASSUME NEW in \in SnapshotInputs, Accepts(in)
  PROVE  /\ Len(Canonical(in).timeline) + Canonical(in).omitted = Len(in.timeline) + in.omitted
         /\ Len(Canonical(in).timeline) <= TimelineLength
         /\ \A x \in Listed(Canonical(in).timeline),
              y \in {CanonicalLine(line) : line \in Listed(in.timeline)}
                       \ Listed(Canonical(in).timeline) : Earlier(y, x)
  <1>1. in.timeline \in Seq(TimelineLines) /\ in.omitted \in Int /\ TimelineFits(in.timeline, in.omitted)
    BY DEF SnapshotInputs, Accepts
  <1>2. PICK h, d : h = CanonicalTimeline(in.timeline) /\ d = LinesDropped(in.timeline)
    OBVIOUS
  <1>3. Canonical(in).timeline = h /\ Canonical(in).omitted = in.omitted + d
    BY <1>2, CanonicalHas
  <1>4. /\ h \in Seq(TimelineLines) /\ Len(h) <= TimelineLength /\ Len(h) + d = Len(in.timeline)
        /\ \A x \in Listed(h), y \in {CanonicalLine(line) : line \in Listed(in.timeline)} \ Listed(h) : Earlier(y, x)
    BY <1>1, <1>2, TimelineIsCanonicalOnce, Zenon
  <1>5. Len(h) \in Nat /\ d \in Nat
    BY <1>1, <1>2, <1>4, LenProperties, LinesDroppedBounds
  <1>6. Len(h) + (in.omitted + d) = Len(in.timeline) + in.omitted
    BY <1>1, <1>4, <1>5
  <1> QED BY <1>3, <1>4, <1>6, Zenon

------------------------------------------------------------------------------
(* Snapshots: what a digest tells apart.                                   *)

\* The protocol and the fields of its tags are what a digest is of.
LEMMA DigestsHaveFields ==
  ASSUME NEW p, NEW q, NEW T, NEW U, NEW s, NEW t, DigestOf(p, T, s) = DigestOf(q, U, t)
  PROVE  /\ p = q
         /\ T = U => \A tag \in T : SnapshotFields(s)[tag] = SnapshotFields(t)[tag]
  <1>1. p = q /\ [tag \in T |-> SnapshotFields(s)[tag]] = [tag \in U |-> SnapshotFields(t)[tag]]
    BY DEF DigestOf, Digest
  <1>2. ASSUME T = U, NEW tag \in T
        PROVE  SnapshotFields(s)[tag] = SnapshotFields(t)[tag]
    <2>1. [x \in T |-> SnapshotFields(s)[x]] = [x \in T |-> SnapshotFields(t)[x]]
      BY <1>1, <1>2
    <2>2. [x \in T |-> SnapshotFields(s)[x]][tag] = [x \in T |-> SnapshotFields(t)[x]][tag]
      BY <2>1
    <2> QED BY <2>2
  <1> QED BY <1>1, <1>2

\* A list of alerts, and one of history, as they are written.
AlertTable(l) == [n \in DOMAIN l |-> AlertFields(l[n])]

HistoryTable(l) == [n \in DOMAIN l |-> LineFields(l[n])]

\* Which field has which tag.
LEMMA FieldsByTag ==
  ASSUME NEW s
  PROVE  /\ SnapshotFields(s)[1] = s.group /\ SnapshotFields(s)[2] = s.revision
         /\ SnapshotFields(s)[3] = s.status /\ SnapshotFields(s)[4] = s.title
         /\ SnapshotFields(s)[5] = s.severity /\ SnapshotFields(s)[6] = EncOpt(s.team)
         /\ SnapshotFields(s)[7] = EncBool(s.onboarded)
         /\ SnapshotFields(s)[8] = EncOpt(s.groupURL) /\ SnapshotFields(s)[9] = EncOpt(s.externalURL)
         /\ SnapshotFields(s)[10] = s.zone
         /\ SnapshotFields(s)[11] = EncOpt(s.acknowledgedBy)
         /\ SnapshotFields(s)[12] = EncOpt(s.resolvedBy)
         /\ SnapshotFields(s)[13] = AlertTable(s.alerts)
         /\ SnapshotFields(s)[15] = EncOpt(s.setupURL)
         /\ SnapshotFields(s)[16] = HistoryTable(s.timeline)
         /\ SnapshotFields(s)[17] = s.omitted /\ SnapshotFields(s)[18] = s.providers
  BY DEF SnapshotFields, AlertTable, HistoryTable

\* An alert is the fields it is written as.
LEMMA AlertsTellApart ==
  ASSUME NEW a \in AlertSnapshots, NEW b \in AlertSnapshots, AlertFields(a) = AlertFields(b)
  PROVE  a = b
  <1>1. /\ a.id = b.id /\ a.status = b.status /\ a.at = b.at /\ a.name = b.name
        /\ a.severity = b.severity /\ EncOpt(a.slackUser) = EncOpt(b.slackUser)
        /\ EncOpt(a.dashboard) = EncOpt(b.dashboard) /\ EncOpt(a.runbook) = EncOpt(b.runbook)
        /\ EncOpt(a.description) = EncOpt(b.description)
    BY DEF AlertFields
  <1>2. /\ a.slackUser = b.slackUser /\ a.dashboard = b.dashboard /\ a.runbook = b.runbook
        /\ a.description = b.description
    BY <1>1, OptionsTellApart
  <1>3. /\ a = [id |-> a.id, status |-> a.status, at |-> a.at, name |-> a.name, severity |-> a.severity,
                slackUser |-> a.slackUser, dashboard |-> a.dashboard, runbook |-> a.runbook,
                description |-> a.description]
        /\ b = [id |-> b.id, status |-> b.status, at |-> b.at, name |-> b.name, severity |-> b.severity,
                slackUser |-> b.slackUser, dashboard |-> b.dashboard, runbook |-> b.runbook,
                description |-> b.description]
    BY DEF AlertSnapshots
  <1> QED BY <1>1, <1>2, <1>3

\* So is a line of history.
LEMMA LinesTellApart ==
  ASSUME NEW a \in TimelineLines, NEW b \in TimelineLines, LineFields(a) = LineFields(b)
  PROVE  a = b
  <1>1. /\ a.id = b.id /\ a.type = b.type /\ a.message = b.message /\ a.at = b.at
        /\ EncOpt(a.actor) = EncOpt(b.actor)
    BY DEF LineFields
  <1>2. a.actor = b.actor
    BY <1>1, OptionsTellApart
  <1>3. /\ a = [id |-> a.id, type |-> a.type, message |-> a.message, actor |-> a.actor, at |-> a.at]
        /\ b = [id |-> b.id, type |-> b.type, message |-> b.message, actor |-> b.actor, at |-> b.at]
    BY DEF TimelineLines
  <1> QED BY <1>1, <1>2, <1>3

\* And their lists.
LEMMA AlertListsTellApart ==
  ASSUME NEW l \in Seq(AlertSnapshots), NEW m \in Seq(AlertSnapshots),
         AlertTable(l) = AlertTable(m)
  PROVE  l = m
  <1>1. PICK f, g : f = [n \in DOMAIN l |-> AlertFields(l[n])] /\ g = [n \in DOMAIN m |-> AlertFields(m[n])]
    OBVIOUS
  <1>2. f = g /\ DOMAIN f = DOMAIN l /\ DOMAIN g = DOMAIN m
    BY <1>1 DEF AlertTable
  <1>3. Len(l) \in Nat /\ Len(m) \in Nat /\ DOMAIN l = 1..Len(l) /\ DOMAIN m = 1..Len(m)
        /\ l \in [1..Len(l) -> AlertSnapshots] /\ m \in [1..Len(m) -> AlertSnapshots]
    BY LenProperties
  <1>4. \A n \in DOMAIN l : AlertFields(l[n]) = AlertFields(m[n])
    BY <1>1, <1>2
  <1>5. DOMAIN l = DOMAIN m
    BY <1>2
  <1>6. \A n \in DOMAIN l : l[n] = m[n]
    BY <1>3, <1>4, <1>5, AlertsTellApart
  <1>7. Len(l) = Len(m)
    <2>1. PICK j, k : j = Len(l) /\ k = Len(m)
      OBVIOUS
    <2>2. j \in Nat /\ k \in Nat /\ 1..j = 1..k
      BY <1>3, <1>5, <2>1
    <2>3. j = k
      BY <2>2
    <2> QED BY <2>1, <2>3
  <1> QED BY <1>3, <1>6, <1>7, SeqEqual

\* The same of the history.
LEMMA HistoriesTellApart ==
  ASSUME NEW l \in Seq(TimelineLines), NEW m \in Seq(TimelineLines),
         HistoryTable(l) = HistoryTable(m)
  PROVE  l = m
  <1>1. PICK f, g : f = [n \in DOMAIN l |-> LineFields(l[n])] /\ g = [n \in DOMAIN m |-> LineFields(m[n])]
    OBVIOUS
  <1>2. f = g /\ DOMAIN f = DOMAIN l /\ DOMAIN g = DOMAIN m
    BY <1>1 DEF HistoryTable
  <1>3. Len(l) \in Nat /\ Len(m) \in Nat /\ DOMAIN l = 1..Len(l) /\ DOMAIN m = 1..Len(m)
        /\ l \in [1..Len(l) -> TimelineLines] /\ m \in [1..Len(m) -> TimelineLines]
    BY LenProperties
  <1>4. \A n \in DOMAIN l : LineFields(l[n]) = LineFields(m[n])
    BY <1>1, <1>2
  <1>5. DOMAIN l = DOMAIN m
    BY <1>2
  <1>6. \A n \in DOMAIN l : l[n] = m[n]
    BY <1>3, <1>4, <1>5, LinesTellApart
  <1>7. Len(l) = Len(m)
    <2>1. PICK j, k : j = Len(l) /\ k = Len(m)
      OBVIOUS
    <2>2. j \in Nat /\ k \in Nat /\ 1..j = 1..k
      BY <1>3, <1>5, <2>1
    <2>3. j = k
      BY <2>2
    <2> QED BY <2>1, <2>3
  <1> QED BY <1>3, <1>6, <1>7, SeqEqual

\* What a card shows of a snapshot: everything but the history.
CardShowsTheSame(s, t) ==
  /\ s.group = t.group /\ s.revision = t.revision /\ s.status = t.status /\ s.title = t.title
  /\ s.severity = t.severity /\ s.team = t.team /\ s.onboarded = t.onboarded
  /\ s.groupURL = t.groupURL /\ s.externalURL = t.externalURL /\ s.zone = t.zone
  /\ s.acknowledgedBy = t.acknowledgedBy /\ s.resolvedBy = t.resolvedBy /\ s.alerts = t.alerts
  /\ s.setupURL = t.setupURL /\ s.providers = t.providers

\* What a thread shows of it.
ThreadShowsTheSame(s, t) ==
  /\ s.revision = t.revision /\ s.zone = t.zone /\ s.alerts = t.alerts
  /\ s.timeline = t.timeline /\ s.omitted = t.omitted

\* What version 1 has of it.
V1HasTheSame(s, t) ==
  /\ s.group = t.group /\ s.revision = t.revision /\ s.status = t.status /\ s.title = t.title
  /\ s.severity = t.severity /\ s.team = t.team /\ s.onboarded = t.onboarded
  /\ s.groupURL = t.groupURL /\ s.externalURL = t.externalURL /\ s.zone = t.zone
  /\ s.acknowledgedBy = t.acknowledgedBy /\ s.resolvedBy = t.resolvedBy /\ s.alerts = t.alerts
  /\ s.setupURL = t.setupURL

\* The types of what is compared.
LEMMA SnapshotsHaveLists ==
  ASSUME NEW s \in SnapshotInputs
  PROVE  /\ s.onboarded \in BOOLEAN /\ s.alerts \in Seq(AlertSnapshots)
         /\ s.timeline \in Seq(TimelineLines)
  BY DEF SnapshotInputs

\* A tag's value is the same for two snapshots exactly when its field is.
LEMMA TagsTellFieldsApart ==
  ASSUME NEW s \in SnapshotInputs, NEW t \in SnapshotInputs
  PROVE  /\ (SnapshotFields(s)[1] = SnapshotFields(t)[1]) <=> (s.group = t.group)
         /\ (SnapshotFields(s)[2] = SnapshotFields(t)[2]) <=> (s.revision = t.revision)
         /\ (SnapshotFields(s)[3] = SnapshotFields(t)[3]) <=> (s.status = t.status)
         /\ (SnapshotFields(s)[4] = SnapshotFields(t)[4]) <=> (s.title = t.title)
         /\ (SnapshotFields(s)[5] = SnapshotFields(t)[5]) <=> (s.severity = t.severity)
         /\ (SnapshotFields(s)[6] = SnapshotFields(t)[6]) <=> (s.team = t.team)
         /\ (SnapshotFields(s)[7] = SnapshotFields(t)[7]) <=> (s.onboarded = t.onboarded)
         /\ (SnapshotFields(s)[8] = SnapshotFields(t)[8]) <=> (s.groupURL = t.groupURL)
         /\ (SnapshotFields(s)[9] = SnapshotFields(t)[9]) <=> (s.externalURL = t.externalURL)
         /\ (SnapshotFields(s)[10] = SnapshotFields(t)[10]) <=> (s.zone = t.zone)
         /\ (SnapshotFields(s)[11] = SnapshotFields(t)[11]) <=> (s.acknowledgedBy = t.acknowledgedBy)
         /\ (SnapshotFields(s)[12] = SnapshotFields(t)[12]) <=> (s.resolvedBy = t.resolvedBy)
         /\ (SnapshotFields(s)[13] = SnapshotFields(t)[13]) <=> (s.alerts = t.alerts)
         /\ (SnapshotFields(s)[15] = SnapshotFields(t)[15]) <=> (s.setupURL = t.setupURL)
         /\ (SnapshotFields(s)[16] = SnapshotFields(t)[16]) <=> (s.timeline = t.timeline)
         /\ (SnapshotFields(s)[17] = SnapshotFields(t)[17]) <=> (s.omitted = t.omitted)
         /\ (SnapshotFields(s)[18] = SnapshotFields(t)[18]) <=> (s.providers = t.providers)
  <1>1. /\ (SnapshotFields(s)[1] = SnapshotFields(t)[1]) <=> (s.group = t.group)
        /\ (SnapshotFields(s)[2] = SnapshotFields(t)[2]) <=> (s.revision = t.revision)
        /\ (SnapshotFields(s)[3] = SnapshotFields(t)[3]) <=> (s.status = t.status)
        /\ (SnapshotFields(s)[4] = SnapshotFields(t)[4]) <=> (s.title = t.title)
        /\ (SnapshotFields(s)[5] = SnapshotFields(t)[5]) <=> (s.severity = t.severity)
        /\ (SnapshotFields(s)[10] = SnapshotFields(t)[10]) <=> (s.zone = t.zone)
        /\ (SnapshotFields(s)[17] = SnapshotFields(t)[17]) <=> (s.omitted = t.omitted)
        /\ (SnapshotFields(s)[18] = SnapshotFields(t)[18]) <=> (s.providers = t.providers)
    BY FieldsByTag, Zenon
  <1>3. /\ (SnapshotFields(s)[6] = SnapshotFields(t)[6]) <=> (s.team = t.team)
        /\ (SnapshotFields(s)[8] = SnapshotFields(t)[8]) <=> (s.groupURL = t.groupURL)
        /\ (SnapshotFields(s)[9] = SnapshotFields(t)[9]) <=> (s.externalURL = t.externalURL)
        /\ (SnapshotFields(s)[11] = SnapshotFields(t)[11]) <=> (s.acknowledgedBy = t.acknowledgedBy)
        /\ (SnapshotFields(s)[12] = SnapshotFields(t)[12]) <=> (s.resolvedBy = t.resolvedBy)
        /\ (SnapshotFields(s)[15] = SnapshotFields(t)[15]) <=> (s.setupURL = t.setupURL)
    <2>1. /\ SnapshotFields(s)[6] = EncOpt(s.team)
          /\ SnapshotFields(t)[6] = EncOpt(t.team)
          /\ SnapshotFields(s)[8] = EncOpt(s.groupURL)
          /\ SnapshotFields(t)[8] = EncOpt(t.groupURL)
          /\ SnapshotFields(s)[9] = EncOpt(s.externalURL)
          /\ SnapshotFields(t)[9] = EncOpt(t.externalURL)
          /\ SnapshotFields(s)[11] = EncOpt(s.acknowledgedBy)
          /\ SnapshotFields(t)[11] = EncOpt(t.acknowledgedBy)
          /\ SnapshotFields(s)[12] = EncOpt(s.resolvedBy)
          /\ SnapshotFields(t)[12] = EncOpt(t.resolvedBy)
          /\ SnapshotFields(s)[15] = EncOpt(s.setupURL)
          /\ SnapshotFields(t)[15] = EncOpt(t.setupURL)
      BY FieldsByTag
    <2>2. /\ (EncOpt(s.team) = EncOpt(t.team)) <=> (s.team = t.team)
          /\ (EncOpt(s.groupURL) = EncOpt(t.groupURL)) <=> (s.groupURL = t.groupURL)
          /\ (EncOpt(s.externalURL) = EncOpt(t.externalURL)) <=> (s.externalURL = t.externalURL)
          /\ (EncOpt(s.acknowledgedBy) = EncOpt(t.acknowledgedBy)) <=> (s.acknowledgedBy = t.acknowledgedBy)
          /\ (EncOpt(s.resolvedBy) = EncOpt(t.resolvedBy)) <=> (s.resolvedBy = t.resolvedBy)
          /\ (EncOpt(s.setupURL) = EncOpt(t.setupURL)) <=> (s.setupURL = t.setupURL)
      BY OptionsTellApart
    <2> QED BY <2>1, <2>2, Zenon
  <1>4. (SnapshotFields(s)[7] = SnapshotFields(t)[7]) <=> (s.onboarded = t.onboarded)
    <2>1. SnapshotFields(s)[7] = EncBool(s.onboarded) /\ SnapshotFields(t)[7] = EncBool(t.onboarded)
      BY FieldsByTag
    <2>2. (EncBool(s.onboarded) = EncBool(t.onboarded)) <=> (s.onboarded = t.onboarded)
      BY SnapshotsHaveLists, BooleansTellApart
    <2> QED BY <2>1, <2>2, Zenon
  <1>5. (SnapshotFields(s)[13] = SnapshotFields(t)[13]) <=> (s.alerts = t.alerts)
    <2>1. SnapshotFields(s)[13] = AlertTable(s.alerts) /\ SnapshotFields(t)[13] = AlertTable(t.alerts)
      BY FieldsByTag
    <2>2. (AlertTable(s.alerts) = AlertTable(t.alerts)) <=> (s.alerts = t.alerts)
      BY SnapshotsHaveLists, AlertListsTellApart
    <2> QED BY <2>1, <2>2, Zenon
  <1>6. (SnapshotFields(s)[16] = SnapshotFields(t)[16]) <=> (s.timeline = t.timeline)
    <2>1. SnapshotFields(s)[16] = HistoryTable(s.timeline) /\ SnapshotFields(t)[16] = HistoryTable(t.timeline)
      BY FieldsByTag
    <2>2. (HistoryTable(s.timeline) = HistoryTable(t.timeline)) <=> (s.timeline = t.timeline)
      BY SnapshotsHaveLists, HistoriesTellApart
    <2> QED BY <2>1, <2>2, Zenon
  <1> QED BY <1>1, <1>3, <1>4, <1>5, <1>6

\* The protocol and the fields of its tags are all a digest is of.
LEMMA SameFieldsSameDigest ==
  ASSUME NEW p, NEW T, NEW s, NEW t, \A tag \in T : SnapshotFields(s)[tag] = SnapshotFields(t)[tag]
  PROVE  DigestOf(p, T, s) = DigestOf(p, T, t)
  <1>1. [tag \in T |-> SnapshotFields(s)[tag]] = [tag \in T |-> SnapshotFields(t)[tag]]
    OBVIOUS
  <1> QED BY <1>1 DEF DigestOf

\* The tags of each form.
LEMMA TagsOfForms ==
  /\ CardTags = {1, 2, 3, 4, 5, 6, 7, 8, 9, 10, 11, 12, 13, 15, 18}
  /\ ThreadTags = {2, 10, 13, 16, 17}
  /\ V1Tags = {1, 2, 3, 4, 5, 6, 7, 8, 9, 10, 11, 12, 13, 15}
  /\ Tags = {1, 2, 3, 4, 5, 6, 7, 8, 9, 10, 11, 12, 13, 15, 16, 17, 18}
  BY DEF CardTags, ThreadTags, V1Tags, Tags

\* A form is sent an edit exactly when what it shows is not what it showed: the digests a
\* raise compares tell apart what their form shows, and nothing else (cardTag, threadTag).
THEOREM FormsFollowWhatTheyShow ==
  ASSUME NEW s \in SnapshotInputs, NEW t \in SnapshotInputs
  PROVE  /\ CardDigest(s) = CardDigest(t) <=> CardShowsTheSame(s, t)
         /\ ThreadDigest(s) = ThreadDigest(t) <=> ThreadShowsTheSame(s, t)
  <1> DEFINE Agree(T) == \A tag \in T : SnapshotFields(s)[tag] = SnapshotFields(t)[tag]
  <1>1. Agree(CardTags) <=> CardShowsTheSame(s, t)
    <2>1. Agree(CardTags) <=>
            /\ SnapshotFields(s)[1] = SnapshotFields(t)[1]
            /\ SnapshotFields(s)[2] = SnapshotFields(t)[2]
            /\ SnapshotFields(s)[3] = SnapshotFields(t)[3]
            /\ SnapshotFields(s)[4] = SnapshotFields(t)[4]
            /\ SnapshotFields(s)[5] = SnapshotFields(t)[5]
            /\ SnapshotFields(s)[6] = SnapshotFields(t)[6]
            /\ SnapshotFields(s)[7] = SnapshotFields(t)[7]
            /\ SnapshotFields(s)[8] = SnapshotFields(t)[8]
            /\ SnapshotFields(s)[9] = SnapshotFields(t)[9]
            /\ SnapshotFields(s)[10] = SnapshotFields(t)[10]
            /\ SnapshotFields(s)[11] = SnapshotFields(t)[11]
            /\ SnapshotFields(s)[12] = SnapshotFields(t)[12]
            /\ SnapshotFields(s)[13] = SnapshotFields(t)[13]
            /\ SnapshotFields(s)[15] = SnapshotFields(t)[15]
            /\ SnapshotFields(s)[18] = SnapshotFields(t)[18]
      BY TagsOfForms
    <2> QED BY <2>1, TagsTellFieldsApart, Zenon DEF CardShowsTheSame
  <1>2. Agree(ThreadTags) <=> ThreadShowsTheSame(s, t)
    <2>1. Agree(ThreadTags) <=>
            /\ SnapshotFields(s)[2] = SnapshotFields(t)[2]
            /\ SnapshotFields(s)[10] = SnapshotFields(t)[10]
            /\ SnapshotFields(s)[13] = SnapshotFields(t)[13]
            /\ SnapshotFields(s)[16] = SnapshotFields(t)[16]
            /\ SnapshotFields(s)[17] = SnapshotFields(t)[17]
      BY TagsOfForms
    <2> QED BY <2>1, TagsTellFieldsApart, Zenon DEF ThreadShowsTheSame
  <1>3. CardDigest(s) = CardDigest(t) <=> Agree(CardTags)
    BY DigestsHaveFields, SameFieldsSameDigest DEF CardDigest
  <1>4. ThreadDigest(s) = ThreadDigest(t) <=> Agree(ThreadTags)
    BY DigestsHaveFields, SameFieldsSameDigest DEF ThreadDigest
  <1> QED BY <1>1, <1>2, <1>3, <1>4

\* Two snapshots have one digest exactly when they are one, in each version; and none of the
\* four digests of one snapshot is another kind of digest of any (their protocols differ).
THEOREM SnapshotDigestsTellApart ==
  ASSUME NEW s \in SnapshotInputs, NEW t \in SnapshotInputs
  PROVE  /\ SnapshotDigest(s) = SnapshotDigest(t) => s = t
         /\ SnapshotDigestV1(s) = SnapshotDigestV1(t) =>
              s = [t EXCEPT !.timeline = s.timeline, !.omitted = s.omitted, !.providers = s.providers]
         /\ SnapshotDigest(s) \notin {SnapshotDigestV1(t), CardDigest(t), ThreadDigest(t)}
         /\ CardDigest(s) \notin {SnapshotDigestV1(t), ThreadDigest(t)}
         /\ ThreadDigest(s) # SnapshotDigestV1(t)
  <1> DEFINE Agree(T) == \A tag \in T : SnapshotFields(s)[tag] = SnapshotFields(t)[tag]
  <1>1. Agree(V1Tags) => V1HasTheSame(s, t)
    <2>1. Agree(V1Tags) =>
            /\ SnapshotFields(s)[1] = SnapshotFields(t)[1]
            /\ SnapshotFields(s)[2] = SnapshotFields(t)[2]
            /\ SnapshotFields(s)[3] = SnapshotFields(t)[3]
            /\ SnapshotFields(s)[4] = SnapshotFields(t)[4]
            /\ SnapshotFields(s)[5] = SnapshotFields(t)[5]
            /\ SnapshotFields(s)[6] = SnapshotFields(t)[6]
            /\ SnapshotFields(s)[7] = SnapshotFields(t)[7]
            /\ SnapshotFields(s)[8] = SnapshotFields(t)[8]
            /\ SnapshotFields(s)[9] = SnapshotFields(t)[9]
            /\ SnapshotFields(s)[10] = SnapshotFields(t)[10]
            /\ SnapshotFields(s)[11] = SnapshotFields(t)[11]
            /\ SnapshotFields(s)[12] = SnapshotFields(t)[12]
            /\ SnapshotFields(s)[13] = SnapshotFields(t)[13]
            /\ SnapshotFields(s)[15] = SnapshotFields(t)[15]
      BY TagsOfForms
    <2> QED BY <2>1, TagsTellFieldsApart, Zenon DEF V1HasTheSame
  <1>2. Agree(Tags) => /\ V1HasTheSame(s, t) /\ s.timeline = t.timeline
                       /\ s.omitted = t.omitted /\ s.providers = t.providers
    <2>1. Agree(Tags) => Agree(V1Tags) /\ Agree({16, 17, 18})
      BY TagsOfForms
    <2>2. Agree({16, 17, 18}) => s.timeline = t.timeline /\ s.omitted = t.omitted /\ s.providers = t.providers
      BY TagsTellFieldsApart
    <2> QED BY <1>1, <2>1, <2>2
  <1>3. ASSUME SnapshotDigest(s) = SnapshotDigest(t)
        PROVE  s = t
    <2>1. Agree(Tags)
      BY <1>3, DigestsHaveFields DEF SnapshotDigest
    <2> HIDE DEF Agree
    <2> QED BY <1>2, <2>1, SnapshotsAreTheirFields DEF V1HasTheSame
  <1>4. ASSUME SnapshotDigestV1(s) = SnapshotDigestV1(t)
        PROVE  s = [t EXCEPT !.timeline = s.timeline, !.omitted = s.omitted, !.providers = s.providers]
    <2>1. Agree(V1Tags)
      BY <1>4, DigestsHaveFields DEF SnapshotDigestV1
    <2> HIDE DEF Agree
    <2>2. V1HasTheSame(s, t)
      BY <1>1, <2>1
    <2>3. /\ s = [group |-> s.group, revision |-> s.revision, status |-> s.status, title |-> s.title,
                  severity |-> s.severity, team |-> s.team, onboarded |-> s.onboarded,
                  groupURL |-> s.groupURL, externalURL |-> s.externalURL, zone |-> s.zone,
                  acknowledgedBy |-> s.acknowledgedBy, resolvedBy |-> s.resolvedBy,
                  alerts |-> s.alerts, setupURL |-> s.setupURL, timeline |-> s.timeline,
                  omitted |-> s.omitted, providers |-> s.providers]
          /\ t = [group |-> t.group, revision |-> t.revision, status |-> t.status, title |-> t.title,
                  severity |-> t.severity, team |-> t.team, onboarded |-> t.onboarded,
                  groupURL |-> t.groupURL, externalURL |-> t.externalURL, zone |-> t.zone,
                  acknowledgedBy |-> t.acknowledgedBy, resolvedBy |-> t.resolvedBy,
                  alerts |-> t.alerts, setupURL |-> t.setupURL, timeline |-> t.timeline,
                  omitted |-> t.omitted, providers |-> t.providers]
      BY DEF SnapshotInputs
    <2> QED BY <2>2, <2>3 DEF V1HasTheSame
  <1>5. /\ SnapshotDigest(s) \notin {SnapshotDigestV1(t), CardDigest(t), ThreadDigest(t)}
        /\ CardDigest(s) \notin {SnapshotDigestV1(t), ThreadDigest(t)}
        /\ ThreadDigest(s) # SnapshotDigestV1(t)
    <2>1. /\ "render_snapshot/v2" # "render_snapshot/v1" /\ "render_snapshot/v2" # "render_snapshot/v2/card"
          /\ "render_snapshot/v2" # "render_snapshot/v2/thread"
          /\ "render_snapshot/v2/card" # "render_snapshot/v1"
          /\ "render_snapshot/v2/card" # "render_snapshot/v2/thread"
          /\ "render_snapshot/v2/thread" # "render_snapshot/v1"
      OBVIOUS
    <2>2. \A p, q, T, U : p # q => DigestOf(p, T, s) # DigestOf(q, U, t)
      BY DigestsHaveFields
    <2> QED BY <2>1, <2>2, Zenon DEF SnapshotDigest, SnapshotDigestV1, CardDigest, ThreadDigest
  <1> QED BY <1>3, <1>4, <1>5

------------------------------------------------------------------------------
(* Snapshots: what is read back, rebuilt and frozen.                       *)

\* What an admission stored, the transaction of a later attempt reads back whole: no row of
\* this build's own is taken for damage (openContentTx, lockAdmittedSnapshotTx).
THEOREM StoredIsReadBack ==
  ASSUME NEW in \in SnapshotInputs, Accepts(in), NEW final, NEW admission
  PROVE  /\ CheckedSnapshot(StoredRow(in, final), in.group, admission) = "rendered"
         /\ ReadBack(StoredRow(in, final)).content = Canonical(in)
  <1>1. PICK c : c = Canonical(in)
    OBVIOUS
  <1>2. Accepts(c) /\ Canonical(c) = c /\ c.group = in.group /\ c.revision = in.revision
    BY <1>1, SnapshotsAreCanonicalOnce, CanonicalHas
  <1>3. PICK row : row = StoredRow(in, final)
    OBVIOUS
  <1>4. /\ row.names = SnapshotNames(2) /\ row.value = c /\ row.revision = in.revision /\ row.schema = 2
        /\ row.digest = SnapshotDigest(c)
    BY <1>1, <1>3 DEF StoredRow
  <1>5. ReadBack(row).content = c /\ ReadBack(row).digest = SnapshotDigest(c)
    BY <1>2, <1>4 DEF ReadBack, NewRenderSnapshot
  <1>6. Canonicalises(row)
    BY <1>2, <1>4 DEF Canonicalises
  <1>7. IsWhatWentIn(row, in.group)
    BY <1>2, <1>4, <1>5, <1>6 DEF IsWhatWentIn, Intact
  <1>8. Reads(row.schema, admission)
    BY <1>4 DEF Reads
  <1> QED BY <1>1, <1>3, <1>5, <1>7, <1>8 DEF CheckedSnapshot

\* Whatever became of a row, as long as its digest is still the one it was given: what is
\* rendered from it is what was admitted, of its group and at its revision, and no other
\* version's reading of it passes (checkSnapshotIdentity).
THEOREM OnlyWhatWentInIsRendered ==
  ASSUME NEW in \in SnapshotInputs, Accepts(in), NEW row, row.value \in SnapshotInputs,
         row.digest = SnapshotDigest(Canonical(in)), NEW group, NEW admission,
         CheckedSnapshot(row, group, admission) = "rendered"
  PROVE  /\ ReadBack(row).content = Canonical(in) /\ row.schema = 2
         /\ group = in.group /\ row.revision = in.revision
  <1>1. Reads(row.schema, admission) /\ IsWhatWentIn(row, group)
    BY DEF CheckedSnapshot
  <1>2. /\ Canonicalises(row) /\ ReadBack(row).digest = row.digest
        /\ ReadBack(row).content.group = group /\ ReadBack(row).content.revision = row.revision
    BY <1>1 DEF IsWhatWentIn, Intact
  <1>3. row.schema # 1
    <2>1. ASSUME row.schema = 1
          PROVE  FALSE
      <3>1. ReadBack(row).digest = SnapshotDigestV1(CanonicalV1(row.value))
        BY <2>1 DEF ReadBack, DecodeRenderSnapshotV1
      <3>2. SnapshotDigest(Canonical(in)) = SnapshotDigestV1(CanonicalV1(row.value))
        BY <1>2, <3>1
      <3>3. "render_snapshot/v2" = "render_snapshot/v1"
        BY <3>2, DigestsHaveFields DEF SnapshotDigest, SnapshotDigestV1
      <3> QED BY <3>3
    <2> QED BY <2>1
  <1>4. row.schema = 2
    BY <1>1, <1>3 DEF Reads
  <1>5. Accepts(row.value)
    BY <1>2, <1>3 DEF Canonicalises
  <1>6. PICK c, d : c = Canonical(in) /\ d = Canonical(row.value)
    OBVIOUS
  <1>7. c \in SnapshotInputs /\ d \in SnapshotInputs
    BY <1>5, <1>6, SnapshotsAreCanonicalOnce
  <1>8. ReadBack(row).content = d /\ ReadBack(row).digest = SnapshotDigest(d)
    BY <1>3, <1>6 DEF ReadBack, NewRenderSnapshot
  <1>9. SnapshotDigest(c) = SnapshotDigest(d)
    BY <1>2, <1>6, <1>8
  <1>10. c = d
    BY <1>7, <1>9, SnapshotDigestsTellApart
  <1>11. c.group = in.group /\ c.revision = in.revision
    BY <1>6, CanonicalHas
  <1> QED BY <1>2, <1>4, <1>6, <1>8, <1>10, <1>11

\* An intact row of version 1 is never what stops the start that rebuilds it: with a history
\* that fits, and no buttons but on cards that can have them, the state it becomes is
\* accepted, and what it said is still said (rebuildRenderSnapshots).
THEOREM IntactRowsAreRebuilt ==
  ASSUME NEW row, Rebuildable(row), row.value \in SnapshotInputs,
         NEW history, NEW omitted, TimelineFits(history, omitted),
         NEW cards, \A c \in cards : c.interactive => c.provider \in InteractiveProviders,
         NEW buttons, Listed(buttons) = DrawnButtons(cards)
  PROVE  /\ Accepts(RebuiltInput(row, history, omitted, buttons))
         /\ V1HasTheSame(RebuiltInput(row, history, omitted, buttons), ReadBack(row).content)
  <1>1. PICK v : v = row.value
    OBVIOUS
  <1>2. Identified(v) /\ AlertsFit(v.alerts) /\ v \in SnapshotInputs
    BY <1>1 DEF Rebuildable, Intact, Canonicalises, AcceptsV1
  <1>3. PICK list : list = v.alerts /\ list \in Seq(AlertSnapshots)
    BY <1>2, SnapshotsHaveLists
  <1>4. PICK cut : cut = [n \in DOMAIN list |-> DescriptionCut(list[n])]
    OBVIOUS
  <1>5. DOMAIN list = 1..Len(list) /\ Len(list) \in Nat /\ \A n \in DOMAIN list : list[n] \in AlertSnapshots
    BY <1>3, LenProperties
  <1>6. \A n \in DOMAIN list : /\ DescriptionCut(list[n]) \in AlertSnapshots
                               /\ DescriptionCut(list[n]).id = list[n].id
                               /\ DescriptionCut(list[n]).status = list[n].status
                               /\ DescriptionCut(list[n]).at = list[n].at
    <2>1. ASSUME NEW a \in AlertSnapshots
          PROVE  /\ DescriptionCut(a) \in AlertSnapshots
                 /\ DescriptionCut(a).id = a.id /\ DescriptionCut(a).status = a.status
                 /\ DescriptionCut(a).at = a.at
      <3>1. PICK d : d = CutOpt(a.description, AlertDescriptionLimit)
        OBVIOUS
      <3>2. d \in OptionalCutTexts
        <4>1. a.description \in OptionalCutTexts /\ AlertDescriptionLimit \in Nat
          BY DEF AlertSnapshots, AlertDescriptionLimit
        <4> QED BY <3>1, <4>1, CutOptOnce
      <3>3. DescriptionCut(a) = [a EXCEPT !.description = d]
        BY <3>1 DEF DescriptionCut
      <3> QED BY <3>2, <3>3 DEF AlertSnapshots
    <2> QED BY <1>5, <2>1
  <1>7. cut \in [1..Len(list) -> AlertSnapshots] /\ DOMAIN cut = DOMAIN list
    BY <1>4, <1>5, <1>6
  <1>8. /\ cut \in Seq(AlertSnapshots)
        /\ \A n \in DOMAIN cut : /\ cut[n].id = list[n].id /\ cut[n].status = list[n].status
                                 /\ cut[n].at = list[n].at
    BY <1>4, <1>5, <1>6, <1>7, SeqDef
  <1>9. PICK C : C = Sorted({DescriptionCut(a) : a \in Listed(list)})
    OBVIOUS
  <1>10. Listed(cut) = {DescriptionCut(a) : a \in Listed(list)}
    BY <1>4 DEF Listed
  <1>11. AlertsFit(C)
    BY <1>2, <1>3, <1>7, <1>8, <1>9, <1>10, AlertsResorted
  <1>12. PICK old, new : old = ReadBack(row).content /\ new = RebuiltInput(row, history, omitted, buttons)
    OBVIOUS
  <1>13. old = [v EXCEPT !.alerts = C]
    BY <1>1, <1>3, <1>9, <1>12 DEF Rebuildable, ReadBack, DecodeRenderSnapshotV1, CanonicalV1
  <1>14. new = [old EXCEPT !.timeline = history, !.omitted = omitted, !.providers = buttons]
    BY <1>12 DEF RebuiltInput
  <1>15. v = [group |-> v.group, revision |-> v.revision, status |-> v.status, title |-> v.title,
              severity |-> v.severity, team |-> v.team, onboarded |-> v.onboarded,
              groupURL |-> v.groupURL, externalURL |-> v.externalURL, zone |-> v.zone,
              acknowledgedBy |-> v.acknowledgedBy, resolvedBy |-> v.resolvedBy,
              alerts |-> v.alerts, setupURL |-> v.setupURL, timeline |-> v.timeline,
              omitted |-> v.omitted, providers |-> v.providers]
    BY <1>2 DEF SnapshotInputs
  <1>16. old = [group |-> v.group, revision |-> v.revision, status |-> v.status, title |-> v.title,
                severity |-> v.severity, team |-> v.team, onboarded |-> v.onboarded,
                groupURL |-> v.groupURL, externalURL |-> v.externalURL, zone |-> v.zone,
                acknowledgedBy |-> v.acknowledgedBy, resolvedBy |-> v.resolvedBy,
                alerts |-> C, setupURL |-> v.setupURL, timeline |-> v.timeline,
                omitted |-> v.omitted, providers |-> v.providers]
    BY <1>13, <1>15
  <1>17. new = [group |-> v.group, revision |-> v.revision, status |-> v.status, title |-> v.title,
                severity |-> v.severity, team |-> v.team, onboarded |-> v.onboarded,
                groupURL |-> v.groupURL, externalURL |-> v.externalURL, zone |-> v.zone,
                acknowledgedBy |-> v.acknowledgedBy, resolvedBy |-> v.resolvedBy,
                alerts |-> C, setupURL |-> v.setupURL, timeline |-> history,
                omitted |-> omitted, providers |-> buttons]
    BY <1>14, <1>16
  <1>18. V1HasTheSame(new, old)
    BY <1>16, <1>17 DEF V1HasTheSame
  <1>19. /\ new.group = v.group /\ new.revision = v.revision /\ new.status = v.status /\ new.zone = v.zone
         /\ new.alerts = C /\ new.timeline = history /\ new.omitted = omitted /\ new.providers = buttons
    BY <1>17
  <1>20. Listed(buttons) \subseteq InteractiveProviders
    BY DEF DrawnButtons
  <1>21. Accepts(new)
    BY <1>2, <1>11, <1>19, <1>20 DEF Accepts, Identified
  <1> QED BY <1>12, <1>18, <1>21

\* The same of the commitment's own row: what is carried out is the kind, the schema and
\* the payload that were admitted (checkedIntent).
THEOREM OnlyWhatWasAdmittedIsCarriedOut ==
  ASSUME NEW k, NEW v, NEW p \in Payloads(k, v), NEW intent,
         intent.digest = PayloadDigest(k, v, p), ExecutableHere(intent) = "executable"
  PROVE  intent.kind = k /\ intent.schema = v /\ intent.payload.value = p
  <1>1. /\ Decodes(intent.kind, intent.schema, intent.payload)
        /\ PayloadDigest(intent.kind, intent.schema, intent.payload.value) = intent.digest
    BY DEF ExecutableHere
  <1>2. intent.payload.value \in Payloads(intent.kind, intent.schema)
    BY <1>1 DEF Decodes
  <1> QED BY <1>1, <1>2, PayloadDigestsTellApart

\* What a group's snapshot can be refused for, and so its transition: never for the zone
\* that was set, and never for an alert with no start (freezeAt, ViewOf).
THEOREM OnlyIdentityFailsAFreeze ==
  ASSUME NEW view, NEW revision, view.group.created # NoTime
  PROVE  Accepts(FreezeAt(view, revision)) <=>
           /\ view.group.id # "" /\ revision >= 0
           /\ view.resolved \/ view.group.status \in GroupStatuses
           /\ \A n \in DOMAIN view.group.alerts :
                /\ view.group.alerts[n].fingerprint # ""
                /\ view.group.alerts[n].status \in AlertStatuses
           /\ KeysDiffer([n \in DOMAIN view.group.alerts |-> view.group.alerts[n].fingerprint])
           /\ TimelineFits(HistoryOf(view.timeline), view.omitted)
           /\ Listed(view.interactive) \subseteq InteractiveProviders
  <1>1. PICK g : g = view.group
    OBVIOUS
  <1>2. PICK A, in : A = [n \in DOMAIN g.alerts |-> AlertSnapshot(g.alerts[n], g.created)]
                     /\ in = FreezeAt(view, revision)
    OBVIOUS
  <1>3. /\ in.group = g.id /\ in.revision = revision
        /\ in.status = IF view.resolved THEN "resolved" ELSE g.status
        /\ in.zone = ZoneName(view.zone) /\ in.alerts = A /\ in.timeline = HistoryOf(view.timeline)
        /\ in.omitted = view.omitted /\ in.providers = view.interactive
    BY <1>1, <1>2 DEF FreezeAt, ViewOf
  <1>4. in.zone \in Zones
    BY <1>3, SnapshotsAssumption DEF ZoneName
  <1>5. in.status \in GroupStatuses <=> view.resolved \/ g.status \in GroupStatuses
    BY <1>3 DEF GroupStatuses
  <1>6. DOMAIN A = DOMAIN g.alerts
    BY <1>2
  <1>7. \A n \in DOMAIN A : /\ A[n].id = g.alerts[n].fingerprint /\ A[n].status = g.alerts[n].status
                            /\ A[n].at # NoTime
    BY <1>1, <1>2 DEF AlertSnapshot, FirstOf
  <1>8. [n \in DOMAIN A |-> A[n].id] = [n \in DOMAIN g.alerts |-> g.alerts[n].fingerprint]
    BY <1>6, <1>7
  <1>9. NamedOnce(A) <=> /\ \A n \in DOMAIN g.alerts : g.alerts[n].fingerprint # ""
                         /\ KeysDiffer([n \in DOMAIN g.alerts |-> g.alerts[n].fingerprint])
    <2>1. NamedOnce(A) <=> /\ \A n \in DOMAIN A : A[n].id # ""
                           /\ KeysDiffer([n \in DOMAIN A |-> A[n].id])
      BY DEF NamedOnce
    <2>2. (\A n \in DOMAIN A : A[n].id # "") <=> \A n \in DOMAIN g.alerts : g.alerts[n].fingerprint # ""
      BY <1>6, <1>7
    <2> QED BY <1>8, <2>1, <2>2
  <1>10. (\A a \in Listed(A) : a.status \in AlertStatuses /\ a.at # NoTime)
           <=> \A n \in DOMAIN g.alerts : g.alerts[n].status \in AlertStatuses
    BY <1>6, <1>7 DEF Listed
  <1>11. Identified(in) <=> /\ g.id # "" /\ revision >= 0
                            /\ view.resolved \/ g.status \in GroupStatuses
    BY <1>3, <1>4, <1>5 DEF Identified
  <1>12. AlertsFit(A) <=> /\ \A n \in DOMAIN g.alerts : /\ g.alerts[n].fingerprint # ""
                                                        /\ g.alerts[n].status \in AlertStatuses
                          /\ KeysDiffer([n \in DOMAIN g.alerts |-> g.alerts[n].fingerprint])
    BY <1>9, <1>10 DEF AlertsFit
  <1>13. Accepts(in) <=> /\ Identified(in) /\ AlertsFit(A)
                         /\ TimelineFits(HistoryOf(view.timeline), view.omitted)
                         /\ Listed(view.interactive) \subseteq InteractiveProviders
    BY <1>3 DEF Accepts
  <1> QED BY <1>1, <1>2, <1>11, <1>12, <1>13

------------------------------------------------------------------------------
(* Admissions: one claim and one fingerprint, one promise.                 *)

\* A fingerprint is of its content and of the set of its materials.
LEMMA FingerprintsHaveParts ==
  ASSUME NEW c, NEW d, NEW M, NEW N, BatchFingerprint(c, M) = BatchFingerprint(d, N)
  PROVE  c = d /\ M = N
  <1>1. EncOpt(c) = EncOpt(d) /\ M = N
    BY DEF BatchFingerprint, Digest
  <1> QED BY <1>1, OptionsTellApart

\* A proposal's material has every part of the commitment, also what its key leaves out.
LEMMA EscalationMaterialsTellApart ==
  ASSUME NEW a, NEW b, NEW c \in EscalationCommitments, NEW d \in EscalationCommitments,
         a.kind \in EscalationKinds, EscalationMaterial(a, c) = EscalationMaterial(b, d)
  PROVE  c = d /\ a.kind = b.kind /\ a.revision = b.revision
  <1> DEFINE p == [slot |-> c.slot, target |-> c.target, override |-> c.override,
                   interactive |-> FALSE, stop |-> c.stop]
             q == [slot |-> d.slot, target |-> d.target, override |-> d.override,
                   interactive |-> FALSE, stop |-> d.stop]
  <1>1. /\ c.editable \in BOOLEAN /\ d.editable \in BOOLEAN
        /\ c.timing \in Timings /\ d.timing \in Timings /\ c.expiry \in Deadlines /\ d.expiry \in Deadlines
        /\ c.target \in TargetsOf(EscalationTargets) /\ d.target \in TargetsOf(EscalationTargets)
        /\ c.slot \in Slots /\ d.slot \in Slots /\ c.stop \in BOOLEAN /\ d.stop \in BOOLEAN
        /\ c.override \in Texts \cup {"", NULL} /\ d.override \in Texts \cup {"", NULL}
    BY DEF EscalationCommitments
  <1>2. /\ a.kind = b.kind /\ ContentRef(a.group, a.revision, a.digest) = ContentRef(b.group, b.revision, b.digest)
        /\ PayloadFields(a.kind, 2, p) = PayloadFields(b.kind, 2, q)
        /\ c.provider = d.provider /\ c.editable = d.editable /\ c.timing = d.timing
        /\ c.expiry = d.expiry /\ c.completion = d.completion /\ c.policy = d.policy
    <2> DEFINE r == ContentRef(a.group, a.revision, a.digest)
               s == ContentRef(b.group, b.revision, b.digest)
    <2>1. SubmitIntent(a.kind, a.version, "send", r, 2, c, p) = SubmitIntent(b.kind, b.version, "send", s, 2, d, q)
      BY DEF EscalationMaterial
    <2> HIDE DEF p, q, r, s
    <2>2. /\ a.kind = b.kind /\ r = s /\ PayloadFields(a.kind, 2, p) = PayloadFields(b.kind, 2, q)
          /\ c.provider = d.provider /\ EncBool(c.editable) = EncBool(d.editable)
          /\ TimingField(c.timing) = TimingField(d.timing)
          /\ DeadlineField(c.expiry) = DeadlineField(d.expiry)
          /\ c.completion = d.completion /\ c.policy = d.policy
      BY <2>1 DEF SubmitIntent
    <2>3. c.editable = d.editable
      BY <1>1, <2>2, BooleansTellApart
    <2>4. c.timing = d.timing /\ c.expiry = d.expiry
      BY <1>1, <2>2, TimingsTellApart, DeadlinesTellApart
    <2> QED BY <2>2, <2>3, <2>4 DEF r, s
  <1>3. p \in EscalationPayloads(2) /\ q \in EscalationPayloads(2)
    <2> DEFINE R == [slot : Slots, target : TargetsOf(EscalationTargets), override : Texts \cup {"", NULL},
                     interactive : BOOLEAN, stop : BOOLEAN]
    <2>1. p \in R /\ q \in R
      BY <1>1
    <2>2. 2 # 1 /\ ~p.interactive /\ ~q.interactive
      OBVIOUS
    <2> HIDE DEF p, q
    <2>3. /\ IF 2 = 1 THEN ~p.stop ELSE ~p.interactive
          /\ IF 2 = 1 THEN ~q.stop ELSE ~q.interactive
      BY <2>2, Zenon
    <2> QED BY <2>1, <2>3, Zenon DEF EscalationPayloads
  <1>4. p = q
    <2> HIDE DEF p, q
    <2> QED BY <1>2, <1>3, EscalationPayloadsTellApart
  <1>5. c.slot = d.slot /\ c.target = d.target /\ c.override = d.override /\ c.stop = d.stop
    BY <1>4
  <1>6. /\ c = [slot |-> c.slot, provider |-> c.provider, target |-> c.target, editable |-> c.editable,
               override |-> c.override, stop |-> c.stop, timing |-> c.timing, expiry |-> c.expiry,
               completion |-> c.completion, policy |-> c.policy]
        /\ d = [slot |-> d.slot, provider |-> d.provider, target |-> d.target, editable |-> d.editable,
               override |-> d.override, stop |-> d.stop, timing |-> d.timing, expiry |-> d.expiry,
               completion |-> d.completion, policy |-> d.policy]
    BY DEF EscalationCommitments
  <1>7. a.revision = b.revision
    BY <1>2 DEF ContentRef
  <1> QED BY <1>2, <1>5, <1>6, <1>7

\* An admission repeated under its key is the same admission exactly when its fingerprint
\* is: the group, the decision, the content and every commitment in every part - but not
\* the order they were listed in.
THEOREM SameAdmissionSamePromise ==
  ASSUME NEW a, NEW b, EscalationAdmits(a), EscalationAdmits(b),
         EscalationBatchKeyOf(a) = EscalationBatchKeyOf(b),
         EscalationFingerprint(a) = EscalationFingerprint(b)
  PROVE  /\ a.kind = b.kind /\ a.group = b.group /\ a.request = b.request /\ a.digest = b.digest
         /\ Listed(a.commitments) = Listed(b.commitments)
  <1> DEFINE A == Listed(a.commitments)
             B == Listed(b.commitments)
  <1>1. /\ A \subseteq EscalationCommitments /\ B \subseteq EscalationCommitments
        /\ a.kind \in EscalationKinds /\ b.kind \in EscalationKinds
        /\ RequestIDFits(a.kind, a.request) /\ RequestIDFits(b.kind, b.request)
    BY DEF EscalationAdmits
  <1>2. a.kind = b.kind /\ a.group = b.group /\ a.request = b.request
    BY <1>1, EscalationClaimsTellApart DEF EscalationBatchKeyOf
  <1>3. a.digest = b.digest /\ {EscalationMaterial(a, c) : c \in A} = {EscalationMaterial(b, c) : c \in B}
    <2> DEFINE MA == {EscalationMaterial(a, c) : c \in A}
               MB == {EscalationMaterial(b, c) : c \in B}
    <2>1. BatchFingerprint(a.digest, MA) = BatchFingerprint(b.digest, MB)
      BY DEF EscalationFingerprint
    <2> HIDE DEF MA, MB
    <2>2. a.digest = b.digest /\ MA = MB
      BY <2>1, FingerprintsHaveParts
    <2> QED BY <2>2 DEF MA, MB
  <1> HIDE DEF A, B
  <1>4. \A c \in A : \E d \in B : EscalationMaterial(a, c) = EscalationMaterial(b, d)
    BY <1>3
  <1>5. \A d \in B : \E c \in A : EscalationMaterial(a, c) = EscalationMaterial(b, d)
    BY <1>3
  <1>6. A \subseteq B
    BY <1>1, <1>4, EscalationMaterialsTellApart
  <1>7. B \subseteq A
    BY <1>1, <1>5, EscalationMaterialsTellApart
  <1> QED BY <1>2, <1>3, <1>6, <1>7 DEF A, B

\* A satellite follows the one card of its own admission that is in its channel, in its
\* slot.
THEOREM SatellitesFollowTheirCard ==
  ASSUME NEW b, EscalationAdmits(b), NEW c \in Listed(b.commitments), IsSatellite(c.target)
  PROVE  \E card \in Listed(b.commitments) :
           /\ card.target = [kind |-> "channel", ref |-> c.target.ref]
           /\ card.slot = c.slot /\ card.provider = "slack"
           /\ KeyOf(b, card) = ParentKey(b, c)
  <1> DEFINE i == [group |-> b.group, request |-> b.request, slot |-> c.slot,
                   provider |-> c.provider, target |-> [kind |-> "channel", ref |-> c.target.ref]]
  <1>1. PICK card \in Listed(b.commitments) : KeyOf(b, card) = ParentKey(b, c)
    BY DEF EscalationAdmits
  <1>2. /\ card \in EscalationCommitments /\ c \in EscalationCommitments
        /\ b.kind \in EscalationKinds /\ b.group \in Ids /\ RequestIDFits(b.kind, b.request)
    BY DEF EscalationAdmits
  <1>3. b.request \in Ids \cup {""}
    BY <1>2, KeysAssumption DEF RequestIDFits
  <1>4. IntentOf(b, card) \in EscalationIntents(b.kind)
    <2>1. card.slot \in Slots /\ card.provider \in Ids /\ card.target \in TargetsOf(EscalationTargets)
      BY <1>2 DEF EscalationCommitments
    <2> QED BY <1>2, <1>3, <2>1 DEF IntentOf, EscalationIntents
  <1>5. i \in EscalationIntents(b.kind)
    <2>1. c.slot \in Slots /\ c.provider \in Ids /\ c.target.ref \in Ids
      BY <1>2 DEF EscalationCommitments, TargetsOf
    <2>2. [kind |-> "channel", ref |-> c.target.ref] \in TargetsOf(EscalationTargets)
      BY <2>1 DEF TargetsOf, EscalationTargets
    <2> QED BY <1>2, <1>3, <2>1, <2>2 DEF EscalationIntents
  <1>6. EscalationKey(b.kind, b.version, IntentOf(b, card)) = EscalationKey(b.kind, b.version, i)
    BY <1>1 DEF KeyOf, ParentKey
  <1>7. IntentOf(b, card) = i
    <2> HIDE DEF i
    <2> QED BY <1>2, <1>4, <1>5, <1>6, EscalationKeysTellApart
  <1>8. card.target = [kind |-> "channel", ref |-> c.target.ref] /\ card.slot = c.slot
        /\ card.provider = c.provider
    BY <1>7 DEF IntentOf
  <1>9. c.provider = "slack"
    BY <1>2 DEF EscalationCommitments, CommitmentFits
  <1> QED BY <1>1, <1>8, <1>9

------------------------------------------------------------------------------
(* Intake: the inductive invariant.                                        *)

Words == {"absent", "firing", "resolved"}

Statuses == {"new", "processing", "triggered", "acknowledged", "resolved"}

\* Each step of a promised policy is answered: EveryStepIsAnswered of one batch.
StepsAnswered(batch) ==
  LET PromisedTo(step, to) ==
        \E c \in batch.promised :
          Key(c) = <<<<"policy", step.index>>, step.provider, to.kind, to.ref>>
      Answered(m) == \E u \in batch.unpromised : u.step = m
  IN /\ Coherent(batch.promised)
     /\ \A m \in DOMAIN batch.policy :
          \/ /\ Recipients(batch.policy[m], batch.duty) # {}
             /\ \A to \in Recipients(batch.policy[m], batch.duty) : PromisedTo(batch.policy[m], to)
          \/ Answered(m)

\* The columns of a row of alert_groups.
IsGroup(g) ==
  /\ DOMAIN g = {"status", "alerts", "stale", "version", "batch", "owed", "picture", "final"}
  /\ g.status \in Statuses /\ g.alerts \in [Alert -> Words]
  /\ g.version \in Nat /\ g.final \in BOOLEAN

\* The last picture is of an incident that is over; no other is ever behind.
PictureKept(g) ==
  /\ g.final => g.status = "resolved"
  /\ g.batch # NoBatch => g.picture = Picture(g)

\* What is owed goes out for an open incident, and to nobody who is gone.
OwedKept(g, gone) ==
  /\ g.owed # {} => g.status \in {"processing", "triggered"}
  /\ \A key \in g.owed : ~(key[3] = "user" /\ key[4] \in gone)

AnswersKept(g) == g.batch # NoBatch => StepsAnswered(g.batch)

GroupKept(g, gone) == IsGroup(g) /\ PictureKept(g) /\ OwedKept(g, gone) /\ AnswersKept(g)

\* Whatever a message shows of an incident does not change under one version.
Follows(g, h) == g.version <= h.version /\ (h.version = g.version => Picture(h) = Picture(g))

IsRows(f) == \E k \in Nat : f = [n \in 1..k |-> f[n]]

RowsKept == IsRows(incidents) /\ \A n \in DOMAIN incidents : GroupKept(incidents[n], erased)

OneOpen == \A m, n \in Open : m = n

ReportKept == reported \in [Alert -> Words]

\* A request between its transactions still has its payload.
RequestsKept ==
  /\ DOMAIN requests = Request
  /\ \A r \in Request : requests[r].pc # "idle" =>
       DOMAIN requests[r] = {"pc", "payload"} /\ requests[r].payload \in Payload

\* A plan was made from a version the incident has or had; if it still has it, what
\* the plan froze is what the incident shows.
PlanKept(x, rows) == x.pc = "built" =>
  /\ x.incident \in DOMAIN rows
  /\ x.version <= rows[x.incident].version
  /\ x.version = rows[x.incident].version => x.batch.frozen = Picture(rows[x.incident])
  /\ x.batch.promised = Planned(x.batch.policy, x.batch.duty).promised
  /\ x.batch.unpromised = Planned(x.batch.policy, x.batch.duty).unpromised
  /\ x.version \in Nat

EnginesKept == DOMAIN engines = Engine /\ \A e \in Engine : PlanKept(engines[e], incidents)

PeopleKept ==
  /\ DOMAIN people = Person
  /\ \A p \in Person : people[p].pc # "idle" => people[p].incident \in DOMAIN incidents

IntakeInv ==
  /\ RowsKept /\ OneOpen /\ ReportKept /\ HeldAsReported
  /\ RequestsKept /\ EnginesKept /\ PeopleKept

------------------------------------------------------------------------------
(* One row.                                                                *)

\* A picture is never the picture nobody took.
LEMMA PicturesAreTaken ==
  ASSUME NEW g, g.status \in Statuses
  PROVE  Picture(g) # NoPicture
  <1>1. Picture(g).status # "none"
    BY DEF Picture, Statuses
  <1> QED BY <1>1 DEF NoPicture

\* What a payload says of each alert.
LEMMA PayloadTyped ==
  ASSUME NEW p \in Payload
  PROVE  /\ p.snapshot \in BOOLEAN
         /\ p.says \in [Alert -> Words]
  BY IntakeAssumption DEF Words

\* merge.go: what fires after a merge, and what else it leaves alone.
LEMMA AppliedRow ==
  ASSUME NEW g, IsGroup(g), NEW p \in Payload
  PROVE  /\ IsGroup(Applied(g, p))
         /\ \A f \in {"status", "version", "batch", "owed", "picture", "final"} : Applied(g, p)[f] = g[f]
         /\ \A a \in Alert : Applied(g, p).alerts[a] = "firing" <=>
              p.says[a] = "firing" \/ (p.says[a] = "absent" /\ g.alerts[a] = "firing")
  <1> DEFINE merged == [a \in Alert |-> IF a \in Relevant(g, p) THEN p.says[a] ELSE g.alerts[a]]
             silent == {a \in Alert : p.snapshot /\ merged[a] = "firing" /\ p.says[a] = "absent"}
             h == Applied(g, p)
  <1>1. p.says \in [Alert -> Words]
    BY PayloadTyped
  <1>2. merged \in [Alert -> Words]
    BY <1>1 DEF IsGroup
  <1>3. h = [g EXCEPT !.alerts = merged, !.stale = (g.stale \ Relevant(g, p)) \cup silent]
    BY DEF Applied
  <1> HIDE DEF merged, silent, h
  <1>4. DOMAIN h = DOMAIN g
    BY <1>3
  <1>5. h.alerts = merged
    BY <1>3 DEF IsGroup
  <1>6. \A f \in {"status", "version", "batch", "owed", "picture", "final"} : h[f] = g[f]
    BY <1>3 DEF IsGroup
  <1>7. IsGroup(h)
    BY <1>2, <1>4, <1>5, <1>6 DEF IsGroup
  <1>8. \A a \in Alert : h.alerts[a] = "firing" <=>
          p.says[a] = "firing" \/ (p.says[a] = "absent" /\ g.alerts[a] = "firing")
    <2> SUFFICES ASSUME NEW a \in Alert
                 PROVE  h.alerts[a] = "firing" <=>
                          p.says[a] = "firing" \/ (p.says[a] = "absent" /\ g.alerts[a] = "firing")
      OBVIOUS
    <2>1. h.alerts[a] = IF a \in Relevant(g, p) THEN p.says[a] ELSE g.alerts[a]
      BY <1>5 DEF merged
    <2>2. p.says[a] \in Words /\ g.alerts[a] \in Words
      BY <1>1 DEF IsGroup
    <2>3. a \in Relevant(g, p) <=> p.says[a] = "firing" \/ (p.says[a] = "resolved" /\ g.alerts[a] # "absent")
      BY DEF Relevant, Known
    <2> QED BY <2>1, <2>2, <2>3 DEF Words
  <1> QED BY <1>6, <1>7, <1>8 DEF h

\* setDesiredStateTx: whatever a row showed, an admitted one shows itself afterwards.
LEMMA ShownRow ==
  ASSUME NEW g, IsGroup(g), ~g.final, g.batch # NoBatch => g.picture # NoPicture
  PROVE  /\ IsGroup(Shown(g)) /\ PictureKept(Shown(g))
         /\ \A f \in {"status", "alerts", "stale", "version", "batch", "owed"} : Shown(g)[f] = g[f]
         /\ Picture(Shown(g)) = Picture(g)
  <1>1. CASE g.picture = NoPicture
    <2>1. Shown(g) = g
      BY <1>1 DEF Shown
    <2> QED BY <1>1, <2>1 DEF PictureKept, IsGroup
  <1>2. CASE g.picture # NoPicture
    <2> DEFINE h == Shown(g)
    <2>1. h = [g EXCEPT !.picture = Picture(g), !.final = g.status = "resolved"]
      BY <1>2 DEF Shown
    <2> HIDE DEF h
    <2>2. DOMAIN h = DOMAIN g
      BY <2>1
    <2>3. \A f \in {"status", "alerts", "stale", "version", "batch", "owed"} : h[f] = g[f]
      BY <2>1 DEF IsGroup
    <2>4. h.picture = Picture(g)
      BY <2>1 DEF IsGroup
    <2>5. h.final = (g.status = "resolved")
      BY <2>1, Zenon DEF IsGroup
    <2>6. Picture(h) = Picture(g)
      BY <2>3 DEF Picture
    <2>7. h.status = g.status /\ h.alerts = g.alerts /\ h.version = g.version
      BY <2>3
    <2>8. h.final \in BOOLEAN /\ (h.final => h.status = "resolved")
      BY <2>5, <2>7
    <2>9. IsGroup(h)
      BY <2>2, <2>7, <2>8 DEF IsGroup
    <2>10. PictureKept(h)
      BY <2>4, <2>6, <2>8 DEF PictureKept
    <2> QED BY <2>3, <2>6, <2>9, <2>10 DEF h
  <1> QED BY <1>1, <1>2

\* Moved: one version on, and nothing else.
LEMMA MovedRow ==
  ASSUME NEW g, IsGroup(g)
  PROVE  /\ IsGroup(Moved(g)) /\ Moved(g).version = g.version + 1
         /\ \A f \in {"status", "alerts", "stale", "batch", "owed", "picture", "final"} : Moved(g)[f] = g[f]
  <1> DEFINE h == Moved(g)
  <1>1. h = [g EXCEPT !.version = g.version + 1]
    BY DEF Moved
  <1> HIDE DEF h
  <1>2. DOMAIN h = DOMAIN g /\ h.version = g.version + 1
    BY <1>1 DEF IsGroup
  <1>3. \A f \in {"status", "alerts", "stale", "batch", "owed", "picture", "final"} : h[f] = g[f]
    BY <1>1 DEF IsGroup
  <1>4. h.status = g.status /\ h.alerts = g.alerts
    BY <1>3
  <1>5. h.final \in BOOLEAN
    <2>1. h.final = g.final
      BY <1>3
    <2> QED BY <2>1 DEF IsGroup
  <1>6. IsGroup(h)
    BY <1>2, <1>4, <1>5 DEF IsGroup
  <1> QED BY <1>2, <1>3, <1>6 DEF h

\* A row whose picture may still change.
MayShow(g) ==
  IsGroup(g) /\ ~g.final /\ (g.batch # NoBatch => g.picture # NoPicture) /\ AnswersKept(g)

Closed(g, status) == Shown(CalledOff(Moved([g EXCEPT !.status = status])))

\* The end of a row's open life: a status, a version on, nothing owed, the picture.
LEMMA ClosedRow ==
  ASSUME NEW g, MayShow(g), NEW status \in {"acknowledged", "resolved"}, NEW gone
  PROVE  LET h == Closed(g, status)
         IN /\ GroupKept(h, gone) /\ Follows(g, h)
            /\ h.status = status /\ h.alerts = g.alerts /\ h.version = g.version + 1
  <1> DEFINE g1 == [g EXCEPT !.status = status]
             g2 == Moved(g1)
             g3 == CalledOff(g2)
             h == Closed(g, status)
  <1>0. IsGroup(g) /\ ~g.final /\ (g.batch # NoBatch => g.picture # NoPicture) /\ AnswersKept(g)
    BY DEF MayShow
  <1>1. /\ DOMAIN g1 = DOMAIN g /\ g1.status = status
        /\ \A f \in {"alerts", "stale", "version", "batch", "owed", "picture", "final"} : g1[f] = g[f]
    BY <1>0 DEF IsGroup
  <1>2. IsGroup(g1)
    <2>1. g1.alerts = g.alerts /\ g1.version = g.version
      BY <1>1
    <2>2. g1.final \in BOOLEAN
      <3>1. g1.final = g.final
        BY <1>1
      <3> QED BY <1>0, <3>1 DEF IsGroup
    <2> QED BY <1>0, <1>1, <2>1, <2>2 DEF IsGroup, Statuses
  <1> HIDE DEF g1
  <1>3. /\ IsGroup(g2) /\ g2.version = g1.version + 1
        /\ \A f \in {"status", "alerts", "stale", "batch", "owed", "picture", "final"} : g2[f] = g1[f]
    BY <1>2, MovedRow
  <1> HIDE DEF g2
  <1>4. g3 = [g2 EXCEPT !.owed = {}]
    BY DEF CalledOff
  <1> HIDE DEF g3
  <1>5. /\ DOMAIN g3 = DOMAIN g2 /\ g3.owed = {}
        /\ \A f \in {"status", "alerts", "stale", "version", "batch", "picture", "final"} : g3[f] = g2[f]
    BY <1>3, <1>4 DEF IsGroup
  <1>6. /\ g3.status = status /\ g3.alerts = g.alerts /\ g3.version = g.version + 1
        /\ g3.batch = g.batch /\ g3.picture = g.picture
    BY <1>1, <1>3, <1>5
  <1>7. g3.final = g.final
    BY <1>1, <1>3, <1>5
  <1>8. IsGroup(g3)
    <2>1. g3.final \in BOOLEAN
      BY <1>0, <1>7 DEF IsGroup
    <2>2. g3.alerts = g2.alerts /\ g3.version = g2.version /\ g3.status = g2.status
      BY <1>5
    <2> QED BY <1>3, <1>5, <2>1, <2>2 DEF IsGroup
  <1>9. ~g3.final /\ (g3.batch # NoBatch => g3.picture # NoPicture)
    BY <1>0, <1>6, <1>7
  <1>10. h = Shown(g3)
    BY DEF Closed, g1, g2, g3
  <1> HIDE DEF h
  <1>11. /\ IsGroup(h) /\ PictureKept(h)
         /\ \A f \in {"status", "alerts", "stale", "version", "batch", "owed"} : h[f] = g3[f]
    BY <1>8, <1>9, <1>10, ShownRow
  <1>12. /\ h.status = status /\ h.alerts = g.alerts /\ h.version = g.version + 1
         /\ h.batch = g.batch /\ h.owed = {}
    BY <1>5, <1>6, <1>11
  <1>13. OwedKept(h, gone)
    BY <1>12 DEF OwedKept
  <1>14. AnswersKept(h)
    BY <1>0, <1>12 DEF AnswersKept
  <1>15. Follows(g, h)
    BY <1>0, <1>12 DEF Follows, IsGroup
  <1>16. GroupKept(h, gone)
    BY <1>11, <1>13, <1>14 DEF GroupKept
  <1> QED BY <1>12, <1>15, <1>16 DEF h

\* A row that is not over has no last picture, and an admitted one has a picture.
LEMMA OpenRow ==
  ASSUME NEW g, NEW gone, GroupKept(g, gone), g.status # "resolved"
  PROVE  MayShow(g)
  BY PicturesAreTaken DEF GroupKept, PictureKept, IsGroup, MayShow

\* ResolveAlertGroupAtomic and AckAlertGroupAtomic leave the alerts as they were; a
\* row that is over stays as it is.
LEMMA PressedRow ==
  ASSUME NEW g, NEW gone, GroupKept(g, gone), NEW p, NEW h, h \in {Ack(p, g), Resolve(p, g)}
  PROVE  /\ GroupKept(h, gone) /\ Follows(g, h) /\ h.alerts = g.alerts
         /\ g.status = "resolved" => h.status = "resolved"
  <1>1. CASE h = g
    BY <1>1 DEF Follows, GroupKept, IsGroup
  <1>2. CASE h # g
    <2>1. g.status # "resolved"
      BY <1>2 DEF Ack, Resolve, MayAcknowledge, MayResolve
    <2>2. MayShow(g)
      BY <2>1, OpenRow
    <2>3. PICK status \in {"acknowledged", "resolved"} : h = Closed(g, status)
      BY <1>2 DEF Ack, Resolve, Acknowledged, Resolved, Closed
    <2>4. /\ GroupKept(h, gone) /\ Follows(g, h)
          /\ h.status = status /\ h.alerts = g.alerts /\ h.version = g.version + 1
      BY <2>2, <2>3, ClosedRow
    <2> QED BY <2>1, <2>4
  <1> QED BY <1>1, <1>2

\* ApplyAlertmanagerUpdateAtomic: over once nothing fires, else the row that was, with
\* the news and the picture of it.
LEMMA UpdatedRow ==
  ASSUME NEW g, NEW gone, GroupKept(g, gone), g.status # "resolved", NEW p \in Payload,
         NEW h, h = Updated(g, p)
  PROVE  /\ GroupKept(h, gone) /\ Follows(g, h)
         /\ \A a \in Alert : h.alerts[a] = "firing" <=>
              p.says[a] = "firing" \/ (p.says[a] = "absent" /\ g.alerts[a] = "firing")
         /\ h.status = "resolved" <=> \A a \in Alert : h.alerts[a] # "firing"
  <1> DEFINE k == Applied(g, p)
  <1>1. IsGroup(g) /\ ~g.final /\ (g.batch # NoBatch => g.picture # NoPicture) /\ AnswersKept(g)
    BY OpenRow DEF MayShow
  <1>2. /\ IsGroup(k)
        /\ \A f \in {"status", "version", "batch", "owed", "picture", "final"} : k[f] = g[f]
        /\ \A a \in Alert : k.alerts[a] = "firing" <=>
             p.says[a] = "firing" \/ (p.says[a] = "absent" /\ g.alerts[a] = "firing")
    BY <1>1, AppliedRow
  <1>3. k.status = g.status /\ k.version = g.version /\ k.batch = g.batch /\ k.owed = g.owed
        /\ k.picture = g.picture
    BY <1>2
  <1>4. ~k.final
    <2>1. k.final = g.final
      BY <1>2
    <2> QED BY <1>1, <2>1
  <1>5. (k.batch # NoBatch => k.picture # NoPicture) /\ AnswersKept(k)
    BY <1>1, <1>3 DEF AnswersKept
  <1>6. AllResolved(k) <=> \A a \in Alert : k.alerts[a] # "firing"
    BY DEF AllResolved, Firing
  <1> HIDE DEF k
  <1>7. CASE AllResolved(k)
    <2>1. h = Closed(k, "resolved")
      BY <1>7 DEF Updated, Resolved, Closed, k
    <2>2. MayShow(k)
      BY <1>2, <1>4, <1>5 DEF MayShow
    <2>3. /\ GroupKept(h, gone)
          /\ h.status = "resolved" /\ h.alerts = k.alerts /\ h.version = k.version + 1
      BY <2>1, <2>2, ClosedRow
    <2>4. Follows(g, h)
      BY <1>1, <1>3, <2>3 DEF Follows, IsGroup
    <2> QED BY <1>2, <1>6, <1>7, <2>3, <2>4
  <1>8. CASE ~AllResolved(k) /\ k = g
    <2>1. h = g
      BY <1>8 DEF Updated, Merged, k
    <2>2. Follows(g, h)
      BY <1>1, <2>1 DEF Follows, IsGroup
    <2> QED BY <1>2, <1>6, <1>8, <2>1, <2>2
  <1>9. CASE ~AllResolved(k) /\ k # g
    <2> DEFINE m == Moved(k)
    <2>1. h = Shown(m)
      BY <1>9 DEF Updated, Merged, k
    <2>2. /\ IsGroup(m) /\ m.version = k.version + 1
          /\ \A f \in {"status", "alerts", "stale", "batch", "owed", "picture", "final"} : m[f] = k[f]
      BY <1>2, MovedRow
    <2> HIDE DEF m
    <2>3. m.status = g.status /\ m.alerts = k.alerts /\ m.batch = g.batch /\ m.owed = g.owed
          /\ m.picture = g.picture
      BY <1>3, <2>2
    <2>4. ~m.final
      <3>1. m.final = k.final
        BY <2>2
      <3> QED BY <1>4, <3>1
    <2>5. m.batch # NoBatch => m.picture # NoPicture
      BY <1>1, <2>3
    <2>6. /\ IsGroup(h) /\ PictureKept(h)
          /\ \A f \in {"status", "alerts", "stale", "version", "batch", "owed"} : h[f] = m[f]
      BY <2>1, <2>2, <2>4, <2>5, ShownRow
    <2>7. h.status = g.status /\ h.alerts = k.alerts /\ h.batch = g.batch /\ h.owed = g.owed
          /\ h.version = g.version + 1
      BY <1>3, <2>2, <2>3, <2>6
    <2>8. Follows(g, h)
      BY <1>1, <2>7 DEF Follows, IsGroup
    <2>9. OwedKept(h, gone) /\ AnswersKept(h)
      BY <2>7 DEF OwedKept, AnswersKept, GroupKept
    <2>10. GroupKept(h, gone)
      BY <2>6, <2>9 DEF GroupKept
    <2> QED BY <1>2, <1>6, <1>9, <2>7, <2>8, <2>10
  <1> QED BY <1>7, <1>8, <1>9

------------------------------------------------------------------------------
(* The plan.                                                               *)

\* commitments (plan.go): a step without a reason against it is promised, by a card of
\* its own, to everyone it names, and it names somebody.
LEMMA NoReasonAPromise ==
  ASSUME NEW steps, NEW onDuty, NEW m \in DOMAIN steps, Reasons(steps, onDuty, m) = {}
  PROVE  /\ Recipients(steps[m], onDuty) # {}
         /\ \A to \in Recipients(steps[m], onDuty) :
              \E c \in PromisedBy(steps, onDuty, m) :
                Key(c) = <<<<"policy", steps[m].index>>, steps[m].provider, to.kind, to.ref>>
  <1> DEFINE step == steps[m]
             all == Recipients(step, onDuty)
             again == Repeats(steps, onDuty, m)
  <1>1. Reasons(steps, onDuty, m) =
          {reason \in {"no_channel", "nobody_on_call", "no_target", "duplicate"} :
             /\ DeliversThrough(step.provider) <=> reason # "no_channel"
             /\ reason = "nobody_on_call" => all = {} /\ step.target = "schedule"
             /\ reason = "no_target" => all = {} /\ step.target # "schedule"
             /\ reason = "duplicate" => all \cap again # {}}
    BY DEF Reasons
  <1>2. PromisedBy(steps, onDuty, m) =
          IF ~DeliversThrough(step.provider) THEN {}
          ELSE UNION {WithSatellites(StepCard(step, target, Due(steps, m))) : target \in all \ again}
    BY DEF PromisedBy
  <1> HIDE DEF step, all, again
  <1>3. DeliversThrough(step.provider)
    <2> SUFFICES ASSUME ~DeliversThrough(step.provider) PROVE FALSE
      OBVIOUS
    <2>1. "no_channel" \in Reasons(steps, onDuty, m)
      BY <1>1
    <2> QED BY <2>1
  <1>4. all # {}
    <2> SUFFICES ASSUME all = {} PROVE FALSE
      OBVIOUS
    <2>1. CASE step.target = "schedule"
      <3>1. "nobody_on_call" \in Reasons(steps, onDuty, m)
        BY <1>1, <1>3, <2>1
      <3> QED BY <3>1
    <2>2. CASE step.target # "schedule"
      <3>1. "no_target" \in Reasons(steps, onDuty, m)
        BY <1>1, <1>3, <2>2
      <3> QED BY <3>1
    <2> QED BY <2>1, <2>2
  <1>5. all \cap again = {}
    <2> SUFFICES ASSUME all \cap again # {} PROVE FALSE
      OBVIOUS
    <2>1. "duplicate" \in Reasons(steps, onDuty, m)
      BY <1>1, <1>3
    <2> QED BY <2>1
  <1>6. ASSUME NEW to \in all
        PROVE  \E c \in PromisedBy(steps, onDuty, m) :
                 Key(c) = <<<<"policy", step.index>>, step.provider, to.kind, to.ref>>
    <2> DEFINE c == StepCard(step, to, Due(steps, m))
    <2>1. to \in all \ again
      BY <1>5
    <2>2. c \in WithSatellites(c)
      BY DEF WithSatellites
    <2>3. c \in PromisedBy(steps, onDuty, m)
      BY <1>2, <1>3, <2>1, <2>2
    <2>4. Key(c) = <<<<"policy", step.index>>, step.provider, to.kind, to.ref>>
      <3> DEFINE plain == [slot |-> <<"policy", step.index>>, provider |-> step.provider,
                           kind |-> to.kind, ref |-> to.ref, editable |-> step.shape = "channel",
                           due |-> Due(steps, m), expiry |-> NoExpiry, completion |-> "on_acceptance",
                           stops |-> ~step.continues]
      <3>1. Key(plain) = <<<<"policy", step.index>>, step.provider, to.kind, to.ref>>
        BY DEF Key
      <3>2. Key(CallOf(plain)) = Key(plain)
        BY DEF Key, CallOf
      <3>3. c = IF step.provider = "phone" THEN CallOf(plain) ELSE plain
        BY DEF StepCard
      <3> HIDE DEF plain, c
      <3>4. CASE step.provider = "phone"
        BY <3>1, <3>2, <3>3, <3>4
      <3>5. CASE step.provider # "phone"
        BY <3>1, <3>3, <3>5
      <3> QED BY <3>4, <3>5
    <2> QED BY <2>3, <2>4
  <1> QED BY <1>4, <1>6 DEF step, all

\* A plan that is coherent answers every step of the policy it was made of.
LEMMA PlansAnswer ==
  ASSUME NEW batch, Coherent(batch.promised),
         batch.promised = Planned(batch.policy, batch.duty).promised,
         batch.unpromised = Planned(batch.policy, batch.duty).unpromised
  PROVE  StepsAnswered(batch)
  <1> DEFINE steps == batch.policy
             onDuty == batch.duty
  <1>1. /\ batch.promised = FirehoseCards \cup UNION {PromisedBy(steps, onDuty, n) : n \in DOMAIN steps}
        /\ batch.unpromised =
             UNION {{[step |-> n, reason |-> reason] : reason \in Reasons(steps, onDuty, n)} : n \in DOMAIN steps}
    BY DEF Planned
  <1>2. ASSUME NEW m \in DOMAIN steps
        PROVE  \/ /\ Recipients(steps[m], onDuty) # {}
                  /\ \A to \in Recipients(steps[m], onDuty) : \E c \in batch.promised :
                       Key(c) = <<<<"policy", steps[m].index>>, steps[m].provider, to.kind, to.ref>>
               \/ \E u \in batch.unpromised : u.step = m
    <2>1. CASE Reasons(steps, onDuty, m) = {}
      <3>1. /\ Recipients(steps[m], onDuty) # {}
            /\ \A to \in Recipients(steps[m], onDuty) : \E c \in PromisedBy(steps, onDuty, m) :
                 Key(c) = <<<<"policy", steps[m].index>>, steps[m].provider, to.kind, to.ref>>
        BY <2>1, NoReasonAPromise
      <3>2. PromisedBy(steps, onDuty, m) \subseteq batch.promised
        BY <1>1
      <3> QED BY <3>1, <3>2
    <2>2. CASE Reasons(steps, onDuty, m) # {}
      <3>1. PICK reason \in Reasons(steps, onDuty, m) : TRUE
        BY <2>2
      <3> DEFINE u == [step |-> m, reason |-> reason]
      <3>2. u \in batch.unpromised
        BY <1>1, <3>1
      <3>3. u.step = m
        OBVIOUS
      <3> QED BY <3>2, <3>3
    <2> QED BY <2>1, <2>2
  <1> QED BY <1>2 DEF StepsAnswered

------------------------------------------------------------------------------
(* One row, taken by the engine, by a delivery, by an erasure.             *)

\* The row after each.
Taken(g, batch) ==
  [g EXCEPT !.batch = batch, !.picture = batch.frozen, !.owed = {Key(c) : c \in batch.promised},
            !.status = IF g.status = "new" THEN "processing" ELSE g.status]

Delivered(g, key) == [g EXCEPT !.status = "triggered", !.owed = g.owed \ {key}]

Forgotten(g, q) == [g EXCEPT !.owed = {key \in g.owed : ~(key[3] = "user" /\ key[4] = q)}]

\* submitEscalation: what a plan of the row's own version and of people who are there
\* leaves in it.
LEMMA AdmittedRow ==
  ASSUME NEW g, NEW gone, GroupKept(g, gone), NEW batch, StillWaiting(g),
         batch.frozen = Picture(g), StepsAnswered(batch), PeopleOf(batch) \cap gone = {},
         NEW h, h = Taken(g, batch)
  PROVE  /\ GroupKept(h, gone) /\ Follows(g, h) /\ h.alerts = g.alerts
         /\ h.status # "resolved"
  <1>1. IsGroup(g) /\ (g.final => g.status = "resolved")
    BY DEF GroupKept, PictureKept
  <1>2. /\ DOMAIN h = DOMAIN g /\ h.batch = batch /\ h.picture = batch.frozen
        /\ h.owed = {Key(c) : c \in batch.promised} /\ h.status = "processing"
    BY <1>1 DEF IsGroup, StillWaiting, Taken
  <1>3. h.alerts = g.alerts /\ h.stale = g.stale /\ h.version = g.version
    BY <1>1 DEF IsGroup, Taken
  <1>4. ~h.final
    <2>1. h.final = g.final
      BY <1>1 DEF IsGroup, Taken
    <2>2. ~g.final
      BY <1>1 DEF StillWaiting
    <2> QED BY <2>1, <2>2
  <1>5. h.final \in BOOLEAN
    <2>1. h.final = g.final
      BY <1>1 DEF IsGroup, Taken
    <2> QED BY <1>1, <2>1 DEF IsGroup
  <1>6. IsGroup(h)
    BY <1>1, <1>2, <1>3, <1>5 DEF IsGroup, Statuses
  <1>7. Picture(h) = Picture(g)
    BY <1>2, <1>3 DEF Picture, StillWaiting
  <1>8. PictureKept(h)
    BY <1>2, <1>4, <1>7 DEF PictureKept
  <1>9. OwedKept(h, gone)
    <2> SUFFICES ASSUME NEW key \in h.owed, key[3] = "user" PROVE key[4] \notin gone
      BY <1>2 DEF OwedKept
    <2>1. PICK c \in batch.promised : key = Key(c)
      BY <1>2
    <2>2. c.kind = "user" /\ key[4] = c.ref
      BY <2>1 DEF Key
    <2>3. c.ref \in PeopleOf(batch)
      BY <2>2 DEF PeopleOf
    <2> QED BY <2>2, <2>3
  <1>10. AnswersKept(h)
    BY <1>2 DEF AnswersKept
  <1>11. Follows(g, h)
    BY <1>1, <1>3, <1>7 DEF Follows, IsGroup
  <1> QED BY <1>2, <1>3, <1>6, <1>8, <1>9, <1>10, <1>11 DEF GroupKept

\* groupEffectsTx at the first success: triggered, and that much less to go out.
LEMMA DeliveredRow ==
  ASSUME NEW g, NEW gone, GroupKept(g, gone), g.status = "processing", NEW key,
         NEW h, h = Delivered(g, key)
  PROVE  /\ GroupKept(h, gone) /\ Follows(g, h) /\ h.alerts = g.alerts
         /\ h.status # "resolved"
  <1>1. IsGroup(g) /\ PictureKept(g) /\ OwedKept(g, gone) /\ AnswersKept(g)
    BY DEF GroupKept
  <1>2. /\ DOMAIN h = DOMAIN g /\ h.status = "triggered" /\ h.owed = g.owed \ {key}
        /\ h.alerts = g.alerts /\ h.stale = g.stale /\ h.version = g.version
        /\ h.batch = g.batch /\ h.picture = g.picture
    BY <1>1 DEF IsGroup, Delivered
  <1>3. ~h.final
    <2>1. h.final = g.final
      BY <1>1 DEF IsGroup, Delivered
    <2> QED BY <1>1, <2>1 DEF PictureKept
  <1>4. h.final \in BOOLEAN
    <2>1. h.final = g.final
      BY <1>1 DEF IsGroup, Delivered
    <2> QED BY <1>1, <2>1 DEF IsGroup
  <1>5. IsGroup(h)
    BY <1>1, <1>2, <1>4 DEF IsGroup, Statuses
  <1>6. Picture(h) = Picture(g)
    BY <1>2 DEF Picture
  <1>7. PictureKept(h)
    BY <1>1, <1>2, <1>3, <1>6 DEF PictureKept
  <1>8. OwedKept(h, gone)
    BY <1>1, <1>2 DEF OwedKept
  <1>9. AnswersKept(h)
    BY <1>1, <1>2 DEF AnswersKept
  <1>10. Follows(g, h)
    BY <1>1, <1>2, <1>6 DEF Follows, IsGroup
  <1> QED BY <1>2, <1>5, <1>7, <1>8, <1>9, <1>10 DEF GroupKept

\* Erase: what was owed to the person is owed no more, and the rest is as it was.
LEMMA ErasedRow ==
  ASSUME NEW g, NEW gone, GroupKept(g, gone), NEW q,
         NEW h, h = Forgotten(g, q)
  PROVE  /\ GroupKept(h, gone \cup {q}) /\ Follows(g, h) /\ h.alerts = g.alerts
         /\ h.status = g.status
  <1>1. IsGroup(g) /\ PictureKept(g) /\ OwedKept(g, gone) /\ AnswersKept(g)
    BY DEF GroupKept
  <1>2. /\ DOMAIN h = DOMAIN g /\ h.status = g.status
        /\ h.owed = {key \in g.owed : ~(key[3] = "user" /\ key[4] = q)}
        /\ h.alerts = g.alerts /\ h.stale = g.stale /\ h.version = g.version
        /\ h.batch = g.batch /\ h.picture = g.picture
    BY <1>1 DEF IsGroup, Forgotten
  <1>3. h.final = g.final
    BY <1>1 DEF IsGroup, Forgotten
  <1>4. h.final \in BOOLEAN
    BY <1>1, <1>3 DEF IsGroup
  <1>5. IsGroup(h)
    BY <1>1, <1>2, <1>4 DEF IsGroup
  <1>6. Picture(h) = Picture(g)
    BY <1>2 DEF Picture
  <1>7. h.final => h.status = "resolved"
    BY <1>1, <1>2, <1>3 DEF PictureKept
  <1>8. PictureKept(h)
    BY <1>1, <1>2, <1>6, <1>7 DEF PictureKept
  <1>9. OwedKept(h, gone \cup {q})
    BY <1>1, <1>2 DEF OwedKept
  <1>10. AnswersKept(h)
    BY <1>1, <1>2 DEF AnswersKept
  <1>11. Follows(g, h)
    BY <1>1, <1>2, <1>6 DEF Follows, IsGroup
  <1> QED BY <1>2, <1>5, <1>8, <1>9, <1>10, <1>11 DEF GroupKept

------------------------------------------------------------------------------
(* All rows.                                                               *)

\* The rows stay numbered from one, whichever of them is rewritten.
LEMMA RowsRewritten ==
  ASSUME NEW f, IsRows(f), NEW g, g = [n \in DOMAIN f |-> g[n]]
  PROVE  IsRows(g) /\ DOMAIN g = DOMAIN f
  <1>1. PICK k \in Nat : f = [n \in 1..k |-> f[n]]
    BY DEF IsRows
  <1>2. DOMAIN f = 1..k
    BY <1>1
  <1>3. g = [n \in 1..k |-> g[n]]
    BY <1>2
  <1> QED BY <1>1, <1>2, <1>3 DEF IsRows

\* A plan in an engine stays what it was: of an earlier version, or of the row as it is.
LEMMA PlanFollows ==
  ASSUME NEW x, NEW rows, NEW next, PlanKept(x, rows), DOMAIN rows \subseteq DOMAIN next,
         \A n \in DOMAIN rows : /\ Follows(rows[n], next[n])
                                /\ rows[n].version \in Nat /\ next[n].version \in Nat
  PROVE  PlanKept(x, next)
  <1> SUFFICES ASSUME x.pc = "built"
               PROVE  /\ x.incident \in DOMAIN next
                      /\ x.version <= next[x.incident].version
                      /\ x.version = next[x.incident].version =>
                           x.batch.frozen = Picture(next[x.incident])
                      /\ x.batch.promised = Planned(x.batch.policy, x.batch.duty).promised
                      /\ x.batch.unpromised = Planned(x.batch.policy, x.batch.duty).unpromised
                      /\ x.version \in Nat
    BY DEF PlanKept
  <1>1. /\ x.incident \in DOMAIN rows
        /\ x.version <= rows[x.incident].version
        /\ x.version = rows[x.incident].version => x.batch.frozen = Picture(rows[x.incident])
        /\ x.batch.promised = Planned(x.batch.policy, x.batch.duty).promised
        /\ x.batch.unpromised = Planned(x.batch.policy, x.batch.duty).unpromised
        /\ x.version \in Nat
    BY DEF PlanKept
  <1> DEFINE n == x.incident
  <1>2. /\ rows[n].version <= next[n].version
        /\ next[n].version = rows[n].version => Picture(next[n]) = Picture(rows[n])
        /\ rows[n].version \in Nat /\ next[n].version \in Nat
    BY <1>1 DEF Follows
  <1>3. x.version <= next[n].version
    BY <1>1, <1>2
  <1>4. x.version = next[n].version => x.batch.frozen = Picture(next[n])
    <2> SUFFICES ASSUME x.version = next[n].version PROVE x.batch.frozen = Picture(next[n])
      OBVIOUS
    <2>1. x.version = rows[n].version /\ next[n].version = rows[n].version
      BY <1>1, <1>2
    <2> QED BY <1>1, <1>2, <2>1
  <1> QED BY <1>1, <1>3, <1>4

\* A row rewritten as its own successor leaves every plan in an engine what it was.
LEMMA EnginesFollow ==
  ASSUME RowsKept, EnginesKept, RowsKept', DOMAIN incidents \subseteq DOMAIN incidents',
         \A n \in DOMAIN incidents : Follows(incidents[n], incidents'[n]), UNCHANGED engines
  PROVE  EnginesKept'
  <1>1. \A n \in DOMAIN incidents : incidents[n].version \in Nat /\ incidents'[n].version \in Nat
    BY DEF RowsKept, GroupKept, IsGroup
  <1>2. \A e \in Engine : PlanKept(engines[e], incidents)'
    <2> SUFFICES ASSUME NEW e \in Engine PROVE PlanKept(engines[e], incidents')
      BY DEF EnginesKept
    <2>1. PICK x : x = engines[e]
      OBVIOUS
    <2>2. PICK rows : rows = incidents
      OBVIOUS
    <2>3. PICK next : next = incidents'
      OBVIOUS
    <2>4. PlanKept(x, rows)
      BY <2>1, <2>2 DEF EnginesKept
    <2>5. PlanKept(x, next)
      BY <1>1, <2>2, <2>3, <2>4, PlanFollows
    <2> QED BY <2>1, <2>3, <2>5
  <1> QED BY <1>2 DEF EnginesKept

\* Alerts that stay what they are in rows that stay open or over are as reported.
LEMMA ReportFollows ==
  ASSUME HeldAsReported, OneOpen, DOMAIN incidents' = DOMAIN incidents, UNCHANGED reported,
         \A n \in DOMAIN incidents :
           /\ incidents'[n].alerts = incidents[n].alerts
           /\ incidents'[n].status = "resolved" <=> incidents[n].status = "resolved"
  PROVE  HeldAsReported' /\ OneOpen'
  <1>1. Open' = Open
    BY DEF Open, Terminal
  <1>2. \A n \in Open : Firing(incidents[n])' = Firing(incidents[n])
    BY DEF Open, Firing
  <1> QED BY <1>1, <1>2 DEF HeldAsReported, OneOpen

\* The rows after one of them was rewritten as its own successor.
LEMMA OneRowFollows ==
  ASSUME RowsKept, NEW n \in DOMAIN incidents, NEW h, incidents' = [incidents EXCEPT ![n] = h],
         GroupKept(h, erased), Follows(incidents[n], h), UNCHANGED erased
  PROVE  /\ RowsKept' /\ DOMAIN incidents' = DOMAIN incidents
         /\ \A m \in DOMAIN incidents : Follows(incidents[m], incidents'[m])
         /\ incidents'[n] = h
         /\ \A m \in DOMAIN incidents : m # n => incidents'[m] = incidents[m]
  <1>1. incidents' = [m \in DOMAIN incidents |-> incidents'[m]]
    OBVIOUS
  <1>2. IsRows(incidents') /\ DOMAIN incidents' = DOMAIN incidents
    BY <1>1, RowsRewritten DEF RowsKept
  <1>3. incidents'[n] = h /\ \A m \in DOMAIN incidents : m # n => incidents'[m] = incidents[m]
    OBVIOUS
  <1>4. \A m \in DOMAIN incidents : GroupKept(incidents'[m], erased)
    BY <1>3 DEF RowsKept
  <1>5. \A m \in DOMAIN incidents : incidents[m].version \in Nat
    BY DEF RowsKept, GroupKept, IsGroup
  <1>6. \A m \in DOMAIN incidents : Follows(incidents[m], incidents'[m])
    BY <1>3, <1>5 DEF Follows
  <1> QED BY <1>2, <1>3, <1>4, <1>6 DEF RowsKept

\* An invariant in parts, for the actions that leave most of them alone.
LEMMA IntakeInvParts ==
  ASSUME RowsKept', OneOpen', ReportKept', HeldAsReported', RequestsKept', EnginesKept', PeopleKept'
  PROVE  IntakeInv'
  BY DEF IntakeInv

------------------------------------------------------------------------------
(* The webhook.                                                            *)

\* A request that is answered, or that another transaction awaits.
LEMMA RequestMoves ==
  ASSUME RequestsKept, NEW r \in Request, NEW x, requests' = [requests EXCEPT ![r] = x],
         x.pc # "idle" => DOMAIN x = {"pc", "payload"} /\ x.payload \in Payload
  PROVE  RequestsKept'
  <1>1. DOMAIN requests' = Request
    BY DEF RequestsKept
  <1>2. \A s \in Request : requests'[s] = IF s = r THEN x ELSE requests[s]
    BY DEF RequestsKept
  <1> QED BY <1>1, <1>2 DEF RequestsKept

\* What is reported is a word for each alert again.
LEMMA HeardTyped ==
  ASSUME ReportKept, NEW p \in Payload
  PROVE  Heard(p) \in [Alert -> Words]
  BY PayloadTyped DEF Heard, ReportKept

\* ApplyAlertmanagerUpdateAtomic: the payload is in the one open incident, or was news of
\* nothing that fires.
LEMMA AbsorbedHolds ==
  ASSUME IntakeInv, NEW r \in Request, NEW p \in Payload, Open # {} \/ NothingFires(p),
         Absorbed(r, p), UNCHANGED <<engines, people, erased>>
  PROVE  IntakeInv'
  <1>0. RowsKept /\ OneOpen /\ ReportKept /\ HeldAsReported /\ RequestsKept /\ EnginesKept /\ PeopleKept
    BY DEF IntakeInv
  <1>1. /\ incidents' = [n \in DOMAIN incidents |->
                           IF n \in Open THEN Updated(incidents[n], p) ELSE incidents[n]]
        /\ reported' = Heard(p)
        /\ requests' = [requests EXCEPT ![r] = IdleRequest]
    BY DEF Absorbed
  <1>2. IsRows(incidents') /\ DOMAIN incidents' = DOMAIN incidents
    BY <1>0, <1>1, RowsRewritten DEF RowsKept
  <1>3. \A n \in DOMAIN incidents :
          incidents'[n] = IF n \in Open THEN Updated(incidents[n], p) ELSE incidents[n]
    BY <1>1
  <1>4. ASSUME NEW n \in DOMAIN incidents
        PROVE  GroupKept(incidents'[n], erased) /\ Follows(incidents[n], incidents'[n])
    <2>1. GroupKept(incidents[n], erased)
      BY <1>0 DEF RowsKept
    <2>2. CASE n \in Open
      <3>1. incidents[n].status # "resolved"
        BY <2>2 DEF Open, Terminal
      <3>2. PICK g : g = incidents[n]
        OBVIOUS
      <3>3. PICK h : h = Updated(g, p)
        OBVIOUS
      <3>4. GroupKept(h, erased) /\ Follows(g, h)
        BY <2>1, <3>1, <3>2, <3>3, UpdatedRow
      <3> QED BY <1>3, <2>2, <3>2, <3>3, <3>4
    <2>3. CASE n \notin Open
      BY <1>3, <2>1, <2>3 DEF Follows, GroupKept, IsGroup
    <2> QED BY <2>2, <2>3
  <1>5. RowsKept'
    BY <1>2, <1>4 DEF RowsKept
  <1>6. ASSUME NEW n \in Open
        PROVE  /\ \A a \in Alert : incidents'[n].alerts[a] = "firing" <=>
                    p.says[a] = "firing" \/ (p.says[a] = "absent" /\ incidents[n].alerts[a] = "firing")
               /\ incidents'[n].status = "resolved" <=> \A a \in Alert : incidents'[n].alerts[a] # "firing"
    <2>1. n \in DOMAIN incidents /\ incidents[n].status # "resolved" /\ GroupKept(incidents[n], erased)
      BY <1>0 DEF Open, Terminal, RowsKept
    <2>2. PICK g : g = incidents[n]
      OBVIOUS
    <2>3. PICK h : h = Updated(g, p)
      OBVIOUS
    <2>4. /\ \A a \in Alert : h.alerts[a] = "firing" <=>
               p.says[a] = "firing" \/ (p.says[a] = "absent" /\ g.alerts[a] = "firing")
          /\ h.status = "resolved" <=> \A a \in Alert : h.alerts[a] # "firing"
      BY <2>1, <2>2, <2>3, UpdatedRow
    <2>5. incidents'[n] = h
      BY <1>3, <2>1, <2>2, <2>3
    <2> QED BY <2>2, <2>4, <2>5
  <1>7. \A n \in DOMAIN incidents : n \notin Open => incidents'[n].status = "resolved"
    BY <1>3 DEF Open, Terminal
  <1>8. Open' = {n \in Open : \E a \in Alert : incidents'[n].alerts[a] = "firing"}
    BY <1>2, <1>6, <1>7 DEF Open, Terminal
  <1>9. OneOpen'
    BY <1>0, <1>8 DEF OneOpen
  <1>10. ReportKept'
    BY <1>0, <1>1, HeardTyped DEF ReportKept
  <1>11. p.says \in [Alert -> Words]
    BY PayloadTyped
  <1>12. ASSUME NEW a \in Alert
         PROVE  /\ reported'[a] = "firing" => \E n \in Open' : incidents'[n].alerts[a] = "firing"
                /\ reported'[a] = "resolved" => \A n \in Open' : incidents'[n].alerts[a] # "firing"
    <2>1. reported'[a] = IF p.says[a] = "absent" THEN reported[a] ELSE p.says[a]
      BY <1>1 DEF Heard
    <2>2. /\ reported[a] = "firing" => \E n \in Open : incidents[n].alerts[a] = "firing"
          /\ reported[a] = "resolved" => \A n \in Open : incidents[n].alerts[a] # "firing"
      BY <1>0 DEF HeldAsReported, Firing
    <2>3. CASE reported'[a] = "firing"
      <3>1. PICK n \in Open : p.says[a] = "firing" \/ (p.says[a] = "absent" /\ incidents[n].alerts[a] = "firing")
        BY <2>1, <2>2, <2>3 DEF NothingFires
      <3>2. incidents'[n].alerts[a] = "firing"
        BY <1>6, <3>1
      <3> QED BY <1>8, <2>3, <3>2
    <2>4. CASE reported'[a] = "resolved"
      <3>1. \A n \in Open : incidents'[n].alerts[a] # "firing"
        BY <1>6, <2>1, <2>2, <2>4
      <3> QED BY <1>8, <2>4, <3>1
    <2> QED BY <2>3, <2>4
  <1>13. HeldAsReported'
    BY <1>12 DEF HeldAsReported, Firing
  <1>14. RequestsKept'
    <2> DEFINE x == IdleRequest
    <2>1. x.pc = "idle"
      BY DEF IdleRequest
    <2> QED BY <1>0, <1>1, <2>1, RequestMoves
  <1>15. EnginesKept'
    BY <1>0, <1>2, <1>4, <1>5, EnginesFollow
  <1>16. PeopleKept'
    BY <1>0, <1>2 DEF PeopleKept
  <1> QED BY <1>5, <1>9, <1>10, <1>13, <1>14, <1>15, <1>16, IntakeInvParts

\* An action that writes no row and hears nothing.
LEMMA NoRowHolds ==
  ASSUME IntakeInv, UNCHANGED <<incidents, reported, erased>>,
         RequestsKept', EnginesKept', PeopleKept'
  PROVE  IntakeInv'
  <1>1. RowsKept' /\ OneOpen' /\ ReportKept' /\ HeldAsReported'
    BY DEF IntakeInv, RowsKept, OneOpen, Open, ReportKept, HeldAsReported
  <1> QED BY <1>1, IntakeInvParts

\* handleWebhook, up to its first transaction.
LEMMA ReceiveHolds ==
  ASSUME IntakeInv, NEW r \in Request, NEW p \in Payload, Receive(r, p)
  PROVE  IntakeInv'
  <1>1. UNCHANGED <<engines, people, erased>>
    BY DEF Receive, OnlyRequests
  <1>2. CASE Open # {} \/ NothingFires(p)
    <2>1. Absorbed(r, p)
      BY <1>2 DEF Receive
    <2> QED BY <1>1, <1>2, <2>1, AbsorbedHolds
  <1>3. CASE ~(Open # {} \/ NothingFires(p))
    <2> DEFINE x == [pc |-> "creating", payload |-> p]
    <2>1. requests' = [requests EXCEPT ![r] = x] /\ UNCHANGED <<incidents, reported>>
      BY <1>3 DEF Receive
    <2>2. DOMAIN x = {"pc", "payload"} /\ x.payload \in Payload
      OBVIOUS
    <2> HIDE DEF x
    <2>3. RequestsKept /\ EnginesKept /\ PeopleKept
      BY DEF IntakeInv
    <2>4. RequestsKept'
      BY <2>1, <2>2, <2>3, RequestMoves
    <2>5. EnginesKept' /\ PeopleKept'
      BY <1>1, <2>1, <2>3 DEF EnginesKept, PlanKept, PeopleKept
    <2> QED BY <1>1, <2>1, <2>4, <2>5, NoRowHolds
  <1> QED BY <1>2, <1>3

\* h is the rows of f and then x.
GrownBy(f, h, x) ==
  \E k \in Nat : /\ DOMAIN f = 1..k /\ DOMAIN h = 1..(k + 1)
                 /\ IsRows(h) /\ h[k + 1] = x
                 /\ \A n \in 1..k : h[n] = f[n]

\* A sequence is a function of its positions.
LEMMA SequencesAreRows ==
  ASSUME NEW S, NEW h \in Seq(S)
  PROVE  h \in [1..Len(h) -> S] /\ Len(h) \in Nat
  BY LenProperties

\* Rows with one more behind them.
LEMMA RowAppended ==
  ASSUME NEW f, IsRows(f), NEW x
  PROVE  GrownBy(f, Append(f, x), x)
  <1>1. PICK k \in Nat : f = [n \in 1..k |-> f[n]]
    BY DEF IsRows
  <1>2. DOMAIN f = 1..k
    BY <1>1
  <1>3. PICK S : S = {f[n] : n \in 1..k} \cup {x}
    OBVIOUS
  <1>4. f \in [1..k -> S] /\ x \in S
    BY <1>1, <1>3
  <1>5. f \in Seq(S)
    BY <1>4, SeqDef
  <1>6. Len(f) = k
    <2>1. DOMAIN f = 1..Len(f) /\ Len(f) \in Nat
      BY <1>5, LenProperties
    <2>2. PICK j \in Nat : j = Len(f)
      BY <2>1
    <2>3. 1..j = 1..k
      BY <1>2, <2>1, <2>2
    <2>4. j = k
      BY <2>3
    <2> QED BY <2>2, <2>4
  <1>7. PICK h : h = Append(f, x)
    OBVIOUS
  <1>8. h \in Seq(S) /\ Len(h) = k + 1 /\ h[k + 1] = x /\ \A n \in 1..k : h[n] = f[n]
    BY <1>4, <1>5, <1>6, <1>7, AppendProperties
  <1>9. h \in [1..(k + 1) -> S]
    BY <1>8, SequencesAreRows
  <1>10. IsRows(h)
    <2>1. PICK j \in Nat : j = k + 1
      OBVIOUS
    <2>2. h = [n \in 1..j |-> h[n]]
      BY <1>9, <2>1
    <2> QED BY <2>2 DEF IsRows
  <1>11. DOMAIN h = 1..(k + 1)
    BY <1>9
  <1>12. GrownBy(f, h, x)
    BY <1>2, <1>8, <1>10, <1>11 DEF GrownBy
  <1> QED BY <1>7, <1>12

\* A new incident holds nothing but what fires.
LEMMA OpenedRow ==
  ASSUME NEW p \in Payload, NEW gone
  PROVE  /\ GroupKept(Opened(p), gone) /\ Opened(p).status = "new"
         /\ \A a \in Alert : Opened(p).alerts[a] = "firing" <=> p.says[a] = "firing"
  <1> DEFINE h == Opened(p)
  <1>1. /\ DOMAIN h = {"status", "alerts", "stale", "version", "batch", "owed", "picture", "final"}
        /\ h.status = "new" /\ h.version = 0 /\ h.batch = NoBatch /\ h.owed = {} /\ h.final = FALSE
        /\ h.alerts = [a \in Alert |-> IF p.says[a] = "firing" THEN "firing" ELSE "absent"]
    BY DEF Opened
  <1> HIDE DEF h
  <1>2. h.alerts \in [Alert -> Words]
    BY <1>1 DEF Words
  <1>4. IsGroup(h)
    <2>1. h.final \in BOOLEAN
      BY <1>1
    <2>2. h.version \in Nat /\ h.status \in Statuses
      BY <1>1 DEF Statuses
    <2> QED BY <1>1, <1>2, <2>1, <2>2 DEF IsGroup
  <1>3. PictureKept(h) /\ OwedKept(h, gone) /\ AnswersKept(h)
    BY <1>1 DEF PictureKept, OwedKept, AnswersKept
  <1>5. \A a \in Alert : h.alerts[a] = "firing" <=> p.says[a] = "firing"
    BY <1>1
  <1> QED BY <1>1, <1>3, <1>4, <1>5 DEF GroupKept, h

\* CreateAlertGroupAtomic: the one open incident is the new one.
LEMMA CreateHolds ==
  ASSUME IntakeInv, NEW r \in Request, Create(r)
  PROVE  IntakeInv'
  <1>0. RowsKept /\ OneOpen /\ ReportKept /\ HeldAsReported /\ RequestsKept /\ EnginesKept /\ PeopleKept
    BY DEF IntakeInv
  <1>1. requests[r].payload \in Payload
    BY <1>0 DEF Create, RequestsKept
  <1>2. PICK p \in Payload : p = requests[r].payload
    BY <1>1
  <1>3. /\ incidents' = Append(incidents, Opened(p)) /\ reported' = Heard(p) /\ Open = {}
        /\ requests' = [requests EXCEPT ![r] = IdleRequest] /\ UNCHANGED <<engines, people, erased>>
    BY <1>2 DEF Create, OnlyRequests
  <1>4. PICK k \in Nat :
          /\ DOMAIN incidents = 1..k /\ DOMAIN incidents' = 1..(k + 1)
          /\ IsRows(incidents') /\ incidents'[k + 1] = Opened(p)
          /\ \A n \in 1..k : incidents'[n] = incidents[n]
    <2>1. PICK f : f = incidents
      OBVIOUS
    <2>2. PICK x : x = Opened(p)
      OBVIOUS
    <2>3. IsRows(f)
      BY <1>0, <2>1 DEF RowsKept
    <2>4. PICK h : h = Append(f, x)
      OBVIOUS
    <2>5. GrownBy(f, h, x)
      BY <2>3, <2>4, RowAppended, Zenon
    <2>6. incidents' = h
      BY <1>3, <2>1, <2>2, <2>4
    <2> QED BY <2>1, <2>2, <2>5, <2>6 DEF GrownBy
  <1>5. /\ GroupKept(Opened(p), erased) /\ Opened(p).status = "new"
        /\ \A a \in Alert : Opened(p).alerts[a] = "firing" <=> p.says[a] = "firing"
    BY OpenedRow
  <1>6. \A n \in DOMAIN incidents' : GroupKept(incidents'[n], erased)
    <2> SUFFICES ASSUME NEW n \in 1..(k + 1) PROVE GroupKept(incidents'[n], erased)
      BY <1>4
    <2>1. CASE n = k + 1
      BY <1>4, <1>5, <2>1
    <2>2. CASE n # k + 1
      <3>1. n \in 1..k
        BY <1>4, <2>2
      <3> QED BY <1>0, <1>4, <3>1 DEF RowsKept
    <2> QED BY <2>1, <2>2
  <1>7. RowsKept'
    BY <1>3, <1>4, <1>6 DEF RowsKept
  <1>8. Open' = {k + 1}
    <2>1. k + 1 \in Open'
      BY <1>4, <1>5 DEF Open, Terminal
    <2>2. ASSUME NEW n \in Open' PROVE n = k + 1
      <3> SUFFICES ASSUME n # k + 1 PROVE FALSE
        OBVIOUS
      <3>1. n \in 1..(k + 1) /\ incidents'[n].status # "resolved"
        BY <1>4, <2>2 DEF Open, Terminal
      <3>2. n \in 1..k
        BY <1>4, <3>1
      <3>3. n \in Open
        BY <1>4, <3>1, <3>2 DEF Open, Terminal
      <3> QED BY <1>3, <3>3
    <2> QED BY <2>1, <2>2
  <1>9. OneOpen'
    BY <1>8 DEF OneOpen
  <1>10. ReportKept'
    BY <1>0, <1>3, HeardTyped DEF ReportKept
  <1>11. p.says \in [Alert -> Words]
    BY PayloadTyped
  <1>12. HeldAsReported'
    <2> SUFFICES ASSUME NEW a \in Alert
                 PROVE  /\ reported'[a] = "firing" => incidents'[k + 1].alerts[a] = "firing"
                        /\ reported'[a] = "resolved" => incidents'[k + 1].alerts[a] # "firing"
      BY <1>8 DEF HeldAsReported, Firing
    <2>1. reported'[a] = IF p.says[a] = "absent" THEN reported[a] ELSE p.says[a]
      BY <1>3 DEF Heard
    <2>2. reported[a] # "firing"
      BY <1>0, <1>3 DEF HeldAsReported
    <2>3. incidents'[k + 1].alerts[a] = "firing" <=> p.says[a] = "firing"
      BY <1>4, <1>5
    <2> QED BY <2>1, <2>2, <2>3
  <1>13. RequestsKept'
    <2> DEFINE x == IdleRequest
    <2>1. x.pc = "idle"
      BY DEF IdleRequest
    <2> QED BY <1>0, <1>3, <2>1, RequestMoves
  <1>14. EnginesKept'
    <2>1. \A n \in DOMAIN incidents : Follows(incidents[n], incidents'[n])
      <3> SUFFICES ASSUME NEW n \in DOMAIN incidents PROVE Follows(incidents[n], incidents'[n])
        OBVIOUS
      <3>1. incidents'[n] = incidents[n] /\ incidents[n].version \in Nat
        BY <1>0, <1>4 DEF RowsKept, GroupKept, IsGroup
      <3> QED BY <3>1 DEF Follows
    <2>2. DOMAIN incidents \subseteq DOMAIN incidents'
      BY <1>4
    <2> QED BY <1>0, <1>3, <1>7, <2>1, <2>2, EnginesFollow
  <1>15. PeopleKept'
    BY <1>0, <1>3, <1>4 DEF PeopleKept
  <1> QED BY <1>7, <1>9, <1>10, <1>12, <1>13, <1>14, <1>15, IntakeInvParts

\* A request that is to be applied to the incident somebody else opened, or given up.
LEMMA OnlyRequestHolds ==
  ASSUME IntakeInv, NEW r \in Request, NEW x, requests' = [requests EXCEPT ![r] = x],
         x.pc # "idle" => DOMAIN x = {"pc", "payload"} /\ x.payload \in Payload,
         UNCHANGED <<incidents, reported, engines, people, erased>>
  PROVE  IntakeInv'
  <1>1. RequestsKept /\ EnginesKept /\ PeopleKept
    BY DEF IntakeInv
  <1>2. RequestsKept'
    BY <1>1, RequestMoves
  <1>3. EnginesKept' /\ PeopleKept'
    BY <1>1 DEF EnginesKept, PlanKept, PeopleKept
  <1> QED BY <1>2, <1>3, NoRowHolds

\* handleWebhook's second transaction, and every way it ends without one.
LEMMA RequestHolds ==
  ASSUME IntakeInv, NEW r \in Request, Handle(r) \/ RequestFails(r)
  PROVE  IntakeInv'
  <1> DEFINE x == IdleRequest
  <1>0. x.pc = "idle"
    BY DEF IdleRequest
  <1>1. CASE Create(r)
    BY <1>1, CreateHolds
  <1>2. CASE CreateDuplicate(r)
    <2> DEFINE y == [requests[r] EXCEPT !.pc = "again"]
    <2>1. requests' = [requests EXCEPT ![r] = y] /\ UNCHANGED <<incidents, reported, engines, people, erased>>
      BY <1>2 DEF CreateDuplicate, OnlyRequests
    <2>2. DOMAIN requests[r] = {"pc", "payload"} /\ requests[r].payload \in Payload
      BY <1>2 DEF CreateDuplicate, IntakeInv, RequestsKept
    <2>3. DOMAIN y = {"pc", "payload"} /\ y.payload \in Payload
      BY <2>2
    <2> HIDE DEF y
    <2> QED BY <2>1, <2>3, OnlyRequestHolds
  <1>3. CASE ApplyAgain(r) /\ Open # {}
    <2>1. requests[r].payload \in Payload
      BY <1>3 DEF ApplyAgain, IntakeInv, RequestsKept
    <2>2. Absorbed(r, requests[r].payload) /\ UNCHANGED <<engines, people, erased>>
      BY <1>3 DEF ApplyAgain, OnlyRequests
    <2> QED BY <1>3, <2>1, <2>2, AbsorbedHolds
  <1>4. CASE ApplyAgain(r) /\ Open = {}
    <2>1. requests' = [requests EXCEPT ![r] = x] /\ UNCHANGED <<incidents, reported, engines, people, erased>>
      BY <1>4 DEF ApplyAgain, OnlyRequests
    <2> QED BY <1>0, <2>1, OnlyRequestHolds
  <1>5. CASE RequestFails(r)
    <2>1. requests' = [requests EXCEPT ![r] = x] /\ UNCHANGED <<incidents, reported, engines, people, erased>>
      BY <1>5 DEF RequestFails, OnlyRequests
    <2> QED BY <1>0, <2>1, OnlyRequestHolds
  <1> QED BY <1>1, <1>2, <1>3, <1>4, <1>5 DEF Handle

------------------------------------------------------------------------------
(* The engine.                                                             *)

\* An engine that plans, or that is done with its plan.
LEMMA EngineMoves ==
  ASSUME EnginesKept, NEW e \in Engine, NEW x, engines' = [engines EXCEPT ![e] = x],
         PlanKept(x, incidents), UNCHANGED incidents
  PROVE  EnginesKept'
  <1>1. DOMAIN engines' = Engine
    BY DEF EnginesKept
  <1>2. \A d \in Engine : engines'[d] = IF d = e THEN x ELSE engines[d]
    BY DEF EnginesKept
  <1>3. ASSUME NEW d \in Engine PROVE PlanKept(engines'[d], incidents)
    <2>1. CASE d = e
      BY <1>2, <2>1
    <2>2. CASE d # e
      BY <1>2, <2>2 DEF EnginesKept
    <2> QED BY <2>1, <2>2
  <1> QED BY <1>1, <1>3 DEF EnginesKept

\* An engine that is idle keeps no plan.
LEMMA IdlePlan ==
  ASSUME NEW rows
  PROVE  PlanKept(IdleEngine, rows)
  BY DEF PlanKept, IdleEngine

\* buildPlan: the plan is of the version and of the picture it was read with.
LEMMA BuildPlanHolds ==
  ASSUME IntakeInv, NEW e \in Engine, NEW n \in DOMAIN incidents, BuildPlan(e, n)
  PROVE  IntakeInv'
  <1>0. RowsKept /\ RequestsKept /\ EnginesKept /\ PeopleKept
    BY DEF IntakeInv
  <1> DEFINE batch == [promised |-> Planned(policy, duty).promised,
                       unpromised |-> Planned(policy, duty).unpromised,
                       frozen |-> Picture(incidents[n]), policy |-> policy, duty |-> duty]
             x == [pc |-> "built", incident |-> n, version |-> incidents[n].version, batch |-> batch]
  <1>1. /\ engines' = [engines EXCEPT ![e] = x]
        /\ UNCHANGED <<incidents, reported, requests, people, erased>>
    BY DEF BuildPlan, OnlyEngine
  <1>2. incidents[n].version \in Nat
    BY <1>0 DEF RowsKept, GroupKept, IsGroup
  <1>3. PlanKept(x, incidents)
    BY <1>2 DEF PlanKept
  <1> HIDE DEF x
  <1>4. EnginesKept'
    BY <1>0, <1>1, <1>3, EngineMoves
  <1>5. RequestsKept' /\ PeopleKept'
    BY <1>0, <1>1 DEF RequestsKept, PeopleKept
  <1> QED BY <1>1, <1>4, <1>5, NoRowHolds

\* An engine that gives up, and a submission that is answered otherwise than "created".
LEMMA PlanDroppedHolds ==
  ASSUME IntakeInv, NEW e \in Engine, engines' = [engines EXCEPT ![e] = IdleEngine],
         UNCHANGED <<incidents, reported, requests, people, erased>>
  PROVE  IntakeInv'
  <1>1. RequestsKept /\ EnginesKept /\ PeopleKept
    BY DEF IntakeInv
  <1>2. PICK x : x = IdleEngine
    OBVIOUS
  <1>3. PlanKept(x, incidents)
    BY <1>2, IdlePlan
  <1>4. EnginesKept'
    BY <1>1, <1>2, <1>3, EngineMoves
  <1>5. RequestsKept' /\ PeopleKept'
    BY <1>1 DEF RequestsKept, PeopleKept
  <1> QED BY <1>4, <1>5, NoRowHolds

\* submitEscalation creates only for a row no plan was made of, that waits, that the plan
\* is current for, and for people who are there.
LEMMA CreatedMeans ==
  ASSUME NEW e \in Engine, NEW g, Outcome(e, g) = "created"
  PROVE  /\ Admissible(engines[e].batch) /\ LockRecipients(engines[e].batch) = {}
         /\ StillWaiting(g) /\ SourceIsCurrent(e, g)
  BY DEF Outcome

\* submitEscalation.
LEMMA SubmitHolds ==
  ASSUME IntakeInv, NEW e \in Engine, Submit(e)
  PROVE  IntakeInv'
  <1>0. RowsKept /\ OneOpen /\ ReportKept /\ HeldAsReported /\ RequestsKept /\ EnginesKept /\ PeopleKept
    BY DEF IntakeInv
  <1>1. /\ engines[e].pc = "built" /\ engines' = [engines EXCEPT ![e] = IdleEngine]
        /\ UNCHANGED <<reported, requests, people, erased>>
    BY DEF Submit, OnlyEngine
  <1>2. PICK n : n = engines[e].incident
    OBVIOUS
  <1>3. PICK batch : batch = engines[e].batch
    OBVIOUS
  <1>4. /\ n \in DOMAIN incidents
        /\ engines[e].version = incidents[n].version => batch.frozen = Picture(incidents[n])
        /\ batch.promised = Planned(batch.policy, batch.duty).promised
        /\ batch.unpromised = Planned(batch.policy, batch.duty).unpromised
    BY <1>0, <1>1, <1>2, <1>3 DEF EnginesKept, PlanKept
  <1>5. PICK g : g = incidents[n]
    OBVIOUS
  <1>6. GroupKept(g, erased)
    BY <1>0, <1>4, <1>5 DEF RowsKept
  <1>7. CASE Outcome(e, g) = "created"
    <2>1. /\ Admissible(batch) /\ PeopleOf(batch) \cap erased = {}
          /\ StillWaiting(g) /\ engines[e].version = g.version
      BY <1>3, <1>7, CreatedMeans DEF LockRecipients, SourceIsCurrent
    <2>2. batch.frozen = Picture(g)
      BY <1>4, <1>5, <2>1
    <2>3. Coherent(batch.promised)
      BY <2>1 DEF Admissible
    <2>4. StepsAnswered(batch)
      BY <1>4, <2>3, PlansAnswer
    <2>5. PICK h : h = Taken(g, batch)
      OBVIOUS
    <2>6. GroupKept(h, erased) /\ Follows(g, h) /\ h.alerts = g.alerts /\ h.status # "resolved"
      BY <1>6, <2>1, <2>2, <2>4, <2>5, AdmittedRow
    <2>7. Admitted(e, g) = h
      BY <1>3, <2>5 DEF Admitted, Taken
    <2>8. incidents' = [incidents EXCEPT ![n] = h]
      BY <1>2, <1>5, <1>7, <2>7 DEF Submit
    <2>9. /\ RowsKept' /\ DOMAIN incidents' = DOMAIN incidents
          /\ \A m \in DOMAIN incidents : Follows(incidents[m], incidents'[m])
          /\ incidents'[n] = h
          /\ \A m \in DOMAIN incidents : m # n => incidents'[m] = incidents[m]
      BY <1>0, <1>1, <1>4, <1>5, <2>6, <2>8, OneRowFollows
    <2>10. g.status # "resolved"
      BY <2>1 DEF StillWaiting
    <2>11. \A m \in DOMAIN incidents :
             /\ incidents'[m].alerts = incidents[m].alerts
             /\ incidents'[m].status = "resolved" <=> incidents[m].status = "resolved"
      BY <1>5, <2>6, <2>9, <2>10
    <2>12. HeldAsReported' /\ OneOpen'
      BY <1>0, <1>1, <2>9, <2>11, ReportFollows
    <2>13. EnginesKept'
      <3>1. \A d \in Engine : PlanKept(engines[d], incidents')
        <4> SUFFICES ASSUME NEW d \in Engine PROVE PlanKept(engines[d], incidents')
          OBVIOUS
        <4>1. PICK x : x = engines[d]
          OBVIOUS
        <4>2. PICK rows : rows = incidents
          OBVIOUS
        <4>3. PICK next : next = incidents'
          OBVIOUS
        <4>4. PlanKept(x, rows)
          BY <1>0, <4>1, <4>2 DEF EnginesKept
        <4>5. \A m \in DOMAIN rows : rows[m].version \in Nat /\ next[m].version \in Nat
          BY <1>0, <2>9, <4>2, <4>3 DEF RowsKept, GroupKept, IsGroup
        <4>6. PlanKept(x, next)
          BY <2>9, <4>2, <4>3, <4>4, <4>5, PlanFollows
        <4> QED BY <4>1, <4>3, <4>6
      <3>2. DOMAIN engines' = Engine /\ \A d \in Engine : engines'[d] = IF d = e THEN IdleEngine ELSE engines[d]
        BY <1>0, <1>1 DEF EnginesKept
      <3>3. \A d \in Engine : PlanKept(engines'[d], incidents')
        <4> SUFFICES ASSUME NEW d \in Engine PROVE PlanKept(engines'[d], incidents')
          OBVIOUS
        <4>1. PlanKept(IdleEngine, incidents')
          BY IdlePlan
        <4>2. CASE d = e
          BY <3>2, <4>1, <4>2
        <4>3. CASE d # e
          BY <3>1, <3>2, <4>3
        <4> QED BY <4>2, <4>3
      <3> QED BY <3>2, <3>3 DEF EnginesKept
    <2>14. ReportKept' /\ RequestsKept' /\ PeopleKept'
      BY <1>0, <1>1, <2>9 DEF ReportKept, RequestsKept, PeopleKept
    <2> QED BY <2>9, <2>12, <2>13, <2>14, IntakeInvParts
  <1>8. CASE Outcome(e, g) # "created"
    <2>1. UNCHANGED incidents
      BY <1>2, <1>5, <1>8 DEF Submit
    <2> QED BY <1>1, <2>1, PlanDroppedHolds
  <1> QED BY <1>7, <1>8

------------------------------------------------------------------------------
(* Deliveries, people and erasures.                                        *)

\* A row rewritten by nobody's plan and nobody's report: what it leaves of the rest.
LEMMA QuietRowHolds ==
  ASSUME IntakeInv, NEW n \in DOMAIN incidents, NEW h, incidents' = [incidents EXCEPT ![n] = h],
         GroupKept(h, erased), Follows(incidents[n], h), h.alerts = incidents[n].alerts,
         incidents[n].status = "resolved" => h.status = "resolved",
         reported' = IF h.status = "resolved" /\ incidents[n].status # "resolved"
                     THEN [a \in Alert |-> "absent"] ELSE reported,
         UNCHANGED <<requests, engines, erased>>, PeopleKept'
  PROVE  IntakeInv'
  <1>0. RowsKept /\ OneOpen /\ ReportKept /\ HeldAsReported /\ RequestsKept /\ EnginesKept
    BY DEF IntakeInv
  <1>1. /\ RowsKept' /\ DOMAIN incidents' = DOMAIN incidents
        /\ \A m \in DOMAIN incidents : Follows(incidents[m], incidents'[m])
        /\ incidents'[n] = h
        /\ \A m \in DOMAIN incidents : m # n => incidents'[m] = incidents[m]
    BY <1>0, OneRowFollows
  <1>2. EnginesKept'
    BY <1>0, <1>1, EnginesFollow
  <1>3. RequestsKept'
    BY <1>0 DEF RequestsKept
  <1>4. ReportKept'
    BY <1>0 DEF ReportKept, Words
  <1>5. CASE h.status = "resolved" /\ incidents[n].status # "resolved"
    <2>1. \A a \in Alert : reported'[a] = "absent"
      BY <1>5
    <2>2. HeldAsReported'
      BY <2>1 DEF HeldAsReported
    <2>3. Open' \subseteq Open
      BY <1>1, <1>5 DEF Open, Terminal
    <2>4. OneOpen'
      BY <1>0, <2>3 DEF OneOpen
    <2> QED BY <1>1, <1>2, <1>3, <1>4, <2>2, <2>4, IntakeInvParts
  <1>6. CASE ~(h.status = "resolved" /\ incidents[n].status # "resolved")
    <2>1. UNCHANGED reported
      BY <1>6
    <2>2. \A m \in DOMAIN incidents :
            /\ incidents'[m].alerts = incidents[m].alerts
            /\ incidents'[m].status = "resolved" <=> incidents[m].status = "resolved"
      BY <1>1, <1>6
    <2>3. HeldAsReported' /\ OneOpen'
      BY <1>0, <1>1, <2>1, <2>2, ReportFollows
    <2> QED BY <1>1, <1>2, <1>3, <1>4, <2>3, IntakeInvParts
  <1> QED BY <1>5, <1>6

\* groupEffectsTx.
LEMMA FirstDeliveryHolds ==
  ASSUME IntakeInv, NEW n \in DOMAIN incidents, FirstDelivery(n)
  PROVE  IntakeInv'
  <1>1. PICK key \in incidents[n].owed :
          incidents' = [incidents EXCEPT ![n].status = "triggered", ![n].owed = @ \ {key}]
    BY DEF FirstDelivery
  <1>2. incidents[n].status = "processing" /\ UNCHANGED <<reported, requests, engines, people, erased>>
    BY DEF FirstDelivery
  <1>3. PICK g : g = incidents[n]
    OBVIOUS
  <1>4. GroupKept(g, erased)
    BY <1>3 DEF IntakeInv, RowsKept
  <1>5. PICK h : h = Delivered(g, key)
    OBVIOUS
  <1>6. GroupKept(h, erased) /\ Follows(g, h) /\ h.alerts = g.alerts /\ h.status # "resolved"
    BY <1>2, <1>3, <1>4, <1>5, DeliveredRow
  <1>7. incidents' = [incidents EXCEPT ![n] = h]
    <2>1. DOMAIN g = {"status", "alerts", "stale", "version", "batch", "owed", "picture", "final"}
      BY <1>4 DEF GroupKept, IsGroup
    <2> QED BY <1>1, <1>3, <1>5, <2>1 DEF Delivered
  <1>8. DOMAIN incidents' = DOMAIN incidents
    BY <1>7
  <1>9. PeopleKept'
    BY <1>2, <1>8 DEF PeopleKept, IntakeInv
  <1>10. reported' = IF h.status = "resolved" /\ incidents[n].status # "resolved"
                     THEN [a \in Alert |-> "absent"] ELSE reported
    BY <1>2, <1>6
  <1>11. incidents[n].status = "resolved" => h.status = "resolved"
    BY <1>2
  <1> QED BY <1>2, <1>3, <1>6, <1>7, <1>9, <1>10, <1>11, QuietRowHolds

\* Service.Ack and Service.Resolve, up to their transaction.
LEMMA PressHolds ==
  ASSUME IntakeInv, NEW p \in Person, NEW n \in DOMAIN incidents, NEW button, Press(p, n, button)
  PROVE  IntakeInv'
  <1>1. /\ people' = [people EXCEPT ![p] = [pc |-> button, incident |-> n]]
        /\ UNCHANGED <<incidents, reported, requests, engines, erased>>
    BY DEF Press, OnlyPeople
  <1>2. RequestsKept /\ EnginesKept /\ PeopleKept
    BY DEF IntakeInv
  <1>3. PeopleKept'
    <2>1. DOMAIN people' = Person
      BY <1>1, <1>2 DEF PeopleKept
    <2>2. \A q \in Person : people'[q] = IF q = p THEN [pc |-> button, incident |-> n] ELSE people[q]
      BY <1>1, <1>2 DEF PeopleKept
    <2> QED BY <1>1, <1>2, <2>1, <2>2 DEF PeopleKept
  <1>4. RequestsKept' /\ EnginesKept'
    BY <1>1, <1>2 DEF RequestsKept, EnginesKept, PlanKept
  <1> QED BY <1>1, <1>3, <1>4, NoRowHolds

\* AckAlertGroupAtomic and ResolveAlertGroupAtomic.
LEMMA CarryOutHolds ==
  ASSUME IntakeInv, NEW p \in Person, CarryOut(p)
  PROVE  IntakeInv'
  <1>1. PICK n : n = people[p].incident
    OBVIOUS
  <1>2. n \in DOMAIN incidents
    BY <1>1 DEF CarryOut, IntakeInv, PeopleKept
  <1>3. PICK g : g = incidents[n]
    OBVIOUS
  <1>4. PICK h : h = IF people[p].pc = "ack" THEN Ack(p, g) ELSE Resolve(p, g)
    OBVIOUS
  <1>5. /\ incidents' = [incidents EXCEPT ![n] = h]
        /\ reported' = IF h.status = "resolved" /\ incidents[n].status # "resolved"
                       THEN [a \in Alert |-> "absent"] ELSE reported
        /\ people' = [people EXCEPT ![p] = IdlePerson]
        /\ UNCHANGED <<requests, engines, erased>>
    BY <1>1, <1>3, <1>4 DEF CarryOut, OnlyPeople
  <1>6. GroupKept(g, erased)
    BY <1>2, <1>3 DEF IntakeInv, RowsKept
  <1>7. h \in {Ack(p, g), Resolve(p, g)}
    BY <1>4
  <1>8. /\ GroupKept(h, erased) /\ Follows(g, h) /\ h.alerts = g.alerts
        /\ g.status = "resolved" => h.status = "resolved"
    BY <1>6, <1>7, PressedRow
  <1>9. PeopleKept'
    <2>1. PeopleKept
      BY DEF IntakeInv
    <2>2. DOMAIN people' = Person /\ DOMAIN incidents' = DOMAIN incidents
      BY <1>5, <2>1 DEF PeopleKept
    <2>3. \A q \in Person : people'[q] = IF q = p THEN IdlePerson ELSE people[q]
      BY <1>5, <2>1 DEF PeopleKept
    <2> QED BY <2>1, <2>2, <2>3 DEF PeopleKept, IdlePerson
  <1> QED BY <1>2, <1>3, <1>5, <1>8, <1>9, QuietRowHolds

\* Erase: every row at once.
LEMMA EraseHolds ==
  ASSUME IntakeInv, NEW q \in Leaver, Erase(q)
  PROVE  IntakeInv'
  <1>0. RowsKept /\ OneOpen /\ ReportKept /\ HeldAsReported /\ RequestsKept /\ EnginesKept /\ PeopleKept
    BY DEF IntakeInv
  <1>1. /\ erased' = erased \cup {q}
        /\ incidents' = [n \in DOMAIN incidents |->
             [incidents[n] EXCEPT !.owed = {key \in @ : ~(key[3] = "user" /\ key[4] = q)}]]
        /\ UNCHANGED <<reported, requests, engines, people>>
    BY DEF Erase
  <1>2. IsRows(incidents') /\ DOMAIN incidents' = DOMAIN incidents
    BY <1>0, <1>1, RowsRewritten DEF RowsKept
  <1>3. ASSUME NEW n \in DOMAIN incidents
        PROVE  /\ GroupKept(incidents'[n], erased') /\ Follows(incidents[n], incidents'[n])
               /\ incidents'[n].alerts = incidents[n].alerts
               /\ incidents'[n].status = incidents[n].status
    <2>1. PICK g : g = incidents[n]
      OBVIOUS
    <2>2. PICK h : h = Forgotten(g, q)
      OBVIOUS
    <2>3. GroupKept(g, erased)
      BY <1>0, <2>1 DEF RowsKept
    <2>4. /\ GroupKept(h, erased \cup {q}) /\ Follows(g, h) /\ h.alerts = g.alerts
          /\ h.status = g.status
      BY <2>2, <2>3, ErasedRow
    <2>5. incidents'[n] = h
      BY <1>1, <2>1, <2>2 DEF Forgotten
    <2> QED BY <1>1, <2>1, <2>4, <2>5
  <1>4. RowsKept'
    BY <1>2, <1>3 DEF RowsKept
  <1>5. EnginesKept'
    BY <1>0, <1>1, <1>2, <1>3, <1>4, EnginesFollow
  <1>6. HeldAsReported' /\ OneOpen'
    BY <1>0, <1>1, <1>2, <1>3, ReportFollows
  <1>7. ReportKept' /\ RequestsKept' /\ PeopleKept'
    BY <1>0, <1>1, <1>2 DEF ReportKept, RequestsKept, PeopleKept
  <1> QED BY <1>4, <1>5, <1>6, <1>7, IntakeInvParts

------------------------------------------------------------------------------
(* Intake: the theorems.                                                   *)

\* The invariant holds at the start: no incident, no request, no plan.
LEMMA IntakeStarts == Init => IntakeInv
  <1> SUFFICES ASSUME Init PROVE IntakeInv
    OBVIOUS
  <1>1. RowsKept /\ Open = {}
    <2>1. DOMAIN incidents = {} /\ incidents = [n \in 1..0 |-> incidents[n]]
      BY DEF Init
    <2>2. IsRows(incidents)
      BY <2>1 DEF IsRows
    <2> QED BY <2>1, <2>2 DEF RowsKept, Open
  <1>2. ReportKept /\ HeldAsReported /\ OneOpen
    BY <1>1 DEF Init, ReportKept, HeldAsReported, OneOpen, Words
  <1>3. RequestsKept
    BY DEF Init, RequestsKept, IdleRequest
  <1>4. EnginesKept
    BY IdlePlan DEF Init, EnginesKept
  <1>5. PeopleKept
    BY DEF Init, PeopleKept, IdlePerson
  <1> QED BY <1>1, <1>2, <1>3, <1>4, <1>5 DEF IntakeInv

\* The invariant survives every step.
LEMMA IntakeSteps == IntakeInv /\ [Next]_vars => IntakeInv'
  <1> SUFFICES ASSUME IntakeInv, [Next]_vars PROVE IntakeInv'
    OBVIOUS
  <1>1. ASSUME NEW r \in Request, NEW p \in Payload, Receive(r, p) PROVE IntakeInv'
    BY <1>1, ReceiveHolds
  <1>2. ASSUME NEW r \in Request, Handle(r) \/ RequestFails(r) PROVE IntakeInv'
    BY <1>2, RequestHolds
  <1>3. ASSUME NEW e \in Engine, NEW n \in DOMAIN incidents, BuildPlan(e, n) PROVE IntakeInv'
    BY <1>3, BuildPlanHolds
  <1>4. ASSUME NEW e \in Engine, Submit(e) PROVE IntakeInv'
    BY <1>4, SubmitHolds
  <1>5. ASSUME NEW e \in Engine, PlanFails(e) PROVE IntakeInv'
    BY <1>5, PlanDroppedHolds DEF PlanFails, OnlyEngine
  <1>6. ASSUME NEW n \in DOMAIN incidents, FirstDelivery(n) PROVE IntakeInv'
    BY <1>6, FirstDeliveryHolds
  <1>7. ASSUME NEW p \in Person, CarryOut(p) PROVE IntakeInv'
    BY <1>7, CarryOutHolds
  <1>8. ASSUME NEW p \in Person, NEW n \in DOMAIN incidents, NEW b, Press(p, n, b) PROVE IntakeInv'
    BY <1>8, PressHolds
  <1>9. ASSUME NEW d \in Duty, Handover(d) PROVE IntakeInv'
    <2>1. UNCHANGED <<incidents, reported, requests, engines, people, erased>>
      BY <1>9 DEF Handover
    <2>2. RequestsKept' /\ EnginesKept' /\ PeopleKept'
      BY <2>1 DEF IntakeInv, RequestsKept, EnginesKept, PlanKept, PeopleKept
    <2> QED BY <2>1, <2>2, NoRowHolds
  <1>10. ASSUME NEW q \in Leaver, Erase(q) PROVE IntakeInv'
    BY <1>10, EraseHolds
  <1>11. CASE UNCHANGED vars
    <2>1. UNCHANGED <<incidents, reported, requests, engines, people, erased>>
      BY <1>11 DEF vars
    <2>2. RequestsKept' /\ EnginesKept' /\ PeopleKept'
      BY <2>1 DEF IntakeInv, RequestsKept, EnginesKept, PlanKept, PeopleKept
    <2> QED BY <2>1, <2>2, NoRowHolds
  <1>12. CASE Next
    <2>1. CASE \E r \in Request : (\E p \in Payload : Receive(r, p)) \/ Handle(r) \/ RequestFails(r)
      BY <1>1, <1>2, <2>1
    <2>2. CASE \E e \in Engine : Tick(e) \/ PlanFails(e)
      BY <1>3, <1>4, <1>5, <2>2 DEF Tick
    <2>3. CASE \E n \in DOMAIN incidents : FirstDelivery(n)
      BY <1>6, <2>3
    <2>4. CASE \E p \in Person : CarryOut(p)
                 \/ \E n \in DOMAIN incidents, b \in {"ack", "resolve"} : Press(p, n, b)
      BY <1>7, <1>8, <2>4
    <2>5. CASE \E d \in Duty : Handover(d)
      BY <1>9, <2>5
    <2>6. CASE \E q \in Leaver : Erase(q)
      BY <1>10, <2>6
    <2> QED BY <1>12, <2>1, <2>2, <2>3, <2>4, <2>5, <2>6 DEF Next
  <1> QED BY <1>11, <1>12

\* The invariant of every behaviour of the intake.
LEMMA IntakeHolds == Spec => []IntakeInv
  BY IntakeStarts, IntakeSteps, PTL DEF Spec

\* ApplyAlertmanagerUpdateAtomic, CreateAlertGroupAtomic and the duplicate key of
\* handleWebhook: however many requests race, what Alertmanager was answered OK for is
\* what the open incident holds.
THEOREM ReportsAreHeld == Spec => []HeldAsReported
  <1>1. IntakeInv => HeldAsReported
    BY DEF IntakeInv
  <1> QED BY <1>1, IntakeHolds, PTL

\* submitEscalation, setDesiredStateTx, cancelIntentsAtTx and the erasure: an escalation is
\* admitted of the incident as it is, shows it as it becomes, and owes nothing for one
\* that is over or to a person who is gone.
THEOREM AdmissionsAreCurrent == Spec => []AdmittedIsCurrent
  <1>1. IntakeInv => AdmittedIsCurrent
    BY DEF IntakeInv, RowsKept, GroupKept, PictureKept, OwedKept,
           AdmittedIsCurrent, PictureIsCurrent, NothingOwedInVain
  <1> QED BY <1>1, IntakeHolds, PTL

\* buildPlan and commitments: whatever the policy and whoever is on duty, each step of an
\* admitted escalation is promised to everyone it names, or its reason is recorded.
THEOREM StepsAreAnswered == Spec => []EveryStepIsAnswered
  <1>1. IntakeInv => EveryStepIsAnswered
    <2> SUFFICES ASSUME IntakeInv, NEW n \in DOMAIN incidents, incidents[n].batch # NoBatch
                 PROVE  StepsAnswered(incidents[n].batch)
      BY DEF EveryStepIsAnswered, StepsAnswered
    <2> QED BY DEF IntakeInv, RowsKept, GroupKept, AnswersKept
  <1> QED BY <1>1, IntakeHolds, PTL
===============================================================================
