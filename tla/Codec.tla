-------------------------------- MODULE Codec ---------------------------------
(* The canonical encoding of control messages: the TLV writer and reader of   *)
(* cfr-core/src/codec.rs, and the formats op.rs, wire.rs and checkpoint.rs    *)
(* build on them.                                                             *)
(*                                                                            *)
(* A stream is a sequence of symbols: a type tag, a four-byte length, an      *)
(* eight-byte integer and a byte of content are one symbol each.  An          *)
(* identifier (32 bytes in the code, 16 for a media context) is one symbol of *)
(* content, a signature (64) two.  The hash of a stream is the stream.        *)
EXTENDS Integers, FiniteSets, Sequences, SequencesExt

CONSTANTS MAX_FIELD,        \* longest byte string
          MAX_ITEMS,        \* longest list or set
          MAX_U32,          \* largest u32; an integer symbol may be larger
          MAX_U16,          \* largest u16
          MAX_DEPS,         \* op.rs
          MAX_RECIPIENTS,
          MAX_BATCH,        \* wire.rs
          MAX_FRONTIER,     \* checkpoint.rs
          MAX_SIGNERS,
          Marker            \* CFR_WIRE_MARKER

T_BYTES == 1
T_U64 == 2
T_LIST == 4
T_SET == 5
PROTOCOL_ID == 1
ID == 1
SIG == 2

-----------------------------------------------------------------------------
(* Writer.                                                                    *)

WBytes(v) == <<T_BYTES, Len(v)>> \o v
WU64(v) == <<T_U64, v>>
WList(images) == <<T_LIST, Len(images)>> \o FlattenSeq(images)

\* The order of byte slices.
Less(s, t) ==
    \E k \in DOMAIN t : /\ \A j \in 1..(k - 1) : j <= Len(s) /\ s[j] = t[j]
                        /\ k > Len(s) \/ s[k] < t[k]

\* Writer::set: images sorted, each once.
WSet(images) == <<T_SET, Cardinality(images)>> \o FlattenSeq(SetToSortSeq(images, Less))

WIdList(ids) == WList([k \in DOMAIN ids |-> WBytes(ids[k])])
WIdSet(ids) == WSet({WBytes(x) : x \in ids})

-----------------------------------------------------------------------------
(* Reader: what is left of the stream, and the values read so far.            *)

Reader(buf) == [ok |-> TRUE, rest |-> buf, out |-> <<>>]
Failed == [ok |-> FALSE, rest |-> <<>>, out |-> <<>>]
Require(r, test) == IF r.ok THEN IF test THEN r ELSE Failed ELSE Failed

\* take: the first n symbols stand for value v.
Yield(r, n, v) == [ok |-> TRUE, rest |-> SubSeq(r.rest, n + 1, Len(r.rest)), out |-> Append(r.out, v)]

\* tag and len32: the stream continues with this type and a length in bounds.
Headed(r, tag, limit) == r.ok /\ Len(r.rest) >= 2 /\ r.rest[1] = tag /\ r.rest[2] <= limit

Finish(r) == Require(r, r.rest = <<>>)

RBytes(r) ==
    IF Headed(r, T_BYTES, MAX_FIELD) /\ Len(r.rest) >= 2 + r.rest[2]
    THEN Yield(r, 2 + r.rest[2], SubSeq(r.rest, 3, 2 + r.rest[2])) ELSE Failed
LastIs(r, Test(_)) == Require(r, Test(Last(r.out)))
RArray(r, n) == LastIs(RBytes(r), LAMBDA b : Len(b) = n)
RId(r) == RArray(r, ID)
RU64(r) ==
    IF r.ok /\ Len(r.rest) >= 2 /\ r.rest[1] = T_U64 THEN Yield(r, 2, r.rest[2]) ELSE Failed
RU32(r) == LastIs(RU64(r), LAMBDA v : v <= MAX_U32)

\* Behind the header of a list or set.
Inside(r) == Reader(SubSeq(r.rest, 3, Len(r.rest)))

\* What `inner` read, made one value, joins the values of r.
Pack(r, inner, Make(_)) == IF inner.ok THEN [inner EXCEPT !.out = Append(r.out, Make(@))] ELSE Failed
All(v) == v

\* after[k] is the reader behind item k.
RList(r, after) == IF Headed(r, T_LIST, MAX_ITEMS) THEN Pack(r, after[r.rest[2]], All) ELSE Failed

\* Fault: images may come in any order, and twice.
AscendingOrNot(images) == TRUE

Ascending(images) == \A k \in 2..Len(images) : Less(images[k - 1], images[k])

\* The images of the n items between the readers.
Images(after, n) ==
    LET width(k) == Len(after[k - 1].rest) - Len(after[k].rest) IN
    [k \in 1..n |-> SubSeq(after[k - 1].rest, 1, width(k))]

Sorted(r, after, n) ==
    IF after[n].ok THEN Require(Pack(r, after[n], All), Ascending(Images(after, n))) ELSE Failed

RSet(r, after) == IF Headed(r, T_SET, MAX_ITEMS) THEN Sorted(r, after, r.rest[2]) ELSE Failed

RIds(r) == LET after[k \in 0..MAX_ITEMS] == IF k = 0 THEN Inside(r) ELSE RId(after[k - 1]) IN after
RIdList(r) == RList(r, RIds(r))
RIdSet(r) == RSet(r, RIds(r))

\* The last value, a list or set, has at most `limit` elements.
AtMost(r, limit) == LastIs(r, LAMBDA v : Len(v) <= limit)
Within(r) == [r EXCEPT !.out = <<>>]

-----------------------------------------------------------------------------
(* Operations, op.rs.                                                         *)

K_ADD == 1
K_REMOVE == 2
K_PREKEYS == 3
K_CONTRIB == 4
K_ACCUSE == 5
K_PKREQ == 6

WSlice(s) ==
    WBytes(s.to)
      \o (IF s.establish = <<>> THEN WU64(0)
          ELSE WU64(1) \o WU64(s.establish[1]) \o WBytes(s.establish[2]))
      \o WU64(s.seq) \o WBytes(s.ct)

SliceOf(v) == [to |-> v[1], establish |-> SubSeq(v, 3, Len(v) - 2), seq |-> v[Len(v) - 1], ct |-> Last(v)]

\* Behind the flag that says whether the slice establishes a channel.
ReadEstablish(r) == IF r.ok /\ Last(r.out) = 1 THEN RId(RU32(r)) ELSE LastIs(r, LAMBDA flag : flag = 0)
ReadSlice(r) == Pack(r, RBytes(RU64(ReadEstablish(RU32(RId(Within(r)))))), SliceOf)
RSliceList(r) ==
    LET after[k \in 0..MAX_ITEMS] == IF k = 0 THEN Inside(r) ELSE ReadSlice(after[k - 1]) IN RList(r, after)

WBody(b) ==
    CASE b.kind \in {K_ADD, K_REMOVE} -> WBytes(b.who)
      [] b.kind = K_PREKEYS -> WU64(b.gen) \o WBytes(b.pk)
      [] b.kind = K_CONTRIB -> WBytes(b.cid) \o WIdSet(b.cparents) \o WIdList(b.recips)
                               \o WList([k \in DOMAIN b.slices |-> WSlice(b.slices[k])]) \o WBytes(b.view)
      [] b.kind = K_ACCUSE -> WBytes(b.who) \o WBytes(b.coid) \o WBytes(b.mk) \o WU64(b.seq)
      [] b.kind = K_PKREQ -> WIdList(b.targets)

ReadContrib(r) ==
    RId(AtMost(RSliceList(AtMost(RIdList(AtMost(RIdSet(RId(r)), MAX_DEPS)), MAX_RECIPIENTS)), MAX_RECIPIENTS))

BodyOf(kind, v) ==
    CASE kind \in {K_ADD, K_REMOVE} -> [kind |-> kind, who |-> v[1]]
      [] kind = K_PREKEYS -> [kind |-> kind, gen |-> v[1], pk |-> v[2]]
      [] kind = K_CONTRIB -> [kind |-> kind, cid |-> v[1], cparents |-> ToSet(v[2]),
                              recips |-> v[3], slices |-> v[4], view |-> v[5]]
      [] kind = K_ACCUSE -> [kind |-> kind, who |-> v[1], coid |-> v[2], mk |-> v[3], seq |-> v[4]]
      [] kind = K_PKREQ -> [kind |-> kind, targets |-> v[1]]

ReadFields(r, kind) ==
    CASE kind \in {K_ADD, K_REMOVE} -> RId(r)
      [] kind = K_PREKEYS -> RId(RU32(r))
      [] kind = K_CONTRIB -> ReadContrib(r)
      [] kind = K_ACCUSE -> RU64(RId(RId(RId(r))))
      [] kind = K_PKREQ -> AtMost(RIdList(r), MAX_RECIPIENTS)
      [] OTHER -> Failed

\* Body::decode; an unknown kind (Kind::from_u32) is refused.
ReadBody(r, kind) == Pack(r, ReadFields(Within(r), kind), LAMBDA v : BodyOf(kind, v))

\* Fault: the kind is not under the signature.
SignedImageUnkinded(op) ==
    WBytes(op.sid) \o WBytes(op.author) \o WIdSet(op.deps) \o WBody(op.body)

SignedImage(op) ==
    WBytes(op.sid) \o WU64(op.body.kind) \o WBytes(op.author) \o WIdSet(op.deps) \o WBody(op.body)

OpToWire(op) ==
    WBytes(op.sid) \o WU64(op.body.kind) \o WBytes(op.author) \o WIdSet(op.deps)
      \o WBody(op.body) \o WBytes(op.sig)
WOp(op) == WBytes(OpToWire(op))
WOpList(ops) == WList([k \in DOMAIN ops |-> WOp(ops[k])])

OpOf(v) == [sid |-> v[1], author |-> v[3], deps |-> ToSet(v[4]), body |-> v[5], sig |-> v[6]]

\* Op::read and from_wire, from a reader at the start.
ReadOp(r) ==
    LET body(q) == IF q.ok THEN ReadBody(q, q.out[2]) ELSE Failed IN
    Pack(r, Finish(RArray(body(AtMost(RIdSet(RId(RU32(RId(r)))), MAX_DEPS)), SIG)), OpOf)

\* An operation in a byte string of its own.
Nested(r, field, op) == IF op.ok THEN Pack(r, field, LAMBDA v : op.out[1]) ELSE Failed
ROp(r) ==
    LET within(field) == IF field.ok THEN Nested(r, field, ReadOp(Reader(Last(field.out)))) ELSE Failed IN
    within(RBytes(r))
ROpList(r) ==
    LET after[k \in 0..MAX_ITEMS] == IF k = 0 THEN Inside(r) ELSE ROp(after[k - 1]) IN RList(r, after)

-----------------------------------------------------------------------------
(* Messages, wire.rs and checkpoint.rs.                                       *)

M_OP == 1
M_WELCOME == 2
M_SYNC == 3
M_DELIVER == 4
M_NKREQ == 5
M_NKRESP == 6
M_CHECKPOINT == 7

\* KeyPackage::image, encode and decode.
PackageImage(p) == WBytes(p.ipk) \o WU64(p.gen) \o WBytes(p.prekey)
PackageToWire(p) == WBytes(p.ipk) \o WU64(p.gen) \o WBytes(p.prekey) \o WBytes(p.sig)
PackageOf(v) == [tag |-> 0, ipk |-> v[1], gen |-> v[2], prekey |-> v[3], sig |-> v[4]]
PackageFromWire(buf) == Pack(Reader(buf), Finish(RArray(RId(RU32(RId(Reader(buf)))), SIG)), PackageOf)

\* env_encode and env_decode.
WEnvelope(e) == WBytes(e.eph) \o WU64(e.gen) \o WBytes(e.ct)
EnvelopeOf(v) == [eph |-> v[1], gen |-> v[2], ct |-> v[3]]
REnvelope(r) == Pack(r, RBytes(RU32(RId(Within(r)))), EnvelopeOf)

\* ResumptionRecord::write, the bytes that are signed.
WRecord(c) ==
    WU64(c.protocol) \o WBytes(c.previous) \o WBytes(c.context) \o WIdSet(c.frontier)
      \o WBytes(c.root) \o WU64(c.epoch) \o WBytes(c.next) \o WU64(c.profile) \o WU64(c.capabilities)

\* ResumptionRecord::validate.
ValidRecord(c) ==
    /\ c.protocol = PROTOCOL_ID /\ c.previous # c.next /\ c.epoch # 0
    /\ c.frontier # {} /\ Cardinality(c.frontier) <= MAX_FRONTIER
    /\ c.capabilities % 8 = 7

RecordOf(v) ==
    [protocol |-> v[1], previous |-> v[2], context |-> v[3], frontier |-> ToSet(v[4]),
     root |-> v[5], epoch |-> v[6], next |-> v[7], profile |-> v[8], capabilities |-> v[9]]

RProtocol(r) == LastIs(RU64(r), LAMBDA v : v <= MAX_U16)
RProfile(r) == LastIs(RU64(r), LAMBDA v : v \in {1, 2})
ReadRecord(r) ==
    LastIs(Pack(r, RU64(RProfile(RId(RU64(RId(RIdSet(RId(RId(RProtocol(Within(r)))))))))), RecordOf),
           ValidRecord)

RApproval(r) == Pack(r, RArray(RId(Within(r)), SIG), All)
RApprovalList(r) ==
    LET after[k \in 0..MAX_ITEMS] == IF k = 0 THEN Inside(r) ELSE RApproval(after[k - 1]) IN RList(r, after)

\* CheckpointCertificate::write; the signatures are a map ordered by signer.
WCertificate(c) ==
    WRecord(c.record)
      \o WList(SetToSortSeq({WBytes(a[1]) \o WBytes(a[2]) : a \in c.approvals}, Less))

\* Fault: an approval is taken as it comes.
AddedUnverified(approvals, image, signed) == Cardinality({a[1] : a \in ToSet(approvals)}) = Len(approvals)

\* add_signature for each: genuine, and no signer twice.
Added(approvals, image, signed) ==
    /\ \A a \in ToSet(approvals) : <<a[1], image, a[2]>> \in signed
    /\ Cardinality({a[1] : a \in ToSet(approvals)}) = Len(approvals)

\* CheckpointCertificate::read.
CertificateOf(v) == [record |-> v[1], approvals |-> ToSet(v[2])]
RCertificate(r, signed) ==
    LET genuine(q) == Require(q, Added(q.out[2], WRecord(q.out[1]), signed)) IN
    Pack(r, genuine(AtMost(RApprovalList(ReadRecord(Within(r))), MAX_SIGNERS)), CertificateOf)

\* Message::to_wire.
ToWire(m) ==
    WU64(Marker) \o WU64(PROTOCOL_ID) \o WU64(m.tag) \o
    CASE m.tag = M_OP -> WOp(m.op)
      [] m.tag = M_WELCOME -> WBytes(m.sid) \o WBytes(m.from) \o WEnvelope(m.sealed)
                                \o WOpList(m.history) \o WIdSet(m.pruned)
      [] m.tag = M_SYNC -> WBytes(m.from) \o WIdSet(m.heads)
      [] m.tag = M_DELIVER -> WOpList(m.history) \o WIdSet(m.pruned)
      [] m.tag = M_NKREQ -> WBytes(m.from) \o WIdSet(m.nodes)
      [] m.tag = M_NKRESP -> WBytes(m.from) \o WEnvelope(m.sealed)
      [] m.tag = M_CHECKPOINT -> WCertificate(m.certificate)

\* Fault: one operation too many is let through.
BatchWide(r) == AtMost(r, MAX_BATCH + 1)

Batch(r) == AtMost(r, MAX_BATCH)

\* The fields of a message and the message they make.
ReadMessage(r, tag, signed) ==
    CASE tag = M_OP -> ROp(r)
      [] tag = M_WELCOME -> Batch(RIdSet(Batch(ROpList(REnvelope(RId(RId(r)))))))
      [] tag \in {M_SYNC, M_NKREQ} -> Batch(RIdSet(RId(r)))
      [] tag = M_DELIVER -> Batch(RIdSet(Batch(ROpList(r))))
      [] tag = M_NKRESP -> REnvelope(RId(r))
      [] tag = M_CHECKPOINT -> RCertificate(r, signed)
      [] OTHER -> Failed

MessageOf(tag, v) ==
    CASE tag = M_OP -> [tag |-> tag, op |-> v[1]]
      [] tag = M_WELCOME -> [tag |-> tag, sid |-> v[1], from |-> v[2], sealed |-> v[3],
                             history |-> v[4], pruned |-> ToSet(v[5])]
      [] tag = M_SYNC -> [tag |-> tag, from |-> v[1], heads |-> ToSet(v[2])]
      [] tag = M_DELIVER -> [tag |-> tag, history |-> v[1], pruned |-> ToSet(v[2])]
      [] tag = M_NKREQ -> [tag |-> tag, from |-> v[1], nodes |-> ToSet(v[2])]
      [] tag = M_NKRESP -> [tag |-> tag, from |-> v[1], sealed |-> v[2]]
      [] tag = M_CHECKPOINT -> [tag |-> tag, certificate |-> v[1]]

\* Message::from_wire; `signed` holds the signatures that were made.
FromWire(buf, signed) ==
    LET is(r, n) == LastIs(r, LAMBDA v : v = n)
        message(r, tag) == Pack(Reader(buf), Finish(ReadMessage(Within(r), tag, signed)),
                                LAMBDA v : MessageOf(tag, v))
        tagged(r) == IF r.ok THEN message(r, Last(r.out)) ELSE Failed
    IN  tagged(RU32(is(RU64(is(RU64(Reader(buf)), Marker)), PROTOCOL_ID)))
===============================================================================
