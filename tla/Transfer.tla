------------------------------- MODULE Transfer --------------------------------
(* One transfer from end to end: a control message (Codec) over a network     *)
(* that may change it in one place, or a media frame (FrameLayout) that       *)
(* frame.rs seals in place and the receiver parses again in sealed form.      *)
EXTENDS FrameLayout, Codec

CONSTANTS Messages,      \* control messages and key packages to send
          Symbols,       \* what a changed symbol may become
          AllCodecs,     \* codecs in use
          Frames(_),     \* frames of a codec
          Cipher(_)      \* bytes the cipher may make of such a frame

VARIABLES sent,      \* what was sent
          signed,    \* <<signer, image, signature>> of every signature made
          wire,      \* what is under way
          got        \* what came of it at the receiver

vars == <<sent, signed, wire, got>>

Nothing == [is |-> "nothing"]
Refused == [is |-> "refused"]

Init == /\ sent = Nothing /\ wire = Nothing /\ got = Nothing
        /\ signed = {}

-----------------------------------------------------------------------------
(* Control messages.                                                          *)

\* A key package travels on its own, everything else as a Message.
Encoded(m) == IF m.tag = 0 THEN PackageToWire(m) ELSE ToWire(m)
Decoded(m, buf, by) == IF m.tag = 0 THEN PackageFromWire(buf) ELSE FromWire(buf, by)

\* The operations a message carries.
OpsOf(m) ==
    CASE m.tag = M_OP -> {m.op} [] m.tag \in {M_WELCOME, M_DELIVER} -> ToSet(m.history) [] OTHER -> {}

\* Op::create, Participant::key_package and sign_checkpoint sign these images.
Signatures(m) ==
    {<<op.author, SignedImage(op), op.sig>> : op \in OpsOf(m)}
      \cup (IF m.tag = 0 THEN {<<m.ipk, PackageImage(m), m.sig>>} ELSE {})
      \cup (IF m.tag = M_CHECKPOINT
            THEN {<<a[1], WRecord(m.certificate.record), a[2]>> : a \in m.certificate.approvals} ELSE {})

\* Outbound::broadcast and direct.
Send(m) ==
    /\ sent = Nothing
    /\ sent' = [is |-> "message", value |-> m]
    /\ wire' = [is |-> "message", buf |-> Encoded(m), altered |-> FALSE]
    /\ signed' = signed \cup Signatures(m)
    /\ UNCHANGED got

\* One symbol replaced, inserted or lost, or two neighbouring runs of symbols
\* exchanged.
Alterations(buf) ==
    LET n == Len(buf)
        run == {<<i, w>> \in (1..n) \X {3, 7} : i + 2 * w - 1 <= n}
        exchange(i, w) == SubSeq(buf, 1, i - 1) \o SubSeq(buf, i + w, i + 2 * w - 1)
                            \o SubSeq(buf, i, i + w - 1) \o SubSeq(buf, i + 2 * w, n)
    IN  {[buf EXCEPT ![i] = x] : i \in 1..n, x \in Symbols}
          \cup {InsertAt(buf, i, x) : i \in 1..(n + 1), x \in Symbols}
          \cup {RemoveAt(buf, i) : i \in 1..n}
          \cup {exchange(r[1], r[2]) : r \in run}

Alter ==
    /\ wire.is = "message" /\ ~wire.altered /\ got = Nothing
    /\ \E buf \in Alterations(wire.buf) \ {wire.buf} : wire' = [wire EXCEPT !.buf = buf, !.altered = TRUE]
    /\ UNCHANGED <<sent, signed, got>>

\* Message::from_wire or KeyPackage::from_wire at the receiver.
Receive ==
    /\ wire.is = "message" /\ got = Nothing
    /\ LET r == Decoded(sent.value, wire.buf, signed) IN
       got' = IF r.ok THEN [is |-> "message", value |-> r.out[1]] ELSE Refused
    /\ UNCHANGED <<sent, signed, wire>>

-----------------------------------------------------------------------------
(* Media frames.                                                              *)

\* Protector::protect, from the layout on: the cipher may turn the content into
\* any bytes of the same length; content and associated data are authenticated.
Protect(codec, frame, keyframe) ==
    /\ sent = Nothing
    /\ LET l == Layout(codec, frame, keyframe)
           content == Gather(frame, l)
       IN  \E sealed \in [DOMAIN content -> Cipher(codec)] :
             wire' = [is |-> "frame", body |-> Scatter(frame, l, sealed), flags |-> Flags(codec, keyframe),
                      content |-> sealed, readable |-> Readable(frame, l)]
    /\ sent' = [is |-> "frame", codec |-> codec, frame |-> frame, keyframe |-> keyframe]
    /\ UNCHANGED <<signed, got>>

\* The layout the receiver works with, computed from the sealed frame.
LayoutThere == Layout(CodecOf(wire.flags), wire.body, KeyframeOf(wire.flags))

\* Protector::unprotect, from the layout on.  The cipher gives back the content
\* if it and the associated data are those that were sealed.
Unprotect ==
    /\ wire.is = "frame" /\ got = Nothing
    /\ LET l == LayoutThere
           plain == Gather(sent.frame, Layout(sent.codec, sent.frame, sent.keyframe))
           genuine == CodecOf(wire.flags) # "none" /\ Gather(wire.body, l) = wire.content
                        /\ Readable(wire.body, l) = wire.readable
       IN  got' = IF genuine THEN [is |-> "frame", frame |-> Scatter(wire.body, l, plain)] ELSE Refused
    /\ UNCHANGED <<sent, signed, wire>>

Next ==
    \/ \E m \in Messages : Send(m)
    \/ Alter
    \/ Receive
    \/ \E codec \in AllCodecs, keyframe \in BOOLEAN : \E frame \in Frames(codec) : Protect(codec, frame, keyframe)
    \/ Unprotect

Spec == Init /\ [][Next]_vars

-----------------------------------------------------------------------------
(* Properties.                                                                *)

\* The limits a decoder enforces, as bounds on the value.
OpInLimits(op) ==
    /\ Cardinality(op.deps) <= MAX_DEPS
    /\ op.body.kind = K_CONTRIB => /\ Cardinality(op.body.cparents) <= MAX_DEPS
                                   /\ Len(op.body.recips) <= MAX_RECIPIENTS
                                   /\ Len(op.body.slices) <= MAX_RECIPIENTS
    /\ op.body.kind = K_PKREQ => Len(op.body.targets) <= MAX_RECIPIENTS

InLimits(m) ==
    /\ \A op \in OpsOf(m) : OpInLimits(op)
    /\ m.tag \in {M_WELCOME, M_DELIVER} => Len(m.history) <= MAX_BATCH /\ Cardinality(m.pruned) <= MAX_BATCH
    /\ m.tag = M_SYNC => Cardinality(m.heads) <= MAX_BATCH
    /\ m.tag = M_NKREQ => Cardinality(m.nodes) <= MAX_BATCH
    /\ m.tag = M_CHECKPOINT => Cardinality(m.certificate.approvals) <= MAX_SIGNERS

\* A message the network leaves alone arrives as it was sent, field by field,
\* exactly when it is within the limits of from_wire; to_wire knows no limits,
\* so a sender learns nothing of a batch that every receiver refuses.
RoundTrip ==
    wire.is = "message" /\ ~wire.altered /\ got # Nothing
      => got = IF InLimits(sent.value) THEN sent ELSE Refused

\* docs/security.md O8: whatever stream from_wire accepts, altered or not, is the
\* one to_wire makes of the value, so no value has two images.  Certificates are
\* left out: CheckpointCertificate::read takes approvals in any order.
Canonical ==
    got.is = "message" /\ got.value.tag # M_CHECKPOINT => Encoded(got.value) = wire.buf

\* An operation or key package that passes verify at the receiver is, in every
\* field, one that its author signed, whatever the network changed: signed_image
\* and KeyPackage::image leave no field out and run no two together.
Authentic ==
    got.is = "message" =>
      LET m == got.value IN
      /\ \A op \in OpsOf(m) : <<op.author, SignedImage(op), op.sig>> \in signed => op \in OpsOf(sent.value)
      /\ m.tag = 0 /\ <<m.ipk, PackageImage(m), m.sig>> \in signed => m = sent.value

\* A certificate that was accepted, altered or not, holds only approvals given for
\* the very record it carries, and each signer once (add_signature).
ApprovalsGenuine ==
    got.is = "message" /\ got.value.tag = M_CHECKPOINT =>
      LET c == got.value.certificate IN
      \A a \in c.approvals : /\ c.record = sent.value.certificate.record
                             /\ a \in sent.value.certificate.approvals
                             /\ \A b \in c.approvals : a[1] = b[1] => a = b

\* The assertions in protect and unprotect: whatever the frame, and whatever the
\* cipher made of it, the layout covers every byte exactly once.
Tiled ==
    wire.is = "frame" =>
      /\ Tiles(Layout(sent.codec, sent.frame, sent.keyframe), Len(sent.frame))
      /\ Tiles(LayoutThere, Len(wire.body))

\* Frames whose structure the cipher cannot disturb: fixed prefixes; recognised
\* AV1 and length-prefixed units, whose headers are all readable; and, for
\* start codes, a ciphertext without the bytes that make one.
Undisturbed ==
    LET f == sent.frame
        nal == sent.codec \in {"H264", "H265"}
    IN  \/ sent.codec \in {"Vp8", "Vp9", "Opus", "Generic"}
        \/ sent.codec = "Av1" /\ Av1Units(f) # NoUnits
        \/ nal /\ AnnexBUnits(f) = NoUnits /\ LengthPrefixedUnits(f) # NoUnits
        \/ nal /\ ToSet(wire.content) \cap {0, 1} = {}

\* A frame opens to the bytes that were protected, or not at all, even when the
\* receiver finds other units in the sealed frame than the sender did.  It is
\* refused only then, and never if the cipher cannot disturb its structure: the
\* trailer tells the receiver all that the sender's parser went by.
OpenedIsSent ==
    wire.is = "frame" /\ got # Nothing =>
      \/ got = [is |-> "frame", frame |-> sent.frame]
      \/ got = Refused /\ ~Undisturbed /\ LayoutThere # Layout(sent.codec, sent.frame, sent.keyframe)

\* codec/mod.rs: "a parser that walks the frame sees the same units it saw
\* before".
SameUnits == wire.is = "frame" => LayoutThere = Layout(sent.codec, sent.frame, sent.keyframe)
===============================================================================
