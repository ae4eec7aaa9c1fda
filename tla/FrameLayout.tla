----------------------------- MODULE FrameLayout ------------------------------
(* Codec-aware frame protection, crates/cfr-media/src: which bytes of a frame *)
(* stay readable (codec/*.rs), and how frame.rs seals the others in place.    *)
(*                                                                            *)
(* A frame is a sequence of bytes, a range <<i, j>> the bytes i..j-1 counted  *)
(* from 0, and a layout its clear and secret ranges in ascending order.  What *)
(* a cipher makes of the secret bytes may be anything of the same length.     *)
EXTENDS Integers, FiniteSets, Sequences, SequencesExt

CONSTANTS MaxLeb   \* av1.rs leb128: the width at which it gives up

Codecs == <<"H264", "H265", "Av1", "Vp8", "Vp9", "Opus">>

NoUnits == <<>>
Bytes(f, r) == SubSeq(f, r[1] + 1, r[2])
Unit(prefix, body) == [prefix |-> prefix, body |-> body]
NoLayout == [clear |-> <<>>, secret |-> <<>>]

\* The bit of weight w (a power of two) in byte b.
Bit(b, w) == (b \div w) % 2 = 1

\* Layout::prefix.
Prefix(len, total) ==
    LET cut == IF len < total THEN len ELSE total IN
    [clear |-> IF cut > 0 THEN <<<<0, cut>>>> ELSE <<>>,
     secret |-> IF cut < total THEN <<<<cut, total>>>> ELSE <<>>]

-----------------------------------------------------------------------------
(* H.264 and H.265.                                                           *)

\* The length of the start code at offset i, 0 if there is none.
CodeAt(f, i) ==
    IF Bytes(f, <<i, i + 3>>) = <<0, 0, 1>> THEN 3
    ELSE IF i + 4 <= Len(f) /\ Bytes(f, <<i, i + 4>>) = <<0, 0, 0, 1>> THEN 4 ELSE 0

\* start_codes: [offset, length] of each, found from left to right.
StartCodes(f) ==
    LET from[i \in 0..(Len(f) + 3)] ==
          IF i + 3 > Len(f) THEN <<>>
          ELSE IF CodeAt(f, i) > 0 THEN <<<<i, CodeAt(f, i)>>>> \o from[i + CodeAt(f, i)]
          ELSE from[i + 1]
    IN from[0]

\* annex_b_units.
AnnexBUnits(f) ==
    LET codes == StartCodes(f)
        body(k) == codes[k][1] + codes[k][2]
        end(k) == IF k < Len(codes) THEN codes[k + 1][1] ELSE Len(f)
    IN  IF codes = <<>> \/ codes[1][1] # 0 THEN NoUnits
        ELSE [k \in DOMAIN codes |-> Unit(<<codes[k][1], body(k)>>, <<body(k), end(k)>>)]

\* length_prefixed_units: four bytes of length before each unit, to the end.
LengthPrefixedUnits(f) ==
    LET n(i) == ((f[i + 1] * 256 + f[i + 2]) * 256 + f[i + 3]) * 256 + f[i + 4]
        fits(i) == i + 4 <= Len(f) /\ n(i) > 0 /\ i + 4 + n(i) <= Len(f)
        from[i \in 0..Len(f)] ==
          IF i = Len(f) THEN <<Unit(<<i, i>>, <<i, i>>)>>
          ELSE IF ~fits(i) \/ from[i + 4 + n(i)] = NoUnits THEN NoUnits
          ELSE <<Unit(<<i, i + 4>>, <<i + 4, i + 4 + n(i)>>)>> \o from[i + 4 + n(i)]
    IN  IF Len(from[0]) > 1 THEN Front(from[0]) ELSE NoUnits

\* Fault: a range that continues the last one is dropped.
MergeLost(ranges, r) == IF ranges # <<>> /\ Last(ranges)[2] = r[1] THEN ranges ELSE Append(ranges, r)

\* Adjacent clear ranges become one.
Merge(ranges, r) ==
    IF ranges # <<>> /\ Last(ranges)[2] = r[1]
    THEN Append(Front(ranges), <<Last(ranges)[1], r[2]>>) ELSE Append(ranges, r)

ClearEnd(u, header) ==
    IF u.body[1] + header < u.body[2] THEN u.body[1] + header ELSE u.body[2]

\* from_units: the prefix and `header` bytes of each unit stay readable.
FromUnits(units, header) ==
    LET clear == [k \in DOMAIN units |-> <<units[k].prefix[1], ClearEnd(units[k], header)>>]
        secret == [k \in DOMAIN units |-> <<ClearEnd(units[k], header), units[k].body[2]>>]
    IN  [clear |-> FoldLeft(Merge, <<>>, clear),
         secret |-> SelectSeq(secret, LAMBDA r : r[1] < r[2])]

\* layout_with_header: an unrecognised container is protected as a whole.
LayoutWithHeader(f, header) ==
    IF f = <<>> THEN NoLayout
    ELSE IF AnnexBUnits(f) # NoUnits THEN FromUnits(AnnexBUnits(f), header)
    ELSE IF LengthPrefixedUnits(f) # NoUnits THEN FromUnits(LengthPrefixedUnits(f), header)
    ELSE Prefix(0, Len(f))

-----------------------------------------------------------------------------
(* AV1, VP8, VP9, Opus.                                                       *)

NoLeb == [value |-> 0, width |-> 0]

\* leb128 at offset i: little-endian groups of seven bits.
Leb128(f, i) ==
    LET at(k) == f[i + k]
        ends == {k \in 1..MaxLeb : i + k <= Len(f) /\ ~Bit(at(k), 128)}
        width == CHOOSE k \in ends : \A e \in ends : k <= e
        value[k \in 0..MaxLeb] == IF k = 0 THEN 0 ELSE value[k - 1] + (at(k) % 128) * 128 ^ (k - 1)
    IN  IF ends = {} THEN NoLeb ELSE [value |-> value[width], width |-> width]

\* av1::layout: header, extension and size of each unit stay readable.  Without
\* a size a unit runs to the end.
Av1Units(f) ==
    LET meta(i) == IF Bit(f[i + 1], 4) THEN 2 ELSE 1
        sized(i) == Bit(f[i + 1], 2)
        leb(i) == Leb128(f, i + meta(i))
        start(i) == i + meta(i) + (IF sized(i) THEN leb(i).width ELSE 0)
        end(i) == IF sized(i) THEN start(i) + leb(i).value ELSE Len(f)
        good(i) == /\ ~Bit(f[i + 1], 128) /\ i + meta(i) <= Len(f)
                   /\ sized(i) => leb(i) # NoLeb /\ end(i) <= Len(f)
        from[i \in 0..Len(f)] ==
          IF i = Len(f) THEN <<Unit(<<i, i>>, <<i, i>>)>>
          ELSE IF ~good(i) \/ from[end(i)] = NoUnits THEN NoUnits
          ELSE <<Unit(<<i, start(i)>>, <<start(i), end(i)>>)>> \o from[end(i)]
    IN  IF Len(from[0]) > 1 THEN Front(from[0]) ELSE NoUnits

Av1Layout(f) == IF Av1Units(f) = NoUnits THEN Prefix(0, Len(f)) ELSE FromUnits(Av1Units(f), 0)

\* vp8_layout: three bytes, and seven more for what both the caller and the
\* stream call a key frame.
Vp8Layout(f, keyframe) ==
    Prefix(IF keyframe /\ f # <<>> /\ ~Bit(f[1], 1) THEN 10 ELSE 3, Len(f))

\* codec::layout.
Layout(codec, f, keyframe) ==
    CASE codec = "H264" -> LayoutWithHeader(f, 1)
      [] codec = "H265" -> LayoutWithHeader(f, 2)
      [] codec = "Av1"  -> Av1Layout(f)
      [] codec = "Vp8"  -> Vp8Layout(f, keyframe)
      [] codec = "Opus" -> Prefix(1, Len(f))
      [] OTHER          -> Prefix(0, Len(f))

\* Layout::tiles: the ranges cover the frame without gap or overlap.
Tiles(l, total) ==
    LET all == SortSeq(l.clear \o l.secret, LAMBDA r, s : r[1] < s[1])
        start(k) == IF k = 1 THEN 0 ELSE all[k - 1][2]
    IN  /\ \A k \in DOMAIN all : all[k][1] = start(k) /\ all[k][1] <= all[k][2]
        /\ (IF all = <<>> THEN 0 ELSE Last(all)[2]) = total

-----------------------------------------------------------------------------
(* Sealing in place.                                                          *)

Pick(f, ranges) == FlattenSeq([k \in DOMAIN ranges |-> Bytes(f, ranges[k])])

\* gather, and the readable part that `associated` authenticates.
Gather(f, l) == Pick(f, l.secret)
Readable(f, l) == Pick(f, l.clear)

\* Fault: each range is filled from the start of the data.
ScatterEach(f, l, data) ==
    [i \in DOMAIN f |->
        LET k == SelectInSeq(l.secret, LAMBDA r : r[1] < i /\ i <= r[2]) IN
        IF k = 0 THEN f[i] ELSE data[i - l.secret[k][1]]]

\* scatter: data goes back to the secret positions, in order.
Scatter(f, l, data) ==
    LET secret == {i \in DOMAIN f : \E k \in DOMAIN l.secret : l.secret[k][1] < i /\ i <= l.secret[k][2]}
        place(i) == Cardinality({j \in secret : j <= i})
    IN  [i \in DOMAIN f |-> IF i \in secret THEN data[place(i)] ELSE f[i]]

\* Trailer::encode and decode of the byte that names codec and key frame.
CodecId(codec) == IF codec = "Generic" THEN 0 ELSE CHOOSE k \in DOMAIN Codecs : Codecs[k] = codec

Flags(codec, keyframe) == 128 + 2 * CodecId(codec) + (IF keyframe THEN 1 ELSE 0)

CodecOf(flags) ==
    LET id == (flags % 128) \div 2 IN
    IF ~Bit(flags, 128) \/ id > Len(Codecs) THEN "none" ELSE IF id = 0 THEN "Generic" ELSE Codecs[id]
KeyframeOf(flags) == Bit(flags, 1)
===============================================================================
