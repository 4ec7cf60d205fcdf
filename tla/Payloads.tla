------------------------------ MODULE Payloads ------------------------------
(***************************************************************************)
(* How a buffer tells key frames from other frames: the parsers of VP8,    *)
(* H264 and AV1 payloads in pkg/buffer/helpers.go, called by getExtPacket  *)
(* (pkg/buffer/buffer.go), and the writer of VP8 descriptors.              *)
(*                                                                         *)
(* The state is what an encoder packs into one payload: a VP8 descriptor,  *)
(* or the units of an H264 or AV1 payload, added one by one.  The          *)
(* packetizations are external and are those the parsers take apart.  A    *)
(* payload is a sequence of bytes, and may be cut short anywhere; an index *)
(* past its end would stop TLC.                                            *)
(***************************************************************************)
EXTENDS Integers, Sequences, SequencesExt, FiniteSetsExt

CONSTANTS PictureIDs,   \* picture identifiers of VP8
          Nalus,        \* units of H264: a type, and the number of bytes that follow
          Obus,         \* units of AV1: a type, the byte after the header of the
                        \* unit, and the number of bytes that follow
          MaxUnits      \* bound on the units in a payload

MaxPictureID == 32767   \* 15 bits
MaxHeader == 6          \* the longest descriptor
MaxNalu == 65534        \* the length of a unit with its header has 16 bits
MaxObu == 16381         \* ... and that of an OBU takes one or two bytes of seven bits

\* Types of OBUs: 1 sequence header, 3 frame header, 4 tile group, 6 frame.
ASSUME PayloadsConstants == /\ PictureIDs \subseteq 0 .. MaxPictureID
                            /\ Nalus \subseteq [type : 1 .. 23, rest : 0 .. MaxNalu]
                            /\ Obus \subseteq [type : {1, 3, 4, 6}, header : 0 .. 255,
                                               rest : 0 .. MaxObu]
                            /\ MaxUnits \in Nat

VARIABLE frame

num(b) == IF b THEN 1 ELSE 0
\* byte & mask > 0 for the mask of one bit, and the field of byte that begins at the
\* bit of mask and has size values.
bit(byte, mask) == (byte \div mask) % 2 = 1
bits(byte, mask, size) == (byte \div mask) % size
cut(p, n) == SubSeq(p, 1, n)

-----------------------------------------------------------------------------
(* VP8.  In a descriptor v: S starts a partition, I (7 or, with M, 15      *)
(* bits), L, T and K are the optional fields.                              *)

Absent == [is |-> FALSE, val |-> 0]
Present(vals) == {[is |-> TRUE, val |-> x] : x \in vals}
Optional(vals) == {Absent} \cup Present(vals)

\* T's value is TID and Y, two bits and one.
VP8 == {v \in [S : BOOLEAN, I : Optional(PictureIDs), M : BOOLEAN, L : Optional({0, 255}),
               T : Optional(0 .. 7), K : Optional({0, 31})] :
          /\ v.L.is => v.T.is
          /\ v.M => v.I.is
          /\ v.I.val > 127 => v.M}

flags(v) == \E f \in {v.I, v.L, v.T, v.K} : f.is

\* Mutant: a long picture identifier is written without its mark.
pictureIDUnmarked(v) == IF ~v.I.is THEN <<>>
                        ELSE IF v.M THEN <<v.I.val \div 256, v.I.val % 256>>
                        ELSE <<v.I.val>>

pictureID(v) == IF ~v.I.is THEN <<>>
                ELSE IF v.M THEN <<128 + v.I.val \div 256, v.I.val % 256>>
                ELSE <<v.I.val>>

descriptor(v) ==
    <<128 * num(flags(v)) + 16 * num(v.S)>> \o
    IF ~flags(v) THEN <<>>
    ELSE <<128 * num(v.I.is) + 64 * num(v.L.is) + 32 * num(v.T.is) + 16 * num(v.K.is)>>
         \o pictureID(v)
         \o (IF v.L.is THEN <<v.L.val>> ELSE <<>>)
         \o (IF v.T.is \/ v.K.is THEN <<32 * v.T.val + v.K.val>> ELSE <<>>)

Err == [ok |-> FALSE]

\* A destination without room for the header is refused.
MarshalTo(v, room) == IF room < Len(descriptor(v)) THEN Err
                      ELSE [ok |-> TRUE, buf |-> descriptor(v)]

\* The bytes after the descriptor's first two, at the positions the flags imply;
\* a payload that ends before its first byte of video is refused.
Unmarshal(p) ==
    LET X == bit(p[1], 128)
        I == X /\ bit(p[2], 128)
        L == X /\ bit(p[2], 64)
        T == X /\ bit(p[2], 32)
        K == X /\ bit(p[2], 16)
        M == I /\ bit(p[3], 128)
        tl0 == 3 + num(I) + num(M)
        tid == tl0 + num(L)
        video == IF X THEN tid + num(T \/ K) ELSE 2
        field(is, val) == IF is THEN [is |-> TRUE, val |-> val] ELSE Absent
    IN  IF Len(p) < 1 \/ (X /\ Len(p) < 2) THEN Err
        ELSE IF L /\ ~T THEN Err
        ELSE IF (I /\ Len(p) < 3) \/ Len(p) < video THEN Err
        ELSE [ok |-> TRUE,
              v |-> [S |-> bit(p[1], 16), M |-> M,
                     I |-> field(I, IF M THEN 256 * bits(p[3], 1, 128) + p[4] ELSE p[3]),
                     L |-> field(L, p[tl0]),
                     T |-> field(T, bits(p[tid], 32, 8)),
                     K |-> field(K, bits(p[tid], 1, 32))],
              HeaderSize |-> video - 1,
              IsKeyFrame |-> bit(p[1], 16) /\ ~bit(p[video], 1)]

-----------------------------------------------------------------------------
(* H264.                                                                   *)

SPS == 7
\* STAP-A, STAP-B, MTAP16 and MTAP24; all but the first have a decoding order
\* number before the first unit, and the last two have bytes before each NALU.
Aggregates == 24 .. 27
numbered(nalu) == nalu # 24
offset(nalu) == CASE nalu = 26 -> 3 [] nalu = 27 -> 4 [] OTHER -> 0

firstUnit(nalu) == IF nalu \in {25, 26, 27} THEN 4 ELSE 2

\* The unit whose length is at position i.
unitAt(p, i, nalu) ==
    LET length == 256 * p[i] + p[i + 1]
    IN  [whole |-> i + 1 + length <= Len(p) /\ offset(nalu) < length,
         next |-> i + 2 + length]

\* The loop over an aggregate's units, as a function of the position it has reached.
spsFrom(p, nalu) ==
    LET loop[i \in 1 .. Len(p) + 3] ==
            /\ i + 1 <= Len(p) /\ unitAt(p, i, nalu).whole
            /\ p[i + 2 + offset(nalu)] % 32 = SPS \/ loop[unitAt(p, i, nalu).next]
    IN  loop

IsH264Keyframe(p) ==
    LET nalu == p[1] % 32
    IN  /\ Len(p) >= 1
        /\ \/ nalu = SPS
           \/ nalu \in Aggregates /\ spsFrom(p, nalu)[firstUnit(nalu)]
           \/ nalu \in {28, 29} /\ Len(p) >= 2 /\ bit(p[2], 128) /\ p[2] % 32 = SPS

zeros(n) == [k \in 1 .. n |-> 0]

\* A unit of an aggregate: its length (of the NALU alone), what precedes the NALU,
\* and the NALU.
naluBytes(nalu, u) == <<(1 + u.rest) \div 256, (1 + u.rest) % 256>> \o zeros(offset(nalu))
                      \o <<u.type>> \o zeros(u.rest)

\* What packs a frame's units into a payload: one NALU, an aggregate, or a fragment.
packH264(f) ==
    CASE f.pack = 0 -> <<f.units[1].type>> \o zeros(f.units[1].rest)
      [] f.pack \in Aggregates ->
           <<f.pack>> \o zeros(2 * num(numbered(f.pack))) \o
           FlattenSeq([k \in DOMAIN f.units |-> naluBytes(f.pack, f.units[k])])
      [] f.pack \in {28, 29} -> <<f.pack, 128 * num(f.starts) + f.units[1].type>>

-----------------------------------------------------------------------------
(* AV1.  An OBU is its type, the byte after its header and some more.      *)

\* The length in the bytes from .. end, seven bits a byte, lowest first.
leb128(p, from, end) ==
    LET value[j \in from .. end] ==
            bits(p[j], 1, 128) + (IF j = end THEN 0 ELSE 128 * value[j + 1])
    IN  value[from]

\* getObu: a unit of which no length is given is the rest.  A length ends with the
\* byte whose top bit is clear.
getObu(p, from, last) ==
    LET ends == {j \in from .. Len(p) : ~bit(p[j], 128)}
        end == Min(ends)
        length == leb128(p, from, end)
    IN  IF last THEN [obu |-> SubSeq(p, from, Len(p)), next |-> Len(p) + 1, truncated |-> FALSE]
        ELSE IF ends = {} THEN [obu |-> <<>>, next |-> Len(p) + 1, truncated |-> from <= Len(p)]
        ELSE IF Len(p) < end + length
          THEN [obu |-> SubSeq(p, end + 1, Len(p)), next |-> Len(p) + 1, truncated |-> TRUE]
        ELSE [obu |-> SubSeq(p, end + 1, end + length), next |-> end + length + 1,
              truncated |-> FALSE]

\* Mutant: the look at show_existing_frame is missing.
keyHeaderShown(obu) == Len(obu) >= 2 /\ bits(obu[2], 32, 4) = 0

keyHeader(obu) == Len(obu) >= 2 /\ ~bit(obu[2], 128) /\ bits(obu[2], 32, 4) = 0

\* The loop over the units, as a function of the unit and the position it has reached:
\* the first is a sequence header, and the first frame header decides.
keyFrom(p, w) ==
    LET loop[at \in (0 .. 4) \X (1 .. Len(p) + 1)] ==
            LET i == at[1]
                o == getObu(p, at[2], w = i + 1)
                tpe == bits(o.obu[1], 8, 8)
            IN  /\ o.obu # <<>>
                /\ i = 0 => tpe = 1
                /\ IF i > 0 /\ tpe \in {3, 6} THEN keyHeader(o.obu)
                   ELSE ~o.truncated /\ i < w /\ loop[<<i + 1, o.next>>]
    IN  loop

IsAV1Keyframe(p) ==
    /\ Len(p) >= 2 /\ ~bit(p[1], 128) /\ bit(p[1], 8)
    /\ keyFrom(p, bits(p[1], 16, 4))[<<0, 2>>]

\* A unit of an AV1 payload: bare, or after its length in one byte or in two.
obuBytes(u, bare, wide) ==
    LET obu == <<8 * u.type, u.header>> \o zeros(u.rest)
        length == Len(obu)
    IN  IF bare THEN obu
        ELSE (IF wide \/ length >= 128 THEN <<128 + (length % 128), length \div 128>>
                                       ELSE <<length>>) \o obu

\* The header counts the units, three at most, and then the last one is bare; or it
\* has a count of 0, and every unit has its length.
packAV1(f) ==
    <<128 * num(~f.starts) + 16 * (IF f.counted THEN Len(f.units) ELSE 0) + 8 * num(f.new)>> \o
    FlattenSeq([k \in DOMAIN f.units |->
                  obuBytes(f.units[k], f.counted /\ k = Len(f.units), f.wide)])

-----------------------------------------------------------------------------
\* The buffer's view of a payload: one without a byte is padding and has no layer,
\* every other is of temporal layer 0; a VP8 payload that is refused is dropped.
getExtPacket(mime, p) ==
    IF p = <<>> THEN [ok |-> TRUE, Temporal |-> -1, KeyFrame |-> FALSE]
    ELSE IF mime = "vp8" /\ ~Unmarshal(p).ok THEN Err
    ELSE [ok |-> TRUE, Temporal |-> 0,
          KeyFrame |-> CASE mime = "vp8" -> Unmarshal(p).IsKeyFrame
                         [] mime = "h264" -> IsH264Keyframe(p)
                         [] mime = "av1" -> IsAV1Keyframe(p)]

\* The key-frame flag of a packet that is handed on.
isKey(p) == LET ep == getExtPacket(frame.mime, p) IN ep.ok /\ ep.KeyFrame

-----------------------------------------------------------------------------
(* The frames an encoder may pack.                                         *)

NoFrame == [mime |-> "none"]
VP8Frames == [mime : {"vp8"}, v : VP8, inter : BOOLEAN]
H264Frames == [mime : {"h264"}, pack : {0, 28, 29} \cup Aggregates, starts : BOOLEAN,
               units : {<<u>> : u \in Nalus}]
AV1Frames == [mime : {"av1"}, starts : BOOLEAN, new : BOOLEAN, counted : BOOLEAN,
              wide : BOOLEAN, units : {<<o>> : o \in Obus}]

PayloadInit == frame \in VP8Frames \cup H264Frames \cup AV1Frames

AddUnit == /\ \/ frame.mime = "av1" /\ (frame.counted => Len(frame.units) < 3)
              \/ frame.mime = "h264" /\ frame.pack \in Aggregates
           /\ Len(frame.units) < MaxUnits
           /\ \E u \in (IF frame.mime = "av1" THEN Obus ELSE Nalus) :
                frame' = [frame EXCEPT !.units = Append(@, u)]

PayloadSpec == PayloadInit /\ [][AddUnit]_frame

-----------------------------------------------------------------------------
\* The descriptor that MarshalTo writes (in six bytes at most) is the one Unmarshal reads, with the size
\* of its header and the key-frame flag of the frame, and a payload cut short
\* anywhere in it or before its first byte of video is refused.
VP8RoundTrip ==
    frame.mime = "vp8" =>
        LET header == MarshalTo(frame.v, MaxHeader).buf
            p == Append(header, num(frame.inter))
        IN  /\ Unmarshal(p) = [ok |-> TRUE, v |-> frame.v, HeaderSize |-> Len(header),
                               IsKeyFrame |-> frame.v.S /\ ~frame.inter]
            /\ isKey(p) = (frame.v.S /\ ~frame.inter)
            /\ \A n \in 0 .. Len(header) : ~Unmarshal(cut(p, n)).ok

\* An H264 payload is of a key frame when it has a parameter set, in whatever
\* packet and wherever in an aggregate; a fragment counts when it is the first.
hasSPS(f) == /\ \E k \in DOMAIN f.units : f.units[k].type = SPS
             /\ f.pack \in {28, 29} => f.starts

FrameHeaders(f) == {k \in 2 .. Len(f.units) : f.units[k].type \in {3, 6}}

\* An AV1 payload: it begins a coded video sequence with a sequence header, and the
\* first frame header after that shows a new key frame.
showsKey(f) == /\ f.starts /\ f.new /\ f.units[1].type = 1
               /\ \E k \in FrameHeaders(f) : /\ \A j \in FrameHeaders(f) : k <= j
                                             /\ f.units[k].header < 32

\* What the parsers are able to see.  In an MTAP, whose lengths IsH264Keyframe takes to
\* count the bytes before the NALU, that is the first unit, unless it is too short; and
\* IsAV1Keyframe gives up after the first unit of a payload that does not count them.
seen(f) == IF f.mime = "av1" THEN f.counted
           ELSE f.pack \in {26, 27} => /\ f.units[1].type = SPS
                                       /\ 1 + f.units[1].rest > offset(f.pack)

\* IsH264Keyframe and IsAV1Keyframe find the key frames they are able to see, and
\* find none where there is none, also when the payload is cut short (of the bytes
\* of an MTAP after the first unit, which they misread, nothing is said).
KeyFramesFound ==
    frame.mime \in {"h264", "av1"} =>
        LET p == IF frame.mime = "h264" THEN packH264(frame) ELSE packAV1(frame)
            key == IF frame.mime = "h264" THEN hasSPS(frame) ELSE showsKey(frame)
        IN  /\ key /\ seen(frame) => isKey(p)
            /\ frame.mime = "av1" \/ frame.pack \notin {26, 27} =>
                 \A n \in 0 .. Len(p) : isKey(cut(p, n)) => key
=============================================================================
