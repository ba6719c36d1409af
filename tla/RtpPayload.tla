----------------------------- MODULE RtpPayload -----------------------------
(***************************************************************************)
(* The payloaders of the WebRTC SDK's patch: how a frame becomes the       *)
(* payloads of RTP packets, and how the far side makes it whole again      *)
(* (Rtp/Codecs/Rtp{H264,VP8,G711,Opus}Payloader.c, with                    *)
(* SUPPORT_H264_AVCC_FRAME and SUPPORT_SHARE_BUFFER, as CMakeLists.txt     *)
(* defines them).                                                          *)
(*                                                                         *)
(* A payload is its codec's header, the data behind it, and the part of    *)
(* the frame it says the data is: what a retransmission reads again        *)
(* (payloadRefOffset and payloadRefLength).  The first pass of a           *)
(* payloader, which only adds up sizes, is left out.                       *)
(***************************************************************************)
EXTENDS Nalu

CONSTANT Mtu

FuAHeaderSize == 2
VP8DescriptorSize == 1

ASSUME MtuAssumption == Mtu \in Nat /\ Mtu > FuAHeaderSize

Payload(header, data, refOffset) ==
    [header |-> header, data |-> data, refOffset |-> refOffset, refLength |-> Len(data)]

(* Data in pieces of at most n bytes; piece k begins at offset (k - 1) * n.*)
PieceCount(data, n) == (Len(data) + n - 1) \div n
Piece(data, n, k) == Bytes(data, (k - 1) * n, n)

-----------------------------------------------------------------------------
(* H.264.                                                                  *)

(* getNextNaluLength: the scan for the end passes three bytes at a time    *)
(* where no start code can end.                                            *)
NextStartCode(b, start) ==
    LET scan[i \in Nat] ==
            CASE i >= Len(b) -> Len(b)
              [] i < Len(b) /\ ByteAt(b, i) = 0 -> scan[i + 1]
              [] i < Len(b) /\ ByteAt(b, i) = 1 /\ Bytes(b, i - 2, 2) = <<0, 0>> ->
                    IF ByteAt(b, i - 3) = 0 THEN i - 3 ELSE i - 2
              [] OTHER -> scan[i + 3]
    IN  scan[start]

(* getNextNaluLengthEx: the NALU at an offset of the frame, between        *)
(* "begin" and "end"; or none, when the start code is missing.             *)
NextNalu(b, i, isAnnexb) ==
    LET start == CodeLength(b, i)
    IN  IF isAnnexb
        THEN IF start = 0 THEN {}
             ELSE {[begin |-> i + start, end |-> NextStartCode(b, i + start)]}
        ELSE IF Len(b) - i < 4 THEN {}
             ELSE {[begin |-> i + 4, end |-> i + 4 + LengthAt(b, i)]}

(* createPayloadFromNalu.  What is larger than the MTU goes in fragments,  *)
(* without its first byte, which the headers of the fragments stand for.   *)
Fragments_OfMtu(nalu, offset) ==
    [k \in 1..PieceCount(Tail(nalu), Mtu) |->
        Payload([type |-> "FU-A", refIdc |-> RefIdc(Head(nalu)), naluType |-> nalType(Head(nalu)),
                 start |-> k = 1, end |-> k = PieceCount(Tail(nalu), Mtu)],
                Piece(Tail(nalu), Mtu, k), offset + (k - 1) * Mtu)]
Fragments_WithHeader(nalu, offset) ==
    LET size == Mtu - FuAHeaderSize
    IN  [k \in 1..PieceCount(nalu, size) |->
            Payload([type |-> "FU-A", refIdc |-> RefIdc(Head(nalu)), naluType |-> nalType(Head(nalu)),
                     start |-> k = 1, end |-> k = PieceCount(nalu, size)],
                    Piece(nalu, size, k), offset + (k - 1) * size)]
Fragments(nalu, offset) ==
    LET size == Mtu - FuAHeaderSize
        data == Tail(nalu)
    IN  [k \in 1..PieceCount(data, size) |->
            Payload([type |-> "FU-A", refIdc |-> RefIdc(Head(nalu)), naluType |-> nalType(Head(nalu)),
                     start |-> k = 1, end |-> k = PieceCount(data, size)],
                    Piece(data, size, k), offset + (k - 1) * size)]

createPayloadFromNalu(nalu, offset) ==
    IF Len(nalu) <= Mtu THEN <<Payload([type |-> "single"], nalu, offset)>>
    ELSE Fragments(nalu, offset)

(* createPayloadForH264; currentOffset, which the references are taken     *)
(* from, goes on by the start codes or lengths and by the data of each     *)
(* payload.  It fails, and there are no payloads, when a NALU is not found.*)
(* One that goes beyond the frame is not refused: the length that remains  *)
(* wraps below zero, and what lies behind the frame is taken for more of   *)
(* it, so that anything may come out.                                      *)
Anything == Seq([header : [type : {"single"}]
                            \union [type : {"FU-A"}, refIdc : Nat, naluType : Nat, start : BOOLEAN, end : BOOLEAN],
                 data : Seq(0..Radix - 1), refOffset : Nat, refLength : Nat])

createPayloadForH264(b) ==
    LET isAnnexb == NALU_isAnnexBFrame(b)
        payloads[i \in Nat] == [currentOffset \in Nat |->
            UNION {
                LET offset == currentOffset + n.begin - i
                    made == createPayloadFromNalu(Bytes(b, n.begin, n.end - n.begin), offset)
                    next == FoldLeft(LAMBDA m, p : m + p.refLength, offset, made)
                IN  IF n.begin = Len(b) THEN {<<>>}
                    ELSE CASE n.end = Len(b) -> {made}
                           [] n.end > Len(b) -> Anything
                           [] OTHER -> {made \o rest : rest \in payloads[n.end][next]}
                : n \in NextNalu(b, i, isAnnexb)}]
    IN  payloads[0][0]

(* depayH264FromRtpPayload, but for FU-B and STAP-B.  A NALU begins with   *)
(* a start code of four bytes.                                             *)
depayH264FromRtpPayload(p) ==
    CASE p.header.type = "single" -> StartCode(4) \o p.data
      [] p.header.type = "FU-A" ->
            IF p.header.start THEN StartCode(4) \o <<p.header.refIdc + p.header.naluType>> \o p.data
            ELSE p.data
      [] p.header.type = "STAP-A" ->
            FlattenSeq([k \in DOMAIN p.data |-> StartCode(4) \o p.data[k]])

-----------------------------------------------------------------------------
(* VP8.  The descriptor has one byte; that of another sender may have more,*)
(* depending on the bits in its first two.                                 *)

createPayloadForVP8(b) ==
    LET size == Mtu - VP8DescriptorSize
    IN  [k \in 1..PieceCount(b, size) |->
            Payload([type |-> "VP8", startOfPartition |-> k = 1, extended |-> FALSE, has |-> {},
                     pid16 |-> FALSE, descriptor |-> <<0>>],
                    Piece(b, size, k), (k - 1) * size)]

payloadDescriptorLength(header) ==
    1 + IF header.extended
        THEN 1 + (IF "PictureID" \in header.has THEN IF header.pid16 THEN 2 ELSE 1 ELSE 0)
               + (IF "TL0PICIDX" \in header.has THEN 1 ELSE 0)
               + (IF {"TID", "KEYIDX"} \cap header.has # {} THEN 1 ELSE 0)
        ELSE 0

depayVP8FromRtpPayload(p) ==
    LET packet == p.header.descriptor \o p.data
    IN  Bytes(packet, payloadDescriptorLength(p.header), Len(packet))

-----------------------------------------------------------------------------
(* G.711 and Opus have no header; Opus is not cut.                         *)

createPayloadForG711(b) ==
    [k \in 1..PieceCount(b, Mtu) |-> Payload([type |-> "G711"], Piece(b, Mtu, k), (k - 1) * Mtu)]
depayG711FromRtpPayload(p) == p.data

createPayloadForOpus(b) == <<Payload([type |-> "Opus"], b, 0)>>
depayOpusFromRtpPayload(p) == p.data

-----------------------------------------------------------------------------
(* The payloader of a track's codec (writeFrameEx), and its counterpart.   *)
(* The former gives at most one sequence of payloads.                      *)
rtpPayloadFunc(codec, b) ==
    CASE codec = "H264" -> createPayloadForH264(b)
      [] codec = "VP8" -> {createPayloadForVP8(b)}
      [] codec = "G711" -> {createPayloadForG711(b)}
      [] codec = "Opus" -> {createPayloadForOpus(b)}

depay(codec, p) ==
    CASE codec = "H264" -> depayH264FromRtpPayload(p)
      [] codec = "VP8" -> depayVP8FromRtpPayload(p)
      [] codec = "G711" -> depayG711FromRtpPayload(p)
      [] codec = "Opus" -> depayOpusFromRtpPayload(p)
=============================================================================
