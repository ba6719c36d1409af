----------------------------- MODULE VideoSource ----------------------------
(***************************************************************************)
(* What happens to the bytes of a frame in kvs_with_webrtc: the source     *)
(* reads a file of NALUs in Annex-B and converts it in place; the WebRTC   *)
(* side cuts it into payloads, which the far side makes whole again; the   *)
(* producer side looks for the NALUs it needs, after it has converted the  *)
(* frame if it takes it for Annex-B (videoSourceThread, readFile;          *)
(* KvsApp_addFrameWithCallbacks).  The audio samples and a VP8 camera, and *)
(* a far side that sends, use the other codecs.                            *)
(*                                                                         *)
(* The NALUs of a file are what H.264 allows: the forbidden bit is zero,   *)
(* there is no start code and there are no three zeros within, no zero at  *)
(* the end; and two bytes at least, and no more than a length can say.     *)
(***************************************************************************)
EXTENDS RtpPayload

CONSTANTS
    Nalus,          \* the NALUs a file may have
    MaxFileNalus,   \* bound: how many of them
    ExtraBufSize,   \* ANNEXB_TO_AVCC_EXTRA_BUFSIZE, 16 as MaxNalus is
    Frames,         \* frames of the other codecs
    IFrame          \* NALU_TYPE_IFRAME

Allowed(nalu) ==
    /\ nalu \in Seq(0..Radix - 1)
    /\ Len(nalu) >= 2 /\ Len(nalu) < Radix * Radix * Radix * Radix
    /\ Head(nalu) < Radix \div 2
    /\ nalu[Len(nalu)] # 0
    /\ \A k \in 1..Len(nalu) - 2 : ~(nalu[k] = 0 /\ nalu[k + 1] = 0 /\ nalu[k + 2] \in {0, 1})

ASSUME VideoSourceAssumption ==
    /\ MaxFileNalus \in 1..MaxNalus /\ ExtraBufSize = MaxNalus
    /\ \A nalu \in Nalus : Allowed(nalu)
    /\ Frames \subseteq Seq(0..Radix - 1)
    /\ IFrame \in 1..TypeRadix - 1

VARIABLES
    stage,          \* where the frame is
    codec,
    file,           \* the NALUs that were read, each with the length of its start code
    pData, uLen,    \* the frame's buffer and its length
    bIsKeyFrame,    \* what the producer side has found
    payloads,       \* under way to the far side
    received        \* what the far side has

sourceVars == <<stage, codec, file, pData, uLen, bIsKeyFrame, payloads, received>>

Stage == {"read", "convert", "write", "add", "receive", "far"}
Frame == SubSeq(pData, 1, uLen)

AnnexB(nalus) == FlattenSeq([k \in DOMAIN nalus |-> StartCode(nalus[k].code) \o nalus[k].bytes])
Avcc(nalus) == FlattenSeq([k \in DOMAIN nalus |-> BigEndian(Len(nalus[k].bytes)) \o nalus[k].bytes])

SourceInit ==
    /\ stage = "read" /\ codec = "H264" /\ file = <<>>
    /\ pData = <<>> /\ uLen = 0 /\ bIsKeyFrame = FALSE
    /\ payloads = <<>> /\ received = <<>>

(* readFile: the buffer has room for the conversion.                       *)
readFile ==
    /\ stage = "read"
    /\ stage' = "convert"
    /\ codec' = "H264"
    /\ \E n \in 1..MaxFileNalus : file' \in [1..n -> [code : {3, 4}, bytes : Nalus]]
    /\ pData' = AnnexB(file') \o [k \in 1..ExtraBufSize |-> 0]
    /\ uLen' = Len(AnnexB(file'))
    /\ UNCHANGED <<bIsKeyFrame, payloads, received>>

(* A frame of another codec.                                               *)
OtherFrame ==
    /\ stage = "read"
    /\ stage' = "write"
    /\ codec' \in {"VP8", "G711", "Opus"}
    /\ pData' \in Frames
    /\ uLen' = Len(pData')
    /\ UNCHANGED <<file, bIsKeyFrame, payloads, received>>

(* The source does not look at what the conversion returns.                *)
Convert ==
    /\ stage = "convert"
    /\ stage' = "write"
    /\ LET converted == NALU_convertAnnexBToAvccInPlace(pData, uLen)
       IN  pData' = converted.b /\ uLen' = converted.uLen
    /\ UNCHANGED <<codec, file, bIsKeyFrame, payloads, received>>

(* KvsApp and the payloader take both formats: an application need not     *)
(* convert, as kvsapp does not.                                            *)
NotConverted ==
    /\ stage = "convert"
    /\ stage' = "write"
    /\ UNCHANGED <<codec, file, pData, uLen, bIsKeyFrame, payloads, received>>

webrtc_taskAddVideoFrame ==
    /\ stage = "write"
    /\ \/ payloads' \in rtpPayloadFunc(codec, Frame)
       \/ rtpPayloadFunc(codec, Frame) = {} /\ UNCHANGED payloads
    /\ stage' = IF codec = "H264" THEN "add" ELSE "receive"
    /\ UNCHANGED <<codec, file, pData, uLen, bIsKeyFrame, received>>

(* KvsApp_addFrameWithCallbacks, its NALU part: a frame the conversion     *)
(* fails on is not added.                                                  *)
AddFrame ==
    /\ stage = "add"
    /\ stage' = "receive"
    /\ LET converted == IF NALU_isAnnexBFrame(Frame) THEN NALU_convertAnnexBToAvccInPlace(pData, uLen)
                        ELSE [res |-> TRUE, b |-> pData, uLen |-> uLen]
       IN  /\ pData' = converted.b /\ uLen' = converted.uLen
           /\ bIsKeyFrame' = (converted.res /\ isKeyFrame(SubSeq(converted.b, 1, converted.uLen), IFrame))
    /\ UNCHANGED <<codec, file, payloads, received>>

(* The same frame from a far side that sends: all NALUs of H.264 in one    *)
(* packet, a partition of VP8 behind any descriptor.                       *)
Descriptors ==
    LET Bits == [extended : {TRUE}, pid16 : BOOLEAN,
                 has : SUBSET {"PictureID", "TL0PICIDX", "TID", "KEYIDX"}]
        Fields(d) == (IF "PictureID" \in d.has THEN IF d.pid16 THEN 2 ELSE 1 ELSE 0)
                     + Cardinality(d.has \cap {"TL0PICIDX"})
                     + (IF d.has \cap {"TID", "KEYIDX"} = {} THEN 0 ELSE 1)
    IN  {[type |-> "VP8", startOfPartition |-> TRUE, extended |-> TRUE, has |-> d.has, pid16 |-> d.pid16,
          descriptor |-> [k \in 1..2 + Fields(d) |-> 0]] : d \in Bits}

FarFrame ==
    /\ stage = "write"
    /\ codec \in {"H264", "VP8"}
    /\ \/ /\ codec = "H264"
          /\ payloads' = <<Payload([type |-> "STAP-A"], [k \in DOMAIN file |-> file[k].bytes], 0)>>
       \/ /\ codec = "VP8"
          /\ \E d \in Descriptors : payloads' = <<Payload(d, Frame, 0)>>
    /\ stage' = "far"
    /\ UNCHANGED <<codec, file, pData, uLen, bIsKeyFrame, received>>

(* The far side, whose jitter buffer gives the packets in order.           *)
Receive ==
    /\ stage \in {"receive", "far"}
    /\ payloads # <<>>
    /\ payloads' = Tail(payloads)
    /\ received' = received \o depay(codec, Head(payloads))
    /\ UNCHANGED <<stage, codec, file, pData, uLen, bIsKeyFrame>>

(* The buffer of the frame is freed, and the next one is read.             *)
Received ==
    /\ stage \in {"receive", "far"}
    /\ payloads = <<>>
    /\ stage' = "read" /\ codec' = "H264" /\ file' = <<>>
    /\ pData' = <<>> /\ uLen' = 0 /\ bIsKeyFrame' = FALSE
    /\ received' = <<>>
    /\ UNCHANGED payloads

SourceNext ==
    \/ readFile \/ OtherFrame \/ Convert \/ NotConverted
    \/ webrtc_taskAddVideoFrame \/ AddFrame \/ FarFrame \/ Receive \/ Received

SourceSpec == SourceInit /\ [][SourceNext]_sourceVars

-----------------------------------------------------------------------------
(* The values the variables have.  The frame is within its buffer; what    *)
(* this sender cuts fits the MTU with its header and lies in the frame.    *)
HeaderSize(type) == CASE type = "FU-A" -> FuAHeaderSize [] type = "VP8" -> VP8DescriptorSize [] OTHER -> 0
Cut(p) ==
    \/ p.header.type \in {"single", "FU-A", "G711"}
    \/ p.header.type = "VP8" /\ ~p.header.extended
SourceTypeOK ==
    /\ stage \in Stage
    /\ codec \in {"H264", "VP8", "G711", "Opus"}
    /\ \A k \in DOMAIN pData : pData[k] \in 0..Radix - 1
    /\ uLen \in 0..Len(pData)
    /\ bIsKeyFrame \in BOOLEAN
    /\ \A k \in DOMAIN payloads : Cut(payloads[k]) =>
            /\ HeaderSize(payloads[k].header.type) + Len(payloads[k].data) <= Mtu
            /\ payloads[k].refOffset + payloads[k].refLength <= uLen

(* Whatever the mixture of start codes, the conversion in place gives each *)
(* NALU of the file behind its length and nothing else: the extra bytes of *)
(* the buffer are enough, no NALU is overwritten before it is moved, and   *)
(* emulation prevention bytes do not end one (nalu.c, 259-378).            *)
ConvertedExactly ==
    codec = "H264" =>
        /\ stage \in {"write", "add", "far"} => Frame \in {AnnexB(file), Avcc(file)}
        /\ stage = "receive" => Frame = Avcc(file)

(* Before and after the conversion a search finds the first NALU of a type *)
(* if there is one, and all of it, and the producer knows a key frame by   *)
(* it (nalu.c, 103-122 and 140-209; kvsapp.c, 1475).                       *)
FileHas(type) == {k \in DOMAIN file : IsOfType(Head(file[k].bytes), type)}
NaluFound ==
    codec = "H264" /\ stage # "read" =>
        /\ \A type \in 1..TypeRadix - 1 :
            LET found == NALU_getNalu(Frame, type)
            IN  /\ found.res <=> FileHas(type) # {}
                /\ found.res => Bytes(Frame, found.nalu, found.length) = file[Min(FileHas(type))].bytes
        /\ isKeyFrame(Frame, IFrame) <=> FileHas(IFrame) # {}
        /\ bIsKeyFrame => FileHas(IFrame) # {}

(* What the far side has in the end is the frame: each NALU, fragmented or *)
(* not, behind a start code, or the very bytes (RtpH264Payloader.c, 254    *)
(* and 433).                                                               *)
FrameArrivesWhole ==
    stage \in {"receive", "far"} /\ payloads = <<>> =>
        received = IF codec = "H264"
                   THEN FlattenSeq([k \in DOMAIN file |-> StartCode(4) \o file[k].bytes])
                   ELSE Frame

(* What NALU_isAnnexBFrame promises: "true if it's a Annex-B NALU, or      *)
(* false otherwise" (nalu.h, 84).                                              *)
AvccNotTakenForAnnexB ==
    codec = "H264" /\ stage \in {"write", "add"} => (NALU_isAnnexBFrame(Frame) <=> Frame = AnnexB(file))
=============================================================================
