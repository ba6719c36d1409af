--------------------------------- MODULE Rtp --------------------------------
(***************************************************************************)
(* A sending transceiver of the WebRTC SDK's patch, with                   *)
(* SUPPORT_SHARE_BUFFER: writeFrameEx numbers the packets of a frame,      *)
(* puts a reference to each into the rolling buffer and sends it;          *)
(* resendPacketOnNack takes the packets a NACK asks for out of the buffer, *)
(* reads their bytes again from the frame, sends them and puts them back   *)
(* (PeerConnection/Rtp.c, PeerConnection/Retransmitter.c,                  *)
(* Rtcp/RtpRollingBuffer.c).                                               *)
(*                                                                         *)
(* The two run in different threads.  writeFrameEx holds pSrtpSessionLock; *)
(* resendPacketOnNack takes it to send with RTX, and not otherwise.  The   *)
(* rolling buffer has a lock of its own, lastIndex has none.               *)
(*                                                                         *)
(* A packet is its number in the order they were put into the buffer, so   *)
(* packet n has the index n - 1 there; 0 is NULL.  Memory does not run     *)
(* out.                                                                    *)
(***************************************************************************)
EXTENDS RtpPayload, FiniteSets

CONSTANTS
    Codec,          \* of the track
    FrameData,      \* the bytes a frame may have
    SeqSize,        \* the values of a sequence number: 2^16
    Capacity,       \* of the rolling buffer
    ValidIndexes,   \* validIndexListLen of the retransmitter
    LiveFrames,     \* frames the frame ring buffer keeps
    Rtx,            \* whether a payload type for RTX was negotiated: one or both
    SendResults,    \* what iceAgentSendPacket may return
    MaxFrames,      \* bound: frames written
    MaxNacks,       \* bound: NACKs received
    MaxNacked       \* bound: numbers in a NACK

ASSUME RtpAssumption ==
    /\ Capacity \in Nat \ {0} /\ SeqSize \in Nat /\ Capacity < SeqSize
    /\ ValidIndexes \in Nat \ {0} /\ LiveFrames \in Nat \ {0}
    /\ Rtx \subseteq BOOLEAN
    /\ SendResults \subseteq {"success", "failed", "error"}
    /\ Codec \in {"H264", "VP8", "G711", "Opus"}
    /\ \A data \in FrameData : data \in Seq(0..Radix - 1)

VARIABLES
    \* The peer connection.
    srtpReady,          \* pSrtpSession is there
    rtx,                \* rtxPayloadType is another than payloadType
    \* sender: writeFrameEx.
    writer,             \* where it is
    sequenceNumber,
    todo,               \* the packets of the frame it has still to put into the buffer
    frames,             \* the frames written so far
    \* sender.packetBuffer.
    slots, tailIndex, headIndex, lastIndex,
    \* resendPacketOnNack.
    resender,           \* where it is
    sequenceNumberList, validIndexList,
    size,               \* what rollingBufferGetSize returned, until the list is made
    index,              \* of the loop over validIndexList, from 1
    item,               \* the packet taken out
    \* History.
    packets,            \* the packets by number
    freed, leaked,      \* packets
    lastIndexThen,      \* what lastIndex was when size was read, as long
    unbuffered,         \* how many packets were numbered and then given up
    resent,             \* the packet that is resent, with the bytes that were read
    nacks

writerVars == <<writer, sequenceNumber, todo, frames, unbuffered>>
bufferVars == <<slots, tailIndex, headIndex>>
resenderVars == <<resender, sequenceNumberList, validIndexList, size, index, item, resent, nacks,
                  lastIndexThen>>
peerVars == <<srtpReady, rtx>>
vars == <<peerVars, writerVars, bufferVars, lastIndex, resenderVars, packets, freed, leaked>>

NoPacket == 0
Slot(i) == i % Capacity
InRange(i) == tailIndex <= i /\ i < headIndex
GET_UINT16_SEQ_NUM(n) == n % SeqSize

Init ==
    /\ srtpReady = FALSE /\ rtx \in Rtx
    /\ writer = "idle" /\ sequenceNumber = 0 /\ todo = <<>> /\ frames = <<>> /\ unbuffered = 0
    /\ slots = [s \in 0..Capacity - 1 |-> NoPacket] /\ tailIndex = 0 /\ headIndex = 0 /\ lastIndex = 0
    /\ resender = "idle" /\ sequenceNumberList = <<>> /\ validIndexList = <<>> /\ size = 0
    /\ index = 1 /\ item = NoPacket /\ resent = <<>> /\ nacks = 0 /\ lastIndexThen = 0
    /\ packets = <<>> /\ freed = {} /\ leaked = {}

(* The DTLS handshake has ended.                                           *)
SrtpReady ==
    /\ ~srtpReady
    /\ srtpReady' = TRUE
    /\ UNCHANGED <<rtx, writerVars, bufferVars, lastIndex, resenderVars, packets, freed, leaked>>

-----------------------------------------------------------------------------
(* writeFrameEx.                                                           *)

(* constructRtpPackets: the packets of a frame, numbered on from           *)
(* sequenceNumber, which then goes on by the whole frame.  A frame of which*)
(* nothing is made (an empty NALU of AVCC) has none.                       *)
Numbered(payloads, frame) ==
    [k \in DOMAIN payloads |->
        [seq |-> GET_UINT16_SEQ_NUM(sequenceNumber + k - 1), frame |-> frame,
         header |-> payloads[k].header, data |-> payloads[k].data,
         refOffset |-> payloads[k].refOffset, refLength |-> payloads[k].refLength]]

WriteFrame_CountsFrames ==
    /\ writer = "idle"
    /\ srtpReady
    /\ Len(frames) < MaxFrames
    /\ \E data \in FrameData : \E payloads \in rtpPayloadFunc(Codec, data) :
        /\ frames' = Append(frames, data)
        /\ todo' = Numbered(payloads, Len(frames'))
        /\ sequenceNumber' = GET_UINT16_SEQ_NUM(sequenceNumber + 1)
    /\ writer' = IF todo' = <<>> THEN "idle" ELSE "append"
    /\ UNCHANGED <<unbuffered, peerVars, bufferVars, lastIndex, resenderVars, packets, freed, leaked>>
WriteFrame ==
    /\ writer = "idle"
    /\ srtpReady
    /\ Len(frames) < MaxFrames
    /\ \E data \in FrameData : \E payloads \in rtpPayloadFunc(Codec, data) :
        /\ frames' = Append(frames, data)
        /\ todo' = Numbered(payloads, Len(frames'))
        /\ sequenceNumber' = GET_UINT16_SEQ_NUM(sequenceNumber + Len(payloads))
    /\ writer' = IF todo' = <<>> THEN "idle" ELSE "append"
    /\ UNCHANGED <<unbuffered, peerVars, bufferVars, lastIndex, resenderVars, packets, freed, leaked>>

(* Before SRTP is ready frames are discarded.                              *)
DiscardFrame ==
    /\ writer = "idle"
    /\ ~srtpReady
    /\ UNCHANGED vars

(* rollingBufferAppendData: when the buffer is full, the oldest is freed.  *)
Oldest == IF headIndex - tailIndex = Capacity THEN {slots[Slot(tailIndex)]} \ {NoPacket} ELSE {}

rtpRollingBufferAddRtpPacketWithRef ==
    /\ writer = "append"
    /\ packets' = Append(packets, Head(todo))
    /\ freed' = freed \union Oldest
    /\ tailIndex' = IF headIndex - tailIndex = Capacity THEN tailIndex + 1 ELSE tailIndex
    /\ slots' = [slots EXCEPT ![Slot(headIndex)] = Len(packets')]
    /\ headIndex' = headIndex + 1
    /\ todo' = Tail(todo)
    /\ writer' = "index"
    /\ UNCHANGED <<sequenceNumber, frames, unbuffered, peerVars, lastIndex, resenderVars, leaked>>

StoreLastIndex ==
    /\ writer = "index"
    /\ lastIndex' = headIndex - 1
    /\ writer' = "send"
    /\ UNCHANGED <<sequenceNumber, todo, frames, unbuffered, peerVars, bufferVars, resenderVars, packets,
                   freed, leaked>>

(* Encryption and iceAgentSendPacket.  After STATUS_SEND_DATA_FAILED the   *)
(* loop goes on, after another error it does not: the packets that are     *)
(* left keep their numbers and are not put into the buffer.                *)
SendPacket ==
    /\ writer = "send"
    /\ \E result \in SendResults :
        IF result = "error" \/ todo = <<>>
        THEN writer' = "idle" /\ todo' = <<>> /\ unbuffered' = unbuffered + Len(todo)
        ELSE writer' = "append" /\ UNCHANGED <<todo, unbuffered>>
    /\ UNCHANGED <<sequenceNumber, frames, peerVars, bufferVars, lastIndex, resenderVars, packets, freed, leaked>>

-----------------------------------------------------------------------------
(* resendPacketOnNack.                                                     *)

(* The far side asks for any numbers: one it misses may be that of a       *)
(* packet which was lost, which was given up, or which left the buffer.    *)
ReceiveNack ==
    /\ resender = "idle"
    /\ nacks < MaxNacks
    /\ nacks' = nacks + 1
    /\ \E n \in 1..MaxNacked : sequenceNumberList' \in {s \in [1..n -> 0..SeqSize - 1] : IsInjective(s)}
    /\ size' = headIndex - tailIndex
    /\ lastIndexThen' = lastIndex
    /\ resender' = "list"
    /\ UNCHANGED <<validIndexList, index, item, resent, peerVars, writerVars, bufferVars, lastIndex, packets, freed, leaked>>

(* rtpRollingBufferGetValidSeqIndexList, from the size it has read: the    *)
(* indexes of the numbers that are in the buffer.  The numbers from        *)
(* startSeq to endSeq may wrap round.                                      *)
startSeq(read) == GET_UINT16_SEQ_NUM(read - size + 1)
endSeq(read) == GET_UINT16_SEQ_NUM(read)
crossMaxSeq_Never(start, end) == FALSE
crossMaxSeq(start, end) == start >= end

ValidIndex(seq, start, end, read) ==
    CASE (crossMaxSeq(start, end) \/ seq <= end) /\ seq >= start -> {read - size + 1 + seq - start}
      [] crossMaxSeq(start, end) /\ seq < start /\ seq <= end -> {read - end + seq}
      [] OTHER -> {}

Listed(found) ==
    LET indexes == FlattenSeq([k \in DOMAIN found |-> SetToSeq(found[k])])
    IN  SubSeq(indexes, 1, Min({Len(indexes), ValidIndexes}))

(* lastIndex is read for startSeq, for endSeq and for each number, while   *)
(* the writer may store it: the values it has had since are read in order. *)
ReadsOfLastIndex ==
    {reads \in [1..Len(sequenceNumberList) + 2 -> lastIndexThen..lastIndex] :
        \A j, k \in DOMAIN reads : j <= k => reads[j] <= reads[k]}

ListFrom(reads) ==
    Listed([k \in DOMAIN sequenceNumberList |->
                ValidIndex(sequenceNumberList[k], startSeq(reads[1]), endSeq(reads[2]), reads[k + 2])])

ListValid ==
    /\ resender = "list"
    /\ IF size = 0 THEN validIndexList' = <<>>
                   ELSE \E reads \in ReadsOfLastIndex : validIndexList' = ListFrom(reads)
    /\ size' = 0 /\ lastIndexThen' = 0
    /\ resender' = "extract"
    /\ UNCHANGED <<sequenceNumberList, index, item, resent, nacks, peerVars, writerVars, bufferVars, lastIndex,
                   packets, freed, leaked>>

(* The loop over validIndexList.  An index that has left the buffer ends   *)
(* it; a packet that has been taken out already is NULL.                   *)
Extract ==
    /\ resender = "extract"
    /\ index <= Len(validIndexList)
    /\ InRange(validIndexList[index])
    /\ LET slot == Slot(validIndexList[index])
       IN  item' = slots[slot] /\ slots' = [slots EXCEPT ![slot] = NoPacket]
    /\ resender' = "check"
    /\ UNCHANGED <<sequenceNumberList, validIndexList, size, index, resent, nacks, lastIndexThen, tailIndex, headIndex,
                   lastIndex, peerVars, writerVars, packets, freed, leaked>>

Return ==
    /\ resender' = "idle"
    /\ sequenceNumberList' = <<>> /\ validIndexList' = <<>> /\ index' = 1
    /\ UNCHANGED <<size, resent, nacks, lastIndexThen, peerVars, writerVars, bufferVars, lastIndex, packets, freed>>

EndOfNack ==
    /\ resender = "extract"
    /\ index <= Len(validIndexList) => ~InRange(validIndexList[index])
    /\ Return
    /\ UNCHANGED <<item, leaked>>

(* onRtpResend: whether FrameRingBuffer_getFrame finds the frame.  Once it *)
(* has left the frame ring buffer, its key finds nothing, or the frame     *)
(* which has its slot now (module FrameRingBuffer).  A packet whose frame  *)
(* is not found is neither put back nor freed.                             *)
Live(n) == n # NoPacket /\ packets[n].frame > Len(frames) - LiveFrames

FrameFound ==
    /\ resender' = "resend"
    /\ UNCHANGED <<index, item, leaked>>

FrameNotFound ==
    /\ leaked' = leaked \union ({item} \ {NoPacket})
    /\ item' = NoPacket
    /\ index' = index + 1
    /\ resender' = "extract"

onRtpResend_OfNull ==
    /\ resender = "check"
    /\ FrameFound \/ (~Live(item) /\ FrameNotFound)
    /\ UNCHANGED <<sequenceNumberList, validIndexList, size, resent, nacks, lastIndexThen, peerVars, writerVars,
                   bufferVars, lastIndex, packets, freed>>
onRtpResend ==
    /\ resender = "check"
    /\ (item # NoPacket /\ FrameFound) \/ (~Live(item) /\ FrameNotFound)
    /\ UNCHANGED <<sequenceNumberList, validIndexList, size, resent, nacks, lastIndexThen, peerVars, writerVars,
                   bufferVars, lastIndex, packets, freed>>

(* The packet is made of its header and of the bytes it refers to, or of   *)
(* others if the frame has gone by now, which one found in its slot does   *)
(* not change, for the address is the old one; it is sent, with RTX under  *)
(* pSrtpSessionLock, and what iceAgentSendPacket says only counts for the  *)
(* statistics.                                                             *)
Reread(n) == Bytes(frames[packets[n].frame], packets[n].refOffset, packets[n].refLength)
OtherBytes == <<>>

Resend ==
    /\ resender = "resend"
    /\ rtx => writer = "idle"
    /\ \/ resent' = <<item, Reread(item)>>
       \/ ~Live(item) /\ resent' = <<item, OtherBytes>>
    /\ resender' = "putback"
    /\ UNCHANGED <<sequenceNumberList, validIndexList, size, index, item, nacks, lastIndexThen, peerVars, writerVars,
                   bufferVars, lastIndex, packets, freed, leaked>>

(* Without RTX an encryption that fails ends it all.                       *)
ResendFails ==
    /\ resender = "resend"
    /\ ~rtx
    /\ leaked' = leaked \union {item}
    /\ item' = NoPacket
    /\ Return

(* rollingBufferInsertData, with the number that stands at the place of    *)
(* the packet in the NACK; what is there is freed.  Where the number is    *)
(* out of range, the packet is.                                            *)
PutBack_KeepsOutOfRange ==
    /\ resender = "putback"
    /\ LET at == sequenceNumberList[index]
       IN  IF InRange(at)
           THEN /\ slots' = [slots EXCEPT ![Slot(at)] = item]
                /\ freed' = freed \union ({slots[Slot(at)]} \ {NoPacket})
           ELSE UNCHANGED <<slots, freed>>
    /\ item' = NoPacket
    /\ resent' = <<>>
    /\ index' = index + 1
    /\ resender' = "extract"
    /\ UNCHANGED <<sequenceNumberList, validIndexList, size, nacks, lastIndexThen, tailIndex, headIndex,
                   lastIndex, peerVars, writerVars, packets, leaked>>
PutBack ==
    /\ resender = "putback"
    /\ LET at == sequenceNumberList[index]
       IN  IF InRange(at)
           THEN /\ slots' = [slots EXCEPT ![Slot(at)] = item]
                /\ freed' = freed \union ({slots[Slot(at)]} \ {NoPacket})
           ELSE freed' = freed \union {item} /\ UNCHANGED slots
    /\ item' = NoPacket
    /\ resent' = <<>>
    /\ index' = index + 1
    /\ resender' = "extract"
    /\ UNCHANGED <<sequenceNumberList, validIndexList, size, nacks, lastIndexThen, tailIndex, headIndex,
                   lastIndex, peerVars, writerVars, packets, leaked>>

-----------------------------------------------------------------------------
Writer == WriteFrame \/ DiscardFrame \/ rtpRollingBufferAddRtpPacketWithRef \/ StoreLastIndex \/ SendPacket
Retransmitter == ReceiveNack \/ ListValid \/ Extract \/ EndOfNack \/ onRtpResend \/ Resend \/ ResendFails
                 \/ PutBack

Next == SrtpReady \/ Writer \/ Retransmitter

Spec == Init /\ [][Next]_vars

-----------------------------------------------------------------------------
Packet == DOMAIN packets

(* The values the variables have; a packet that is being resent has been   *)
(* taken out, and the indexes and the numbers are read within their lists. *)
TypeOK ==
    /\ srtpReady \in BOOLEAN /\ rtx \in BOOLEAN
    /\ writer \in {"idle", "append", "index", "send"}
    /\ sequenceNumber \in 0..SeqSize - 1
    /\ writer = "append" => todo # <<>>
    /\ slots \in [0..Capacity - 1 -> {NoPacket} \union Packet]
    /\ tailIndex \in 0..headIndex /\ headIndex - tailIndex <= Capacity
    /\ resender \in {"idle", "list", "extract", "check", "resend", "putback"}
    /\ size \in 0..Capacity
    /\ Len(validIndexList) <= Min({Len(sequenceNumberList), ValidIndexes})
    /\ index \in 1..Len(validIndexList) + 1
    /\ item \in {NoPacket} \union Packet
    /\ resender \in {"resend", "putback"} => item # NoPacket

(* Unless a packet was put into the buffer since its size was read, or its *)
(* index was stored, or numbers were given up, the retransmitter finds     *)
(* exactly those packets that have a number asked for and are in the range *)
(* of the buffer, in the order they were asked for, also when their        *)
(* numbers have wrapped round (RtpRollingBuffer.c, 154-171).  Not so for a *)
(* buffer with one packet, whose first number is its last: "startSeq >=    *)
(* endSeq" takes any number for one in the range.                          *)
InBuffer(seq) == {i \in tailIndex..headIndex - 1 : packets[i + 1].seq = seq}
NackedFound ==
    [][ListValid /\ unbuffered = 0 /\ size # 1 /\ size = headIndex - tailIndex /\ lastIndexThen = lastIndex
            /\ lastIndex = headIndex - 1
       => validIndexList' = Listed([k \in DOMAIN sequenceNumberList |-> InBuffer(sequenceNumberList[k])])]_vars

(* A packet that was put into the buffer is there once, or was taken out   *)
(* by the retransmitter, or has been freed or lost, and never two of these *)
(* (RtpRollingBuffer.c, 124; Retransmitter.c, 88 and 136-145).             *)
PacketInOnePlace ==
    \A n \in Packet :
        Cardinality({s \in DOMAIN slots : slots[s] = n}) + Cardinality({item} \cap {n})
            + Cardinality(freed \cap {n}) + Cardinality(leaked \cap {n}) = 1

(* The number of a packet gives its index in the buffer, which is how it   *)
(* is found again, as far as no numbers were given up: a packet that is    *)
(* not sent keeps its place (Rtp.c, 557 and 594-613).                      *)
SequenceFollowsIndex ==
    /\ GET_UINT16_SEQ_NUM(headIndex + Len(todo) + unbuffered) = sequenceNumber
    /\ unbuffered = 0 => \A n \in Packet : packets[n].seq = GET_UINT16_SEQ_NUM(n - 1)

(* What is resent is what was sent: "The second part is for putting offset *)
(* of a frame" (Rtp.c, 536), the offset of the data of the packet.         *)
ResentAsSent == resent # <<>> => resent[2] = packets[resent[1]].data
=============================================================================
