---------------------------- MODULE MkvGenerator ----------------------------
(***************************************************************************)
(* The MKV generator (mkv/mkv_generator.c): the header of a stream with    *)
(* its tracks and their codec private data, the header of a frame, and     *)
(* tags.                                                                   *)
(*                                                                         *)
(* Every size is written by code that does not count what it writes: most  *)
(* are literals, the others sums of sizeof.  So the bytes are left out and *)
(* their numbers kept.  A text is a sequence of pieces, each as long as    *)
(* its "len": an element is its ID and the size it claims to have; data is *)
(* a value.  A buffer is a text and the length the code computes for it.   *)
(***************************************************************************)
EXTENDS Nalu

Unknown == -1       \* a size of all ones

Element(id, len, size) == [id |-> id, len |-> len, value |-> size]
Data(value, len) == [id |-> "data", len |-> len, value |-> value]
Length(text) == FoldLeft(LAMBDA n, piece : n + piece.len, 0, text)

Sized(text, size) == [text EXCEPT ![1] = [@ EXCEPT !["value"] = size]]
NoBuffer == [text |-> <<>>, uLen |-> 0]

Track == [TRACK_VIDEO |-> 1, TRACK_AUDIO |-> 2]
TwoByteSize == 2^14
MAX_TAG_AMOUNT == 10
MAX_TAG_NAME_LEN == 128
MAX_TAG_VALUE_LEN == 256

-----------------------------------------------------------------------------
(* The templates.                                                          *)

Small(id, len, value) == <<Element(id, len + 1, 1), Data(value, 1)>>
Long(id, len, size, value) == <<Element(id, len + 1, size), Data(value, size)>>

gEbmlHeader ==
    <<Element("EBML", 5, 35)>> \o Small("EBMLVersion", 2, 1) \o Small("EBMLReadVersion", 2, 1)
    \o Small("EBMLMaxIDLength", 2, 4) \o Small("EBMLMaxSizeLength", 2, 8)
    \o Long("DocType", 2, 8, "matroska") \o Small("DocTypeVersion", 2, 2) \o Small("DocTypeReadVersion", 2, 2)

gSegmentHeader == <<Element("Segment", 5, Unknown)>>

gSegmentInfoHeader ==
    <<Element("Info", 6, 88)>> \o Long("SegmentUID", 2, 16, "uuid") \o Long("TimestampScale", 3, 8, 1000000)
    \o Long("Title", 2, 16, "Kinesis Video") \o Long("MuxingApp", 2, 16, "KVS APP")
    \o Long("WritingApp", 2, 16, "KVS APP")

gSegmentTrackHeader == <<Element("Tracks", 8, 0)>>

gSegmentTrackEntryHeader(track, name) ==
    <<Element("TrackEntry", 5, 0)>> \o Small("TrackNumber", 1, track) \o Long("TrackUID", 2, 8, track)
    \o Small("TrackType", 1, track) \o Long("Name", 2, 16, name)

gSegmentTrackEntryCodecHeader == <<Element("CodecID", 3, 0)>>

gSegmentTrackEntryVideoHeader(width, height) ==
    <<Element("Video", 5, 8)>> \o Long("PixelWidth", 1, 2, width) \o Long("PixelHeight", 1, 2, height)

gSegmentTrackEntryAudioHeader(frequency, channels) ==
    <<Element("Audio", 5, 13)>> \o Long("SamplingFrequency", 1, 8, frequency) \o Small("Channels", 1, channels)
gSegmentTrackEntryAudioHeaderBitsPerSample(bits) == Small("BitDepth", 2, bits)

gSegmentTrackEntryCodecPrivateHeader == <<Element("CodecPrivate", 6, 0)>>

gClusterHeader(timestamp) ==
    <<Element("Cluster", 5, Unknown)>> \o Long("Timestamp", 1, 8, timestamp) \o Small("Position", 1, 0)
gClusterSimpleBlock(size, track, timecode, flags) ==
    <<Element("SimpleBlock", 9, size), Data(<<track, timecode, flags>>, 4)>>

gMkvAACSamplingFrequencies ==
    <<96000, 88200, 64000, 48000, 44100, 32000, 24000, 22050, 16000, 12000, 11025, 8000, 7350>>

-----------------------------------------------------------------------------
(* Codec private data; NoBuffer when the code returns an error.            *)

H264PrivateData(pSps, pPps) ==
    [text |-> <<Element("SequenceParameterSets", 6, Unknown),
                Element("SPS", 2, Len(pSps)), Data(pSps, Len(pSps)),
                Element("PictureParameterSets", 1, Unknown),
                Element("PPS", 2, Len(pPps)), Data(pPps, Len(pPps))>>,
     uLen |-> 11 + Len(pSps) + Len(pPps)]

Mkv_generateH264CodecPrivateDataFromSpsPps(pSps, pPps) ==
    IF pSps = <<>> \/ pPps = <<>> THEN NoBuffer ELSE H264PrivateData(pSps, pPps)

(* An AVCC search may succeed without setting the NALU, or give one that   *)
(* goes beyond the frame; the code reads it all the same, of an SPS at     *)
(* least the first four bytes, and faults.                                 *)
Fault == [text |-> <<>>, uLen |-> Unknown]
NALU_TYPE_SPS == 7
NALU_TYPE_PPS == 8
Readable(b, found, n) == found.nalu > 0 /\ found.nalu + Max({found.length, n}) <= Len(b)
OfSearches(b, sps, pps) ==
    CASE ~(sps.res /\ pps.res) -> NoBuffer
      [] sps.res /\ pps.res /\ ~(Readable(b, sps, 4) /\ Readable(b, pps, 0)) -> Fault
      [] OTHER -> H264PrivateData(Bytes(b, sps.nalu, sps.length), Bytes(b, pps.nalu, pps.length))
Mkv_generateH264CodecPrivateDataFromAnnexBNalus(b) ==
    OfSearches(b, NALU_getNaluFromAnnexBNalus(b, NALU_TYPE_SPS), NALU_getNaluFromAnnexBNalus(b, NALU_TYPE_PPS))
Mkv_generateH264CodecPrivateDataFromAvccNalus(b) ==
    OfSearches(b, NALU_getNaluFromAvccNalus(b, NALU_TYPE_SPS), NALU_getNaluFromAvccNalus(b, NALU_TYPE_PPS))

(* The object type has five bits, the index and the channels four each.    *)
Mkv_generateAacCodecPrivateData(objectType, frequency, channel) ==
    LET At == {k \in DOMAIN gMkvAACSamplingFrequencies : gMkvAACSamplingFrequencies[k] = frequency}
    IN  IF At = {} THEN NoBuffer
        ELSE [text |-> <<Data((objectType * 2^11 + (Min(At) - 1) * 2^7 + channel * 2^3) % 2^16, 2)>>, uLen |-> 2]

Mkv_generatePcmCodecPrivateData(format, uSamplingRate, channels) ==
    IF uSamplingRate \notin 8000..192000 \/ channels \notin {1, 2} THEN NoBuffer
    ELSE [text |-> <<Data(format, 2), Data(channels, 2), Data(uSamplingRate, 4), Data(channels * uSamplingRate, 4),
                     Data(0, 2), Data(channels * 8, 2), Data(0, 2)>>,
          uLen |-> 18]

-----------------------------------------------------------------------------
(* Track entries and the header of a stream.                               *)

Entry(header, codec, own, private, uHeaderLen) ==
    [text |-> Sized(header, uHeaderLen - 5)
              \o Sized(gSegmentTrackEntryCodecHeader, codec.len) \o <<Data(codec.id, codec.len)>>
              \o own
              \o (IF private = NoBuffer THEN <<>>
                  ELSE Sized(gSegmentTrackEntryCodecPrivateHeader, private.uLen) \o private.text),
     uLen |-> uHeaderLen]

EntryLen(header, codec, own, private) ==
    Length(header) + Length(gSegmentTrackEntryCodecHeader) + codec.len + Length(own)
    + (IF private = NoBuffer THEN 0 ELSE Length(gSegmentTrackEntryCodecPrivateHeader) + private.uLen)

(* Without codec private data the entry is made, and not handed out.       *)
prvCreateVideoTrackEntry(info) ==
    LET header == gSegmentTrackEntryHeader(Track.TRACK_VIDEO, "kvs video track")
        own == gSegmentTrackEntryVideoHeader(info.uWidth, info.uHeight)
    IN  IF info.pCodecPrivate = NoBuffer THEN NoBuffer
        ELSE Entry(header, info.codec, own, info.pCodecPrivate, EntryLen(header, info.codec, own, info.pCodecPrivate))

prvCreateAudioTrackEntry_FixedLen(info) ==
    LET header == gSegmentTrackEntryHeader(Track.TRACK_AUDIO, "kvs audio track")
        own == gSegmentTrackEntryAudioHeader(info.uFrequency, info.uChannelNumber)
               \o (IF info.uBitsPerSample = 0 THEN <<>> ELSE gSegmentTrackEntryAudioHeaderBitsPerSample(info.uBitsPerSample))
    IN  Entry(header, info.codec, own, info.pCodecPrivate, EntryLen(header, info.codec, own, info.pCodecPrivate))

prvCreateAudioTrackEntry(info) ==
    LET header == gSegmentTrackEntryHeader(Track.TRACK_AUDIO, "kvs audio track")
        audio == gSegmentTrackEntryAudioHeader(info.uFrequency, info.uChannelNumber)
        bits == gSegmentTrackEntryAudioHeaderBitsPerSample(info.uBitsPerSample)
        own == IF info.uBitsPerSample = 0 THEN audio
               ELSE Sized(audio, Length(audio) + Length(bits) - 5) \o bits
    IN  Entry(header, info.codec, own, info.pCodecPrivate, EntryLen(header, info.codec, own, info.pCodecPrivate))

(* pAudioTrackInfo is empty (NULL) or holds the one of the audio track.    *)
Mkv_initializeHeaders(pVideoTrackInfo, pAudioTrackInfo) ==
    LET video == prvCreateVideoTrackEntry(pVideoTrackInfo)
        audio == IF pAudioTrackInfo = <<>> THEN NoBuffer ELSE prvCreateAudioTrackEntry(Head(pAudioTrackInfo))
    IN  [text |-> gEbmlHeader \o gSegmentHeader \o gSegmentInfoHeader
                  \o Sized(gSegmentTrackHeader, video.uLen + audio.uLen) \o video.text \o audio.text,
         uLen |-> Length(gEbmlHeader \o gSegmentHeader \o gSegmentInfoHeader \o gSegmentTrackHeader)
                  + video.uLen + audio.uLen]

-----------------------------------------------------------------------------
(* The header of a frame.  The block of a cluster is at its timestamp.     *)

Mkv_getClusterHdrLen(isCluster) == IF isCluster THEN 18 + 13 ELSE 13

Mkv_initializeClusterHdr(isCluster, uFrameSize, track, timecode) ==
    [text |-> (IF isCluster THEN gClusterHeader(timecode) ELSE <<>>)
              \o gClusterSimpleBlock(4 + uFrameSize, track, IF isCluster THEN 0 ELSE timecode, IF isCluster THEN 128 ELSE 0),
     uLen |-> Mkv_getClusterHdrLen(isCluster)]

-----------------------------------------------------------------------------
(* Tags: each has a key and a value, a name and a length each.             *)

TagText(tag) ==
    LET payload == 8 + tag.key.len + tag.value.len
    IN  <<Element("Tag", 4, (payload + 4) % TwoByteSize), Element("SimpleTag", 4, payload % TwoByteSize),
          Element("TagName", 4, tag.key.len), Data(tag.key.id, tag.key.len),
          Element("TagString", 4, tag.value.len), Data(tag.value.id, tag.value.len)>>

Mkv_generateTags(tagsList) ==
    LET tooLong == \E k \in DOMAIN tagsList :
                        tagsList[k].key.len > MAX_TAG_NAME_LEN \/ tagsList[k].value.len > MAX_TAG_VALUE_LEN
        written == FlattenSeq([k \in DOMAIN tagsList |-> TagText(tagsList[k])])
        totalSize == FoldLeft(LAMBDA n, tag : n + 16 + tag.key.len + tag.value.len, 6, tagsList)
    IN  IF Len(tagsList) > MAX_TAG_AMOUNT \/ tooLong THEN NoBuffer
        ELSE [text |-> <<Element("Tags", 6, Length(written) % TwoByteSize)>> \o written, uLen |-> totalSize]
=============================================================================
