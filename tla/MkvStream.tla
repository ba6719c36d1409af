------------------------------ MODULE MkvStream -----------------------------
(***************************************************************************)
(* The stream together with the MKV generator: what Kvs_streamCreate makes *)
(* of the tracks, and what goes to PUT MEDIA for the header of the stream  *)
(* and for each frame that is popped (prvPutMediaSendData), with the tags  *)
(* of the session in front of a cluster.                                   *)
(*                                                                         *)
(* Segment and clusters have no size, so a reader takes what is sent chunk *)
(* by chunk.  Below, a chunk is read the way Matroska says; the two        *)
(* descriptions have nothing but the names of the elements in common.      *)
(***************************************************************************)
EXTENDS Stream, MkvGenerator

CONSTANTS
    Videos,         \* ways to describe the video track
    Audios,         \* of the audio track
    TagsLists       \* tags of a session

VARIABLES
    tracks,             \* history: what the stream was made of; <<>> before
    pMkvEbmlSeg,        \* the header of the stream
    firstClusterSeen,   \* static in Kvs_dataFrameAddTags
    chunk               \* what the last step handed to PUT MEDIA

mkvVars == <<vars, tracks, pMkvEbmlSeg, firstClusterSeen, chunk>>

Nothing == [of |-> "nothing", buffer |-> NoBuffer, tags |-> <<>>]

MkvInit ==
    /\ Init
    /\ tracks = <<>> /\ pMkvEbmlSeg = NoBuffer
    /\ firstClusterSeen = FALSE
    /\ chunk = Nothing

-----------------------------------------------------------------------------
(* The track infos.  The SPS and PPS come from a frame in either format, or*)
(* one at a time (createStream); the application gives those of the audio. *)

VideoTrackInfo(video) ==
    [codec |-> [id |-> "V_MPEG4/ISO/AVC", len |-> 15], uWidth |-> video.width, uHeight |-> video.height,
     pCodecPrivate |->
        CASE video.from = "AnnexB" -> Mkv_generateH264CodecPrivateDataFromAnnexBNalus(video.frame)
          [] video.from = "AVCC" -> Mkv_generateH264CodecPrivateDataFromAvccNalus(video.frame)
          [] video.from = "SpsPps" -> Mkv_generateH264CodecPrivateDataFromSpsPps(video.sps, video.pps)]

AudioTrackInfo(audio) ==
    [codec |-> [id |-> audio.codec, len |-> IF audio.codec = "A_AAC" THEN 5 ELSE 8],
     uFrequency |-> audio.frequency, uChannelNumber |-> audio.channels, uBitsPerSample |-> audio.bits,
     pCodecPrivate |->
        IF audio.codec = "A_AAC" THEN Mkv_generateAacCodecPrivateData(audio.type, audio.frequency, audio.channels)
        ELSE Mkv_generatePcmCodecPrivateData(audio.type, audio.frequency, audio.channels)]

(* Kvs_streamCreate.  Without memory there is no stream and another frame  *)
(* tries again, which is a stutter here; a fault ends the program.         *)
Kvs_streamCreate ==
    /\ tracks = <<>>
    /\ \E video \in Videos, audio \in {<<>>} \cup {<<a>> : a \in Audios} :
        /\ VideoTrackInfo(video).pCodecPrivate \notin {NoBuffer, Fault}
        /\ tracks' = <<[width |-> video.width, height |-> video.height, sps |-> video.sps, pps |-> video.pps]>> \o audio
        /\ pMkvEbmlSeg' = Mkv_initializeHeaders(VideoTrackInfo(video),
                                [k \in DOMAIN audio |-> AudioTrackInfo(audio[k])])
    /\ UNCHANGED <<vars, firstClusterSeen, chunk>>

AddFrame ==
    /\ tracks # <<>>
    /\ \E f \in DataFrameIn : Kvs_streamAddDataFrame(f)
    /\ chunk' = Nothing
    /\ UNCHANGED <<tracks, pMkvEbmlSeg, firstClusterSeen>>

(* The header opens each session, when a cluster is first (updateEbmlHeader).*)
Kvs_streamGetMkvEbmlSegHdr ==
    /\ pending # <<>> /\ IsCluster(Head(pending).frame)
    /\ chunk' = [of |-> "header", buffer |-> pMkvEbmlSeg, tags |-> <<>>]
    /\ UNCHANGED <<vars, tracks, pMkvEbmlSeg, firstClusterSeen>>

EndOfFragment == [key |-> [id |-> "AWS_KINESISVIDEO_END_OF_FRAGMENT", len |-> 32], value |-> [id |-> "", len |-> 0]]

AllTags(tagsList, endOfStream) == tagsList \o (IF endOfStream THEN <<EndOfFragment>> ELSE <<>>)

Prefixed(tagsBuffer, header) ==
    [text |-> tagsBuffer.text \o header.text, uLen |-> tagsBuffer.uLen + header.uLen]

(* The frame's header with the tags in front, and whether that worked; the *)
(* memory for it may be missing.  The very first cluster has none.         *)
Kvs_dataFrameAddTags(header, tagsList, endOfStream) ==
    LET tags == AllTags(tagsList, endOfStream)
        tagsBuffer == Mkv_generateTags(tags)
        Done(h) == [res |-> TRUE, header |-> h]
        Failed == [res |-> FALSE, header |-> header]
    IN  CASE Len(tags) >= MAX_TAG_AMOUNT -> {Failed}
          [] Len(tags) < MAX_TAG_AMOUNT /\ ~firstClusterSeen -> {Done(header)}
          [] OTHER -> {Failed} \cup (IF tagsBuffer = NoBuffer THEN {} ELSE {Done(Prefixed(tagsBuffer, header))})

(* A frame is popped, and sent behind its header if the tags could be      *)
(* added; a block is sent as it is.                                        *)
SendFrame(tagsList, endOfStream) ==
    /\ Kvs_streamPop
    /\ LET f == Head(pending).frame
           header == Mkv_initializeClusterHdr(IsCluster(f), f.uDataLen, Track[f.xTrackType], Head(pending).timecode)
           tagging == IsCluster(f) /\ tagsList # <<>>
       IN  \E tagged \in IF tagging THEN Kvs_dataFrameAddTags(header, tagsList, endOfStream)
                         ELSE {[res |-> TRUE, header |-> header]} :
            /\ chunk' = IF ~tagged.res THEN Nothing
                        ELSE [of |-> "frame",
                              buffer |-> [text |-> tagged.header.text \o <<Data(f.id, f.uDataLen)>>,
                                          uLen |-> tagged.header.uLen + f.uDataLen],
                              tags |-> IF tagging /\ firstClusterSeen
                                       THEN AllTags(tagsList, endOfStream) ELSE <<>>]
            /\ firstClusterSeen' = (firstClusterSeen \/ (tagging /\ tagged.res))
    /\ UNCHANGED <<tracks, pMkvEbmlSeg>>

MkvNext ==
    \/ Kvs_streamCreate
    \/ AddFrame
    \/ Kvs_streamGetMkvEbmlSegHdr
    \/ \E tagsList \in TagsLists, endOfStream \in BOOLEAN : SendFrame(tagsList, endOfStream)

MkvSpec == MkvInit /\ [][MkvNext]_mkvVars

-----------------------------------------------------------------------------
(* How a reader of Matroska takes a text: an element holds all up to the   *)
(* next one that is not below it.                                          *)

Level(id) ==
    CASE id \in {"EBML", "Segment"} -> 0
      [] id \in {"Info", "Tracks", "Cluster", "Tags", "EBMLVersion", "EBMLReadVersion", "EBMLMaxIDLength",
                 "EBMLMaxSizeLength", "DocType", "DocTypeVersion", "DocTypeReadVersion"} -> 1
      [] id \in {"SegmentUID", "TimestampScale", "Title", "MuxingApp", "WritingApp", "TrackEntry", "Timestamp",
                 "Position", "SimpleBlock", "Tag"} -> 2
      [] id \in {"TrackNumber", "TrackUID", "TrackType", "Name", "CodecID", "Video", "Audio", "CodecPrivate",
                 "SimpleTag"} -> 3
      [] id \in {"SPS", "PPS"} -> 5
      [] OTHER -> 4

Elements(text) == {i \in DOMAIN text : text[i].id # "data"}
Content(text, i) ==
    LET next == {j \in Elements(text) : j > i /\ Level(text[j].id) <= Level(text[i].id)}
    IN  SubSeq(text, i + 1, Min(next \cup {Len(text) + 1}) - 1)
SizesAgree(text) ==
    \A i \in Elements(text) : text[i].value \in {Unknown, Length(Content(text, i))}

(* The contents of the elements of an ID, in order, and the value of one.  *)
Contents(text, id) ==
    LET at == SelectSeq([i \in DOMAIN text |-> i], LAMBDA i : text[i].id = id)
    IN  [k \in DOMAIN at |-> Content(text, at[k])]
Value(text, id) == Contents(text, id)[1][1].value

ReadsAsVideo(entry, video) ==
    /\ Value(entry, "TrackNumber") = 1 /\ Value(entry, "TrackType") = 1
    /\ Value(entry, "PixelWidth") = video.width /\ Value(entry, "PixelHeight") = video.height
    /\ Value(entry, "SPS") = video.sps /\ Value(entry, "PPS") = video.pps

ReadsAsAudio(entry, audio) ==
    /\ Value(entry, "TrackNumber") = 2 /\ Value(entry, "TrackType") = 2
    /\ Value(entry, "SamplingFrequency") = audio.frequency /\ Value(entry, "Channels") = audio.channels
    /\ audio.bits # 0 => Value(entry, "BitDepth") = audio.bits
    /\ LET private == Contents(entry, "CodecPrivate")
       IN  IF audio.codec = "A_AAC"
           THEN private # <<>> =>
                LET word == private[1][1].value
                IN  /\ word \div 2^11 = audio.type
                    /\ gMkvAACSamplingFrequencies[((word \div 2^7) % 16) + 1] = audio.frequency
                    /\ (word \div 2^3) % 16 = audio.channels
           ELSE private # <<>> => private[1][1].value = audio.type /\ private[1][3].value = audio.frequency

(* What is sent is what was meant: as long as the code counted, each size  *)
(* that of what it is in front of, the tracks those the stream was made    *)
(* of, the block with its frame behind it, and the tags all there, in      *)
(* front of the cluster (mkv_generator.c; stream.c, 434-560).              *)
ChunksReadBack ==
    LET text == chunk.buffer.text
        entries == Contents(text, "TrackEntry")
        tags == Contents(text, "Tag")
    IN  chunk.of # "nothing" =>
        /\ Length(text) = chunk.buffer.uLen
        /\ SizesAgree(text)
        /\ chunk.of = "header" =>
            /\ Len(entries) = Len(tracks)
            /\ ReadsAsVideo(entries[1], tracks[1])
            /\ Len(tracks) = 2 => ReadsAsAudio(entries[2], tracks[2])
        /\ chunk.of = "frame" =>
            /\ \A f \in popped :
                /\ Last(Contents(text, "SimpleBlock")[1]) = Data(f.id, f.uDataLen)
                /\ Value(text, "SimpleBlock")[1] = Track[f.xTrackType]
                /\ IsCluster(f) <=> Contents(text, "Cluster") # <<>>
            /\ Len(tags) = Len(chunk.tags)
            /\ \A k \in DOMAIN tags :
                /\ Value(tags[k], "TagName") = chunk.tags[k].key.id
                /\ Value(tags[k], "TagString") = chunk.tags[k].value.id
            /\ tags # <<>> => Head(text).id = "Tags"
=============================================================================
