------------------------------- MODULE KvsApp -------------------------------
(***************************************************************************)
(* The producer path of src/source/app/kvsapp.c: two capture threads call  *)
(* KvsApp_addFrame while the application's main thread opens sessions,     *)
(* works and closes them (samples/kvsapp/kvsappcli.c).  The only lock they *)
(* share is the one inside the stream, taken once per stream call.  All    *)
(* else they share (xStreamHandle, uEarliestTimestamp, the SPS and PPS) is *)
(* read and written bare, so a step ends wherever it matters that another  *)
(* thread gets in between two of those accesses.                           *)
(*                                                                         *)
(* PUT MEDIA is seen from the other end: what the server has made of the   *)
(* bytes of the current session.                                           *)
(***************************************************************************)
EXTENDS StreamBuffer, FiniteSets

CONSTANTS
    HasAudioTrack,  \* the application sets OPTION_KVS_AUDIO_TRACK_INFO
    Policies,       \* stream policies to consider
    DefaultMemLimit,    \* DEFAULT_RING_BUFFER_MEM_LIMIT
    MemLimit,       \* what OPTION_STREAM_POLICY_RING_BUFFER_MEM_LIMIT is set to
    HeaderLen,      \* what a pending frame costs beyond its data
    MaxStreams      \* bound: streams memory suffices for

None == "STREAM_POLICY_NONE"
RingBuffer == "STREAM_POLICY_RING_BUFFER"

Adder == TrackType              \* one capture thread per track
Main == "main"
Thread == Adder \cup {Main}
NULL == 0
StreamId == 1..MaxStreams

ASSUME KvsAppAssumption ==
    /\ HasAudioTrack \in BOOLEAN
    /\ Policies \subseteq {None, RingBuffer}
    /\ DefaultMemLimit \in Nat /\ MemLimit \in Nat /\ HeaderLen \in Nat
    /\ MaxStreams \in Nat
    /\ FrameId \subseteq Nat \ {NULL}
    /\ \E m \in DataLen : \A n \in DataLen : n <= m     \* uDataLen is a size_t

VARIABLES
    \* The fields of KvsApp_t that threads share.
    xPolicy, uMemLimit,
    pAudioTrackInfo,    \* it is set
    xStreamHandle, isAudioTrackPresent, uEarliestTimestamp,
    spsPps,             \* pSps and pPps are set
    isOpen,             \* xPutMediaHandle is not NULL
    isEbmlHeaderUpdated,
    \* The streams in memory, how many there have been, and history: those in
    \* which room was found since the limit was set.
    stream, created, roomy,
    \* The threads.
    pc,
    hand,               \* the frame a capture thread is adding
    handle,             \* a thread's own copy of xStreamHandle
    mode,               \* of the doWork in progress
    peeked,             \* the frame main looks at while it is in the list
    held,               \* the frame main has popped, with the cluster it follows
    fault,              \* main used a frame that was not there any more
    gStopRunning,
    \* Environment and history.
    clock,              \* last capture time of each track
    captured,           \* how many frames have been captured
    terminated,         \* how often each frame was given back
    server              \* what the server has received in this session

options == <<xPolicy, uMemLimit, pAudioTrackInfo>>
app == <<options, xStreamHandle, isAudioTrackPresent, uEarliestTimestamp, spsPps>>
session == <<isOpen, isEbmlHeaderUpdated, server>>
streams == <<stream, created, roomy>>
adding == <<hand, clock, captured>>
working == <<mode, peeked, held, fault>>
vars == <<app, session, streams, adding, working, pc, handle, gStopRunning, terminated>>

\* A session nothing has been received in.  cluster is the last cluster frame
\* that arrived, last the last frame, with the time the server reads off it and
\* whether the cluster it was made for is the one the server has.  It is framed
\* until a chunk is cut off: from there on chunks begin where they do not.
NewServer == [framed |-> TRUE, header |-> FALSE, cluster |-> {}, last |-> {}]

Init ==
    /\ xPolicy = None /\ uMemLimit = 0 /\ pAudioTrackInfo = FALSE
    /\ xStreamHandle = NULL /\ isAudioTrackPresent = FALSE
    /\ uEarliestTimestamp = 0 /\ spsPps = FALSE
    /\ isOpen = FALSE /\ isEbmlHeaderUpdated = FALSE
    /\ server = NewServer
    /\ stream = [s \in StreamId |-> [pending |-> <<>>, earliest |-> 0, cluster |-> NULL]]
    /\ created = 0 /\ roomy = {}
    /\ pc = [t \in Thread |-> IF t = Main THEN "setAudio" ELSE "idle"]
    /\ hand = [a \in Adder |-> {}] /\ handle = [t \in Thread |-> NULL]
    /\ clock = [a \in Adder |-> 0] /\ captured = 0
    /\ mode = "DO_WORK_DEFAULT" /\ peeked = {} /\ held = {} /\ fault = FALSE
    /\ gStopRunning = FALSE
    /\ terminated = [i \in FrameId |-> 0]

Goto(t, label) == pc' = [pc EXCEPT ![t] = label]

\* OnDataFrameTerminate: the application has its buffer back.
GiveBack(f) == terminated' = [terminated EXCEPT ![f.id] = @ + 1]

\* A locked Kvs_streamPop on stream s; cluster is history, the last one popped.
LastCluster(s) ==
    LET f == Head(stream[s].pending).frame
    IN  IF IsCluster(f) THEN f.id ELSE stream[s].cluster

PopFrom(s) ==
    stream' = [stream EXCEPT ![s] =
        [pending |-> Tail(@.pending),
         earliest |-> EarliestAfterPop(@.pending, @.earliest),
         cluster |-> LastCluster(s)]]

-----------------------------------------------------------------------------
(* KvsApp_addFrame on a capture thread.                                    *)

\* The error exit: the frame goes back to the application.
RejectFrame(a) ==
    /\ GiveBack(CHOOSE f \in hand[a] : TRUE)
    /\ hand' = [hand EXCEPT ![a] = {}]
    /\ Goto(a, "idle")

\* The capture loop looks at gStopRunning, gets a frame and adds it.  A frame
\* that is too old goes back at once, one that cannot be converted too.
KvsApp_addFrame(a, f) ==
    /\ pc[a] = "idle" /\ ~gStopRunning /\ pc[Main] # "crashed"
    /\ f.id = captured + 1 /\ f.xTrackType = a /\ f.uTimestampMs >= clock[a]
    /\ captured' = captured + 1
    /\ clock' = [clock EXCEPT ![a] = f.uTimestampMs]
    /\ \/ GiveBack(f) /\ UNCHANGED <<hand, pc>>
       \/ /\ f.uTimestampMs >= uEarliestTimestamp
          /\ hand' = [hand EXCEPT ![a] = {f}]
          /\ Goto(a, "build")
          /\ UNCHANGED terminated
    /\ UNCHANGED <<app, session, streams, working, handle, gStopRunning>>

\* A plausible slip: old frames are flushed under either policy.
StreamReady_AlwaysFlushes(a) ==
    /\ Goto(a, "measure")
    /\ handle' = [handle EXCEPT ![a] = xStreamHandle']

\* With a stream at hand, the ring buffer policy makes room first.
StreamReady(a) ==
    /\ Goto(a, IF xPolicy = RingBuffer THEN "measure" ELSE "add")
    /\ handle' = [handle EXCEPT ![a] = IF xPolicy = RingBuffer THEN xStreamHandle' ELSE NULL]

\* A key frame brings the SPS and PPS a stream is described with, if there is
\* memory to keep them.
checkAndBuildStream(a) ==
    /\ pc[a] = "build"
    /\ LET found == spsPps \/ \E f \in hand[a] : IsCluster(f)
       IN  \/ /\ xStreamHandle # NULL
              /\ UNCHANGED <<app, adding, terminated>>
              /\ StreamReady(a)
           \/ /\ xStreamHandle = NULL /\ found
              /\ spsPps' = TRUE
              /\ Goto(a, "create")
              /\ UNCHANGED <<options, xStreamHandle, isAudioTrackPresent,
                             uEarliestTimestamp, adding, handle, terminated>>
           \/ /\ xStreamHandle = NULL /\ ~spsPps
              /\ RejectFrame(a)
              /\ UNCHANGED <<app, clock, captured, handle>>
    /\ UNCHANGED <<session, streams, working, gStopRunning>>

\* createStream looks at xStreamHandle once more ...
createStream(a) ==
    /\ pc[a] = "create"
    /\ IF xStreamHandle = NULL
       THEN Goto(a, "creating") /\ UNCHANGED <<app, handle>>
       ELSE UNCHANGED app /\ StreamReady(a)
    /\ UNCHANGED <<session, streams, adding, working, gStopRunning, terminated>>

\* ... and stores the new stream, whatever is there by then.
NewStream ==
    /\ created < MaxStreams
    /\ created' = created + 1
    /\ xStreamHandle' = created'
    /\ UNCHANGED <<options, stream, roomy, uEarliestTimestamp, spsPps>>

StoreStream(a) ==
    /\ pc[a] = "creating"
    /\ NewStream
    /\ Goto(a, "created")
    /\ UNCHANGED <<isAudioTrackPresent, session, adding, working, handle, gStopRunning,
                   terminated>>

StoreTrackPresent(a) ==
    /\ pc[a] = "created"
    /\ isAudioTrackPresent' = pAudioTrackInfo
    /\ UNCHANGED <<options, xStreamHandle, uEarliestTimestamp, spsPps>>
    /\ IF xStreamHandle = NULL
       THEN RejectFrame(a) /\ UNCHANGED <<clock, captured, handle>>
       ELSE StreamReady(a) /\ UNCHANGED <<adding, terminated>>
    /\ UNCHANGED <<session, streams, working, gStopRunning>>

\* Kvs_streamCreate is out of memory; what it returned is stored all the same.
StoreNoStream ==
    /\ xStreamHandle' = NULL
    /\ UNCHANGED <<options, isAudioTrackPresent, uEarliestTimestamp, spsPps, streams>>

StoreStreamFails(a) ==
    /\ pc[a] = "creating"
    /\ StoreNoStream
    /\ RejectFrame(a)
    /\ UNCHANGED <<session, clock, captured, working, handle, gStopRunning>>

\* The SPS makes no sense, or there is no memory for what is made of it.  That
\* is an error at once, or only if nobody else has made a stream.
BuildFails(a) ==
    /\ pc[a] = "creating"
    /\ UNCHANGED <<app, session, streams, working, gStopRunning>>
    /\ \/ RejectFrame(a) /\ UNCHANGED <<clock, captured, handle>>
       \/ xStreamHandle # NULL /\ StreamReady(a) /\ UNCHANGED <<adding, terminated>>

\* prvStreamFlushHeadUntilMem: measure under the lock, pop under the lock.
RoomMade(a) ==
    /\ Goto(a, "add")
    /\ handle' = [handle EXCEPT ![a] = NULL]

\* A plausible slip: the frame is added however much is pending.
Measure_Never(a) ==
    /\ pc[a] = "measure"
    /\ RoomMade(a) /\ roomy' = roomy \cup {handle[a]}
    /\ UNCHANGED <<app, session, stream, created, adding, working, gStopRunning, terminated>>

Measure(a) ==
    /\ pc[a] = "measure"
    /\ IF MemStatTotal(stream[handle[a]].pending, HeaderLen) > uMemLimit
       THEN Goto(a, "flush") /\ UNCHANGED <<handle, roomy>>
       ELSE RoomMade(a) /\ roomy' = roomy \cup {handle[a]}
    /\ UNCHANGED <<app, session, stream, created, adding, working, gStopRunning, terminated>>

FlushHead(a) ==
    /\ pc[a] = "flush"
    /\ IF stream[handle[a]].pending = <<>>
       THEN RoomMade(a) /\ UNCHANGED <<streams, terminated>>
       ELSE /\ GiveBack(Head(stream[handle[a]].pending).frame)
            /\ PopFrom(handle[a])
            /\ Goto(a, "measure")
            /\ UNCHANGED <<created, roomy, handle>>
    /\ UNCHANGED <<app, session, adding, working, gStopRunning>>

AddDataFrame(a) ==
    /\ pc[a] = "add" /\ xStreamHandle # NULL
    /\ stream' = [stream EXCEPT ![xStreamHandle].pending =
            Inserted(@, stream[xStreamHandle].earliest, CHOOSE f \in hand[a] : TRUE)]
    /\ hand' = [hand EXCEPT ![a] = {}]
    /\ Goto(a, "idle")
    /\ UNCHANGED <<app, session, created, roomy, clock, captured, working, handle,
                   gStopRunning, terminated>>

\* No memory for the list entry, or no stream any more.
AddDataFrameFails(a) ==
    /\ pc[a] = "add"
    /\ RejectFrame(a)
    /\ UNCHANGED <<app, session, streams, clock, captured, working, handle, gStopRunning>>

AddStep(a) ==
    /\ pc[Main] # "crashed"
    /\ \/ checkAndBuildStream(a) \/ createStream(a) \/ StoreStream(a)
       \/ StoreTrackPresent(a) \/ StoreStreamFails(a) \/ BuildFails(a)
       \/ Measure(a) \/ FlushHead(a) \/ AddDataFrame(a) \/ AddDataFrameFails(a)

-----------------------------------------------------------------------------
(* The main thread sets the options, when the capture threads are already  *)
(* running, and opens a session.                                           *)

MainGoto(label) == Goto(Main, label)

\* Without memory for the copy there is no audio track.
SetAudioTrackInfo ==
    /\ pc[Main] = "setAudio"
    /\ pAudioTrackInfo' \in {HasAudioTrack, FALSE}
    /\ MainGoto("setPolicy")
    /\ UNCHANGED <<xPolicy, uMemLimit, xStreamHandle, isAudioTrackPresent, uEarliestTimestamp,
                   spsPps, session, streams, adding, working, handle, gStopRunning,
                   terminated>>

SetPolicy ==
    /\ pc[Main] = "setPolicy"
    /\ \/ None \in Policies /\ MainGoto("closed") /\ UNCHANGED <<xPolicy, uMemLimit, roomy>>
       \/ /\ RingBuffer \in Policies
          /\ xPolicy' = RingBuffer /\ uMemLimit' = DefaultMemLimit /\ roomy' = {}
          /\ MainGoto("setLimit")
    /\ UNCHANGED <<pAudioTrackInfo, xStreamHandle, isAudioTrackPresent, uEarliestTimestamp,
                   spsPps, session, stream, created, adding, working, handle, gStopRunning,
                   terminated>>

SetMemLimit ==
    /\ pc[Main] = "setLimit"
    /\ uMemLimit' = MemLimit /\ roomy' = {}
    /\ MainGoto("closed")
    /\ UNCHANGED <<xPolicy, pAudioTrackInfo, xStreamHandle, isAudioTrackPresent,
                   uEarliestTimestamp, spsPps, session, stream, created, adding, working,
                   handle, gStopRunning, terminated>>

setKvsAppOptions == SetAudioTrackInfo \/ SetPolicy \/ SetMemLimit

\* Around the loop of main.
Reopen ==
    /\ pc[Main] = "closed"
    /\ MainGoto(IF gStopRunning THEN "stopping" ELSE "opening")
    /\ UNCHANGED <<app, session, streams, adding, working, handle, gStopRunning, terminated>>

\* Up to and with Kvs_putMediaStart: the server answered 200 ...
KvsApp_open ==
    /\ pc[Main] = "opening"
    /\ isOpen' = TRUE
    /\ MainGoto("openCreate")
    /\ UNCHANGED <<app, server, isEbmlHeaderUpdated, streams, adding, working, handle,
                   gStopRunning, terminated>>

\* ... or it did not, and the loop of main ends.  Whether one or the other
\* happens, and when, is the matter of OpenSession.
OpenFails ==
    /\ pc[Main] = "opening"
    /\ MainGoto("stopping")
    /\ UNCHANGED <<app, session, streams, adding, working, handle, gStopRunning, terminated>>

OpenCreateStream ==
    /\ pc[Main] = "openCreate"
    /\ MainGoto(IF xStreamHandle = NULL /\ spsPps THEN "creating" ELSE "work")
    /\ UNCHANGED <<app, session, streams, adding, working, handle, gStopRunning, terminated>>

OpenStoreStream ==
    /\ pc[Main] = "creating"
    /\ \/ NewStream /\ isAudioTrackPresent' = pAudioTrackInfo /\ MainGoto("work")
       \/ StoreNoStream /\ MainGoto("stopping")
       \/ UNCHANGED <<app, streams>> /\ (MainGoto("work") \/ MainGoto("stopping"))
    /\ UNCHANGED <<session, adding, working, handle, gStopRunning, terminated>>
-----------------------------------------------------------------------------
(* KvsApp_doWork, over and over; when it fails or stopping is asked for,   *)
(* KvsApp_doWorkEx with DO_WORK_SEND_END_OF_FRAMES, then KvsApp_close.     *)

Return(ok) ==
    MainGoto(IF mode = "DO_WORK_DEFAULT" THEN IF ok THEN "work" ELSE "drain"
                                         ELSE "close")

\* The loop of prvPutMediaDoWorkSendEndOfFrames goes on while a frame was sent.
ReturnSent ==
    MainGoto(IF mode = "DO_WORK_DEFAULT" THEN "work" ELSE "ebml")

KvsApp_doWork ==
    /\ pc[Main] = "work" /\ ~gStopRunning
    /\ mode' = "DO_WORK_DEFAULT"
    /\ MainGoto("ebml")
    /\ UNCHANGED <<app, session, streams, adding, handle, peeked, held, fault,
                   gStopRunning, terminated>>

KvsApp_doWorkEx ==
    /\ pc[Main] = "drain" \/ (pc[Main] = "work" /\ gStopRunning)
    /\ mode' = "DO_WORK_SEND_END_OF_FRAMES"
    /\ MainGoto("ebml")
    /\ UNCHANGED <<app, session, streams, adding, handle, peeked, held, fault,
                   gStopRunning, terminated>>

updateEbmlHeader ==
    /\ pc[Main] = "ebml"
    /\ IF isEbmlHeaderUpdated
       THEN MainGoto("net") /\ UNCHANGED handle
       ELSE /\ handle' = [handle EXCEPT ![Main] = xStreamHandle]
            /\ IF xStreamHandle = NULL THEN Return(FALSE) ELSE MainGoto("peek")
    /\ UNCHANGED <<app, session, streams, adding, working, gStopRunning, terminated>>

Forget == handle' = [handle EXCEPT ![Main] = NULL]

\* prvStreamFlushToNextCluster peeks under the stream's lock ...
PeekHead ==
    /\ pc[Main] = "peek"
    /\ LET q == stream[handle[Main]].pending
       IN  IF q = <<>>
           THEN Return(FALSE) /\ UNCHANGED peeked /\ Forget
           ELSE MainGoto("inspect") /\ peeked' = {Head(q).frame} /\ UNCHANGED handle
    /\ UNCHANGED <<app, session, streams, adding, mode, held, fault,
                   gStopRunning, terminated>>

\* ... and reads the frame without it.  In memory that was given back in the
\* meantime there is anything.
Inspect ==
    /\ pc[Main] = "inspect"
    /\ \E f \in peeked :
         LET stale == terminated[f.id] > 0
         IN  /\ fault' = (fault \/ stale)
             /\ \E cluster \in BOOLEAN, t \in Timestamp :
                  /\ ~stale => cluster = IsCluster(f) /\ t = f.uTimestampMs
                  /\ uEarliestTimestamp' = IF cluster THEN t ELSE uEarliestTimestamp
                  /\ IF cluster THEN MainGoto("sendEbml") /\ Forget
                                ELSE MainGoto("popBlock") /\ UNCHANGED handle
    /\ peeked' = {}
    /\ UNCHANGED <<options, xStreamHandle, isAudioTrackPresent, spsPps, session, streams,
                   adding, mode, held, gStopRunning, terminated>>

\* Whatever is at the head by now is dropped; NULL is dereferenced.
PopBlock ==
    /\ pc[Main] = "popBlock"
    /\ LET s == handle[Main]
       IN  IF stream[s].pending = <<>>
           THEN /\ fault' = TRUE
                /\ MainGoto("crashed")
                /\ UNCHANGED <<streams, terminated>>
           ELSE /\ GiveBack(Head(stream[s].pending).frame)
                /\ PopFrom(s)
                /\ MainGoto("peek")
                /\ UNCHANGED <<created, roomy, fault>>
    /\ UNCHANGED <<app, session, adding, mode, peeked, held, handle, gStopRunning>>

\* A chunk is sent in pieces: its length, its contents, the end of a line.  When
\* one of them fails, the server may have got nothing of the chunk, or a part
\* of it, which what is sent next is taken to go on with.
Cut(s) == [s EXCEPT !.framed = FALSE]

SendEbml ==
    /\ pc[Main] = "sendEbml"
    /\ \/ /\ isEbmlHeaderUpdated' = TRUE
          /\ server' = [server EXCEPT !.header = TRUE]
          /\ MainGoto("net")
       \/ /\ Return(FALSE)
          /\ server' \in {server, Cut(server)}
          /\ UNCHANGED isEbmlHeaderUpdated
    /\ UNCHANGED <<app, isOpen, streams, adding, working, handle, gStopRunning, terminated>>

\* Kvs_putMediaDoWork: see PutMedia.tla for what it does with what it receives.
NetworkWork ==
    /\ pc[Main] = "net"
    /\ MainGoto("avail") \/ Return(FALSE)
    /\ UNCHANGED <<app, session, streams, adding, working, handle, gStopRunning, terminated>>

\* A plausible slip: video waits for audio as long as the session lasts.
AvailOnVideo_WaitsForAudio ==
    /\ pc[Main] = "avail"
    /\ IF \/ xStreamHandle = NULL \/ ~isEbmlHeaderUpdated
          \/ ~AvailOnTrack(stream[xStreamHandle].pending, "TRACK_VIDEO")
       THEN Return(TRUE)
       ELSE MainGoto(IF isAudioTrackPresent THEN "availAudio" ELSE "pop")
    /\ UNCHANGED <<app, session, streams, adding, working, handle, gStopRunning, terminated>>

\* prvPutMediaSendData asks for a video frame before it pops anything, and for
\* an audio frame too when it is to send the end of frames.
AvailOnVideo ==
    /\ pc[Main] = "avail"
    /\ IF \/ xStreamHandle = NULL \/ ~isEbmlHeaderUpdated
          \/ ~AvailOnTrack(stream[xStreamHandle].pending, "TRACK_VIDEO")
       THEN Return(TRUE)
       ELSE MainGoto(IF mode = "DO_WORK_SEND_END_OF_FRAMES" /\ isAudioTrackPresent
                     THEN "availAudio" ELSE "pop")
    /\ UNCHANGED <<app, session, streams, adding, working, handle, gStopRunning, terminated>>

AvailOnAudio ==
    /\ pc[Main] = "availAudio"
    /\ IF \/ xStreamHandle = NULL
          \/ ~AvailOnTrack(stream[xStreamHandle].pending, "TRACK_AUDIO")
       THEN Return(TRUE)
       ELSE MainGoto("pop")
    /\ UNCHANGED <<app, session, streams, adding, working, handle, gStopRunning, terminated>>

PopToSend ==
    /\ pc[Main] = "pop"
    /\ IF xStreamHandle = NULL \/ stream[xStreamHandle].pending = <<>>
       THEN Return(FALSE) /\ UNCHANGED <<streams, held>>
       ELSE /\ held' = {[data |-> Head(stream[xStreamHandle].pending),
                         follows |-> LastCluster(xStreamHandle)]}
            /\ PopFrom(xStreamHandle)
            /\ MainGoto("send")
            /\ UNCHANGED <<created, roomy>>
    /\ UNCHANGED <<app, session, adding, mode, peeked, fault, handle,
                   gStopRunning, terminated>>

\* A block timecode is read as a signed number of the same width.
Signed(t) == IF 2 * t < DeltaModulus THEN t ELSE t - DeltaModulus

\* What the server makes of popped frame h.
Received(h) ==
    LET f == h.data.frame
        base == IF IsCluster(f) THEN {[id |-> f.id, at |-> h.data.timecode]}
                                ELSE server.cluster
        at == IF IsCluster(f) THEN h.data.timecode
              ELSE Signed(h.data.timecode) + (IF base = {} THEN 0
                                              ELSE (CHOOSE c \in base : TRUE).at)
    IN  [server EXCEPT
            !.cluster = base,
            !.last = {[frame |-> f, at |-> at,
                       follows |-> \E c \in base : c.id = h.follows]}]

\* Behind a chunk that was cut off it reads something, not what was sent.
Reads(h) ==
    IF server.framed
    THEN {Received(h)}
    ELSE {[Received(h) EXCEPT !.last = {[frame |-> h.data.frame, at |-> t, follows |-> TRUE]}] :
              t \in Timestamp}

\* A plausible slip: nobody tells the application that its frame was sent.
SendHeld_NoTerminate(h) ==
    /\ pc[Main] = "send"
    /\ held' = {}
    /\ uEarliestTimestamp' = h.data.frame.uTimestampMs
    /\ server' \in Reads(h)
    /\ ReturnSent
    /\ UNCHANGED terminated

\* Sent, and perhaps OnMkvSent complains.
SendHeld(h) ==
    /\ pc[Main] = "send"
    /\ held' = {}
    /\ uEarliestTimestamp' = h.data.frame.uTimestampMs
    /\ server' \in Reads(h)
    /\ ReturnSent \/ Return(FALSE)
    /\ GiveBack(h.data.frame)

\* OnDataFrameToBeSent decides against it, or no memory for its tags.
WithholdHeld(h) ==
    /\ pc[Main] = "send"
    /\ held' = {}
    /\ Return(FALSE)
    /\ GiveBack(h.data.frame)
    /\ UNCHANGED <<uEarliestTimestamp, server>>

\* Kvs_putMediaUpdate fails; its result is not assigned to res.  All of the
\* frame may have arrived, and only the end of the chunk not.
SendHeldFails(h) ==
    /\ pc[Main] = "send"
    /\ held' = {}
    /\ Return(TRUE)
    /\ GiveBack(h.data.frame)
    /\ server' \in {server} \cup {Cut(s) : s \in {server} \cup Reads(h)}
    /\ UNCHANGED uEarliestTimestamp

prvPutMediaSendData ==
    /\ \E h \in held : SendHeld(h) \/ WithholdHeld(h) \/ SendHeldFails(h)
    /\ UNCHANGED <<options, xStreamHandle, isAudioTrackPresent, spsPps, isOpen,
                   isEbmlHeaderUpdated, streams, adding, mode, peeked, fault, handle,
                   gStopRunning>>

\* A plausible slip: the next session believes its header has been sent.
KvsApp_close_KeepsHeaderFlag(next) ==
    /\ isOpen' = FALSE
    /\ server' = NewServer
    /\ MainGoto(next)
    /\ UNCHANGED isEbmlHeaderUpdated

KvsApp_close(next) ==
    /\ isOpen' = FALSE
    /\ isEbmlHeaderUpdated' = IF isOpen THEN FALSE ELSE isEbmlHeaderUpdated
    /\ server' = NewServer
    /\ MainGoto(next)

CloseSession ==
    /\ pc[Main] = "close"
    /\ KvsApp_close("closed")
    /\ mode' = "DO_WORK_DEFAULT"
    /\ UNCHANGED <<app, streams, adding, handle, peeked, held, fault, gStopRunning, terminated>>

\* Behind its loop main closes once more and asks the capture threads to stop.
StopThreads ==
    /\ pc[Main] = "stopping"
    /\ KvsApp_close("joining")
    /\ gStopRunning' = TRUE
    /\ UNCHANGED <<app, streams, adding, working, handle, terminated>>

\* Both capture threads have left their loops.  prvStreamFlush has the stream
\* for itself.
KvsApp_terminate ==
    /\ pc[Main] = "joining" /\ \A a \in Adder : pc[a] = "idle"
    /\ LET q == IF xStreamHandle = NULL THEN <<>> ELSE stream[xStreamHandle].pending
       IN  terminated' = [i \in FrameId |->
               terminated[i] + Cardinality({k \in DOMAIN q : q[k].frame.id = i})]
    /\ stream' = [s \in StreamId |->
            IF s = xStreamHandle THEN [stream[s] EXCEPT !.pending = <<>>] ELSE stream[s]]
    /\ xStreamHandle' = NULL
    /\ MainGoto("terminated")
    /\ UNCHANGED <<options, isAudioTrackPresent, uEarliestTimestamp, spsPps, session,
                   created, roomy, adding, working, handle, gStopRunning>>

\* main in KvsApp_open, which need not return.
Opening == KvsApp_open \/ OpenFails

\* All else it does.
Working ==
    \/ setKvsAppOptions \/ Reopen \/ OpenCreateStream \/ OpenStoreStream
    \/ KvsApp_doWork \/ KvsApp_doWorkEx \/ updateEbmlHeader \/ PeekHead \/ Inspect
    \/ PopBlock \/ SendEbml \/ NetworkWork \/ AvailOnVideo \/ AvailOnAudio
    \/ PopToSend \/ prvPutMediaSendData \/ CloseSession \/ StopThreads \/ KvsApp_terminate

MainStep == Opening \/ Working

\* SIGINT.
Interrupt ==
    /\ ~gStopRunning /\ pc[Main] # "crashed"
    /\ gStopRunning' = TRUE
    /\ UNCHANGED <<app, session, streams, adding, working, pc, handle, terminated>>

Next ==
    \/ \E f \in DataFrameIn : KvsApp_addFrame(f.xTrackType, f)
    \/ \E a \in Adder : AddStep(a)
    \/ MainStep
    \/ Interrupt

Spec == Init /\ [][Next]_vars

\* The threads are scheduled, and none of their steps but KvsApp_open and
\* Kvs_putMediaDoWork waits for anyone for longer than a timeout.  Nothing makes
\* frames come or SIGINT happen, and nothing makes those two return.
FairSpec ==
    /\ Spec
    /\ WF_vars(Working /\ pc[Main] # "net")
    /\ \A a \in Adder : WF_vars(AddStep(a))
-----------------------------------------------------------------------------
(* Every variable holds a value of its kind, whatever the threads do.      *)
TypeOK ==
    /\ xPolicy \in Policies \cup {None}
    /\ uMemLimit \in {0, DefaultMemLimit, MemLimit}
    /\ pAudioTrackInfo \in {HasAudioTrack, FALSE}
    /\ xStreamHandle \in StreamId \cup {NULL} /\ roomy \subseteq StreamId
    /\ {isAudioTrackPresent, spsPps, isOpen, isEbmlHeaderUpdated, fault, gStopRunning}
          \subseteq BOOLEAN
    /\ uEarliestTimestamp \in Timestamp \cup {0}
    /\ \A s \in StreamId : stream[s].pending \in Seq(DataFrame)
    /\ \A a \in Adder :
         /\ hand[a] \subseteq DataFrameIn
         /\ pc[a] # "idle" <=> hand[a] # {}
         /\ pc[a] \in {"measure", "flush"} => handle[a] \in StreamId
    /\ held # {} <=> pc[Main] = "send"
    /\ peeked # {} <=> pc[Main] = "inspect"
    /\ pc[Main] \in {"ebml", "net", "avail", "pop", "send"} => isOpen

(* No frame is lost, returned twice or in two hands: at any moment each    *)
(* captured frame is in the hand of the thread adding it, pending in one   *)
(* stream, popped and being sent, or returned to the application once      *)
(* (the callers of prvCallOnDataFrameTerminate in kvsapp.c).               *)
FrameInOnePlace ==
    \A i \in FrameId :
        terminated[i]
        + Cardinality({a \in Adder : \E f \in hand[a] : f.id = i})
        + Cardinality({p \in StreamId \X (1..captured) :
                LET q == stream[p[1]].pending
                IN  p[2] \in DOMAIN q /\ q[p[2]].frame.id = i})
        + Cardinality({h \in held : h.data.frame.id = i})
        = IF i <= captured THEN 1 ELSE 0

(* Under the ring buffer policy a stream exceeds its limit by at most the  *)
(* one frame each capture thread adds after it has measured, though the    *)
(* threads measure and add without a common lock, from the first time on   *)
(* that room was found in it (prvStreamFlushHeadUntilMem).  Before that it *)
(* has what was added when the policy was not yet set.                     *)
RingMemoryBounded ==
    \A s \in roomy :
        MemStatTotal(stream[s].pending, HeaderLen)
            <= uMemLimit + Cardinality(Adder) * (Max(DataLen) + HeaderLen)

\* What a signed field of this width can say.
Fits(difference) == -DeltaModulus <= 2 * difference /\ 2 * difference < DeltaModulus

(* As long as no chunk of the session was cut off, a block that arrives    *)
(* behind the cluster it was popped behind is read with its own timestamp  *)
(* if the field can say its distance from the cluster, and with another    *)
(* one if not, however the insertions before it, flushes by the other      *)
(* threads and changes of session were interleaved.                        *)
BlocksDecodeExactly ==
    server.framed =>
        \A l \in server.last : \A c \in server.cluster :
            l.follows => (l.at = l.frame.uTimestampMs <=> Fits(l.frame.uTimestampMs - c.at))

(* In every session the EBML header goes out before any frame              *)
(* (updateEbmlHeader, KvsApp_close).                                       *)
HeaderBeforeMedia == server.last # {} => server.header

(* Without the ring buffer policy main alone takes frames out, so a frame  *)
(* it has peeked at is still the head when it reads and pops it            *)
(* (prvStreamFlushToNextCluster).                                          *)
PeekedFrameStays == xPolicy = None => ~fault

(* A session that goes on leaves no video frame waiting: it is sent or     *)
(* dropped, or the session ends and main is in KvsApp_open again, which    *)
(* may fail or not return, or the program ends and the frame is given back *)
(* (the loops of prvPutMediaSendData and kvsappcli.c), unless a call of    *)
(* Kvs_putMediaDoWork does not return.                                     *)
VideoDrains ==
    []<>(pc[Main] # "net") =>
        \A i \in FrameId, s \in StreamId :
            /\ s = xStreamHandle
            /\ \E k \in DOMAIN stream[s].pending :
                  LET f == stream[s].pending[k].frame
                  IN  f.id = i /\ f.xTrackType = "TRACK_VIDEO"
            ~> \/ terminated[i] = 1 \/ fault \/ pc[Main] = "opening"
               \/ s # xStreamHandle /\ pc[Main] # "terminated"
=============================================================================
