---------------------------- MODULE KvsAppProofs ----------------------------
(***************************************************************************)
(* Theorems on KvsApp, for any frames, timestamps and streams, and         *)
(* either policy.                                                          *)
(***************************************************************************)
EXTENDS KvsApp, StreamBufferProofs

-----------------------------------------------------------------------------
(* What is below the modulus is the remainder.                             *)
LEMMA ModUnique ==
    ASSUME NEW q \in Int, NEW r \in Nat, NEW m \in Nat \ {0}, r < m
    PROVE  (m * q + r) % m = r
BY Z3

-----------------------------------------------------------------------------
(* The strengthening, in five parts.                                       *)

Opened == {"openCreate", "creating", "work", "drain", "ebml", "peek", "inspect", "popBlock",
           "sendEbml", "net", "avail", "availAudio", "pop", "send", "close"}
Sending == {"net", "avail", "availAudio", "pop", "send"}
Label == Opened \cup {"idle", "build", "create", "created", "measure", "flush", "add",
                      "setAudio", "setPolicy", "setLimit", "opening", "closed",
                      "stopping", "joining", "terminated", "crashed"}

(* What every variable is ...                                              *)
Labels == pc \in [Thread -> Label]

Options ==
    /\ xPolicy \in Policies \cup {None} /\ uMemLimit \in {0, DefaultMemLimit, MemLimit}
    /\ pAudioTrackInfo \in {HasAudioTrack, FALSE}

ServerState == [framed : BOOLEAN, header : BOOLEAN, cluster : SUBSET [id : FrameId, at : Nat],
                last : SUBSET [frame : DataFrameIn, at : Int, follows : BOOLEAN]]

Values ==
    /\ Options /\ xStreamHandle \in StreamId \cup {NULL} /\ roomy \subseteq StreamId
    /\ isAudioTrackPresent \in BOOLEAN /\ spsPps \in BOOLEAN
    /\ isOpen \in BOOLEAN /\ isEbmlHeaderUpdated \in BOOLEAN
    /\ fault \in BOOLEAN /\ gStopRunning \in BOOLEAN
    /\ uEarliestTimestamp \in Timestamp \cup {0}
    /\ stream \in [StreamId -> [pending : Seq(DataFrame), earliest : Nat, cluster : Nat]]
    /\ created \in Nat /\ captured \in Nat
    /\ hand \in [Adder -> SUBSET DataFrameIn]
    /\ handle \in [Thread -> StreamId \cup {NULL}]
    /\ peeked \subseteq DataFrameIn
    /\ held \subseteq [data : DataFrame, follows : Nat]
    /\ terminated \in [FrameId -> Nat]
    /\ server \in ServerState

Types == Labels /\ Values

(* ... and what it holds where a thread is.                                *)
Hands ==
    \A a \in Adder :
        /\ IF pc[a] = "idle" THEN hand[a] = {} ELSE \E f \in DataFrameIn : hand[a] = {f}
        /\ pc[a] \in {"measure", "flush"} => handle[a] \in StreamId /\ xPolicy = RingBuffer

Mains ==
    /\ IF pc[Main] = "send" THEN \E h \in held : held = {h} ELSE held = {}
    /\ IF pc[Main] = "inspect" THEN \E f \in peeked : peeked = {f} ELSE peeked = {}
    /\ pc[Main] \in {"peek", "inspect", "popBlock"} => handle[Main] \in StreamId

Headers ==
    /\ pc[Main] \in Opened => isOpen
    /\ pc[Main] \in Sending => isEbmlHeaderUpdated
    /\ isEbmlHeaderUpdated => isOpen /\ server.header
    /\ server.last # {} => server.header

Control == Hands /\ Mains /\ Headers

(* Where the frame with number i is, if it has not been given back.        *)
InHand(i) == \E a \in Adder : \E f \in hand[a] : f.id = i
Pending(i) == \E s \in StreamId : \E k \in 1..Len(stream[s].pending) : stream[s].pending[k].frame.id = i
InSend(i) == \E h \in held : h.data.frame.id = i

OneHand == \A a, b \in Adder : \A f \in hand[a], g \in hand[b] : f.id = g.id => a = b
OnePosition ==
    \A s, t \in StreamId :
        \A j \in 1..Len(stream[s].pending), k \in 1..Len(stream[t].pending) :
            stream[s].pending[j].frame.id = stream[t].pending[k].frame.id => s = t /\ j = k

(* A frame is in one place at most, and given back when it is in none.     *)
Places ==
    /\ OneHand /\ OnePosition
    /\ \A i \in FrameId :
         /\ terminated[i] = IF i <= captured /\ ~InHand(i) /\ ~Pending(i) /\ ~InSend(i) THEN 1 ELSE 0
         /\ InHand(i) => ~Pending(i) /\ ~InSend(i)
         /\ Pending(i) => ~InSend(i)
         /\ InHand(i) \/ Pending(i) \/ InSend(i) => i <= captured

(* Main alone takes frames out, unless the policy flushes.                 *)
Undisturbed ==
    xPolicy # RingBuffer =>
        /\ ~fault
        /\ pc[Main] = "inspect" =>
              \A f \in peeked : \E k \in 1..Len(stream[handle[Main]].pending) :
                  stream[handle[Main]].pending[k].frame = f
        /\ pc[Main] = "popBlock" => stream[handle[Main]].pending # <<>>

(* What was popped does not come back, so a cluster's number stands for    *)
(* its timestamp wherever it is remembered: in the streams, in the server, *)
(* and in the frame that is being sent.                                    *)
Popped(i) == i <= captured /\ ~InHand(i) /\ ~Pending(i)

StreamTimes ==
    \A s \in StreamId :
        /\ TimecodesCurrent(stream[s].pending, stream[s].earliest)
        /\ stream[s].cluster # NULL => stream[s].cluster \in FrameId /\ Popped(stream[s].cluster)

ServerTimes ==
    \A c \in server.cluster :
        /\ server.cluster = {c} /\ Popped(c.id)
        /\ \A s \in StreamId : stream[s].cluster = c.id => stream[s].earliest = c.at

HeldTimes ==
    \A h \in held :
        LET f == h.data.frame
        IN  IF IsCluster(f)
            THEN /\ h.data.timecode = f.uTimestampMs /\ h.follows = f.id
                 /\ \A s \in StreamId : stream[s].cluster = f.id => stream[s].earliest = f.uTimestampMs
            ELSE \A c \in server.cluster :
                     c.id = h.follows => h.data.timecode = (f.uTimestampMs - c.at) % DeltaModulus

Times == StreamTimes /\ ServerTimes /\ HeldTimes /\ BlocksDecodeExactly

IInv == Types /\ Control /\ Places /\ Undisturbed /\ Times

-----------------------------------------------------------------------------
(* What a pop and an insertion do to a stream.                             *)

LEMMA Constants ==
    /\ FrameId \subseteq Nat \ {NULL} /\ Timestamp \subseteq Nat /\ DeltaModulus \in Nat \ {0}
    /\ \A i \in FrameId : i \in Nat /\ i # NULL
    /\ \A t \in Timestamp : t \in Nat
BY KvsAppAssumption, StreamBufferAssumption DEF NULL

LEMMA FrameIs ==
    ASSUME NEW f \in DataFrameIn
    PROVE  /\ f.id \in FrameId /\ f.id \in Nat /\ f.id # NULL
           /\ f.uTimestampMs \in Timestamp /\ f.uTimestampMs \in Nat
BY Constants DEF DataFrameIn

LEMMA HeadIs ==
    ASSUME NEW q \in Seq(DataFrame), q # <<>>
    PROVE  /\ 1 \in 1..Len(q) /\ Head(q) = q[1] /\ Head(q) \in DataFrame
           /\ Head(q).frame \in DataFrameIn /\ Head(q).timecode \in Nat
           /\ Tail(q) \in Seq(DataFrame) /\ Len(Tail(q)) = Len(q) - 1 /\ Len(q) \in Nat
           /\ \A k \in 1..Len(q) - 1 : Tail(q)[k] = q[k + 1]
<1>1. 1 \in 1..Len(q) /\ Head(q) = q[1] /\ Head(q) \in DataFrame
  OBVIOUS
<1>2. Tail(q) \in Seq(DataFrame) /\ Len(Tail(q)) = Len(q) - 1 /\ Len(q) \in Nat
      /\ \A k \in 1..Len(q) - 1 : Tail(q)[k] = q[k + 1]
  OBVIOUS
<1> QED BY <1>1, <1>2 DEF DataFrame

Queues == [StreamId -> [pending : Seq(DataFrame), earliest : Nat, cluster : Nat]]

LEMMA PopIs ==
    ASSUME stream \in Queues, NEW s \in StreamId, stream[s].pending # <<>>, PopFrom(s)
    PROVE  LET q == stream[s].pending
               f == Head(q).frame
           IN  /\ stream' \in Queues
               /\ \A t \in StreamId : t # s => stream'[t] = stream[t]
               /\ stream'[s].pending = Tail(q)
               /\ stream'[s].earliest = EarliestAfterPop(q, stream[s].earliest)
               /\ stream'[s].earliest = IF IsCluster(f) THEN f.uTimestampMs ELSE stream[s].earliest
               /\ stream'[s].cluster = IF IsCluster(f) THEN f.id ELSE stream[s].cluster
               /\ stream'[s].cluster = LastCluster(s)
<1> DEFINE q == stream[s].pending
           f == Head(q).frame
           r == [pending |-> Tail(q), earliest |-> EarliestAfterPop(q, stream[s].earliest),
                 cluster |-> LastCluster(s)]
<1>1. q \in Seq(DataFrame) /\ stream[s].earliest \in Nat /\ stream[s].cluster \in Nat
  BY DEF Queues
<1>2. f \in DataFrameIn /\ Tail(q) \in Seq(DataFrame)
  BY <1>1, HeadIs
<1>3. /\ EarliestAfterPop(q, stream[s].earliest) = IF IsCluster(f) THEN f.uTimestampMs ELSE stream[s].earliest
      /\ LastCluster(s) = IF IsCluster(f) THEN f.id ELSE stream[s].cluster
  BY DEF EarliestAfterPop, LastCluster
<1>4. EarliestAfterPop(q, stream[s].earliest) \in Nat /\ LastCluster(s) \in Nat
  <2>1. f.id \in Nat /\ f.uTimestampMs \in Nat
    BY <1>2, FrameIs
  <2> HIDE DEF q, f
  <2> QED BY <1>1, <1>3, <2>1
<1>5. r \in [pending : Seq(DataFrame), earliest : Nat, cluster : Nat]
  BY <1>2, <1>4
<1>6. stream' = [stream EXCEPT ![s] = r]
  BY DEF PopFrom
<1> HIDE DEF r
<1>7. stream'[s] = r /\ stream' \in Queues /\ \A t \in StreamId : t # s => stream'[t] = stream[t]
  BY <1>5, <1>6 DEF Queues
<1> QED BY <1>3, <1>7 DEF r

AddTo(s, f) ==
    stream' = [stream EXCEPT ![s].pending = Inserted(@, stream[s].earliest, f)]

LEMMA AddIs ==
    ASSUME stream \in Queues, NEW s \in StreamId, NEW f \in DataFrameIn, AddTo(s, f)
    PROVE  LET q == stream[s].pending
               p == InsertPosition(q, f)
               r == stream'[s].pending
           IN  /\ stream' \in Queues
               /\ \A t \in StreamId : t # s => stream'[t] = stream[t]
               /\ r = Inserted(q, stream[s].earliest, f)
               /\ stream'[s].earliest = stream[s].earliest
               /\ stream'[s].cluster = stream[s].cluster
               /\ q \in Seq(DataFrame) /\ Len(q) \in Nat /\ p \in 1..Len(q) + 1
               /\ r \in Seq(DataFrame) /\ Len(r) = Len(q) + 1
               /\ \A i \in 1..Len(q) + 1 : i < p => r[i].frame = q[i].frame
               /\ \A i \in 1..Len(q) + 1 : i > p => r[i].frame = q[i - 1].frame
               /\ r[p].frame = f
<1> DEFINE q == stream[s].pending
           p == InsertPosition(q, f)
           r == stream'[s].pending
           n == Inserted(q, stream[s].earliest, f)
<1>1. q \in Seq(DataFrame) /\ stream[s].earliest \in Nat /\ stream[s].cluster \in Nat /\ Len(q) \in Nat
  BY DEF Queues
<1> DEFINE e == stream[s].earliest
<1>2. /\ n \in Seq(DataFrame) /\ Len(n) = Len(q) + 1
      /\ \A i \in 1..Len(q) + 1 : i < p => n[i].frame = q[i].frame
      /\ \A i \in 1..Len(q) + 1 : i > p => n[i].frame = q[i - 1].frame
      /\ n[p].frame = f
  <2> HIDE DEF q, e
  <2>1. q \in Seq(DataFrame) /\ e \in Nat
    BY <1>1 DEF e
  <2>2. n = Inserted(q, e, f)
    BY DEF e
  <2> HIDE DEF n
  <2> QED BY <2>1, <2>2, InsertedProps
<1>3. p \in 1..Len(q) + 1
  BY <1>1, InsertPositionProps
<1>4. stream' = [stream EXCEPT ![s].pending = n]
  BY DEF AddTo
<1> HIDE DEF n
<1>5. r = n /\ stream' \in Queues /\ \A t \in StreamId : t # s => stream'[t] = stream[t]
  BY <1>2, <1>4 DEF Queues
<1>6. stream'[s].earliest = stream[s].earliest /\ stream'[s].cluster = stream[s].cluster
  BY <1>4 DEF Queues
<1> HIDE DEF p, q, r
<1>7. r = n /\ r \in Seq(DataFrame) /\ Len(r) = Len(q) + 1 /\ r[p].frame = f
  BY <1>2, <1>5
<1> QED BY <1>1, <1>2, <1>3, <1>5, <1>6, <1>7 DEF n, p, q, r

-----------------------------------------------------------------------------
(* Types and control, action by action.                                    *)

LEMMA Threads ==
    /\ Main \notin Adder /\ Main \in Thread /\ Adder \subseteq Thread
    /\ 0 \in Nat /\ HasAudioTrack \in BOOLEAN /\ NULL = 0
    /\ Timestamp \subseteq Nat
BY KvsAppAssumption, StreamBufferAssumption DEF Main, Adder, Thread, TrackType, NULL

(* The options stay as they are, and tell of the audio track.              *)
LEMMA OptionsKept ==
    /\ Options /\ UNCHANGED options => Options'
    /\ Options => pAudioTrackInfo \in BOOLEAN
BY Threads DEF Options, options

(* A frame that is rejected leaves the hand it was in.                     *)
LEMMA RejectIs ==
    ASSUME Types, Control, NEW a \in Adder, pc[a] # "idle", RejectFrame(a)
    PROVE  /\ terminated' \in [FrameId -> Nat]
           /\ hand' \in [Adder -> SUBSET DataFrameIn]
           /\ \E f \in DataFrameIn :
                 /\ hand[a] = {f} /\ GiveBack(f)
                 /\ hand' = [hand EXCEPT ![a] = {}]
           /\ pc' = [pc EXCEPT ![a] = "idle"]
<1>1. PICK f \in DataFrameIn : hand[a] = {f}
  BY DEF Control, Hands
<1>2. (CHOOSE g \in hand[a] : TRUE) = f
  BY <1>1
<1>3. GiveBack(f) /\ hand' = [hand EXCEPT ![a] = {}] /\ pc' = [pc EXCEPT ![a] = "idle"]
  BY <1>2 DEF RejectFrame, Goto
<1>4. f.id \in FrameId
  BY FrameIs
<1>5. terminated' \in [FrameId -> Nat]
  BY <1>3, <1>4 DEF Types, Values, GiveBack
<1>6. hand' \in [Adder -> SUBSET DataFrameIn]
  BY <1>3 DEF Types, Values
<1> QED BY <1>1, <1>3, <1>5, <1>6

(* A stream that is stored is one of those memory suffices for.            *)
LEMMA NewStreamIs ==
    ASSUME Types, NewStream
    PROVE  xStreamHandle' \in StreamId /\ created' \in Nat
BY KvsAppAssumption DEF Types, Values, NewStream, StreamId

LEMMA StreamReadyIs ==
    ASSUME Types, NEW a \in Adder, StreamReady(a), xStreamHandle' \in StreamId \cup {NULL}
    PROVE  handle' \in [Thread -> StreamId \cup {NULL}]
<1>1. handle' = [handle EXCEPT ![a] = IF xPolicy = RingBuffer THEN xStreamHandle' ELSE NULL]
  BY DEF StreamReady
<1> QED BY <1>1 DEF Types, Values

LEMMA StreamReadyHands ==
    ASSUME Types, Control, NEW a \in Adder, pc[a] # "idle", StreamReady(a),
           UNCHANGED <<hand, xPolicy>>, xStreamHandle' \in StreamId
    PROVE  Hands'
<1>1. /\ pc' = [pc EXCEPT ![a] = IF xPolicy = RingBuffer THEN "measure" ELSE "add"]
      /\ handle' = [handle EXCEPT ![a] = IF xPolicy = RingBuffer THEN xStreamHandle' ELSE NULL]
  BY DEF StreamReady, Goto
<1> SUFFICES ASSUME NEW b \in Adder
             PROVE  /\ IF pc'[b] = "idle" THEN hand[b] = {} ELSE \E f \in DataFrameIn : hand[b] = {f}
                    /\ pc'[b] \in {"measure", "flush"} => handle'[b] \in StreamId /\ xPolicy = RingBuffer
  BY DEF Hands
<1>2. /\ IF pc[b] = "idle" THEN hand[b] = {} ELSE \E f \in DataFrameIn : hand[b] = {f}
      /\ pc[b] \in {"measure", "flush"} => handle[b] \in StreamId /\ xPolicy = RingBuffer
  BY DEF Control, Hands
<1>3. CASE b = a
  BY <1>1, <1>2, <1>3, Threads DEF Types, Labels, Values
<1>4. CASE b # a
  <2>1. pc'[b] = pc[b] /\ handle'[b] = handle[b]
    BY <1>1, <1>4, Threads DEF Types, Labels, Values
  <2> QED BY <1>2, <2>1
<1> QED BY <1>3, <1>4

LEMMA RejectHands ==
    ASSUME Types, Control, NEW a \in Adder, pc[a] # "idle", RejectFrame(a), UNCHANGED <<handle, xPolicy>>
    PROVE  Hands'
<1>1. pc' = [pc EXCEPT ![a] = "idle"] /\ hand' = [hand EXCEPT ![a] = {}]
  BY RejectIs
<1> QED BY <1>1, Threads DEF Types, Labels, Values, Control, Hands

LEMMA checkAndBuildStreamControls ==
    ASSUME Types, Control, NEW a \in Adder, checkAndBuildStream(a)
    PROVE  Types' /\ Control'
<1> USE DEF Control, Types
<1>0. Labels'
  BY Threads DEF Labels, Label, Opened, checkAndBuildStream, options, app, session, streams, adding, working, Goto, MainGoto, RejectFrame, GiveBack, StreamReady, RoomMade
<1>1. Values'
  BY OptionsKept, Threads, RejectIs, StreamReadyIs DEF Labels, Values, checkAndBuildStream, app, session, streams, adding, working, Goto
<1>2. Hands'
  <2>1. pc[a] = "build" /\ UNCHANGED <<xPolicy, xStreamHandle>>
    BY DEF checkAndBuildStream, options, app
  <2>2. CASE xStreamHandle # NULL /\ StreamReady(a) /\ UNCHANGED hand
    <3>1. xStreamHandle' \in StreamId
      BY <2>1, <2>2 DEF Values
    <3> QED BY <2>1, <2>2, <3>1, StreamReadyHands
  <2>3. CASE Goto(a, "create") /\ UNCHANGED <<hand, handle>>
    BY <2>1, <2>3, Threads DEF Labels, Values, Hands, Goto
  <2>4. CASE RejectFrame(a) /\ UNCHANGED handle
    BY <2>1, <2>4, RejectHands
  <2> QED BY <2>2, <2>3, <2>4 DEF checkAndBuildStream, adding
<1>3. Mains'
  BY Threads DEF Labels, Values, Mains, checkAndBuildStream, options, app, session, streams, adding, working, Goto, MainGoto, RejectFrame, GiveBack, StreamReady, RoomMade
<1>4. Headers'
  BY Threads DEF Labels, Values, Headers, Opened, Sending, checkAndBuildStream, options, app, session, streams, adding, working, Goto, MainGoto, RejectFrame, GiveBack, StreamReady, RoomMade
<1> QED BY <1>0, <1>1, <1>2, <1>3, <1>4

LEMMA createStreamControls ==
    ASSUME Types, Control, NEW a \in Adder, createStream(a)
    PROVE  Types' /\ Control'
<1> USE DEF Control, Types
<1>0. Labels'
  BY Threads DEF Labels, Label, Opened, createStream, options, app, session, streams, adding, working, Goto, MainGoto, RejectFrame, GiveBack, StreamReady, RoomMade
<1>1. Values'
  BY OptionsKept, Threads, StreamReadyIs DEF Labels, Values, createStream, app, session, streams, adding, working, Goto
<1>2. Hands'
  BY Threads DEF Labels, Values, Hands, createStream, options, app, session, streams, adding, working, Goto, MainGoto, RejectFrame, GiveBack, StreamReady, RoomMade
<1>3. Mains'
  BY Threads DEF Labels, Values, Mains, createStream, options, app, session, streams, adding, working, Goto, MainGoto, RejectFrame, GiveBack, StreamReady, RoomMade
<1>4. Headers'
  BY Threads DEF Labels, Values, Headers, Opened, Sending, createStream, options, app, session, streams, adding, working, Goto, MainGoto, RejectFrame, GiveBack, StreamReady, RoomMade
<1> QED BY <1>0, <1>1, <1>2, <1>3, <1>4

LEMMA StoreStreamControls ==
    ASSUME Types, Control, NEW a \in Adder, StoreStream(a)
    PROVE  Types' /\ Control'
<1> USE DEF Control, Types
<1>0. Labels'
  BY Threads DEF Labels, Label, Opened, StoreStream, options, app, session, streams, adding, working, Goto, MainGoto, RejectFrame, GiveBack, StreamReady, RoomMade, NewStream
<1>1. Values'
  BY OptionsKept, Threads, NewStreamIs DEF Labels, Values, StoreStream, app, session, streams, adding, working, NewStream
<1>2. Hands'
  BY Threads DEF Labels, Values, Hands, StoreStream, options, app, session, streams, adding, working, Goto, MainGoto, RejectFrame, GiveBack, StreamReady, RoomMade, NewStream
<1>3. Mains'
  BY Threads DEF Labels, Values, Mains, StoreStream, options, app, session, streams, adding, working, Goto, MainGoto, RejectFrame, GiveBack, StreamReady, RoomMade, NewStream
<1>4. Headers'
  BY Threads DEF Labels, Values, Headers, Opened, Sending, StoreStream, options, app, session, streams, adding, working, Goto, MainGoto, RejectFrame, GiveBack, StreamReady, RoomMade, NewStream
<1> QED BY <1>0, <1>1, <1>2, <1>3, <1>4

LEMMA StoreTrackPresentControls ==
    ASSUME Types, Control, NEW a \in Adder, StoreTrackPresent(a)
    PROVE  Types' /\ Control'
<1> USE DEF Control, Types
<1>0. Labels'
  BY Threads DEF Labels, Label, Opened, StoreTrackPresent, options, app, session, streams, adding, working, Goto, MainGoto, RejectFrame, GiveBack, StreamReady, RoomMade
<1>1. Values'
  BY OptionsKept, Threads, RejectIs, StreamReadyIs, SMTT(30) DEF Labels, Values, StoreTrackPresent, app, session, streams, adding, working
<1>2. Hands'
  BY Threads DEF Labels, Values, Hands, StoreTrackPresent, options, app, session, streams, adding, working, Goto, MainGoto, RejectFrame, GiveBack, StreamReady, RoomMade
<1>3. Mains'
  BY Threads DEF Labels, Values, Mains, StoreTrackPresent, options, app, session, streams, adding, working, Goto, MainGoto, RejectFrame, GiveBack, StreamReady, RoomMade
<1>4. Headers'
  BY Threads DEF Labels, Values, Headers, Opened, Sending, StoreTrackPresent, options, app, session, streams, adding, working, Goto, MainGoto, RejectFrame, GiveBack, StreamReady, RoomMade
<1> QED BY <1>0, <1>1, <1>2, <1>3, <1>4

LEMMA StoreStreamFailsControls ==
    ASSUME Types, Control, NEW a \in Adder, StoreStreamFails(a)
    PROVE  Types' /\ Control'
<1> USE DEF Control, Types
<1>0. Labels'
  BY Threads DEF Labels, Label, Opened, StoreStreamFails, options, app, session, streams, adding, working, Goto, MainGoto, RejectFrame, GiveBack, StreamReady, RoomMade, StoreNoStream
<1>1. Values'
  BY OptionsKept, Threads, RejectIs DEF Labels, Values, StoreStreamFails, app, session, streams, adding, working, StoreNoStream
<1>2. Hands'
  BY Threads DEF Labels, Values, Hands, StoreStreamFails, options, app, session, streams, adding, working, Goto, MainGoto, RejectFrame, GiveBack, StreamReady, RoomMade, StoreNoStream
<1>3. Mains'
  BY Threads DEF Labels, Values, Mains, StoreStreamFails, options, app, session, streams, adding, working, Goto, MainGoto, RejectFrame, GiveBack, StreamReady, RoomMade, StoreNoStream
<1>4. Headers'
  BY Threads DEF Labels, Values, Headers, Opened, Sending, StoreStreamFails, options, app, session, streams, adding, working, Goto, MainGoto, RejectFrame, GiveBack, StreamReady, RoomMade, StoreNoStream
<1> QED BY <1>0, <1>1, <1>2, <1>3, <1>4

LEMMA BuildFailsControls ==
    ASSUME Types, Control, NEW a \in Adder, BuildFails(a)
    PROVE  Types' /\ Control'
<1> USE DEF Control, Types
<1>0. Labels'
  BY Threads DEF Labels, Label, Opened, BuildFails, options, app, session, streams, adding, working, Goto, MainGoto, RejectFrame, GiveBack, StreamReady, RoomMade
<1>1. Values'
  BY OptionsKept, Threads, RejectIs, StreamReadyIs, SMTT(30) DEF Labels, Values, BuildFails, app, session, streams, adding, working
<1>2. Hands'
  BY Threads DEF Labels, Values, Hands, BuildFails, options, app, session, streams, adding, working, Goto, MainGoto, RejectFrame, GiveBack, StreamReady, RoomMade
<1>3. Mains'
  BY Threads DEF Labels, Values, Mains, BuildFails, options, app, session, streams, adding, working, Goto, MainGoto, RejectFrame, GiveBack, StreamReady, RoomMade
<1>4. Headers'
  BY Threads DEF Labels, Values, Headers, Opened, Sending, BuildFails, options, app, session, streams, adding, working, Goto, MainGoto, RejectFrame, GiveBack, StreamReady, RoomMade
<1> QED BY <1>0, <1>1, <1>2, <1>3, <1>4

LEMMA MeasureControls ==
    ASSUME Types, Control, NEW a \in Adder, Measure(a)
    PROVE  Types' /\ Control'
<1> USE DEF Control, Types
<1>0. Labels'
  BY Threads DEF Labels, Label, Opened, Measure, options, app, session, streams, adding, working, Goto, MainGoto, RejectFrame, GiveBack, StreamReady, RoomMade
<1>1. Values'
  <2>1. handle[a] \in StreamId /\ roomy \subseteq StreamId
    BY DEF Hands, Measure, Values
  <2>2. roomy' \subseteq StreamId
    BY <2>1 DEF Measure
  <2> QED BY <2>2, OptionsKept, Threads DEF Labels, Values, Measure, app, session, adding, working, Goto, RoomMade
<1>2. Hands'
  BY Threads DEF Labels, Values, Hands, Measure, options, app, session, streams, adding, working, Goto, MainGoto, RejectFrame, GiveBack, StreamReady, RoomMade
<1>3. Mains'
  BY Threads DEF Labels, Values, Mains, Measure, options, app, session, streams, adding, working, Goto, MainGoto, RejectFrame, GiveBack, StreamReady, RoomMade
<1>4. Headers'
  BY Threads DEF Labels, Values, Headers, Opened, Sending, Measure, options, app, session, streams, adding, working, Goto, MainGoto, RejectFrame, GiveBack, StreamReady, RoomMade
<1> QED BY <1>0, <1>1, <1>2, <1>3, <1>4

LEMMA AddDataFrameFailsControls ==
    ASSUME Types, Control, NEW a \in Adder, AddDataFrameFails(a)
    PROVE  Types' /\ Control'
<1> USE DEF Control, Types
<1>0. Labels'
  BY Threads DEF Labels, Label, Opened, AddDataFrameFails, options, app, session, streams, adding, working, Goto, MainGoto, RejectFrame, GiveBack, StreamReady, RoomMade
<1>1. Values'
  BY OptionsKept, Threads, RejectIs DEF Labels, Values, AddDataFrameFails, app, session, streams, adding, working
<1>2. Hands'
  BY Threads DEF Labels, Values, Hands, AddDataFrameFails, options, app, session, streams, adding, working, Goto, MainGoto, RejectFrame, GiveBack, StreamReady, RoomMade
<1>3. Mains'
  BY Threads DEF Labels, Values, Mains, AddDataFrameFails, options, app, session, streams, adding, working, Goto, MainGoto, RejectFrame, GiveBack, StreamReady, RoomMade
<1>4. Headers'
  BY Threads DEF Labels, Values, Headers, Opened, Sending, AddDataFrameFails, options, app, session, streams, adding, working, Goto, MainGoto, RejectFrame, GiveBack, StreamReady, RoomMade
<1> QED BY <1>0, <1>1, <1>2, <1>3, <1>4

LEMMA SetAudioTrackInfoControls ==
    ASSUME Types, Control, SetAudioTrackInfo
    PROVE  Types' /\ Control'
<1> USE DEF Control, Types
<1>0. Labels'
  BY Threads DEF Labels, Label, Opened, SetAudioTrackInfo, options, app, session, streams, adding, working, Goto, MainGoto
<1>1. Values'
  BY Threads DEF Labels, Values, Options, SetAudioTrackInfo, options, app, session, streams, adding, working, Goto, MainGoto
<1>2. Hands'
  BY Threads DEF Labels, Values, Hands, SetAudioTrackInfo, options, app, session, streams, adding, working, Goto, MainGoto
<1>3. Mains'
  BY Threads DEF Labels, Values, Mains, SetAudioTrackInfo, options, app, session, streams, adding, working, Goto, MainGoto
<1>4. Headers'
  BY Threads DEF Labels, Values, Headers, Opened, Sending, SetAudioTrackInfo, options, app, session, streams, adding, working, Goto, MainGoto
<1> QED BY <1>0, <1>1, <1>2, <1>3, <1>4

LEMMA SetPolicyControls ==
    ASSUME Types, Control, SetPolicy
    PROVE  Types' /\ Control'
<1> USE DEF Control, Types
<1>0. Labels'
  BY Threads DEF Labels, Label, Opened, SetPolicy, options, app, session, streams, adding, working, Goto, MainGoto
<1>1. Values'
  BY Threads DEF Labels, Values, Options, SetPolicy, options, app, session, streams, adding, working, Goto, MainGoto
<1>2. Hands'
  BY Threads DEF Labels, Values, Hands, SetPolicy, options, app, session, streams, adding, working, Goto, MainGoto
<1>3. Mains'
  BY Threads DEF Labels, Values, Mains, SetPolicy, options, app, session, streams, adding, working, Goto, MainGoto
<1>4. Headers'
  BY Threads DEF Labels, Values, Headers, Opened, Sending, SetPolicy, options, app, session, streams, adding, working, Goto, MainGoto
<1> QED BY <1>0, <1>1, <1>2, <1>3, <1>4

LEMMA SetMemLimitControls ==
    ASSUME Types, Control, SetMemLimit
    PROVE  Types' /\ Control'
<1> USE DEF Control, Types
<1>0. Labels'
  BY Threads DEF Labels, Label, Opened, SetMemLimit, options, app, session, streams, adding, working, Goto, MainGoto
<1>1. Values'
  BY Threads DEF Labels, Values, Options, SetMemLimit, options, app, session, streams, adding, working, Goto, MainGoto
<1>2. Hands'
  BY Threads DEF Labels, Values, Hands, SetMemLimit, options, app, session, streams, adding, working, Goto, MainGoto
<1>3. Mains'
  BY Threads DEF Labels, Values, Mains, SetMemLimit, options, app, session, streams, adding, working, Goto, MainGoto
<1>4. Headers'
  BY Threads DEF Labels, Values, Headers, Opened, Sending, SetMemLimit, options, app, session, streams, adding, working, Goto, MainGoto
<1> QED BY <1>0, <1>1, <1>2, <1>3, <1>4

LEMMA ReopenControls ==
    ASSUME Types, Control, Reopen
    PROVE  Types' /\ Control'
<1> USE DEF Control, Types
<1>0. Labels'
  BY Threads DEF Labels, Label, Opened, Reopen, options, app, session, streams, adding, working, Goto, MainGoto
<1>1. Values'
  BY OptionsKept, Threads DEF Labels, Values, Reopen, app, session, streams, adding, working, Goto, MainGoto
<1>2. Hands'
  BY Threads DEF Labels, Values, Hands, Reopen, options, app, session, streams, adding, working, Goto, MainGoto
<1>3. Mains'
  BY Threads DEF Labels, Values, Mains, Reopen, options, app, session, streams, adding, working, Goto, MainGoto
<1>4. Headers'
  BY Threads DEF Labels, Values, Headers, Opened, Sending, Reopen, options, app, session, streams, adding, working, Goto, MainGoto
<1> QED BY <1>0, <1>1, <1>2, <1>3, <1>4

LEMMA KvsApp_openControls ==
    ASSUME Types, Control, KvsApp_open
    PROVE  Types' /\ Control'
<1> USE DEF Control, Types
<1>0. Labels'
  BY Threads DEF Labels, Label, Opened, KvsApp_open, options, app, session, streams, adding, working, Goto, MainGoto, Return, Forget, NewServer
<1>1. Values'
  BY OptionsKept, Threads DEF Labels, Values, KvsApp_open, app, session, streams, adding, working, Goto, MainGoto, Return, Forget, NewServer
<1>2. Hands'
  BY Threads DEF Labels, Values, Hands, KvsApp_open, options, app, session, streams, adding, working, Goto, MainGoto, Return, Forget, NewServer
<1>3. Mains'
  BY Threads DEF Labels, Values, Mains, KvsApp_open, options, app, session, streams, adding, working, Goto, MainGoto, Return, Forget, NewServer
<1>4. Headers'
  BY Threads DEF Labels, Values, Headers, Opened, Sending, KvsApp_open, options, app, session, streams, adding, working, Goto, MainGoto, Return, Forget, NewServer
<1> QED BY <1>0, <1>1, <1>2, <1>3, <1>4

LEMMA OpenFailsControls ==
    ASSUME Types, Control, OpenFails
    PROVE  Types' /\ Control'
<1> USE DEF Control, Types
<1>0. Labels'
  BY Threads DEF Labels, Label, Opened, OpenFails, options, app, session, streams, adding, working, Goto, MainGoto, Return, Forget, NewServer
<1>1. Values'
  BY OptionsKept, Threads DEF Labels, Values, OpenFails, app, session, streams, adding, working, Goto, MainGoto, Return, Forget, NewServer
<1>2. Hands'
  BY Threads DEF Labels, Values, Hands, OpenFails, options, app, session, streams, adding, working, Goto, MainGoto, Return, Forget, NewServer
<1>3. Mains'
  BY Threads DEF Labels, Values, Mains, OpenFails, options, app, session, streams, adding, working, Goto, MainGoto, Return, Forget, NewServer
<1>4. Headers'
  BY Threads DEF Labels, Values, Headers, Opened, Sending, OpenFails, options, app, session, streams, adding, working, Goto, MainGoto, Return, Forget, NewServer
<1> QED BY <1>0, <1>1, <1>2, <1>3, <1>4

LEMMA OpenCreateStreamControls ==
    ASSUME Types, Control, OpenCreateStream
    PROVE  Types' /\ Control'
<1> USE DEF Control, Types
<1>0. Labels'
  BY Threads DEF Labels, Label, Opened, OpenCreateStream, options, app, session, streams, adding, working, Goto, MainGoto, Return, Forget, NewServer
<1>1. Values'
  BY OptionsKept, Threads DEF Labels, Values, OpenCreateStream, app, session, streams, adding, working, Goto, MainGoto, Return, Forget, NewServer
<1>2. Hands'
  BY Threads DEF Labels, Values, Hands, OpenCreateStream, options, app, session, streams, adding, working, Goto, MainGoto, Return, Forget, NewServer
<1>3. Mains'
  BY Threads DEF Labels, Values, Mains, OpenCreateStream, options, app, session, streams, adding, working, Goto, MainGoto, Return, Forget, NewServer
<1>4. Headers'
  BY Threads DEF Labels, Values, Headers, Opened, Sending, OpenCreateStream, options, app, session, streams, adding, working, Goto, MainGoto, Return, Forget, NewServer
<1> QED BY <1>0, <1>1, <1>2, <1>3, <1>4

LEMMA OpenStoreStreamControls ==
    ASSUME Types, Control, OpenStoreStream
    PROVE  Types' /\ Control'
<1> USE DEF Control, Types
<1>0. Labels'
  BY Threads DEF Labels, Label, Opened, OpenStoreStream, options, app, session, streams, adding, working, Goto, MainGoto, Return, Forget, NewServer, NewStream, StoreNoStream
<1>1. Values'
  BY OptionsKept, Threads, NewStreamIs DEF Labels, Values, OpenStoreStream, app, session, streams, adding, working, NewStream, StoreNoStream
<1>2. Hands'
  BY Threads DEF Labels, Values, Hands, OpenStoreStream, options, app, session, streams, adding, working, Goto, MainGoto, Return, Forget, NewServer, NewStream, StoreNoStream
<1>3. Mains'
  BY Threads DEF Labels, Values, Mains, OpenStoreStream, options, app, session, streams, adding, working, Goto, MainGoto, Return, Forget, NewServer, NewStream, StoreNoStream
<1>4. Headers'
  BY Threads DEF Labels, Values, Headers, Opened, Sending, OpenStoreStream, options, app, session, streams, adding, working, Goto, MainGoto, Return, Forget, NewServer, NewStream, StoreNoStream
<1> QED BY <1>0, <1>1, <1>2, <1>3, <1>4

LEMMA KvsApp_doWorkControls ==
    ASSUME Types, Control, KvsApp_doWork
    PROVE  Types' /\ Control'
<1> USE DEF Control, Types
<1>0. Labels'
  BY Threads DEF Labels, Label, Opened, KvsApp_doWork, options, app, session, streams, adding, working, Goto, MainGoto, Return, Forget, NewServer
<1>1. Values'
  BY OptionsKept, Threads DEF Labels, Values, KvsApp_doWork, app, session, streams, adding, working, Goto, MainGoto, Return, Forget, NewServer
<1>2. Hands'
  BY Threads DEF Labels, Values, Hands, KvsApp_doWork, options, app, session, streams, adding, working, Goto, MainGoto, Return, Forget, NewServer
<1>3. Mains'
  BY Threads DEF Labels, Values, Mains, KvsApp_doWork, options, app, session, streams, adding, working, Goto, MainGoto, Return, Forget, NewServer
<1>4. Headers'
  BY Threads DEF Labels, Values, Headers, Opened, Sending, KvsApp_doWork, options, app, session, streams, adding, working, Goto, MainGoto, Return, Forget, NewServer
<1> QED BY <1>0, <1>1, <1>2, <1>3, <1>4

LEMMA KvsApp_doWorkExControls ==
    ASSUME Types, Control, KvsApp_doWorkEx
    PROVE  Types' /\ Control'
<1> USE DEF Control, Types
<1>0. Labels'
  BY Threads DEF Labels, Label, Opened, KvsApp_doWorkEx, options, app, session, streams, adding, working, Goto, MainGoto, Return, Forget, NewServer
<1>1. Values'
  BY OptionsKept, Threads DEF Labels, Values, KvsApp_doWorkEx, app, session, streams, adding, working, Goto, MainGoto, Return, Forget, NewServer
<1>2. Hands'
  BY Threads DEF Labels, Values, Hands, KvsApp_doWorkEx, options, app, session, streams, adding, working, Goto, MainGoto, Return, Forget, NewServer
<1>3. Mains'
  BY Threads DEF Labels, Values, Mains, KvsApp_doWorkEx, options, app, session, streams, adding, working, Goto, MainGoto, Return, Forget, NewServer
<1>4. Headers'
  BY Threads DEF Labels, Values, Headers, Opened, Sending, KvsApp_doWorkEx, options, app, session, streams, adding, working, Goto, MainGoto, Return, Forget, NewServer
<1> QED BY <1>0, <1>1, <1>2, <1>3, <1>4

LEMMA updateEbmlHeaderControls ==
    ASSUME Types, Control, updateEbmlHeader
    PROVE  Types' /\ Control'
<1> USE DEF Control, Types
<1>0. Labels'
  BY Threads DEF Labels, Label, Opened, updateEbmlHeader, options, app, session, streams, adding, working, Goto, MainGoto, Return, Forget, NewServer
<1>1. Values'
  BY OptionsKept, Threads DEF Labels, Values, updateEbmlHeader, app, session, streams, adding, working, Goto, MainGoto, Return, Forget, NewServer
<1>2. Hands'
  BY Threads DEF Labels, Values, Hands, updateEbmlHeader, options, app, session, streams, adding, working, Goto, MainGoto, Return, Forget, NewServer
<1>3. Mains'
  BY Threads DEF Labels, Values, Mains, updateEbmlHeader, options, app, session, streams, adding, working, Goto, MainGoto, Return, Forget, NewServer
<1>4. Headers'
  BY Threads DEF Labels, Values, Headers, Opened, Sending, updateEbmlHeader, options, app, session, streams, adding, working, Goto, MainGoto, Return, Forget, NewServer
<1> QED BY <1>0, <1>1, <1>2, <1>3, <1>4

LEMMA PeekHeadControls ==
    ASSUME Types, Control, PeekHead
    PROVE  Types' /\ Control'
<1> USE DEF Control, Types
<1>0. Labels'
  BY Threads DEF Labels, Label, Opened, PeekHead, options, app, session, streams, adding, working, Goto, MainGoto, Return, Forget, NewServer
<1>1. Values'
  <2> DEFINE q == stream[handle[Main]].pending
  <2>1. q \in Seq(DataFrame)
    BY DEF PeekHead, Mains, Values
  <2>2. peeked' = peeked \/ (q # <<>> /\ peeked' = {Head(q).frame})
    <3>1. IF q = <<>> THEN UNCHANGED peeked ELSE peeked' = {Head(q).frame}
      BY Zenon DEF PeekHead
    <3> HIDE DEF q
    <3> QED BY <3>1
  <2> HIDE DEF q
  <2>3. peeked' \subseteq DataFrameIn
    BY <2>1, <2>2, HeadIs DEF Values
  <2> QED BY <2>3, OptionsKept, Threads DEF PeekHead, Values, app, session, streams, adding, Forget
<1>2. Hands'
  BY Threads DEF Labels, Values, Hands, PeekHead, options, app, session, streams, adding, working, Goto, MainGoto, Return, Forget, NewServer
<1>3. Mains'
  BY Threads DEF Labels, Values, Mains, PeekHead, options, app, session, streams, adding, working, Goto, MainGoto, Return, Forget, NewServer
<1>4. Headers'
  BY Threads DEF Labels, Values, Headers, Opened, Sending, PeekHead, options, app, session, streams, adding, working, Goto, MainGoto, Return, Forget, NewServer
<1> QED BY <1>0, <1>1, <1>2, <1>3, <1>4

LEMMA InspectControls ==
    ASSUME Types, Control, Inspect
    PROVE  Types' /\ Control'
<1> USE DEF Control, Types
<1>0. Labels'
  BY Threads DEF Labels, Label, Opened, Inspect, options, app, session, streams, adding, working, Goto, MainGoto, Return, Forget, NewServer
<1>1. Values'
  <2>1. handle' = handle \/ handle' = [handle EXCEPT ![Main] = NULL]
    BY DEF Inspect, Forget
  <2>2. fault' \in BOOLEAN
    BY DEF Inspect
  <2>3. uEarliestTimestamp' \in Timestamp \cup {0}
    BY DEF Inspect, Values
  <2>4. peeked' = {} /\ UNCHANGED <<options, xStreamHandle, isAudioTrackPresent, spsPps, session, streams,
                                   adding, held, gStopRunning, terminated>>
    BY DEF Inspect
  <2> QED BY <2>1, <2>2, <2>3, <2>4, OptionsKept, Threads DEF Values, session, streams, adding
<1>2. Hands'
  BY Threads DEF Labels, Values, Hands, Inspect, options, app, session, streams, adding, working, Goto, MainGoto, Return, Forget, NewServer
<1>3. Mains'
  BY Threads DEF Labels, Values, Mains, Inspect, options, app, session, streams, adding, working, Goto, MainGoto, Return, Forget, NewServer
<1>4. Headers'
  BY Threads DEF Labels, Values, Headers, Opened, Sending, Inspect, options, app, session, streams, adding, working, Goto, MainGoto, Return, Forget, NewServer
<1> QED BY <1>0, <1>1, <1>2, <1>3, <1>4

LEMMA SendEbmlControls ==
    ASSUME Types, Control, SendEbml
    PROVE  Types' /\ Control'
<1> USE DEF Control, Types
<1>0. Labels'
  BY Threads DEF Labels, Label, Opened, SendEbml, options, app, session, streams, adding, working, Goto, MainGoto, Return, Forget, NewServer
<1>s. /\ server' \in ServerState /\ server'.last = server.last
      /\ \/ server'.header = server.header /\ isEbmlHeaderUpdated' = isEbmlHeaderUpdated
         \/ server'.header /\ isEbmlHeaderUpdated' = TRUE
  <2>1. server \in ServerState
    BY DEF Values
  <2>2. CASE server' \in {server, Cut(server)} /\ UNCHANGED isEbmlHeaderUpdated
    BY <2>1, <2>2 DEF Cut, ServerState
  <2>3. CASE server' = [server EXCEPT !.header = TRUE] /\ isEbmlHeaderUpdated' = TRUE
    BY <2>1, <2>3 DEF ServerState
  <2> QED BY <2>2, <2>3 DEF SendEbml
<1>1. Values'
  BY <1>s, OptionsKept, Threads DEF Labels, Values, SendEbml, app, session, streams, adding, working, Goto, MainGoto, Return, Forget, NewServer
<1>2. Hands'
  BY Threads DEF Labels, Values, Hands, SendEbml, options, app, session, streams, adding, working, Goto, MainGoto, Return, Forget, NewServer
<1>3. Mains'
  BY Threads DEF Labels, Values, Mains, SendEbml, options, app, session, streams, adding, working, Goto, MainGoto, Return, Forget, NewServer
<1>4. Headers'
  BY <1>s, Threads DEF Labels, Values, Headers, Opened, Sending, SendEbml, options, app, session, streams, adding, working, Goto, MainGoto, Return, Forget, NewServer
<1> QED BY <1>0, <1>1, <1>2, <1>3, <1>4

LEMMA NetworkWorkControls ==
    ASSUME Types, Control, NetworkWork
    PROVE  Types' /\ Control'
<1> USE DEF Control, Types
<1>0. Labels'
  BY Threads DEF Labels, Label, Opened, NetworkWork, options, app, session, streams, adding, working, Goto, MainGoto, Return, Forget, NewServer
<1>1. Values'
  BY OptionsKept, Threads DEF Labels, Values, NetworkWork, app, session, streams, adding, working, Goto, MainGoto, Return, Forget, NewServer
<1>2. Hands'
  BY Threads DEF Labels, Values, Hands, NetworkWork, options, app, session, streams, adding, working, Goto, MainGoto, Return, Forget, NewServer
<1>3. Mains'
  BY Threads DEF Labels, Values, Mains, NetworkWork, options, app, session, streams, adding, working, Goto, MainGoto, Return, Forget, NewServer
<1>4. Headers'
  BY Threads DEF Labels, Values, Headers, Opened, Sending, NetworkWork, options, app, session, streams, adding, working, Goto, MainGoto, Return, Forget, NewServer
<1> QED BY <1>0, <1>1, <1>2, <1>3, <1>4

LEMMA AvailOnVideoControls ==
    ASSUME Types, Control, AvailOnVideo
    PROVE  Types' /\ Control'
<1> USE DEF Control, Types
<1>0. Labels'
  BY Threads DEF Labels, Label, Opened, AvailOnVideo, options, app, session, streams, adding, working, Goto, MainGoto, Return, Forget, NewServer
<1>1. Values'
  BY OptionsKept, Threads DEF Labels, Values, AvailOnVideo, app, session, streams, adding, working, Goto, MainGoto, Return, Forget, NewServer
<1>2. Hands'
  BY Threads DEF Labels, Values, Hands, AvailOnVideo, options, app, session, streams, adding, working, Goto, MainGoto, Return, Forget, NewServer
<1>3. Mains'
  BY Threads DEF Labels, Values, Mains, AvailOnVideo, options, app, session, streams, adding, working, Goto, MainGoto, Return, Forget, NewServer
<1>4. Headers'
  BY Threads DEF Labels, Values, Headers, Opened, Sending, AvailOnVideo, options, app, session, streams, adding, working, Goto, MainGoto, Return, Forget, NewServer
<1> QED BY <1>0, <1>1, <1>2, <1>3, <1>4

LEMMA AvailOnAudioControls ==
    ASSUME Types, Control, AvailOnAudio
    PROVE  Types' /\ Control'
<1> USE DEF Control, Types
<1>0. Labels'
  BY Threads DEF Labels, Label, Opened, AvailOnAudio, options, app, session, streams, adding, working, Goto, MainGoto, Return, Forget, NewServer
<1>1. Values'
  BY OptionsKept, Threads DEF Labels, Values, AvailOnAudio, app, session, streams, adding, working, Goto, MainGoto, Return, Forget, NewServer
<1>2. Hands'
  BY Threads DEF Labels, Values, Hands, AvailOnAudio, options, app, session, streams, adding, working, Goto, MainGoto, Return, Forget, NewServer
<1>3. Mains'
  BY Threads DEF Labels, Values, Mains, AvailOnAudio, options, app, session, streams, adding, working, Goto, MainGoto, Return, Forget, NewServer
<1>4. Headers'
  BY Threads DEF Labels, Values, Headers, Opened, Sending, AvailOnAudio, options, app, session, streams, adding, working, Goto, MainGoto, Return, Forget, NewServer
<1> QED BY <1>0, <1>1, <1>2, <1>3, <1>4

LEMMA CloseSessionControls ==
    ASSUME Types, Control, CloseSession
    PROVE  Types' /\ Control'
<1> USE DEF Control, Types
<1>0. Labels'
  BY Threads DEF Labels, Label, Opened, CloseSession, options, app, session, streams, adding, working, Goto, MainGoto, Return, Forget, NewServer, KvsApp_close
<1>1. Values'
  BY OptionsKept, Threads DEF Labels, Values, ServerState, CloseSession, app, session, streams, adding, working, Goto, MainGoto, Return, Forget, NewServer, KvsApp_close
<1>2. Hands'
  BY Threads DEF Labels, Values, Hands, CloseSession, options, app, session, streams, adding, working, Goto, MainGoto, Return, Forget, NewServer, KvsApp_close
<1>3. Mains'
  BY Threads DEF Labels, Values, Mains, CloseSession, options, app, session, streams, adding, working, Goto, MainGoto, Return, Forget, NewServer, KvsApp_close
<1>4. Headers'
  BY Threads DEF Labels, Values, Headers, Opened, Sending, CloseSession, options, app, session, streams, adding, working, Goto, MainGoto, Return, Forget, NewServer, KvsApp_close
<1> QED BY <1>0, <1>1, <1>2, <1>3, <1>4

LEMMA StopThreadsControls ==
    ASSUME Types, Control, StopThreads
    PROVE  Types' /\ Control'
<1> USE DEF Control, Types
<1>0. Labels'
  BY Threads DEF Labels, Label, Opened, StopThreads, options, app, session, streams, adding, working, Goto, MainGoto, Return, Forget, NewServer, KvsApp_close
<1>1. Values'
  BY OptionsKept, Threads DEF Labels, Values, ServerState, StopThreads, app, session, streams, adding, working, Goto, MainGoto, Return, Forget, NewServer, KvsApp_close
<1>2. Hands'
  BY Threads DEF Labels, Values, Hands, StopThreads, options, app, session, streams, adding, working, Goto, MainGoto, Return, Forget, NewServer, KvsApp_close
<1>3. Mains'
  BY Threads DEF Labels, Values, Mains, StopThreads, options, app, session, streams, adding, working, Goto, MainGoto, Return, Forget, NewServer, KvsApp_close
<1>4. Headers'
  BY Threads DEF Labels, Values, Headers, Opened, Sending, StopThreads, options, app, session, streams, adding, working, Goto, MainGoto, Return, Forget, NewServer, KvsApp_close
<1> QED BY <1>0, <1>1, <1>2, <1>3, <1>4

LEMMA InterruptControls ==
    ASSUME Types, Control, Interrupt
    PROVE  Types' /\ Control'
<1> USE DEF Control, Types
<1>0. Labels'
  BY Threads DEF Labels, Label, Opened, Interrupt, options, app, session, streams, adding, working, Goto, MainGoto, Return, Forget, NewServer
<1>1. Values'
  BY OptionsKept, Threads DEF Labels, Values, Interrupt, app, session, streams, adding, working, Goto, MainGoto, Return, Forget, NewServer
<1>2. Hands'
  BY Threads DEF Labels, Values, Hands, Interrupt, options, app, session, streams, adding, working, Goto, MainGoto, Return, Forget, NewServer
<1>3. Mains'
  BY Threads DEF Labels, Values, Mains, Interrupt, options, app, session, streams, adding, working, Goto, MainGoto, Return, Forget, NewServer
<1>4. Headers'
  BY Threads DEF Labels, Values, Headers, Opened, Sending, Interrupt, options, app, session, streams, adding, working, Goto, MainGoto, Return, Forget, NewServer
<1> QED BY <1>0, <1>1, <1>2, <1>3, <1>4

(* What a thread that pops gives back.                                     *)
LEMMA GiveBackIs ==
    ASSUME Types, NEW f \in DataFrameIn, GiveBack(f)
    PROVE  terminated' \in [FrameId -> Nat]
BY FrameIs DEF Types, Values, GiveBack

LEMMA addFrameControls ==
    ASSUME Types, Control, NEW a \in Adder, NEW f \in DataFrameIn, KvsApp_addFrame(a, f)
    PROVE  Types' /\ Control'
<1> USE DEF Control, Types
<1>0. Labels'
  BY Threads DEF Labels, Label, KvsApp_addFrame, Goto
<1>a. /\ pc[a] = "idle" /\ captured' = captured + 1 /\ clock' = [clock EXCEPT ![a] = f.uTimestampMs]
      /\ UNCHANGED <<app, session, streams, working, handle, gStopRunning>>
  BY DEF KvsApp_addFrame
<1>b. \/ GiveBack(f) /\ UNCHANGED <<hand, pc>>
      \/ hand' = [hand EXCEPT ![a] = {f}] /\ pc' = [pc EXCEPT ![a] = "build"] /\ UNCHANGED terminated
  BY DEF KvsApp_addFrame, Goto
<1>1. Values'
  <2>1. captured' \in Nat
    BY <1>a DEF Values
  <2>2. terminated' \in [FrameId -> Nat]
    BY <1>b, GiveBackIs DEF Values
  <2>3. hand' \in [Adder -> SUBSET DataFrameIn]
    <3>1. hand' = hand \/ hand' = [hand EXCEPT ![a] = {f}]
      BY <1>b
    <3>2. {f} \in SUBSET DataFrameIn /\ hand \in [Adder -> SUBSET DataFrameIn]
      BY DEF Values
    <3> QED BY <3>1, <3>2
  <2> QED BY <1>a, <2>1, <2>2, <2>3, OptionsKept DEF Values, app, session, streams, working
<1>2. Hands'
  <2>1. CASE UNCHANGED <<hand, pc>>
    BY <1>a, <2>1 DEF Hands, options, app
  <2>2. CASE hand' = [hand EXCEPT ![a] = {f}] /\ pc' = [pc EXCEPT ![a] = "build"]
    BY <1>a, <2>2, Threads DEF Labels, Values, Hands, options, app
  <2> QED BY <1>b, <2>1, <2>2
<1>3. Mains'
  BY Threads DEF Labels, Values, Mains, KvsApp_addFrame, options, app, session, streams, working, Goto
<1>4. Headers'
  BY Threads DEF Labels, Values, Headers, Opened, Sending, KvsApp_addFrame, options, app, session, streams, working, Goto
<1> QED BY <1>0, <1>1, <1>2, <1>3, <1>4

LEMMA FlushHeadControls ==
    ASSUME Types, Control, NEW a \in Adder, FlushHead(a)
    PROVE  Types' /\ Control'
<1> USE DEF Control, Types
<1> DEFINE s == handle[a]
           q == stream[s].pending
<1>a. s \in StreamId /\ q \in Seq(DataFrame) /\ stream \in Queues
  BY DEF FlushHead, Hands, Values, Queues
<1>b. \/ q = <<>> /\ UNCHANGED <<streams, terminated>>
      \/ q # <<>> /\ GiveBack(Head(q).frame) /\ PopFrom(s) /\ UNCHANGED <<created, roomy>>
  BY DEF FlushHead
<1>c. /\ pc[a] = "flush" /\ (pc' = [pc EXCEPT ![a] = "add"] \/ pc' = [pc EXCEPT ![a] = "measure"])
      /\ pc'[a] = "measure" => UNCHANGED handle
      /\ handle' = [handle EXCEPT ![a] = NULL] \/ handle' = handle
      /\ UNCHANGED <<app, session, adding, working, gStopRunning>>
  BY Threads DEF FlushHead, RoomMade, Goto, Labels
<1> HIDE DEF s, q
<1>0. Labels'
  BY <1>c, Threads DEF Labels, Label
<1>1. Values'
  <2>1. /\ stream' \in Queues /\ created' \in Nat /\ terminated' \in [FrameId -> Nat]
        /\ roomy' \subseteq StreamId
    <3>1. CASE q = <<>> /\ UNCHANGED <<streams, terminated>>
      BY <1>a, <3>1 DEF streams, Values
    <3>2. CASE q # <<>> /\ GiveBack(Head(q).frame) /\ PopFrom(s) /\ UNCHANGED <<created, roomy>>
      <4>1. Head(q).frame \in DataFrameIn
        BY <1>a, <3>2, HeadIs
      <4>2. stream' \in Queues
        BY <1>a, <3>2, PopIs DEF q
      <4> QED BY <3>2, <4>1, <4>2, GiveBackIs DEF Values
    <3> QED BY <1>b, <3>1, <3>2
  <2> QED BY OptionsKept, <1>c, <2>1, Threads DEF Values, Queues, app, session, adding, working
<1>2. Hands'
  BY <1>c, Threads DEF Labels, Values, Hands, options, app, adding
<1>3. Mains'
  BY <1>c, Threads DEF Labels, Values, Mains, working
<1>4. Headers'
  BY <1>c, Threads DEF Labels, Headers, Opened, Sending, session
<1> QED BY <1>0, <1>1, <1>2, <1>3, <1>4

LEMMA AddDataFrameIs ==
    ASSUME Types, Control, NEW a \in Adder, AddDataFrame(a)
    PROVE  /\ xStreamHandle \in StreamId
           /\ \E f \in DataFrameIn :
                /\ hand[a] = {f} /\ AddTo(xStreamHandle, f)
                /\ hand' = [hand EXCEPT ![a] = {}]
           /\ pc[a] = "add" /\ pc' = [pc EXCEPT ![a] = "idle"]
           /\ UNCHANGED <<app, session, created, roomy, clock, captured, working, handle, gStopRunning, terminated>>
<1>1. PICK f \in DataFrameIn : hand[a] = {f}
  BY DEF Control, Hands, AddDataFrame
<1>2. (CHOOSE g \in hand[a] : TRUE) = f
  BY <1>1
<1>3. AddTo(xStreamHandle, f)
  BY <1>2 DEF AddDataFrame, AddTo
<1>4. xStreamHandle \in StreamId
  BY DEF AddDataFrame, Types, Values
<1> QED BY <1>1, <1>3, <1>4 DEF AddDataFrame, Goto

LEMMA AddDataFrameControls ==
    ASSUME Types, Control, NEW a \in Adder, AddDataFrame(a)
    PROVE  Types' /\ Control'
<1> USE DEF Control, Types
<1>a. /\ pc[a] = "add" /\ pc' = [pc EXCEPT ![a] = "idle"] /\ hand' = [hand EXCEPT ![a] = {}]
      /\ UNCHANGED <<app, session, created, roomy, clock, captured, working, handle, gStopRunning, terminated>>
  BY AddDataFrameIs
<1>b. stream' \in Queues
  <2>1. stream \in Queues
    BY DEF Values, Queues
  <2> QED BY <2>1, AddDataFrameIs, AddIs
<1>0. Labels'
  BY <1>a, Threads DEF Labels, Label
<1>1. Values'
  BY OptionsKept, <1>a, <1>b, Threads DEF Values, Queues, app, session, adding, working
<1>2. Hands'
  BY <1>a, Threads DEF Labels, Values, Hands, options, app
<1>3. Mains'
  BY <1>a, Threads DEF Labels, Values, Mains, working
<1>4. Headers'
  BY <1>a, Threads DEF Labels, Headers, Opened, Sending, session
<1> QED BY <1>0, <1>1, <1>2, <1>3, <1>4

LEMMA PopBlockControls ==
    ASSUME Types, Control, PopBlock
    PROVE  Types' /\ Control'
<1> USE DEF Control, Types
<1> DEFINE s == handle[Main]
           q == stream[s].pending
<1>a. s \in StreamId /\ q \in Seq(DataFrame) /\ stream \in Queues
  BY DEF PopBlock, Mains, Values, Queues
<1>b. \/ q = <<>> /\ UNCHANGED <<streams, terminated>>
      \/ q # <<>> /\ GiveBack(Head(q).frame) /\ PopFrom(s) /\ UNCHANGED <<created, roomy>>
  BY DEF PopBlock
<1>c. /\ pc[Main] = "popBlock" /\ fault' \in BOOLEAN
      /\ pc' = [pc EXCEPT ![Main] = "crashed"] \/ pc' = [pc EXCEPT ![Main] = "peek"]
      /\ UNCHANGED <<app, session, adding, mode, peeked, held, handle, gStopRunning>>
  BY DEF PopBlock, MainGoto, Goto, Values
<1> HIDE DEF s, q
<1>0. Labels'
  BY <1>c, Threads DEF Labels, Label, Opened
<1>1. Values'
  <2>1. /\ stream' \in Queues /\ created' \in Nat /\ terminated' \in [FrameId -> Nat]
        /\ roomy' \subseteq StreamId
    <3>1. CASE q = <<>> /\ UNCHANGED <<streams, terminated>>
      BY <1>a, <3>1 DEF streams, Values
    <3>2. CASE q # <<>> /\ GiveBack(Head(q).frame) /\ PopFrom(s) /\ UNCHANGED <<created, roomy>>
      <4>1. Head(q).frame \in DataFrameIn
        BY <1>a, <3>2, HeadIs
      <4>2. stream' \in Queues
        BY <1>a, <3>2, PopIs DEF q
      <4> QED BY <3>2, <4>1, <4>2, GiveBackIs DEF Values
    <3> QED BY <1>b, <3>1, <3>2
  <2> QED BY OptionsKept, <1>c, <2>1, Threads DEF Values, Queues, app, session, adding
<1>2. Hands'
  BY <1>c, Threads DEF Labels, Values, Hands, options, app, adding
<1>3. Mains'
  BY <1>c, Threads DEF Labels, Values, Mains, s
<1>4. Headers'
  BY <1>c, Threads DEF Labels, Headers, Opened, Sending, session
<1> QED BY <1>0, <1>1, <1>2, <1>3, <1>4

LEMMA PopToSendControls ==
    ASSUME Types, Control, PopToSend
    PROVE  Types' /\ Control'
<1> USE DEF Control, Types
<1> DEFINE s == xStreamHandle
           q == stream[s].pending
           h == [data |-> Head(q), follows |-> LastCluster(s)]
<1>a. /\ pc[Main] = "pop" /\ \A a \in Adder : pc'[a] = pc[a]
      /\ UNCHANGED <<app, session, adding, mode, peeked, fault, handle, gStopRunning, terminated>>
  BY Threads DEF PopToSend, Return, MainGoto, Goto, Labels
<1>b. \/ /\ UNCHANGED <<streams, held>>
         /\ pc' = [pc EXCEPT ![Main] = "drain"] \/ pc' = [pc EXCEPT ![Main] = "close"]
      \/ /\ s # NULL /\ q # <<>> /\ held' = {h} /\ PopFrom(s) /\ UNCHANGED <<created, roomy>>
         /\ pc' = [pc EXCEPT ![Main] = "send"]
  BY DEF PopToSend, Return, MainGoto, Goto
<1>c. CASE /\ UNCHANGED <<streams, held>>
           /\ pc' = [pc EXCEPT ![Main] = "drain"] \/ pc' = [pc EXCEPT ![Main] = "close"]
  <2>0. Labels'
    BY <1>c, Threads DEF Labels, Label, Opened
  <2>1. Values'
    BY OptionsKept, <1>a, <1>c, Threads DEF Values, app, session, streams, adding
  <2>2. Hands'
    BY <1>a, <1>c, Threads DEF Labels, Values, Hands, options, app, adding
  <2>3. Mains'
    BY <1>a, <1>c, Threads DEF Labels, Values, Mains
  <2>4. Headers'
    BY <1>a, <1>c, Threads DEF Labels, Headers, Opened, Sending, session
  <2> QED BY <2>0, <2>1, <2>2, <2>3, <2>4
<1>d. CASE /\ s # NULL /\ q # <<>> /\ held' = {h} /\ PopFrom(s) /\ UNCHANGED <<created, roomy>>
           /\ pc' = [pc EXCEPT ![Main] = "send"]
  <2>1. s \in StreamId /\ q \in Seq(DataFrame) /\ stream \in Queues
    BY <1>d DEF Values, Queues
  <2>2. stream' \in Queues /\ stream'[s].cluster = LastCluster(s)
    BY <1>d, <2>1, PopIs
  <2>3. h \in [data : DataFrame, follows : Nat]
    <3>1. LastCluster(s) \in Nat
      BY <2>1, <2>2 DEF Queues
    <3>2. Head(q) \in DataFrame
      BY <1>d, <2>1, HeadIs
    <3> QED BY <3>1, <3>2
  <2> HIDE DEF h, s, q
  <2>4. Labels'
    BY <1>d, Threads DEF Labels, Label, Opened
  <2>5. Values'
    BY OptionsKept, <1>a, <1>d, <2>2, <2>3, Threads DEF Values, Queues, app, session, adding
  <2>6. Hands'
    BY <1>a, <1>d, Threads DEF Labels, Values, Hands, options, app, adding
  <2>7. Mains'
    BY <1>a, <1>d, Threads DEF Labels, Values, Mains
  <2>8. Headers'
    BY <1>a, <1>d, Threads DEF Labels, Headers, Opened, Sending, session
  <2> QED BY <2>4, <2>5, <2>6, <2>7, <2>8
<1> QED BY <1>b, <1>c, <1>d

LEMMA ReceivedIs ==
    ASSUME Types, NEW h \in held
    PROVE  LET f == h.data.frame
               base == IF IsCluster(f) THEN {[id |-> f.id, at |-> h.data.timecode]} ELSE server.cluster
           IN  /\ f \in DataFrameIn /\ h.data.timecode \in Nat
               /\ Received(h).header = server.header
               /\ Received(h).cluster = base
               /\ Received(h).last # {}
               /\ Received(h).framed = server.framed
               /\ Received(h) \in ServerState
<1> DEFINE f == h.data.frame
           base == IF IsCluster(f) THEN {[id |-> f.id, at |-> h.data.timecode]} ELSE server.cluster
           c == CHOOSE x \in base : TRUE
           at == IF IsCluster(f) THEN h.data.timecode
                 ELSE Signed(h.data.timecode) + (IF base = {} THEN 0 ELSE c.at)
           last == [frame |-> f, at |-> at, follows |-> \E x \in base : x.id = h.follows]
<1>1. f \in DataFrameIn /\ h.data.timecode \in Nat
  BY DEF Types, Values, DataFrame
<1>2. base \subseteq [id : FrameId, at : Nat]
  <2>1. f.id \in FrameId /\ server.cluster \subseteq [id : FrameId, at : Nat]
    BY <1>1, FrameIs DEF Types, Values, ServerState
  <2> HIDE DEF f
  <2> QED BY <1>1, <2>1
<1>3. at \in Int
  <2>1. base # {} => c.at \in Nat
    <3> HIDE DEF base
    <3>1. base # {} => c \in base
      OBVIOUS
    <3> HIDE DEF c
    <3> QED BY <1>2, <3>1
  <2>2. Signed(h.data.timecode) \in Int
    BY <1>1, Constants DEF Signed
  <2> HIDE DEF c, base, f
  <2> QED BY <1>1, <2>1, <2>2
<1>4. Received(h) = [server EXCEPT !.cluster = base, !.last = {last}]
  BY DEF Received
<1>5. (\E x \in base : x.id = h.follows) \in BOOLEAN
  OBVIOUS
<1> HIDE DEF at, base, f
<1>6. last \in [frame : DataFrameIn, at : Int, follows : BOOLEAN]
  BY <1>1, <1>3, <1>5
<1> HIDE DEF last
<1>7. server \in ServerState
  BY DEF Types, Values
<1>8. /\ Received(h).header = server.header /\ Received(h).cluster = base
      /\ Received(h).last = {last} /\ Received(h).framed = server.framed
      /\ Received(h) \in ServerState
  BY <1>2, <1>4, <1>6, <1>7 DEF ServerState
<1> QED BY <1>1, <1>8 DEF base, f

(* What the server has after a chunk that was sent, or cut off somewhere.  *)
Outcomes(h) == {server} \cup Reads(h) \cup {Cut(s) : s \in {server} \cup Reads(h)}

(* The server has received nothing, or forgotten all.                      *)
Quiet ==
    \/ server'.cluster = server.cluster /\ server'.last = server.last /\ (server'.framed => server.framed)
    \/ server'.cluster = {} /\ server'.last = {}

LEMMA OutcomeIs ==
    ASSUME Types, NEW h \in held, server' \in Outcomes(h)
    PROVE  LET f == h.data.frame
               base == IF IsCluster(f) THEN {[id |-> f.id, at |-> h.data.timecode]} ELSE server.cluster
           IN  /\ server' \in ServerState /\ server'.header = server.header
               /\ Quiet \/ (server'.cluster = base /\ (server'.framed => server' = Received(h)))
<1> DEFINE f == h.data.frame
           base == IF IsCluster(f) THEN {[id |-> f.id, at |-> h.data.timecode]} ELSE server.cluster
           read(t) == [frame |-> f, at |-> t, follows |-> TRUE]
           Same(s) == s.cluster = server.cluster /\ s.last = server.last /\ s.framed = server.framed
           Next1(s) == s.cluster = base /\ (s.framed => s = Received(h))
           Right(s) == s \in ServerState /\ s.header = server.header
<1>1. /\ f \in DataFrameIn /\ Received(h).header = server.header /\ Received(h).cluster = base
      /\ Received(h).framed = server.framed /\ Received(h) \in ServerState
  BY ReceivedIs
<1>2. server \in ServerState
  BY DEF Types, Values
<1>3. \A t \in Timestamp : read(t) \in [frame : DataFrameIn, at : Int, follows : BOOLEAN]
  <2> HIDE DEF f
  <2> SUFFICES ASSUME NEW t \in Timestamp PROVE read(t) \in [frame : DataFrameIn, at : Int, follows : BOOLEAN]
    OBVIOUS
  <2>1. f \in DataFrameIn /\ t \in Int
    BY <1>1, Constants
  <2> QED BY <2>1
<1> HIDE DEF f, base
<1>4. ASSUME NEW s \in Reads(h) PROVE Right(s) /\ Next1(s)
  <2>1. CASE server.framed
    BY <1>1, <1>4, <2>1 DEF Reads
  <2>2. CASE ~server.framed
    <3>1. PICK t \in Timestamp : s = [Received(h) EXCEPT !.last = {read(t)}]
      BY <1>4, <2>2 DEF Reads, f
    <3>2. read(t) \in [frame : DataFrameIn, at : Int, follows : BOOLEAN]
      BY <1>3
    <3> HIDE DEF read
    <3> QED BY <1>1, <2>2, <3>1, <3>2 DEF ServerState
  <2> QED BY <2>1, <2>2
<1>5. ASSUME NEW s \in ServerState
      PROVE  /\ Cut(s) \in ServerState /\ ~Cut(s).framed /\ Cut(s).header = s.header
             /\ Cut(s).cluster = s.cluster /\ Cut(s).last = s.last
  BY DEF Cut, ServerState
<1>6. CASE server' \in {server, Cut(server)}
  BY <1>2, <1>5, <1>6 DEF Quiet, f, base
<1>7. ASSUME NEW s \in Reads(h), server' = s \/ server' = Cut(s)
      PROVE  Right(server') /\ Next1(server')
  BY <1>4, <1>5, <1>7
<1> QED BY <1>6, <1>7 DEF Outcomes, f, base

LEMMA SendDataControls ==
    ASSUME Types, Control, prvPutMediaSendData
    PROVE  Types' /\ Control'
<1> USE DEF Control, Types
<1>a. PICK h \in held : SendHeld(h) \/ WithholdHeld(h) \/ SendHeldFails(h)
  BY DEF prvPutMediaSendData
<1>b. UNCHANGED <<options, xStreamHandle, isAudioTrackPresent, spsPps, isOpen, isEbmlHeaderUpdated,
                  streams, adding, mode, peeked, fault, handle, gStopRunning>>
  BY DEF prvPutMediaSendData
<1>c. h.data.frame \in DataFrameIn /\ h.data.frame.uTimestampMs \in Timestamp
  BY ReceivedIs, FrameIs
<1>d. /\ pc[Main] = "send" /\ held' = {} /\ GiveBack(h.data.frame)
      /\ uEarliestTimestamp' \in Timestamp \cup {0}
      /\ server' \in Outcomes(h)
  BY <1>a, <1>c DEF SendHeld, WithholdHeld, SendHeldFails, Outcomes, Values
<1>e. \E l \in {"work", "drain", "close", "ebml"} : pc' = [pc EXCEPT ![Main] = l]
  BY <1>a DEF SendHeld, WithholdHeld, SendHeldFails, Return, ReturnSent, MainGoto, Goto
<1>0. Labels'
  BY <1>e, Threads DEF Labels, Label, Opened
<1>1. Values'
  <2>1. terminated' \in [FrameId -> Nat]
    BY <1>c, <1>d, GiveBackIs
  <2>2. server' \in ServerState
    BY <1>d, OutcomeIs
  <2> QED BY OptionsKept, <1>b, <1>d, <2>1, <2>2 DEF Values, streams, adding
<1>2. Hands'
  BY <1>b, <1>e, Threads DEF Labels, Values, Hands, options, adding
<1>3. Mains'
  BY <1>b, <1>d, <1>e, Threads DEF Labels, Mains
<1>4. Headers'
  <2>1. isOpen /\ isEbmlHeaderUpdated /\ server.header
    BY <1>d DEF Headers, Opened, Sending
  <2>2. server'.header = server.header
    BY <1>d, OutcomeIs
  <2> QED BY <1>b, <1>e, <2>1, <2>2, Threads DEF Labels, Headers, Opened, Sending
<1> QED BY <1>0, <1>1, <1>2, <1>3, <1>4

LEMMA terminateControls ==
    ASSUME Types, Control, KvsApp_terminate
    PROVE  Types' /\ Control'
<1> USE DEF Control, Types
<1> DEFINE q == IF xStreamHandle = NULL THEN <<>> ELSE stream[xStreamHandle].pending
           n(i) == Cardinality({k \in DOMAIN q : q[k].frame.id = i})
<1>a. /\ pc[Main] = "joining" /\ pc' = [pc EXCEPT ![Main] = "terminated"]
      /\ xStreamHandle' = NULL
      /\ UNCHANGED <<options, isAudioTrackPresent, uEarliestTimestamp, spsPps, session,
                     created, roomy, adding, working, handle, gStopRunning>>
  BY DEF KvsApp_terminate, MainGoto, Goto
<1>b. terminated' = [i \in FrameId |-> terminated[i] + n(i)]
  BY DEF KvsApp_terminate
<1>c. stream' = [s \in StreamId |->
            IF s = xStreamHandle THEN [stream[s] EXCEPT !.pending = <<>>] ELSE stream[s]]
  BY DEF KvsApp_terminate
<1>d. q \in Seq(DataFrame)
  BY DEF Values
<1>e. \A i : n(i) \in Nat
  <2> HIDE DEF q
  <2> TAKE i
  <2>1. IsFiniteSet(1..Len(q))
    BY <1>d, FS_Interval
  <2>2. IsFiniteSet({k \in 1..Len(q) : q[k].frame.id = i})
    BY <2>1, FS_Subset
  <2>3. {k \in DOMAIN q : q[k].frame.id = i} = {k \in 1..Len(q) : q[k].frame.id = i}
    BY <1>d
  <2> QED BY <2>2, <2>3, FS_CardinalityType
<1> HIDE DEF n, q
<1>0. Labels'
  BY <1>a, Threads DEF Labels, Label
<1>1. Values'
  <2>1. terminated' \in [FrameId -> Nat]
    BY <1>b, <1>e DEF Values
  <2>2. stream' \in Queues
    <3> DEFINE R == [pending : Seq(DataFrame), earliest : Nat, cluster : Nat]
    <3>1. \A s \in StreamId : stream[s] \in R /\ [stream[s] EXCEPT !.pending = <<>>] \in R
      <4> SUFFICES ASSUME NEW s \in StreamId
                   PROVE  stream[s] \in R /\ [stream[s] EXCEPT !.pending = <<>>] \in R
        OBVIOUS
      <4>1. stream[s] \in R /\ <<>> \in Seq(DataFrame)
        BY DEF Values
      <4> QED BY <4>1
    <3> HIDE DEF R
    <3>2. stream' \in [StreamId -> R]
      BY <1>c, <3>1
    <3> QED BY <3>2 DEF Queues, R
  <2> QED BY OptionsKept, <1>a, <2>1, <2>2, Threads DEF Values, Queues, session, adding, working
<1>2. Hands'
  BY <1>a, Threads DEF Labels, Values, Hands, options, adding
<1>3. Mains'
  BY <1>a, Threads DEF Labels, Values, Mains, working
<1>4. Headers'
  BY <1>a, Threads DEF Labels, Headers, Opened, Sending, session
<1> QED BY <1>0, <1>1, <1>2, <1>3, <1>4

LEMMA InitControls == Init => Types /\ Control
<1> SUFFICES ASSUME Init PROVE Types /\ Control
  OBVIOUS
<1>0. Labels
  BY Threads DEF Init, Labels, Label
<1>1. Values
  <2>1. stream \in Queues
    BY DEF Init, Queues, NULL
  <2> QED BY <2>1, Threads DEF Init, Values, Options, ServerState, Queues, NewServer
<1>2. Hands
  BY Threads DEF Init, Hands
<1>3. Mains
  BY Threads DEF Init, Mains
<1>4. Headers
  BY Threads DEF Init, Headers, Opened, Sending, NewServer
<1> QED BY <1>0, <1>1, <1>2, <1>3, <1>4 DEF Types, Control

LEMMA NextControls == Types /\ Control /\ [Next]_vars => Types' /\ Control'
<1> SUFFICES ASSUME Types, Control, [Next]_vars PROVE Types' /\ Control'
  OBVIOUS
<1>1. ASSUME NEW f \in DataFrameIn, KvsApp_addFrame(f.xTrackType, f) PROVE Types' /\ Control'
  <2>1. f.xTrackType \in Adder
    BY DEF DataFrameIn, Adder
  <2> QED BY <1>1, <2>1, addFrameControls
<1>2. ASSUME NEW a \in Adder, AddStep(a) PROVE Types' /\ Control'
  BY <1>2, checkAndBuildStreamControls, createStreamControls, StoreStreamControls,
     StoreTrackPresentControls, StoreStreamFailsControls, BuildFailsControls, MeasureControls,
     FlushHeadControls, AddDataFrameControls, AddDataFrameFailsControls DEF AddStep
<1>3. CASE MainStep
  BY <1>3, SetAudioTrackInfoControls, SetPolicyControls, SetMemLimitControls, ReopenControls,
     KvsApp_openControls, OpenFailsControls, OpenCreateStreamControls,
     OpenStoreStreamControls, KvsApp_doWorkControls, KvsApp_doWorkExControls,
     updateEbmlHeaderControls, PeekHeadControls, InspectControls, PopBlockControls,
     SendEbmlControls, NetworkWorkControls, AvailOnVideoControls, AvailOnAudioControls,
     PopToSendControls, SendDataControls, CloseSessionControls, StopThreadsControls,
     terminateControls DEF MainStep, Opening, Working, setKvsAppOptions
<1>4. CASE Interrupt
  BY <1>4, InterruptControls
<1>5. CASE UNCHANGED vars
  <2>1. Types'
    BY <1>5, OptionsKept DEF vars, app, session, streams, adding, working, Types, Labels, Values
  <2>2. Control'
    BY <1>5 DEF vars, options, app, session, streams, adding, working, Control, Hands, Mains, Headers
  <2> QED BY <2>1, <2>2
<1> QED BY <1>1, <1>2, <1>3, <1>4, <1>5 DEF Next

-----------------------------------------------------------------------------
(* Where the frames are, move by move.                                     *)

(* A frame that a capture thread takes into its hand, and one that leaves. *)
LEMMA HandTaken ==
    ASSUME Types, OneHand, NEW a \in Adder, NEW f \in DataFrameIn, hand[a] = {}, ~InHand(f.id),
           hand' = [hand EXCEPT ![a] = {f}]
    PROVE  OneHand' /\ \A i \in FrameId : InHand(i)' <=> InHand(i) \/ i = f.id
<1>1. hand'[a] = {f} /\ \A b \in Adder : b # a => hand'[b] = hand[b]
  BY DEF Types, Values
<1> QED BY <1>1 DEF OneHand, InHand

LEMMA HandLeft ==
    ASSUME Types, OneHand, NEW a \in Adder, NEW f \in DataFrameIn, hand[a] = {f},
           hand' = [hand EXCEPT ![a] = {}]
    PROVE  OneHand' /\ \A i \in FrameId : InHand(i)' <=> InHand(i) /\ i # f.id
<1>1. hand'[a] = {} /\ \A b \in Adder : b # a => hand'[b] = hand[b]
  BY DEF Types, Values
<1> QED BY <1>1 DEF OneHand, InHand

(* A pop takes the head out, and no other.                                 *)
LEMMA PopPlaces ==
    ASSUME Types, OnePosition, NEW s \in StreamId, stream[s].pending # <<>>, PopFrom(s)
    PROVE  LET n == Head(stream[s].pending).frame.id
           IN  /\ n \in FrameId /\ Pending(n) /\ OnePosition'
               /\ \A i \in FrameId : Pending(i)' <=> Pending(i) /\ i # n
<1> DEFINE q == stream[s].pending
           r == stream'[s].pending
           n == Head(q).frame.id
<1>1. stream \in Queues /\ q \in Seq(DataFrame)
  BY DEF Types, Values, Queues
<1>2. r = Tail(q) /\ \A t \in StreamId : t # s => stream'[t] = stream[t]
  BY <1>1, PopIs
<1>3. /\ 1 \in 1..Len(q) /\ Len(q) \in Nat /\ n = q[1].frame.id /\ n \in FrameId
      /\ Len(r) = Len(q) - 1 /\ \A k \in 1..Len(r) : r[k] = q[k + 1]
  <2> HIDE DEF q
  <2> QED BY <1>1, <1>2, HeadIs, FrameIs DEF q
<1> DEFINE Was(t, k) == IF t = s THEN k + 1 ELSE k
<1>4. ASSUME NEW t \in StreamId, NEW k \in 1..Len(stream'[t].pending)
      PROVE  /\ Was(t, k) \in 1..Len(stream[t].pending)
             /\ stream'[t].pending[k] = stream[t].pending[Was(t, k)]
             /\ k \in Nat /\ (t = s => Was(t, k) # 1)
  <2>1. CASE t = s
    <3>1. k \in 1..Len(r) /\ stream'[t].pending = r /\ stream[t].pending = q
      BY <2>1
    <3> HIDE DEF q, r, n
    <3>2. k \in Nat /\ k + 1 \in 1..Len(q) /\ k + 1 # 1 /\ r[k] = q[k + 1]
      BY <1>3, <3>1
    <3> QED BY <2>1, <3>1, <3>2
  <2>2. CASE t # s
    <3>1. Len(stream[t].pending) \in Nat
      BY DEF Types, Values
    <3> QED BY <1>2, <2>2, <3>1
  <2> QED BY <2>1, <2>2
<1> HIDE DEF q, r, n
<1>5. OnePosition'
  <2> SUFFICES ASSUME NEW t \in StreamId, NEW u \in StreamId,
                      NEW j \in 1..Len(stream'[t].pending), NEW k \in 1..Len(stream'[u].pending),
                      stream'[t].pending[j].frame.id = stream'[u].pending[k].frame.id
               PROVE  t = u /\ j = k
    BY DEF OnePosition
  <2>1. stream[t].pending[Was(t, j)].frame.id = stream[u].pending[Was(u, k)].frame.id
    BY <1>4
  <2>2. t = u /\ Was(t, j) = Was(u, k)
    <3>1. /\ Was(t, j) \in 1..Len(stream[t].pending)
          /\ Was(u, k) \in 1..Len(stream[u].pending)
      BY <1>4
    <3> DEFINE x == Was(t, j)
               y == Was(u, k)
    <3>2. /\ x \in 1..Len(stream[t].pending) /\ y \in 1..Len(stream[u].pending)
          /\ stream[t].pending[x].frame.id = stream[u].pending[y].frame.id
      BY <2>1, <3>1
    <3> HIDE DEF x, y
    <3>3. t = u /\ x = y
      BY <3>2 DEF OnePosition
    <3> QED BY <3>3 DEF x, y
  <2> QED BY <1>4, <2>2
<1>6. Pending(n)
  BY <1>3 DEF Pending, q
<1>7. ASSUME NEW i \in FrameId, Pending(i)'
      PROVE  Pending(i) /\ i # n
  <2>0. PICK t \in StreamId : \E k \in 1..Len(stream'[t].pending) : stream'[t].pending[k].frame.id = i
    BY <1>7 DEF Pending
  <2>1. PICK k \in 1..Len(stream'[t].pending) : stream'[t].pending[k].frame.id = i
    BY <2>0
  <2>2. Was(t, k) \in 1..Len(stream[t].pending) /\ stream[t].pending[Was(t, k)].frame.id = i
    BY <1>4, <2>1
  <2>3. i # n
    <3> SUFFICES ASSUME i = n PROVE FALSE
      OBVIOUS
    <3>1. t = s /\ Was(t, k) = 1
      BY <1>3, <2>2 DEF OnePosition, q
    <3> QED BY <1>4, <2>1, <3>1
  <2> HIDE DEF Was
  <2> QED BY <2>2, <2>3 DEF Pending
<1>8. ASSUME NEW i \in FrameId, Pending(i), i # n
      PROVE  Pending(i)'
  <2>0. PICK t \in StreamId : \E k \in 1..Len(stream[t].pending) : stream[t].pending[k].frame.id = i
    BY <1>8 DEF Pending
  <2>1. PICK k \in 1..Len(stream[t].pending) : stream[t].pending[k].frame.id = i
    BY <2>0
  <2>2. CASE t = s
    <3>1. k \in 1..Len(q) /\ k # 1 /\ q[k].frame.id = i
      BY <1>3, <1>8, <2>1, <2>2 DEF q
    <3>2. k - 1 \in 1..Len(r) /\ r[k - 1] = q[k]
      <4>1. k - 1 \in 1..Len(r)
        BY <1>3, <3>1
      <4>2. (k - 1) + 1 = k
        BY <3>1
      <4> QED BY <1>3, <4>1, <4>2
    <3> QED BY <2>2, <3>1, <3>2 DEF Pending, r
  <2>3. CASE t # s
    BY <1>2, <2>1, <2>3 DEF Pending
  <2> QED BY <2>2, <2>3
<1> QED BY <1>3, <1>5, <1>6, <1>7, <1>8 DEF n, q

(* An insertion adds one frame and loses none.                             *)
LEMMA AddPlaces ==
    ASSUME Types, OnePosition, NEW s \in StreamId, NEW f \in DataFrameIn, AddTo(s, f), ~Pending(f.id)
    PROVE  OnePosition' /\ \A i \in FrameId : Pending(i)' <=> Pending(i) \/ i = f.id
<1> DEFINE q == stream[s].pending
           r == stream'[s].pending
           p == InsertPosition(q, f)
<1>1. /\ \A t \in StreamId : t # s => stream'[t] = stream[t]
      /\ Len(q) \in Nat /\ p \in 1..Len(q) + 1 /\ Len(r) = Len(q) + 1
      /\ \A i \in 1..Len(q) + 1 : i < p => r[i].frame = q[i].frame
      /\ \A i \in 1..Len(q) + 1 : i > p => r[i].frame = q[i - 1].frame
      /\ r[p].frame = f
  <2>1. stream \in Queues
    BY DEF Types, Values, Queues
  <2> QED BY <2>1, AddIs
<1> HIDE DEF q, p, r
<1> DEFINE New(t, k) == t = s /\ k = p
           Was(t, k) == IF t = s /\ k > p THEN k - 1 ELSE k
           Now(t, k) == IF t = s /\ k >= p THEN k + 1 ELSE k
<1>2. ASSUME NEW t \in StreamId, NEW k \in 1..Len(stream'[t].pending)
      PROVE  /\ k \in Nat
             /\ New(t, k) => stream'[t].pending[k].frame = f
             /\ ~New(t, k) => /\ Was(t, k) \in 1..Len(stream[t].pending)
                              /\ stream'[t].pending[k].frame = stream[t].pending[Was(t, k)].frame
  <2>1. CASE t = s
    <3>1. k \in 1..Len(q) + 1
      BY <1>1, <2>1 DEF r
    <3>2. k = p \/ k < p \/ k > p
      BY <1>1, <3>1
    <3>3. k # p => Was(t, k) \in 1..Len(q)
      BY <1>1, <2>1, <3>1
    <3>4. stream'[t].pending = r /\ stream[t].pending = q
      BY <2>1 DEF q, r
    <3>5. New(t, k) => stream'[t].pending[k].frame = f
      BY <1>1, <3>4
    <3>6. k < p => Was(t, k) = k /\ r[k].frame = q[k].frame
      BY <1>1, <3>1
    <3>7. k > p => Was(t, k) = k - 1 /\ r[k].frame = q[k - 1].frame
      BY <1>1, <2>1, <3>1
    <3>8. ~New(t, k) => k # p
      BY <2>1
    <3> HIDE DEF Was, New
    <3> QED BY <3>1, <3>2, <3>3, <3>4, <3>5, <3>6, <3>7, <3>8
  <2>2. CASE t # s
    <3>1. Len(stream[t].pending) \in Nat
      BY DEF Types, Values
    <3> QED BY <1>1, <2>2, <3>1
  <2> QED BY <2>1, <2>2
<1>3. ASSUME NEW t \in StreamId, NEW k \in 1..Len(stream[t].pending)
      PROVE  /\ Now(t, k) \in 1..Len(stream'[t].pending)
             /\ stream'[t].pending[Now(t, k)].frame = stream[t].pending[k].frame
  <2>1. CASE t = s
    <3>1. k \in 1..Len(q)
      BY <2>1 DEF q
    <3>2. CASE k < p
      <4>1. k \in 1..Len(q) + 1 /\ Now(t, k) = k
        BY <1>1, <3>1, <3>2
      <4>2. r[k].frame = q[k].frame
        BY <1>1, <3>2, <4>1
      <4> QED BY <1>1, <2>1, <4>1, <4>2 DEF q, r
    <3>3. CASE k >= p
      <4>1. k + 1 \in 1..Len(q) + 1 /\ k + 1 > p /\ (k + 1) - 1 = k
        BY <1>1, <3>1, <3>3
      <4>2. r[k + 1].frame = q[k].frame /\ Now(t, k) = k + 1
        BY <1>1, <2>1, <3>3, <4>1
      <4> QED BY <1>1, <2>1, <4>1, <4>2 DEF q, r
    <3> QED BY <1>1, <3>1, <3>2, <3>3
  <2>2. CASE t # s
    BY <1>1, <2>2
  <2> QED BY <2>1, <2>2
<1>4. ASSUME NEW t \in StreamId, NEW k \in 1..Len(stream[t].pending)
      PROVE  stream[t].pending[k].frame.id # f.id
  BY DEF Pending
<1>5. OnePosition'
  <2> SUFFICES ASSUME NEW t \in StreamId, NEW u \in StreamId,
                      NEW j \in 1..Len(stream'[t].pending), NEW k \in 1..Len(stream'[u].pending),
                      stream'[t].pending[j].frame.id = stream'[u].pending[k].frame.id
               PROVE  t = u /\ j = k
    BY DEF OnePosition
  <2> HIDE DEF New, Was
  <2>1. New(t, j) <=> New(u, k)
    <3>1. New(t, j) => stream'[t].pending[j].frame.id = f.id
      BY <1>2
    <3>2. New(u, k) => stream'[u].pending[k].frame.id = f.id
      BY <1>2
    <3>3. ~New(t, j) => stream'[t].pending[j].frame.id # f.id
      BY <1>2, <1>4, SMTT(30)
    <3>4. ~New(u, k) => stream'[u].pending[k].frame.id # f.id
      BY <1>2, <1>4
    <3> QED BY <3>1, <3>2, <3>3, <3>4
  <2>2. CASE New(t, j) /\ New(u, k)
    BY <2>2 DEF New
  <2>3. CASE ~New(t, j) /\ ~New(u, k)
    <3>1. stream[t].pending[Was(t, j)].frame.id = stream[u].pending[Was(u, k)].frame.id
      BY <1>2, <2>3
    <3>2. t = u /\ Was(t, j) = Was(u, k)
      <4>1. /\ Was(t, j) \in 1..Len(stream[t].pending)
            /\ Was(u, k) \in 1..Len(stream[u].pending)
        BY <1>2, <2>3
      <4> DEFINE x == Was(t, j)
                 y == Was(u, k)
      <4>2. /\ x \in 1..Len(stream[t].pending) /\ y \in 1..Len(stream[u].pending)
            /\ stream[t].pending[x].frame.id = stream[u].pending[y].frame.id
        BY <3>1, <4>1
      <4> HIDE DEF x, y, Now
      <4>3. t = u /\ x = y
        BY <4>2 DEF OnePosition
      <4> QED BY <4>3 DEF x, y
    <3>3. j \in Nat /\ k \in Nat
      BY <1>2
    <3> QED BY <1>1, <2>3, <3>2, <3>3 DEF Was, New
  <2> QED BY <2>1, <2>2, <2>3
<1>6. ASSUME NEW i \in FrameId, Pending(i)'
      PROVE  Pending(i) \/ i = f.id
  <2>0. PICK t \in StreamId : \E k \in 1..Len(stream'[t].pending) : stream'[t].pending[k].frame.id = i
    BY <1>6 DEF Pending
  <2>1. PICK k \in 1..Len(stream'[t].pending) : stream'[t].pending[k].frame.id = i
    BY <2>0
  <2> HIDE DEF New, Was
  <2> QED BY <1>2, <2>1 DEF Pending
<1>7. ASSUME NEW i \in FrameId, Pending(i)
      PROVE  Pending(i)'
  <2>0. PICK t \in StreamId : \E k \in 1..Len(stream[t].pending) : stream[t].pending[k].frame.id = i
    BY <1>7 DEF Pending
  <2>1. PICK k \in 1..Len(stream[t].pending) : stream[t].pending[k].frame.id = i
    BY <2>0
  <2> HIDE DEF Now
  <2> QED BY <1>3, <2>1 DEF Pending
<1>8. Pending(f.id)'
  <2>1. p \in 1..Len(r) /\ r[p].frame.id = f.id
    BY <1>1
  <2> QED BY <2>1 DEF Pending, r
<1> QED BY <1>5, <1>6, <1>7, <1>8

(* When one frame moves and the others stay, each is in one place again.   *)
LEMMA Moved ==
    ASSUME Types, Places, OneHand', OnePosition', captured' \in Nat,
           NEW n \in FrameId, n <= captured',
           \A i \in FrameId : i # n =>
               /\ InHand(i)' <=> InHand(i)
               /\ Pending(i)' <=> Pending(i)
               /\ InSend(i)' <=> InSend(i)
               /\ terminated'[i] = terminated[i]
               /\ i <= captured' <=> i <= captured,
           \/ InHand(n)' /\ ~Pending(n)' /\ ~InSend(n)' /\ terminated'[n] = 0
           \/ ~InHand(n)' /\ Pending(n)' /\ ~InSend(n)' /\ terminated'[n] = 0
           \/ ~InHand(n)' /\ ~Pending(n)' /\ InSend(n)' /\ terminated'[n] = 0
           \/ ~InHand(n)' /\ ~Pending(n)' /\ ~InSend(n)' /\ terminated'[n] = 1
    PROVE  Places'
<1> SUFFICES ASSUME NEW i \in FrameId
             PROVE  /\ terminated'[i] = IF i <= captured' /\ ~InHand(i)' /\ ~Pending(i)' /\ ~InSend(i)' THEN 1 ELSE 0
                    /\ InHand(i)' => ~Pending(i)' /\ ~InSend(i)'
                    /\ Pending(i)' => ~InSend(i)'
                    /\ InHand(i)' \/ Pending(i)' \/ InSend(i)' => i <= captured'
  BY DEF Places
<1>1. CASE i = n
  BY <1>1
<1>2. CASE i # n
  BY <1>2 DEF Places
<1> QED BY <1>1, <1>2

(* What GiveBack counts.                                                   *)
LEMMA GiveBackCounts ==
    ASSUME Types, NEW f \in DataFrameIn, GiveBack(f)
    PROVE  /\ f.id \in FrameId /\ terminated[f.id] \in Nat
           /\ terminated'[f.id] = terminated[f.id] + 1
           /\ \A i \in FrameId : i # f.id => terminated'[i] = terminated[i]
BY FrameIs DEF Types, Values, GiveBack

(* The moves there are.                                                    *)
Still ==
    /\ UNCHANGED <<hand, stream, held, captured, terminated>>
    /\ Quiet

Captures(a, f) ==
    /\ hand[a] = {} /\ f.id = captured + 1 /\ captured' = captured + 1
    /\ \/ GiveBack(f) /\ UNCHANGED hand
       \/ hand' = [hand EXCEPT ![a] = {f}] /\ UNCHANGED terminated
    /\ UNCHANGED <<stream, held, server>>

Rejects(a, f) ==
    /\ hand[a] = {f} /\ GiveBack(f) /\ hand' = [hand EXCEPT ![a] = {}]
    /\ UNCHANGED <<stream, held, captured, server>>

Adds(a, f) ==
    /\ hand[a] = {f} /\ AddTo(xStreamHandle, f) /\ hand' = [hand EXCEPT ![a] = {}]
    /\ xStreamHandle \in StreamId
    /\ UNCHANGED <<held, captured, terminated, server>>

Drops(s) ==
    /\ stream[s].pending # <<>> /\ PopFrom(s)
    /\ GiveBack(Head(stream[s].pending).frame)
    /\ UNCHANGED <<hand, held, captured, server>>

Takes(s) ==
    /\ stream[s].pending # <<>> /\ PopFrom(s)
    /\ held = {} /\ held' = {[data |-> Head(stream[s].pending), follows |-> LastCluster(s)]}
    /\ UNCHANGED <<hand, captured, terminated, server>>

Returns(h) ==
    /\ held = {h} /\ held' = {} /\ GiveBack(h.data.frame)
    /\ server' \in Outcomes(h)
    /\ UNCHANGED <<hand, stream, captured>>

LEMMA AddStepMoves ==
    ASSUME Types, Control, NEW a \in Adder, AddStep(a)
    PROVE  \/ Still
           \/ \E f \in DataFrameIn : Rejects(a, f) \/ Adds(a, f)
           \/ xPolicy = RingBuffer /\ handle[a] \in StreamId /\ Drops(handle[a])
<1> DEFINE R == \E f \in DataFrameIn : Rejects(a, f)
<1>0. ASSUME pc[a] # "idle", RejectFrame(a), UNCHANGED <<stream, held, captured, server>> PROVE R
  BY <1>0, RejectIs DEF Rejects
<1> HIDE DEF R
<1>1. checkAndBuildStream(a) \/ StoreTrackPresent(a) \/ StoreStreamFails(a) \/ BuildFails(a) \/ AddDataFrameFails(a) => Still \/ R
  BY <1>0 DEF checkAndBuildStream, StoreTrackPresent, StoreStreamFails, BuildFails, AddDataFrameFails, StoreNoStream,
     Still, Quiet, session, streams, adding, working
<1>2. createStream(a) \/ StoreStream(a) \/ Measure(a) => Still
  BY DEF createStream, StoreStream, Measure, NewStream, Still, Quiet, session, streams, adding, working
<1>3. FlushHead(a) => \/ Still
                      \/ xPolicy = RingBuffer /\ handle[a] \in StreamId /\ Drops(handle[a])
  BY DEF FlushHead, Drops, Control, Hands, Still, Quiet, session, streams, adding, working
<1>4. AddDataFrame(a) => \E f \in DataFrameIn : Adds(a, f)
  BY AddDataFrameIs DEF Adds, session, working
<1> QED BY <1>1, <1>2, <1>3, <1>4 DEF AddStep, R

LEMMA MainStepMoves ==
    ASSUME Types, Control, MainStep
    PROVE  \/ Still
           \/ pc[Main] = "popBlock" /\ handle[Main] \in StreamId /\ Drops(handle[Main])
           \/ pc[Main] = "pop" /\ xStreamHandle \in StreamId /\ Takes(xStreamHandle)
           \/ pc[Main] = "send" /\ \E h \in held : Returns(h)
           \/ KvsApp_terminate
<1>0. ASSUME setKvsAppOptions \/ Reopen PROVE Still
  BY <1>0 DEF setKvsAppOptions, SetAudioTrackInfo, SetPolicy, SetMemLimit, Reopen, Still, Quiet,
     session, streams, adding, working
<1>1. ASSUME KvsApp_open \/ OpenFails \/ OpenCreateStream \/ OpenStoreStream \/ KvsApp_doWork \/ KvsApp_doWorkEx
             \/ updateEbmlHeader \/ PeekHead \/ Inspect
      PROVE  Still
  BY <1>1 DEF KvsApp_open, OpenFails, OpenCreateStream, OpenStoreStream, NewStream, StoreNoStream, KvsApp_doWork,
     KvsApp_doWorkEx, updateEbmlHeader, PeekHead, Inspect, Still, Quiet, session, streams, adding, working
<1>2. ASSUME NetworkWork \/ AvailOnVideo \/ AvailOnAudio PROVE Still
  BY <1>2 DEF NetworkWork, AvailOnVideo, AvailOnAudio, Still, Quiet, session, streams, adding, working
<1>3. ASSUME SendEbml PROVE Still
  <2>1. UNCHANGED <<hand, stream, held, captured, terminated>>
    BY <1>3 DEF SendEbml, streams, adding, working
  <2>2. \/ server' = server \/ server' = [server EXCEPT !.header = TRUE]
        \/ server' = [server EXCEPT !.framed = FALSE]
    BY <1>3 DEF SendEbml, Cut
  <2>3. /\ server'.cluster = server.cluster /\ server'.last = server.last
        /\ server'.framed => server.framed
    BY <2>2 DEF Types, Values, ServerState
  <2> QED BY <2>1, <2>3 DEF Still, Quiet
<1>4. ASSUME CloseSession \/ StopThreads PROVE Still
  <2>1. UNCHANGED <<hand, stream, held, captured, terminated>>
    BY <1>4 DEF CloseSession, StopThreads, streams, adding, working
  <2>2. server' = NewServer
    BY <1>4 DEF CloseSession, StopThreads, KvsApp_close
  <2>3. server'.cluster = {} /\ server'.last = {}
    BY <2>2 DEF NewServer
  <2> QED BY <2>1, <2>3 DEF Still, Quiet
<1>5. ASSUME PopBlock
      PROVE  Still \/ (pc[Main] = "popBlock" /\ handle[Main] \in StreamId /\ Drops(handle[Main]))
  <2>1. pc[Main] = "popBlock" /\ handle[Main] \in StreamId /\ UNCHANGED <<hand, held, captured, server>>
    BY <1>5 DEF PopBlock, Control, Mains, session, adding
  <2>2. \/ UNCHANGED <<stream, terminated>>
        \/ /\ stream[handle[Main]].pending # <<>> /\ PopFrom(handle[Main])
           /\ GiveBack(Head(stream[handle[Main]].pending).frame)
    BY <1>5 DEF PopBlock, streams
  <2>3. ASSUME UNCHANGED <<stream, terminated>> PROVE Still
    BY <2>1, <2>3 DEF Still, Quiet
  <2> QED BY <2>1, <2>2, <2>3, Zenon DEF Drops
<1>6. ASSUME PopToSend
      PROVE  Still \/ (pc[Main] = "pop" /\ xStreamHandle \in StreamId /\ Takes(xStreamHandle))
  <2>1. pc[Main] = "pop" /\ held = {} /\ UNCHANGED <<hand, captured, terminated, server>>
    BY <1>6 DEF PopToSend, Control, Mains, session, adding
  <2>2. xStreamHandle \in StreamId \cup {NULL}
    BY DEF Types, Values
  <2>3. \/ UNCHANGED <<stream, held>>
        \/ /\ xStreamHandle # NULL /\ stream[xStreamHandle].pending # <<>> /\ PopFrom(xStreamHandle)
           /\ held' = {[data |-> Head(stream[xStreamHandle].pending), follows |-> LastCluster(xStreamHandle)]}
    BY <1>6 DEF PopToSend, streams
  <2>4. ASSUME UNCHANGED <<stream, held>> PROVE Still
    BY <2>1, <2>4 DEF Still, Quiet
  <2>5. xStreamHandle # NULL => xStreamHandle \in StreamId
    BY <2>2
  <2> QED BY <2>1, <2>3, <2>4, <2>5, Zenon DEF Takes
<1>7. ASSUME prvPutMediaSendData PROVE pc[Main] = "send" /\ \E h \in held : Returns(h)
  <2>1. PICK h \in held : SendHeld(h) \/ WithholdHeld(h) \/ SendHeldFails(h)
    BY <1>7 DEF prvPutMediaSendData
  <2>2. pc[Main] = "send" /\ held' = {} /\ GiveBack(h.data.frame) /\ server' \in Outcomes(h)
    BY <2>1 DEF SendHeld, WithholdHeld, SendHeldFails, Outcomes
  <2>3. held = {h}
    BY <2>2 DEF Control, Mains
  <2> QED BY <1>7, <2>2, <2>3 DEF prvPutMediaSendData, Returns, streams, adding
<1> QED BY <1>0, <1>1, <1>2, <1>3, <1>4, <1>5, <1>6, <1>7 DEF MainStep, Opening, Working

LEMMA Moves ==
    ASSUME Types, Control, [Next]_vars
    PROVE  \/ Still
           \/ \E a \in Adder, f \in DataFrameIn : Captures(a, f) \/ Rejects(a, f) \/ Adds(a, f)
           \/ \E s \in StreamId : Drops(s) \/ Takes(s)
           \/ \E h \in held : Returns(h)
           \/ KvsApp_terminate
<1>1. ASSUME NEW f \in DataFrameIn, KvsApp_addFrame(f.xTrackType, f)
      PROVE  \E a \in Adder : Captures(a, f)
  <2>1. f.xTrackType \in Adder
    BY DEF DataFrameIn, Adder
  <2> QED BY <1>1, <2>1 DEF KvsApp_addFrame, Captures, Control, Hands, session, streams, working
<1>2. CASE Interrupt \/ UNCHANGED vars
  BY <1>2 DEF Interrupt, Still, Quiet, vars, session, streams, adding, working
<1>3. ASSUME NEW a \in Adder, AddStep(a)
      PROVE  Still \/ (\E f \in DataFrameIn : Rejects(a, f) \/ Adds(a, f)) \/ (\E s \in StreamId : Drops(s))
  BY <1>3, AddStepMoves
<1>4. ASSUME MainStep
      PROVE  \/ Still
             \/ \E s \in StreamId : Drops(s) \/ Takes(s)
             \/ \E h \in held : Returns(h)
             \/ KvsApp_terminate
  BY <1>4, MainStepMoves
<1> QED BY <1>1, <1>2, <1>3, <1>4 DEF Next

(* Each move keeps every frame in one place.                               *)
LEMMA StillPlaces ==
    ASSUME Places, UNCHANGED <<hand, stream, held, captured, terminated>>
    PROVE  Places'
BY DEF Places, OneHand, OnePosition, InHand, Pending, InSend

LEMMA CapturesPlaces ==
    ASSUME Types, Places, NEW a \in Adder, NEW f \in DataFrameIn, Captures(a, f)
    PROVE  Places'
<1>1. f.id \in FrameId /\ captured \in Nat /\ captured' = captured + 1 /\ f.id = captured + 1
  BY FrameIs DEF Captures, Types, Values
<1>2. \A i \in FrameId : i # f.id => (i <= captured' <=> i <= captured)
  BY <1>1, Constants
<1>3. ~InHand(f.id) /\ ~Pending(f.id) /\ ~InSend(f.id) /\ terminated[f.id] = 0
  BY <1>1 DEF Places
<1>4. UNCHANGED <<stream, held>>
  BY DEF Captures
<1>5. OnePosition' /\ \A i \in FrameId : (Pending(i)' <=> Pending(i)) /\ (InSend(i)' <=> InSend(i))
  BY <1>4 DEF Places, OnePosition, Pending, InSend
<1>6. CASE GiveBack(f) /\ UNCHANGED hand
  <2>1. OneHand' /\ \A i \in FrameId : InHand(i)' <=> InHand(i)
    BY <1>6 DEF Places, OneHand, InHand
  <2>2. terminated'[f.id] = 1 /\ \A i \in FrameId : i # f.id => terminated'[i] = terminated[i]
    BY <1>3, <1>6, GiveBackCounts
  <2> QED BY <1>1, <1>2, <1>3, <1>5, <2>1, <2>2, Moved
<1>7. CASE hand' = [hand EXCEPT ![a] = {f}] /\ UNCHANGED terminated
  <2>1. OneHand' /\ \A i \in FrameId : InHand(i)' <=> InHand(i) \/ i = f.id
    BY <1>3, <1>7, HandTaken DEF Captures, Places
  <2> QED BY <1>1, <1>2, <1>3, <1>5, <1>7, <2>1, Moved
<1> QED BY <1>6, <1>7 DEF Captures

LEMMA HandedIs ==
    ASSUME Types, Places, NEW a \in Adder, NEW f \in DataFrameIn, hand[a] = {f}
    PROVE  /\ f.id \in FrameId /\ InHand(f.id) /\ ~Pending(f.id) /\ ~InSend(f.id)
           /\ terminated[f.id] = 0 /\ f.id <= captured /\ captured \in Nat
<1>1. f.id \in FrameId /\ InHand(f.id)
  BY FrameIs DEF InHand
<1> QED BY <1>1 DEF Places, Types, Values

LEMMA RejectsPlaces ==
    ASSUME Types, Places, NEW a \in Adder, NEW f \in DataFrameIn, Rejects(a, f)
    PROVE  Places'
<1>1. /\ f.id \in FrameId /\ InHand(f.id) /\ ~Pending(f.id) /\ ~InSend(f.id)
      /\ terminated[f.id] = 0 /\ f.id <= captured /\ captured \in Nat
  BY HandedIs DEF Rejects
<1>2. UNCHANGED <<stream, held, captured>>
  BY DEF Rejects
<1>3. OnePosition' /\ \A i \in FrameId : (Pending(i)' <=> Pending(i)) /\ (InSend(i)' <=> InSend(i))
  BY <1>2 DEF Places, OnePosition, Pending, InSend
<1>4. OneHand' /\ \A i \in FrameId : InHand(i)' <=> InHand(i) /\ i # f.id
  BY HandLeft DEF Rejects, Places
<1>5. terminated'[f.id] = 1 /\ \A i \in FrameId : i # f.id => terminated'[i] = terminated[i]
  BY <1>1, GiveBackCounts DEF Rejects
<1> QED BY <1>1, <1>2, <1>3, <1>4, <1>5, Moved

LEMMA AddsPlaces ==
    ASSUME Types, Places, NEW a \in Adder, NEW f \in DataFrameIn, Adds(a, f)
    PROVE  Places'
<1>1. /\ f.id \in FrameId /\ InHand(f.id) /\ ~Pending(f.id) /\ ~InSend(f.id)
      /\ terminated[f.id] = 0 /\ f.id <= captured /\ captured \in Nat
  BY HandedIs DEF Adds
<1>2. UNCHANGED <<held, captured, terminated>>
  BY DEF Adds
<1>3. \A i \in FrameId : InSend(i)' <=> InSend(i)
  BY <1>2 DEF InSend
<1>4. OneHand' /\ \A i \in FrameId : InHand(i)' <=> InHand(i) /\ i # f.id
  BY HandLeft DEF Adds, Places
<1>5. OnePosition' /\ \A i \in FrameId : Pending(i)' <=> Pending(i) \/ i = f.id
  BY <1>1, AddPlaces DEF Adds, Places
<1> QED BY <1>1, <1>2, <1>3, <1>4, <1>5, Moved

LEMMA PendingIs ==
    ASSUME Types, Places, NEW s \in StreamId, stream[s].pending # <<>>, PopFrom(s)
    PROVE  LET f == Head(stream[s].pending).frame
           IN  /\ f \in DataFrameIn /\ f.id \in FrameId /\ f.id <= captured /\ captured \in Nat
               /\ Pending(f.id) /\ ~InHand(f.id) /\ ~InSend(f.id) /\ terminated[f.id] = 0
               /\ OnePosition' /\ \A i \in FrameId : Pending(i)' <=> Pending(i) /\ i # f.id
<1> DEFINE q == stream[s].pending
           f == Head(q).frame
<1>1. f \in DataFrameIn
  <2>1. q \in Seq(DataFrame)
    BY DEF Types, Values
  <2> QED BY <2>1, HeadIs
<1>2. f.id \in FrameId /\ Pending(f.id) /\ OnePosition' /\ \A i \in FrameId : Pending(i)' <=> Pending(i) /\ i # f.id
  BY PopPlaces DEF Places
<1> HIDE DEF f
<1> QED BY <1>1, <1>2 DEF Places, Types, Values, f

LEMMA DropsPlaces ==
    ASSUME Types, Places, NEW s \in StreamId, Drops(s)
    PROVE  Places'
<1> DEFINE f == Head(stream[s].pending).frame
<1>1. /\ f \in DataFrameIn /\ f.id \in FrameId /\ f.id <= captured /\ captured \in Nat
      /\ Pending(f.id) /\ ~InHand(f.id) /\ ~InSend(f.id) /\ terminated[f.id] = 0
      /\ OnePosition' /\ \A i \in FrameId : Pending(i)' <=> Pending(i) /\ i # f.id
  BY PendingIs DEF Drops
<1>2. UNCHANGED <<hand, held, captured>> /\ GiveBack(f)
  BY DEF Drops
<1> HIDE DEF f
<1>3. OneHand' /\ \A i \in FrameId : (InHand(i)' <=> InHand(i)) /\ (InSend(i)' <=> InSend(i))
  BY <1>2 DEF Places, OneHand, InHand, InSend
<1>4. terminated'[f.id] = 1 /\ \A i \in FrameId : i # f.id => terminated'[i] = terminated[i]
  BY <1>1, <1>2, GiveBackCounts
<1> QED BY <1>1, <1>2, <1>3, <1>4, Moved

LEMMA TakesPlaces ==
    ASSUME Types, Places, NEW s \in StreamId, Takes(s)
    PROVE  Places'
<1> DEFINE f == Head(stream[s].pending).frame
<1>1. /\ f \in DataFrameIn /\ f.id \in FrameId /\ f.id <= captured /\ captured \in Nat
      /\ Pending(f.id) /\ ~InHand(f.id) /\ ~InSend(f.id) /\ terminated[f.id] = 0
      /\ OnePosition' /\ \A i \in FrameId : Pending(i)' <=> Pending(i) /\ i # f.id
  BY PendingIs DEF Takes
<1>2. UNCHANGED <<hand, captured, terminated>>
  BY DEF Takes
<1>3. OneHand' /\ \A i \in FrameId : InHand(i)' <=> InHand(i)
  BY <1>2 DEF Places, OneHand, InHand
<1>4. \A i \in FrameId : ~InSend(i) /\ (InSend(i)' <=> i = f.id)
  BY DEF Takes, InSend
<1> HIDE DEF f
<1> QED BY <1>1, <1>2, <1>3, <1>4, Moved

LEMMA ReturnsPlaces ==
    ASSUME Types, Places, NEW h \in held, Returns(h)
    PROVE  Places'
<1> DEFINE f == h.data.frame
<1>1. f \in DataFrameIn /\ f.id \in FrameId /\ InSend(f.id)
  BY ReceivedIs, FrameIs DEF InSend
<1>2. UNCHANGED <<hand, stream, captured>> /\ GiveBack(f)
  BY DEF Returns
<1>3. \A i \in FrameId : ~InSend(i)' /\ (i # f.id => ~InSend(i))
  BY DEF Returns, InSend
<1> HIDE DEF f
<1>4. ~InHand(f.id) /\ ~Pending(f.id) /\ terminated[f.id] = 0 /\ f.id <= captured /\ captured \in Nat
  BY <1>1 DEF Places, Types, Values
<1>5. /\ OneHand' /\ OnePosition'
      /\ \A i \in FrameId : (InHand(i)' <=> InHand(i)) /\ (Pending(i)' <=> Pending(i))
  BY <1>2 DEF Places, OneHand, OnePosition, InHand, Pending
<1>6. terminated'[f.id] = 1 /\ \A i \in FrameId : i # f.id => terminated'[i] = terminated[i]
  BY <1>1, <1>2, <1>4, GiveBackCounts
<1> QED BY <1>1, <1>2, <1>3, <1>4, <1>5, <1>6, Moved

(* KvsApp_terminate gives every frame of the list back once.               *)
LEMMA TerminateIs ==
    ASSUME Types, Control, Places, KvsApp_terminate
    PROVE  /\ \A i : ~InHand(i) /\ ~InSend(i)
           /\ UNCHANGED <<hand, held, captured, server>>
           /\ \A s \in StreamId : s # xStreamHandle => stream'[s] = stream[s]
           /\ xStreamHandle \in StreamId =>
                 /\ stream'[xStreamHandle].pending = <<>>
                 /\ stream'[xStreamHandle].earliest = stream[xStreamHandle].earliest
                 /\ stream'[xStreamHandle].cluster = stream[xStreamHandle].cluster
           /\ \A i \in FrameId :
                 terminated'[i] = IF /\ xStreamHandle \in StreamId
                                     /\ \E k \in 1..Len(stream[xStreamHandle].pending) :
                                           stream[xStreamHandle].pending[k].frame.id = i
                                  THEN terminated[i] + 1 ELSE terminated[i]
<1> DEFINE q == IF xStreamHandle = NULL THEN <<>> ELSE stream[xStreamHandle].pending
<1>1. \A a \in Adder : hand[a] = {}
  BY DEF KvsApp_terminate, Control, Hands
<1>2. held = {}
  BY DEF KvsApp_terminate, Control, Mains
<1>3. \A i : ~InHand(i) /\ ~InSend(i)
  BY <1>1, <1>2 DEF InHand, InSend
<1>4. UNCHANGED <<hand, held, captured, server>>
  BY DEF KvsApp_terminate, session, adding, working
<1>5. stream' = [s \in StreamId |->
            IF s = xStreamHandle THEN [stream[s] EXCEPT !.pending = <<>>] ELSE stream[s]]
  BY DEF KvsApp_terminate
<1>6. stream \in Queues
  BY DEF Types, Values, Queues
<1>7. \A s \in StreamId : s # xStreamHandle => stream'[s] = stream[s]
  BY <1>5
<1>8. xStreamHandle \in StreamId =>
         /\ stream'[xStreamHandle].pending = <<>>
         /\ stream'[xStreamHandle].earliest = stream[xStreamHandle].earliest
         /\ stream'[xStreamHandle].cluster = stream[xStreamHandle].cluster
  BY <1>5, <1>6 DEF Queues
<1>9. xStreamHandle \in StreamId \cup {NULL} /\ NULL \notin StreamId
  BY DEF Types, Values, NULL, StreamId
<1>10. terminated' = [i \in FrameId |-> terminated[i] + Cardinality({k \in DOMAIN q : q[k].frame.id = i})]
  BY DEF KvsApp_terminate
<1>11. q \in Seq(DataFrame) /\ DOMAIN q = 1..Len(q)
  BY DEF Types, Values
<1>12. ASSUME NEW i \in FrameId
       PROVE  terminated'[i] = IF \E k \in 1..Len(q) : q[k].frame.id = i
                               THEN terminated[i] + 1 ELSE terminated[i]
  <2> HIDE DEF q
  <2> DEFINE S == {k \in DOMAIN q : q[k].frame.id = i}
  <2>1. terminated'[i] = terminated[i] + Cardinality(S) /\ terminated[i] \in Nat
    BY <1>10 DEF Types, Values
  <2>2. CASE \E k \in 1..Len(q) : q[k].frame.id = i
    <3>1. PICK k \in 1..Len(q) : q[k].frame.id = i
      BY <2>2
    <3>2. xStreamHandle \in StreamId /\ q = stream[xStreamHandle].pending
      BY <1>9, <3>1 DEF q
    <3>3. \A j \in 1..Len(q) : q[j].frame.id = i => j = k
      BY <3>1, <3>2 DEF Places, OnePosition
    <3>4. S = {k}
      BY <1>11, <3>1, <3>3
    <3>5. Cardinality({k}) = 1
      BY FS_Singleton
    <3> QED BY <2>1, <2>2, <3>4, <3>5
  <2>3. CASE ~\E k \in 1..Len(q) : q[k].frame.id = i
    <3>1. S = {}
      BY <1>11, <2>3
    <3>2. Cardinality({}) = 0
      BY FS_EmptySet
    <3> HIDE DEF S
    <3> QED BY <2>1, <2>3, <3>1, <3>2
  <2> QED BY <2>2, <2>3
<1>13. CASE xStreamHandle \in StreamId
  <2>1. q = stream[xStreamHandle].pending
    BY <1>9, <1>13
  <2> HIDE DEF q
  <2> QED BY <1>3, <1>4, <1>7, <1>8, <1>12, <1>13, <2>1
<1>14. CASE xStreamHandle = NULL
  <2>1. \A i \in FrameId : terminated'[i] = terminated[i]
    BY <1>12, <1>14
  <2> QED BY <1>3, <1>4, <1>7, <1>9, <1>14, <2>1
<1> QED BY <1>9, <1>13, <1>14

LEMMA TerminatePlaces ==
    ASSUME Types, Control, Places, KvsApp_terminate
    PROVE  Places'
<1> DEFINE x == xStreamHandle
           Flushed(i) == x \in StreamId /\ \E k \in 1..Len(stream[x].pending) : stream[x].pending[k].frame.id = i
<1>1. /\ \A i : ~InHand(i) /\ ~InSend(i)
      /\ UNCHANGED <<hand, held, captured, server>>
      /\ \A s \in StreamId : s # x => stream'[s] = stream[s]
      /\ x \in StreamId => stream'[x].pending = <<>>
      /\ \A i \in FrameId : terminated'[i] = IF Flushed(i) THEN terminated[i] + 1 ELSE terminated[i]
  BY TerminateIs
<1>2. OneHand' /\ \A i : ~InHand(i)' /\ ~InSend(i)'
  BY <1>1 DEF OneHand, InHand, InSend
<1>3. \A s \in StreamId : \A k \in 1..Len(stream'[s].pending) : s # x /\ stream'[s] = stream[s]
  BY <1>1
<1>4. OnePosition'
  <2> SUFFICES ASSUME NEW t \in StreamId, NEW u \in StreamId,
                      NEW j \in 1..Len(stream'[t].pending), NEW k \in 1..Len(stream'[u].pending),
                      stream'[t].pending[j].frame.id = stream'[u].pending[k].frame.id
               PROVE  t = u /\ j = k
    BY DEF OnePosition
  <2>1. stream'[t] = stream[t] /\ stream'[u] = stream[u]
    BY <1>3
  <2> QED BY <2>1, SMTT(30) DEF Places, OnePosition
<1>5. ASSUME NEW i \in FrameId
      PROVE  Pending(i)' <=> Pending(i) /\ ~Flushed(i)
  <2>1. ASSUME Pending(i)' PROVE Pending(i) /\ ~Flushed(i)
    <3>0. PICK t \in StreamId : \E k \in 1..Len(stream'[t].pending) : stream'[t].pending[k].frame.id = i
      BY <2>1 DEF Pending
    <3>1. PICK k \in 1..Len(stream'[t].pending) : stream'[t].pending[k].frame.id = i
      BY <3>0
    <3>2. t # x /\ stream'[t] = stream[t]
      BY <1>3
    <3>3. k \in 1..Len(stream[t].pending) /\ stream[t].pending[k].frame.id = i
      BY <3>1, <3>2
    <3>4. Pending(i)
      BY <3>3 DEF Pending
    <3>5. ~Flushed(i)
      BY <3>2, <3>3 DEF Places, OnePosition
    <3> QED BY <3>4, <3>5
  <2>2. ASSUME Pending(i), ~Flushed(i) PROVE Pending(i)'
    <3>0. PICK t \in StreamId : \E k \in 1..Len(stream[t].pending) : stream[t].pending[k].frame.id = i
      BY <2>2 DEF Pending
    <3>1. t # x
      BY <2>2, <3>0
    <3> QED BY <1>1, <3>0, <3>1 DEF Pending
  <2> QED BY <2>1, <2>2
<1>6. ASSUME NEW i \in FrameId
      PROVE  /\ Flushed(i) => Pending(i)
             /\ terminated[i] = IF i <= captured /\ ~Pending(i) THEN 1 ELSE 0
             /\ Pending(i) => i <= captured
  <2>1. Flushed(i) => Pending(i)
    BY DEF Pending
  <2> QED BY <1>1, <2>1 DEF Places
<1> HIDE DEF Flushed
<1>7. ASSUME NEW i \in FrameId
      PROVE  /\ terminated'[i] = IF i <= captured' /\ ~InHand(i)' /\ ~Pending(i)' /\ ~InSend(i)' THEN 1 ELSE 0
             /\ InHand(i)' => ~Pending(i)' /\ ~InSend(i)'
             /\ Pending(i)' => ~InSend(i)'
             /\ InHand(i)' \/ Pending(i)' \/ InSend(i)' => i <= captured'
  <2>1. captured' = captured /\ terminated'[i] = IF Flushed(i) THEN terminated[i] + 1 ELSE terminated[i]
    BY <1>1
  <2> QED BY <1>2, <1>5, <1>6, <2>1
<1> QED BY <1>2, <1>4, <1>7 DEF Places

LEMMA InitPlaces == Init => Places
<1> SUFFICES ASSUME Init PROVE Places
  OBVIOUS
<1>1. \A i : ~InHand(i) /\ ~Pending(i) /\ ~InSend(i)
  BY DEF Init, InHand, Pending, InSend
<1>2. OneHand /\ OnePosition
  BY DEF Init, OneHand, OnePosition
<1>3. \A i \in FrameId : terminated[i] = 0 /\ ~(i <= captured)
  BY Constants DEF Init, NULL
<1> QED BY <1>1, <1>2, <1>3 DEF Places

LEMMA NextPlaces ==
    ASSUME Types, Control, Places, [Next]_vars
    PROVE  Places'
BY Moves, StillPlaces, CapturesPlaces, RejectsPlaces, AddsPlaces, DropsPlaces, TakesPlaces,
   ReturnsPlaces, TerminatePlaces DEF Still, Quiet

-----------------------------------------------------------------------------
(* Without the ring buffer policy nobody takes frames from under main.     *)

LEMMA AddKeeps ==
    ASSUME Types, NEW s \in StreamId, NEW f \in DataFrameIn, AddTo(s, f), NEW t \in StreamId
    PROVE  \A k \in 1..Len(stream[t].pending) : \E j \in 1..Len(stream'[t].pending) :
               stream'[t].pending[j].frame = stream[t].pending[k].frame
<1> DEFINE q == stream[s].pending
           r == stream'[s].pending
           p == InsertPosition(q, f)
<1>1. /\ \A u \in StreamId : u # s => stream'[u] = stream[u]
      /\ Len(q) \in Nat /\ p \in 1..Len(q) + 1 /\ Len(r) = Len(q) + 1
      /\ \A i \in 1..Len(q) + 1 : i < p => r[i].frame = q[i].frame
      /\ \A i \in 1..Len(q) + 1 : i > p => r[i].frame = q[i - 1].frame
  <2>1. stream \in Queues
    BY DEF Types, Values, Queues
  <2> QED BY <2>1, AddIs
<1> HIDE DEF q, p, r
<1>2. ASSUME NEW k \in 1..Len(q) PROVE \E j \in 1..Len(r) : r[j].frame = q[k].frame
  <2>1. CASE k < p
    <3>1. k \in 1..Len(q) + 1
      BY <1>1
    <3> QED BY <1>1, <2>1, <3>1
  <2>2. CASE k >= p
    <3>1. k + 1 \in 1..Len(q) + 1 /\ k + 1 > p /\ (k + 1) - 1 = k
      BY <1>1, <2>2
    <3>2. r[k + 1].frame = q[k].frame
      BY <1>1, <3>1
    <3> QED BY <1>1, <3>1, <3>2
  <2> QED BY <1>1, <2>1, <2>2
<1>3. CASE t = s
  BY <1>2, <1>3 DEF q, r
<1>4. CASE t # s
  BY <1>1, <1>4
<1> QED BY <1>3, <1>4

(* Main sees what the capture threads leave as it is.                      *)
LEMMA OthersUndisturbed ==
    ASSUME Types, Control, Undisturbed, UNCHANGED <<xPolicy, fault, peeked>>,
           pc'[Main] = pc[Main], handle'[Main] = handle[Main],
           xPolicy # RingBuffer =>
               \A s \in StreamId : \A k \in 1..Len(stream[s].pending) : \E j \in 1..Len(stream'[s].pending) :
                   stream'[s].pending[j].frame = stream[s].pending[k].frame
    PROVE  Undisturbed'
<1> SUFFICES ASSUME xPolicy # RingBuffer
             PROVE  /\ ~fault'
                    /\ pc'[Main] = "inspect" =>
                          \A f \in peeked' : \E k \in 1..Len(stream'[handle'[Main]].pending) :
                              stream'[handle'[Main]].pending[k].frame = f
                    /\ pc'[Main] = "popBlock" => stream'[handle'[Main]].pending # <<>>
  BY DEF Undisturbed
<1> DEFINE s == handle[Main]
<1>1. ~fault'
  BY DEF Undisturbed
<1>2. ASSUME pc[Main] = "inspect", NEW f \in peeked
      PROVE  \E k \in 1..Len(stream'[s].pending) : stream'[s].pending[k].frame = f
  <2>1. s \in StreamId
    BY <1>2 DEF Control, Mains
  <2>2. PICK k \in 1..Len(stream[s].pending) : stream[s].pending[k].frame = f
    BY <1>2 DEF Undisturbed
  <2> HIDE DEF s
  <2> QED BY <2>1, <2>2
<1>3. ASSUME pc[Main] = "popBlock"
      PROVE  stream'[s].pending # <<>>
  <2>1. s \in StreamId
    BY <1>3 DEF Control, Mains
  <2>2. stream[s].pending \in Seq(DataFrame) /\ stream[s].pending # <<>>
    BY <1>3, <2>1 DEF Types, Values, Undisturbed
  <2>3. 1 \in 1..Len(stream[s].pending)
    BY <2>2
  <2> HIDE DEF s
  <2>4. \E j \in 1..Len(stream'[s].pending) : TRUE
    BY <2>1, <2>3
  <2> QED BY <2>4
<1> QED BY <1>1, <1>2, <1>3

LEMMA AddersUndisturbed ==
    ASSUME Types, Control, Places, Undisturbed,
           \/ \E f \in DataFrameIn : KvsApp_addFrame(f.xTrackType, f)
           \/ \E a \in Adder : AddStep(a)
           \/ Interrupt
           \/ UNCHANGED vars
    PROVE  Undisturbed'
<1>1. UNCHANGED <<xPolicy, fault, peeked>>
  BY DEF KvsApp_addFrame, AddStep, Interrupt, vars, checkAndBuildStream, createStream, StoreStream,
         NewStream, StoreNoStream, StoreTrackPresent, StoreStreamFails, BuildFails, Measure,
         FlushHead, AddDataFrame, AddDataFrameFails, options, app, working
<1>2. pc'[Main] = pc[Main]
  <2>1. \A l : \A a \in Adder : pc' = [pc EXCEPT ![a] = l] => pc'[Main] = pc[Main]
    BY Threads DEF Types, Labels
  <2>2. \A f \in DataFrameIn : f.xTrackType \in Adder
    BY DEF DataFrameIn, Adder
  <2>3. ASSUME NEW a \in Adder, AddStep(a) PROVE \E l : pc' = [pc EXCEPT ![a] = l]
    BY <2>3 DEF AddStep, checkAndBuildStream, createStream, StoreStream, StoreTrackPresent,
            StoreStreamFails, BuildFails, Measure, FlushHead, AddDataFrame, AddDataFrameFails,
            Goto, RejectFrame, StreamReady, RoomMade
  <2>4. ASSUME NEW f \in DataFrameIn, KvsApp_addFrame(f.xTrackType, f)
        PROVE  pc' = pc \/ pc' = [pc EXCEPT ![f.xTrackType] = "build"]
    BY <2>4 DEF KvsApp_addFrame, Goto
  <2> QED BY <2>1, <2>2, <2>3, <2>4 DEF Interrupt, vars
<1>3. handle'[Main] = handle[Main]
  <2>1. \A l : \A a \in Adder : handle' = [handle EXCEPT ![a] = l] => handle'[Main] = handle[Main]
    BY Threads DEF Types, Values
  <2>2. ASSUME NEW a \in Adder, AddStep(a) PROVE handle' = handle \/ \E l : handle' = [handle EXCEPT ![a] = l]
    BY <2>2 DEF AddStep, checkAndBuildStream, createStream, StoreStream, StoreTrackPresent,
            StoreStreamFails, BuildFails, Measure, FlushHead, AddDataFrame, AddDataFrameFails,
            Goto, RejectFrame, StreamReady, RoomMade
  <2> QED BY <2>1, <2>2 DEF KvsApp_addFrame, Interrupt, vars
<1>4. ASSUME xPolicy # RingBuffer, NEW s \in StreamId, NEW k \in 1..Len(stream[s].pending)
      PROVE  \E j \in 1..Len(stream'[s].pending) :
                 stream'[s].pending[j].frame = stream[s].pending[k].frame
  <2>1. ASSUME NEW a \in Adder, AddStep(a)
        PROVE  UNCHANGED stream \/ \E f \in DataFrameIn : Adds(a, f)
    BY <1>4, <2>1, AddStepMoves DEF Still, Rejects
  <2>2. \/ UNCHANGED stream
        \/ \E a \in Adder, f \in DataFrameIn : Adds(a, f)
    BY <2>1 DEF KvsApp_addFrame, Interrupt, vars, streams
  <2> QED BY <1>4, <2>2, AddKeeps DEF Adds
<1> QED BY <1>1, <1>2, <1>3, <1>4, OthersUndisturbed

LEMMA MainUndisturbed ==
    ASSUME Types, Control, Places, Undisturbed, MainStep
    PROVE  Undisturbed'
<1> SUFFICES ASSUME xPolicy' # RingBuffer PROVE Undisturbed'
  BY DEF Undisturbed
<1>1. xPolicy' = xPolicy
  BY DEF MainStep, Opening, Working, setKvsAppOptions, SetAudioTrackInfo, SetPolicy, SetMemLimit, Reopen, KvsApp_open, OpenFails, OpenCreateStream, OpenStoreStream, NewStream, StoreNoStream,
     KvsApp_doWork, KvsApp_doWorkEx, updateEbmlHeader, PeekHead, Inspect, PopBlock, SendEbml, NetworkWork,
     AvailOnVideo, AvailOnAudio, PopToSend, prvPutMediaSendData, CloseSession, StopThreads,
     KvsApp_terminate, options, app
<1>2. pc \in [Thread -> Label] /\ Main \in Thread
  BY Threads DEF Types, Labels
<1>3. ASSUME fault' = fault, pc'[Main] \notin {"inspect", "popBlock"} PROVE Undisturbed'
  BY <1>1, <1>3 DEF Undisturbed
<1>a. ASSUME setKvsAppOptions \/ Reopen PROVE Undisturbed'
  <2>1. fault' = fault /\ pc'[Main] \notin {"inspect", "popBlock"}
    BY <1>2, <1>a DEF setKvsAppOptions, SetAudioTrackInfo, SetPolicy, SetMemLimit, Reopen, working, MainGoto, Goto
  <2> QED BY <1>3, <2>1
<1>4. ASSUME KvsApp_open \/ OpenFails \/ OpenCreateStream \/ OpenStoreStream \/ KvsApp_doWork \/ KvsApp_doWorkEx
             \/ updateEbmlHeader \/ SendEbml \/ NetworkWork
      PROVE  Undisturbed'
  <2>1. fault' = fault /\ pc'[Main] \notin {"inspect", "popBlock"}
    BY <1>2, <1>4 DEF KvsApp_open, OpenFails, OpenCreateStream, OpenStoreStream, KvsApp_doWork, KvsApp_doWorkEx,
       updateEbmlHeader, SendEbml, NetworkWork, working, MainGoto, Goto, Return
  <2> QED BY <1>3, <2>1
<1>5. ASSUME AvailOnVideo \/ AvailOnAudio \/ PopToSend \/ CloseSession \/ StopThreads \/ KvsApp_terminate
      PROVE  Undisturbed'
  <2>1. fault' = fault /\ pc'[Main] \notin {"inspect", "popBlock"}
    BY <1>2, <1>5 DEF AvailOnVideo, AvailOnAudio, PopToSend, CloseSession, StopThreads, KvsApp_terminate,
       KvsApp_close, working, MainGoto, Goto, Return
  <2> QED BY <1>3, <2>1
<1>6. ASSUME prvPutMediaSendData PROVE Undisturbed'
  <2>1. fault' = fault /\ pc'[Main] \notin {"inspect", "popBlock"}
    BY <1>2, <1>6 DEF prvPutMediaSendData, SendHeld, WithholdHeld, SendHeldFails, MainGoto, Goto, Return, ReturnSent
  <2> QED BY <1>3, <2>1
<1>7. ASSUME PeekHead PROVE Undisturbed'
  <2> DEFINE s == handle[Main]
             q == stream[s].pending
  <2>1. s \in StreamId /\ q \in Seq(DataFrame) /\ fault' = fault /\ stream' = stream
    BY <1>7 DEF PeekHead, Control, Mains, Types, Values, streams
  <2>2. \/ pc'[Main] \notin {"inspect", "popBlock"}
        \/ q # <<>> /\ pc'[Main] = "inspect" /\ peeked' = {Head(q).frame} /\ handle' = handle
    BY <1>2, <1>7 DEF PeekHead, MainGoto, Goto, Return
  <2>3. CASE q # <<>> /\ pc'[Main] = "inspect" /\ peeked' = {Head(q).frame} /\ handle' = handle
    <3>1. 1 \in 1..Len(q) /\ q[1] = Head(q)
      BY <2>1, <2>3, HeadIs
    <3>2. \A f \in peeked' : \E k \in 1..Len(stream'[handle'[Main]].pending) :
              stream'[handle'[Main]].pending[k].frame = f
      BY <2>1, <2>3, <3>1
    <3> QED BY <1>1, <2>1, <2>3, <3>2 DEF Undisturbed
  <2> QED BY <1>3, <2>1, <2>2, <2>3
<1>8. ASSUME Inspect PROVE Undisturbed'
  <2>1. PICK f \in peeked : /\ fault' = (fault \/ terminated[f.id] > 0)
                            /\ \/ MainGoto("sendEbml")
                               \/ MainGoto("popBlock") /\ UNCHANGED handle
    BY <1>8, Zenon DEF Inspect
  <2>2. pc[Main] = "inspect" /\ stream' = stream
    BY <1>8 DEF Inspect, streams
  <2>3. PICK k \in 1..Len(stream[handle[Main]].pending) : stream[handle[Main]].pending[k].frame = f
    BY <1>1, <2>2 DEF Undisturbed
  <2>4. handle[Main] \in StreamId /\ f.id \in FrameId /\ stream[handle[Main]].pending \in Seq(DataFrame)
    BY <2>2, FrameIs DEF Control, Mains, Types, Values
  <2>5. Pending(f.id)
    BY <2>3, <2>4 DEF Pending
  <2>6. terminated[f.id] = 0
    BY <2>4, <2>5 DEF Places
  <2>7. ~fault'
    <3>1. ~fault
      BY <1>1 DEF Undisturbed
    <3>2. ~(terminated[f.id] > 0)
      BY <2>6
    <3> QED BY <2>1, <3>1, <3>2, Zenon
  <2>8. CASE MainGoto("sendEbml")
    BY <1>2, <2>7, <2>8 DEF MainGoto, Goto, Undisturbed
  <2>9. CASE MainGoto("popBlock") /\ UNCHANGED handle
    <3>1. pc'[Main] = "popBlock"
      BY <1>2, <2>9 DEF MainGoto, Goto
    <3>2. stream'[handle'[Main]].pending # <<>>
      BY <2>2, <2>3, <2>4, <2>9
    <3> QED BY <2>7, <3>1, <3>2 DEF Undisturbed
  <2> QED BY <2>1, <2>8, <2>9
<1>9. ASSUME PopBlock PROVE Undisturbed'
  <2>1. stream[handle[Main]].pending # <<>>
    BY <1>1, <1>9 DEF PopBlock, Undisturbed
  <2>2. fault' = fault /\ pc'[Main] = "peek"
    BY <1>2, <1>9, <2>1 DEF PopBlock, MainGoto, Goto
  <2> QED BY <1>3, <2>2
<1> QED BY <1>a, <1>4, <1>5, <1>6, <1>7, <1>8, <1>9 DEF MainStep, Opening, Working

LEMMA NextUndisturbed ==
    ASSUME Types, Control, Places, Undisturbed, [Next]_vars
    PROVE  Undisturbed'
BY AddersUndisturbed, MainUndisturbed DEF Next

-----------------------------------------------------------------------------
(* What is popped stays popped, and the headers say what the server reads. *)

LEMMA PoppedStays ==
    ASSUME Types, Control, Places, [Next]_vars, NEW i \in FrameId, Popped(i)
    PROVE  Popped(i)'
<1>0. /\ captured \in Nat /\ i \in Nat /\ i <= captured
      /\ ~InHand(i) /\ ~Pending(i)
  BY Constants DEF Types, Values, Popped
<1>1. CASE Still
  BY <1>1 DEF Still, Popped, InHand, Pending
<1>2. ASSUME NEW a \in Adder, NEW f \in DataFrameIn, Captures(a, f) PROVE Popped(i)'
  <2>1. i <= captured' /\ i # f.id
    BY <1>0, <1>2 DEF Captures
  <2>2. hand' = hand \/ hand' = [hand EXCEPT ![a] = {f}]
    BY <1>2 DEF Captures
  <2>3. ~InHand(i)'
    BY <1>0, <2>1, <2>2 DEF InHand, Types, Values
  <2>4. ~Pending(i)'
    BY <1>0, <1>2 DEF Captures, Pending
  <2> QED BY <2>1, <2>3, <2>4 DEF Popped
<1>3. ASSUME NEW a \in Adder, NEW f \in DataFrameIn, Rejects(a, f) PROVE Popped(i)'
  <2>1. ~InHand(i)'
    BY <1>0, <1>3 DEF Rejects, InHand, Types, Values
  <2> QED BY <1>0, <1>3, <2>1 DEF Rejects, Popped, Pending
<1>4. ASSUME NEW a \in Adder, NEW f \in DataFrameIn, Adds(a, f) PROVE Popped(i)'
  <2>1. ~InHand(i)'
    BY <1>0, <1>4 DEF Adds, InHand, Types, Values
  <2>2. InHand(f.id) /\ ~Pending(f.id)
    BY <1>4, HandedIs DEF Adds
  <2>3. ~Pending(i)'
    BY <1>0, <1>4, <2>2, AddPlaces DEF Adds, Places
  <2> QED BY <1>0, <1>4, <2>1, <2>3 DEF Adds, Popped
<1>5. ASSUME NEW s \in StreamId, Drops(s) \/ Takes(s) PROVE Popped(i)'
  <2>1. ~Pending(i)'
    BY <1>0, <1>5, PendingIs DEF Drops, Takes
  <2> QED BY <1>0, <1>5, <2>1 DEF Drops, Takes, Popped, InHand
<1>6. ASSUME NEW h \in held, Returns(h) PROVE Popped(i)'
  BY <1>6 DEF Returns, Popped, InHand, Pending
<1>7. CASE KvsApp_terminate
  <2>1. \A s \in StreamId : \A k \in 1..Len(stream'[s].pending) : stream'[s] = stream[s]
    BY <1>7, TerminateIs
  <2>2. ~Pending(i)'
    BY <1>0, <2>1 DEF Pending
  <2>3. UNCHANGED <<hand, captured>>
    BY <1>7, TerminateIs
  <2> QED BY <1>0, <2>2, <2>3 DEF Popped, InHand
<1> QED BY <1>1, <1>2, <1>3, <1>4, <1>5, <1>6, <1>7, Moves

(* The clusters that streams and server remember were popped before.       *)
LEMMA Remembered ==
    ASSUME Types, Control, Places, StreamTimes, ServerTimes, [Next]_vars
    PROVE  /\ \A s \in StreamId : stream[s].cluster # NULL => stream[s].cluster \in FrameId
           /\ \A s \in StreamId, i \in FrameId :
                 stream[s].cluster = i => Popped(i) /\ Popped(i)'
           /\ \A c \in server.cluster :
                 server.cluster = {c} /\ c.id \in FrameId /\ Popped(c.id) /\ Popped(c.id)'
<1>1. ASSUME NEW s \in StreamId, NEW i \in FrameId, stream[s].cluster = i
      PROVE  Popped(i) /\ Popped(i)'
  <2>1. i # NULL
    BY Constants
  <2>2. Popped(i)
    BY <1>1, <2>1 DEF StreamTimes
  <2> QED BY <2>2, PoppedStays
<1>2. ASSUME NEW c \in server.cluster
      PROVE  server.cluster = {c} /\ c.id \in FrameId /\ Popped(c.id) /\ Popped(c.id)'
  <2>1. server.cluster = {c} /\ Popped(c.id) /\ c.id \in FrameId
    BY DEF ServerTimes, Types, Values, ServerState
  <2> DEFINE i == c.id
  <2> HIDE DEF i
  <2>2. Popped(i)'
    BY <2>1, PoppedStays DEF i
  <2> QED BY <2>1, <2>2 DEF i
<1>3. \A s \in StreamId : stream[s].cluster # NULL => stream[s].cluster \in FrameId
  BY DEF StreamTimes
<1> QED BY <1>1, <1>2, <1>3

LEMMA SignedIs ==
    ASSUME NEW d \in Int
    PROVE  Signed(d % DeltaModulus) = d <=> Fits(d)
<1> DEFINE m == DeltaModulus
           t == d % m
<1>1. m \in Nat \ {0} /\ m > 0
  BY Constants
<1> HIDE DEF m
<1>2. t \in Nat /\ t < m
  BY <1>1
<1>3. Fits(Signed(t))
  <2> HIDE DEF t
  <2>1. CASE 2 * t < m
    BY <1>1, <1>2, <2>1 DEF Fits, Signed, m
  <2>2. CASE ~(2 * t < m)
    <3>1. Signed(t) = t - m
      BY <2>2 DEF Signed, m
    <3>2. -m <= 2 * (t - m) /\ 2 * (t - m) < m
      BY <1>1, <1>2, <2>2
    <3> QED BY <3>1, <3>2 DEF Fits, m
  <2> QED BY <2>1, <2>2
<1>4. ASSUME Fits(d), d >= 0 PROVE Signed(t) = d
  <2>1. d \in Nat /\ 2 * d < m
    BY <1>4 DEF Fits, m
  <2>2. (m * 0 + d) % m = d
    BY <1>1, <2>1, ModUnique
  <2>3. m * 0 + d = d
    BY <1>1
  <2>4. t = d
    BY <2>2, <2>3
  <2> HIDE DEF t
  <2> QED BY <2>1, <2>4 DEF Signed, m
<1>5. ASSUME Fits(d), d < 0 PROVE Signed(t) = d
  <2>1. -m <= 2 * d
    BY <1>5 DEF Fits, m
  <2>2. d + m \in Nat /\ d + m < m /\ ~(2 * (d + m) < m)
    BY <1>1, <1>5, <2>1
  <2>3. (m * (0 - 1) + (d + m)) % m = d + m
    BY <1>1, <2>2, ModUnique
  <2>4. m * (0 - 1) + (d + m) = d
    BY <1>1
  <2>5. t = d + m /\ (d + m) - m = d
    BY <1>1, <2>3, <2>4
  <2> HIDE DEF t
  <2> QED BY <2>2, <2>5 DEF Signed, m
<1>6. d >= 0 \/ d < 0
  OBVIOUS
<1>7. Signed(t) = d => Fits(d)
  BY <1>3
<1>8. Fits(d) => Signed(t) = d
  BY <1>4, <1>5, <1>6
<1> QED BY <1>7, <1>8 DEF t, m

(* What the server makes of the frame that is sent.                        *)
LEMMA ReceivedDecodes ==
    ASSUME Types, Places, Times, NEW h \in held, Returns(h), server' = Received(h)
    PROVE  BlocksDecodeExactly'
<1> DEFINE f == h.data.frame
           tc == h.data.timecode
           base == IF IsCluster(f) THEN {[id |-> f.id, at |-> tc]} ELSE server.cluster
           at == IF IsCluster(f) THEN tc
                 ELSE Signed(tc) + (IF base = {} THEN 0 ELSE (CHOOSE c \in base : TRUE).at)
           last == [frame |-> f, at |-> at, follows |-> \E c \in base : c.id = h.follows]
<1>1. f \in DataFrameIn /\ f.uTimestampMs \in Nat /\ tc \in Nat /\ server'.cluster = base
  BY ReceivedIs, FrameIs
<1>2. server'.last = {last}
  <2>1. server \in ServerState
    BY DEF Types, Values
  <2>2. server' = [server EXCEPT !.cluster = base, !.last = {last}]
    BY DEF Received
  <2> HIDE DEF base, last
  <2> QED BY <2>1, <2>2 DEF ServerState
<1> SUFFICES ASSUME NEW c \in base, \E b \in base : b.id = h.follows
             PROVE  at = f.uTimestampMs <=> Fits(f.uTimestampMs - c.at)
  <2> HIDE DEF f, tc, base, at
  <2> QED BY <1>1, <1>2 DEF BlocksDecodeExactly
<1>3. CASE IsCluster(f)
  <2>1. tc = f.uTimestampMs /\ c.at = tc /\ at = tc
    BY <1>3 DEF Times, HeldTimes
  <2> HIDE DEF f, tc, base, at
  <2>2. f.uTimestampMs - c.at = 0 /\ Fits(0)
    BY <1>1, <2>1, Constants DEF Fits
  <2> QED BY <2>1, <2>2
<1>4. CASE ~IsCluster(f)
  <2>1. base = server.cluster
    BY <1>4
  <2>2. base = {c} /\ c.at \in Nat /\ c.id = h.follows
    BY <2>1 DEF Times, ServerTimes, Types, Values, ServerState
  <2>3. (CHOOSE b \in base : TRUE) = c
    BY <2>2
  <2>4. at = Signed(tc) + c.at
    <3> HIDE DEF base
    <3> QED BY <1>4, <2>2, <2>3
  <2>5. tc = (f.uTimestampMs - c.at) % DeltaModulus
    BY <1>4, <2>1, <2>2 DEF Times, HeldTimes
  <2> DEFINE d == f.uTimestampMs - c.at
  <2> HIDE DEF f, tc, base, at
  <2>6. d \in Int
    BY <1>1, <2>2
  <2>7. d + c.at = f.uTimestampMs /\ c.at \in Nat
    BY <1>1, <2>2
  <2>8. tc = d % DeltaModulus
    BY <2>5
  <2> HIDE DEF d
  <2>9. Signed(tc) = d <=> Fits(d)
    BY <2>6, <2>8, SignedIs
  <2>10. Signed(tc) \in Int
    BY <1>1, Constants DEF Signed
  <2>11. at = f.uTimestampMs <=> Signed(tc) = d
    BY <2>4, <2>6, <2>7, <2>10
  <2> QED BY <2>9, <2>11 DEF d
<1> QED BY <1>3, <1>4

LEMMA StreamTimesKept ==
    ASSUME Types, Control, Places, Times, [Next]_vars,
           \A s \in StreamId :
               /\ stream'[s].earliest = stream[s].earliest /\ stream'[s].cluster = stream[s].cluster
               /\ TimecodesCurrent(stream'[s].pending, stream'[s].earliest)
    PROVE  StreamTimes'
<1> SUFFICES ASSUME NEW s \in StreamId
             PROVE  stream'[s].cluster # NULL =>
                        stream'[s].cluster \in FrameId /\ Popped(stream[s].cluster)'
  BY DEF StreamTimes
<1> DEFINE i == stream[s].cluster
<1>1. stream'[s].cluster = i /\ (i # NULL => i \in FrameId)
  BY Remembered DEF Times
<1>2. ASSUME NEW j \in FrameId, stream'[s].cluster = j PROVE Popped(j)'
  BY <1>1, <1>2, Remembered DEF Times
<1> QED BY <1>1, <1>2 DEF Popped, InHand, Pending

(* A step that pops nothing and lets the server receive nothing.           *)
LEMMA SameTimes ==
    ASSUME Types, Control, Places, Times, [Next]_vars,
           \A s \in StreamId :
               /\ stream'[s].earliest = stream[s].earliest /\ stream'[s].cluster = stream[s].cluster
               /\ TimecodesCurrent(stream'[s].pending, stream'[s].earliest),
           held' \subseteq held,
           Quiet
    PROVE  Times'
<1>1. StreamTimes'
  BY StreamTimesKept
<1>2. \A c \in server'.cluster : c \in server.cluster /\ server'.cluster = server.cluster
  BY DEF Quiet
<1>3. ServerTimes'
  <2>1. ASSUME NEW c \in server'.cluster
        PROVE  server'.cluster = {c} /\ Popped(c.id)'
               /\ \A s \in StreamId : stream'[s].cluster = c.id => stream'[s].earliest = c.at
    <3>1. server'.cluster = {c} /\ Popped(c.id)'
      BY <1>2, <2>1, Remembered DEF Times
    <3>2. \A s \in StreamId : stream'[s].cluster = c.id => stream'[s].earliest = c.at
      BY <1>2, <2>1 DEF Times, ServerTimes
    <3> QED BY <3>1, <3>2
  <2> QED BY <2>1 DEF ServerTimes
<1>4. HeldTimes'
  BY <1>2 DEF Times, HeldTimes
<1>5. BlocksDecodeExactly'
  BY DEF Quiet, Times, BlocksDecodeExactly, Fits
<1> QED BY <1>1, <1>3, <1>4, <1>5 DEF Times

LEMMA PopTimes ==
    ASSUME Types, Control, Places, Times, [Next]_vars, NEW s \in StreamId,
           stream[s].pending # <<>>, PopFrom(s), UNCHANGED <<hand, captured, server>>
    PROVE  StreamTimes' /\ ServerTimes' /\ BlocksDecodeExactly'
<1> DEFINE q == stream[s].pending
           f == Head(q).frame
           e == stream[s].earliest
<1>1. /\ f \in DataFrameIn /\ f.id \in FrameId /\ f.id <= captured /\ captured \in Nat
      /\ Pending(f.id) /\ ~InHand(f.id) /\ \A i \in FrameId : Pending(i)' <=> Pending(i) /\ i # f.id
  BY PendingIs
<1>2. /\ stream \in Queues /\ q \in Seq(DataFrame) /\ e \in Nat /\ q # <<>>
  BY DEF Types, Values, Queues
<1>3. /\ \A t \in StreamId : t # s => stream'[t] = stream[t]
      /\ stream'[s].pending = Tail(q)
      /\ stream'[s].earliest = EarliestAfterPop(q, e)
      /\ stream'[s].earliest = IF IsCluster(f) THEN f.uTimestampMs ELSE e
      /\ stream'[s].cluster = IF IsCluster(f) THEN f.id ELSE stream[s].cluster
  BY <1>2, PopIs
<1>4. TimecodesCurrent(q, e)
  BY DEF Times, StreamTimes
<1> HIDE DEF q, f, e
<1>5. TimecodesCurrent(stream'[s].pending, stream'[s].earliest)
  BY <1>2, <1>3, <1>4, PopKeepsTimecodes
<1>a. PICK n \in FrameId : n = f.id
  BY <1>1
<1>6. Popped(n)'
  <2>1. n <= captured' /\ ~Pending(n)'
    BY <1>1, <1>a
  <2>2. ~InHand(n)'
    BY <1>1, <1>a DEF InHand
  <2> QED BY <2>1, <2>2 DEF Popped
<1>7. StreamTimes'
  <2> SUFFICES ASSUME NEW t \in StreamId
               PROVE  /\ TimecodesCurrent(stream'[t].pending, stream'[t].earliest)
                      /\ stream'[t].cluster # NULL =>
                             stream'[t].cluster \in FrameId /\ Popped(stream[t].cluster)'
    BY DEF StreamTimes
  <2>1. TimecodesCurrent(stream'[t].pending, stream'[t].earliest)
    <3>1. CASE t = s
      BY <1>5, <3>1
    <3>2. CASE t # s
      BY <1>3, <3>2 DEF Times, StreamTimes
    <3> QED BY <3>1, <3>2
  <2>2. stream'[t].cluster = n \/ stream'[t].cluster = stream[t].cluster
    BY <1>3, <1>a
  <2>3. stream'[t].cluster # NULL => stream'[t].cluster \in FrameId
    BY <2>2, Remembered DEF Times
  <2>4. ASSUME NEW j \in FrameId, stream'[t].cluster = j PROVE Popped(j)'
    <3>1. CASE j = n
      BY <1>6, <3>1
    <3>2. CASE j # n
      BY <2>2, <2>4, <3>2, Remembered DEF Times
    <3> QED BY <3>1, <3>2
  <2> QED BY <2>1, <2>3, <2>4 DEF Popped, InHand, Pending
<1>8. ServerTimes'
  <2> SUFFICES ASSUME NEW c \in server.cluster
               PROVE  /\ server.cluster = {c} /\ Popped(c.id)'
                      /\ \A t \in StreamId : stream'[t].cluster = c.id => stream'[t].earliest = c.at
    BY DEF ServerTimes
  <2>1. server.cluster = {c} /\ Popped(c.id) /\ Popped(c.id)'
    BY Remembered DEF Times
  <2>2. c.id # f.id
    BY <1>1, <2>1 DEF Popped
  <2>3. \A t \in StreamId : stream[t].cluster = c.id => stream[t].earliest = c.at
    BY DEF Times, ServerTimes
  <2>4. \A t \in StreamId : stream'[t].cluster = c.id => stream'[t].earliest = c.at
    BY <1>3, <2>2, <2>3 DEF e
  <2> QED BY <2>1, <2>4
<1>9. BlocksDecodeExactly'
  BY DEF Times, BlocksDecodeExactly
<1> QED BY <1>7, <1>8, <1>9

LEMMA DropsTimes ==
    ASSUME Types, Control, Places, Times, [Next]_vars, NEW s \in StreamId, Drops(s)
    PROVE  Times'
<1> DEFINE f == Head(stream[s].pending).frame
<1>1. f.id \in FrameId /\ ~InSend(f.id)
  BY PendingIs DEF Drops
<1>2. /\ \A t \in StreamId : t # s => stream'[t] = stream[t]
      /\ stream'[s].earliest = IF IsCluster(f) THEN f.uTimestampMs ELSE stream[s].earliest
      /\ stream'[s].cluster = IF IsCluster(f) THEN f.id ELSE stream[s].cluster
  <2>1. stream \in Queues
    BY DEF Types, Values, Queues
  <2> QED BY <2>1, PopIs DEF Drops
<1>3. UNCHANGED <<hand, held, captured, server>>
  BY DEF Drops
<1> HIDE DEF f
<1>4. \A h \in held : h.data.frame.id # f.id
  BY <1>1 DEF InSend
<1>5. HeldTimes'
  <2> SUFFICES ASSUME NEW h \in held
               PROVE  IF IsCluster(h.data.frame)
                      THEN /\ h.data.timecode = h.data.frame.uTimestampMs
                           /\ h.follows = h.data.frame.id
                           /\ \A t \in StreamId : stream'[t].cluster = h.data.frame.id =>
                                                  stream'[t].earliest = h.data.frame.uTimestampMs
                      ELSE \A c \in server.cluster :
                               c.id = h.follows =>
                               h.data.timecode = (h.data.frame.uTimestampMs - c.at) % DeltaModulus
    BY <1>3 DEF HeldTimes
  <2> QED BY <1>2, <1>4 DEF Times, HeldTimes
<1>6. StreamTimes' /\ ServerTimes' /\ BlocksDecodeExactly'
  BY <1>3, PopTimes DEF Drops
<1> QED BY <1>5, <1>6 DEF Times

LEMMA TakesTimes ==
    ASSUME Types, Control, Places, Times, [Next]_vars, NEW s \in StreamId, Takes(s)
    PROVE  Times'
<1> DEFINE q == stream[s].pending
           f == Head(q).frame
           e == stream[s].earliest
           h == [data |-> Head(q), follows |-> LastCluster(s)]
<1>1. f.id \in FrameId /\ Pending(f.id)
  BY PendingIs DEF Takes
<1>2. q \in Seq(DataFrame) /\ q # <<>> /\ e \in Nat /\ stream \in Queues
  BY DEF Types, Values, Queues, Takes
<1>3. /\ \A t \in StreamId : t # s => stream'[t] = stream[t]
      /\ stream'[s].earliest = IF IsCluster(f) THEN f.uTimestampMs ELSE stream[s].earliest
      /\ stream'[s].cluster = IF IsCluster(f) THEN f.id ELSE stream[s].cluster
      /\ LastCluster(s) = IF IsCluster(f) THEN f.id ELSE stream[s].cluster
  BY <1>2, PopIs DEF Takes
<1>4. held' = {h} /\ server' = server /\ UNCHANGED <<hand, captured>>
  BY DEF Takes
<1>5. h.data = Head(q) /\ h.data.frame = f /\ h.follows = LastCluster(s)
  OBVIOUS
<1>6. Head(q).timecode = IF IsCluster(f) THEN f.uTimestampMs ELSE (f.uTimestampMs - e) % DeltaModulus
  <2>1. TimecodesCurrent(q, e)
    BY DEF Times, StreamTimes
  <2> HIDE DEF q, e
  <2>2. 1 \in 1..Len(q) /\ Head(q) = q[1]
    BY <1>2, HeadIs
  <2>3. q[1].timecode = Timecode(f, ClusterTimestampAt(q, 1, e)) /\ q[1].frame = f
    BY <2>1, <2>2 DEF TimecodesCurrent
  <2>4. CASE IsCluster(f)
    BY <2>2, <2>3, <2>4 DEF Timecode
  <2>5. CASE ~IsCluster(f)
    <3>1. \A i \in 1..1 : ~IsCluster(q[i].frame)
      BY <2>2, <2>5
    <3>2. ClusterTimestampAt(q, 1, e) = e
      BY <3>1, ClusterTimestampOfNone
    <3> QED BY <2>2, <2>3, <2>5, <3>2 DEF Timecode
  <2> QED BY <2>4, <2>5
<1> HIDE DEF f, h, q
<1>7. ASSUME IsCluster(f) PROVE HeldTimes'
  <2>1. ~Popped(f.id)
    BY <1>1 DEF Popped
  <2>2. \A t \in StreamId : stream[t].cluster # f.id
    BY <1>1, <2>1, Remembered DEF Times
  <2>3. \A t \in StreamId : stream'[t].cluster = f.id => stream'[t].earliest = f.uTimestampMs
    BY <1>3, <1>7, <2>2
  <2>4. h.data.frame = f /\ h.data.timecode = f.uTimestampMs /\ h.follows = f.id
    BY <1>3, <1>5, <1>6, <1>7
  <2>5. \A g \in held' : g = h
    BY <1>4
  <2> QED BY <1>7, <2>3, <2>4, <2>5 DEF HeldTimes
<1>8. ASSUME ~IsCluster(f) PROVE HeldTimes'
  <2>1. \A c \in server.cluster : c.id = h.follows => e = c.at
    BY <1>3, <1>5, <1>8 DEF Times, ServerTimes
  <2> HIDE DEF e
  <2>2. \A c \in server'.cluster :
            c.id = h.follows => h.data.timecode = (f.uTimestampMs - c.at) % DeltaModulus
    BY <1>4, <1>5, <1>6, <1>8, <2>1
  <2>3. \A g \in held' : g = h /\ g.data.frame = f
    BY <1>4, <1>5
  <2> QED BY <1>8, <2>2, <2>3 DEF HeldTimes
<1>9. StreamTimes' /\ ServerTimes' /\ BlocksDecodeExactly'
  BY <1>4, PopTimes DEF Takes
<1> QED BY <1>7, <1>8, <1>9 DEF Times

LEMMA AddsTimes ==
    ASSUME Types, Control, Places, Times, [Next]_vars, NEW a \in Adder, NEW f \in DataFrameIn, Adds(a, f)
    PROVE  Times'
<1> DEFINE x == xStreamHandle
           q == stream[x].pending
           e == stream[x].earliest
<1>1. x \in StreamId /\ stream \in Queues /\ q \in Seq(DataFrame) /\ e \in Nat
  BY DEF Adds, Types, Values, Queues
<1>2. /\ \A t \in StreamId : t # x => stream'[t] = stream[t]
      /\ stream'[x].pending = Inserted(q, e, f)
      /\ stream'[x].earliest = e /\ stream'[x].cluster = stream[x].cluster
  BY <1>1, AddIs DEF Adds
<1>3. \A s \in StreamId : TimecodesCurrent(stream[s].pending, stream[s].earliest)
  BY DEF Times, StreamTimes
<1>4. TimecodesCurrent(Inserted(q, e, f), e)
  <2>1. TimecodesCurrent(q, e)
    BY <1>1, <1>3
  <2> HIDE DEF q, e
  <2> QED BY <1>1, <2>1, InsertedKeepsTimecodes
<1>5. held' = held /\ server' = server
  BY DEF Adds
<1>6. \A s \in StreamId :
          /\ stream'[s].earliest = stream[s].earliest /\ stream'[s].cluster = stream[s].cluster
          /\ TimecodesCurrent(stream'[s].pending, stream'[s].earliest)
  <2> SUFFICES ASSUME NEW s \in StreamId
               PROVE  /\ stream'[s].earliest = stream[s].earliest /\ stream'[s].cluster = stream[s].cluster
                      /\ TimecodesCurrent(stream'[s].pending, stream'[s].earliest)
    OBVIOUS
  <2>1. CASE s = x
    BY <1>2, <1>4, <2>1
  <2>2. CASE s # x
    BY <1>2, <1>3, <2>2
  <2> QED BY <2>1, <2>2
<1> QED BY <1>5, <1>6, SameTimes DEF Quiet

LEMMA ReturnsTimes ==
    ASSUME Types, Control, Places, Times, [Next]_vars, NEW h \in held, Returns(h)
    PROVE  Times'
<1> DEFINE f == h.data.frame
<1>1. held' = {} /\ stream' = stream /\ UNCHANGED <<hand, captured>>
  BY DEF Returns
<1>2. \A s \in StreamId :
          /\ stream'[s].earliest = stream[s].earliest /\ stream'[s].cluster = stream[s].cluster
          /\ TimecodesCurrent(stream'[s].pending, stream'[s].earliest)
  BY <1>1 DEF Times, StreamTimes
<1>3. CASE Quiet
  BY <1>1, <1>2, <1>3, SameTimes
<1>4. ASSUME server'.cluster = IF IsCluster(f) THEN {[id |-> f.id, at |-> h.data.timecode]} ELSE server.cluster,
             server'.framed => server' = Received(h)
      PROVE  Times'
  <2>1. StreamTimes'
    BY <1>2, StreamTimesKept
  <2>2. HeldTimes'
    BY <1>1 DEF HeldTimes
  <2>3. BlocksDecodeExactly'
    BY <1>4, ReceivedDecodes DEF BlocksDecodeExactly
  <2>4. server'.cluster = IF IsCluster(f) THEN {[id |-> f.id, at |-> h.data.timecode]} ELSE server.cluster
    BY <1>4
  <2>5. f.id \in FrameId /\ InSend(f.id)
    BY ReceivedIs, FrameIs DEF InSend
  <2>6. Popped(f.id)
    BY <2>5 DEF Places, Popped
  <2>7. \A i : Popped(i)' <=> Popped(i)
    BY <1>1 DEF Popped, InHand, Pending
  <2>8. IsCluster(f) => h.data.timecode = f.uTimestampMs
                        /\ \A s \in StreamId : stream[s].cluster = f.id => stream[s].earliest = f.uTimestampMs
    BY DEF Times, HeldTimes
  <2> HIDE DEF f
  <2>9. ServerTimes'
    <3>1. CASE IsCluster(f)
      <4> DEFINE b == [id |-> f.id, at |-> h.data.timecode]
      <4>1. server'.cluster = {b} /\ b.id = f.id /\ b.at = f.uTimestampMs
        BY <2>4, <2>8, <3>1
      <4> HIDE DEF b
      <4>2. Popped(b.id)'
        BY <2>6, <2>7, <4>1
      <4>3. \A s \in StreamId : stream'[s].cluster = b.id => stream'[s].earliest = b.at
        BY <1>1, <2>8, <3>1, <4>1
      <4>4. \A c \in server'.cluster : c = b
        BY <4>1
      <4> QED BY <4>1, <4>2, <4>3, <4>4 DEF ServerTimes
    <3>2. CASE ~IsCluster(f)
      <4>1. server'.cluster = server.cluster
        BY <2>4, <3>2
      <4> QED BY <1>1, <2>7, <4>1 DEF Times, ServerTimes
    <3> QED BY <3>1, <3>2
  <2> QED BY <2>1, <2>2, <2>3, <2>9 DEF Times
<1> QED BY <1>3, <1>4, OutcomeIs DEF Returns

LEMMA TerminateTimes ==
    ASSUME Types, Control, Places, Times, KvsApp_terminate, [Next]_vars
    PROVE  Times'
<1>1. \A s \in StreamId : s # xStreamHandle => stream'[s] = stream[s]
  BY TerminateIs
<1>2. xStreamHandle \in StreamId =>
         /\ stream'[xStreamHandle].pending = <<>>
         /\ stream'[xStreamHandle].earliest = stream[xStreamHandle].earliest
         /\ stream'[xStreamHandle].cluster = stream[xStreamHandle].cluster
  BY TerminateIs
<1>3. held' = held /\ server' = server
  BY TerminateIs
<1>4. \A e : TimecodesCurrent(<<>>, e)
  BY DEF TimecodesCurrent
<1>5. \A s \in StreamId : TimecodesCurrent(stream[s].pending, stream[s].earliest)
  BY DEF Times, StreamTimes
<1>6. \A s \in StreamId :
          /\ stream'[s].earliest = stream[s].earliest /\ stream'[s].cluster = stream[s].cluster
          /\ TimecodesCurrent(stream'[s].pending, stream'[s].earliest)
  BY <1>1, <1>2, <1>4, <1>5
<1> QED BY <1>3, <1>6, SameTimes DEF Quiet

LEMMA NextTimes ==
    ASSUME Types, Control, Places, Times, [Next]_vars
    PROVE  Times'
<1>1. ASSUME UNCHANGED <<stream, held>>, Quiet
      PROVE  Times'
  <2>1. \A s \in StreamId :
            /\ stream'[s].earliest = stream[s].earliest /\ stream'[s].cluster = stream[s].cluster
            /\ TimecodesCurrent(stream'[s].pending, stream'[s].earliest)
    BY <1>1 DEF Times, StreamTimes
  <2> QED BY <1>1, <2>1, SameTimes
<1>2. CASE Still
  BY <1>1, <1>2 DEF Still, Quiet
<1>3. ASSUME NEW a \in Adder, NEW f \in DataFrameIn, Captures(a, f) \/ Rejects(a, f)
      PROVE  Times'
  BY <1>1, <1>3 DEF Captures, Rejects, Quiet
<1> QED BY <1>2, <1>3, Moves, AddsTimes, DropsTimes, TakesTimes, ReturnsTimes, TerminateTimes

-----------------------------------------------------------------------------
(* The strengthening is an invariant.                                      *)

LEMMA InitIInv == Init => IInv
<1> SUFFICES ASSUME Init PROVE IInv
  OBVIOUS
<1>1. Types /\ Control /\ Places
  BY InitControls, InitPlaces
<1>2. Undisturbed
  BY Threads DEF Init, Undisturbed
<1>3. Times
  <2>1. \A s \in StreamId : stream[s].pending = <<>> /\ stream[s].cluster = NULL
    BY DEF Init
  <2>2. \A e : TimecodesCurrent(<<>>, e)
    BY DEF TimecodesCurrent
  <2>3. StreamTimes
    BY <2>1, <2>2 DEF StreamTimes
  <2>4. held = {} /\ server.cluster = {} /\ server.last = {}
    BY DEF Init, NewServer
  <2> QED BY <2>3, <2>4 DEF Times, ServerTimes, HeldTimes, BlocksDecodeExactly
<1> QED BY <1>1, <1>2, <1>3 DEF IInv

LEMMA NextIInv == IInv /\ [Next]_vars => IInv'
<1> SUFFICES ASSUME Types, Control, Places, Undisturbed, Times, [Next]_vars PROVE IInv'
  BY DEF IInv
<1>1. Types' /\ Control'
  BY NextControls
<1> QED BY <1>1, NextPlaces, NextUndisturbed, NextTimes DEF IInv

LEMMA Invariant == Spec => []IInv
BY InitIInv, NextIInv, PTL DEF Spec

-----------------------------------------------------------------------------
(* Every variable holds a value of its kind, whatever the threads do.      *)
THEOREM TypeCorrect == Spec => []TypeOK
<1>1. IInv => TypeOK
  <2> SUFFICES ASSUME Types, Hands, Mains, Headers PROVE TypeOK
    BY DEF IInv, Control
  <2>1. \A s \in StreamId : stream[s].pending \in Seq(DataFrame)
    BY DEF Types, Values
  <2>2. \A a \in Adder : /\ hand[a] \subseteq DataFrameIn
                         /\ pc[a] # "idle" <=> hand[a] # {}
                         /\ pc[a] \in {"measure", "flush"} => handle[a] \in StreamId
    BY DEF Types, Values, Hands
  <2>3. (held # {} <=> pc[Main] = "send") /\ (peeked # {} <=> pc[Main] = "inspect")
    BY DEF Mains
  <2>4. pc[Main] \in {"ebml", "net", "avail", "pop", "send"} => isOpen
    BY DEF Headers, Opened
  <2> QED BY <2>1, <2>2, <2>3, <2>4 DEF TypeOK, Types, Values, Options
<1> QED BY <1>1, Invariant, PTL

(* In every session the EBML header goes out before any frame              *)
(* (updateEbmlHeader, KvsApp_close).                                       *)
THEOREM HeaderFirst == Spec => []HeaderBeforeMedia
<1>1. IInv => HeaderBeforeMedia
  BY DEF IInv, Control, Headers, HeaderBeforeMedia
<1> QED BY <1>1, Invariant, PTL

(* Without the ring buffer policy main never uses a frame that is not      *)
(* there any more (prvStreamFlushToNextCluster).                           *)
THEOREM PeekedStays == Spec => []PeekedFrameStays
<1>1. IInv => PeekedFrameStays
  BY DEF IInv, Undisturbed, PeekedFrameStays, None, RingBuffer
<1> QED BY <1>1, Invariant, PTL

(* As long as no chunk of the session was cut off, a block behind its own  *)
(* cluster is read with its own timestamp exactly if the field can say its *)
(* distance: popping, inserting and flushing threads keep headers and      *)
(* sessions consistent, in a session and from one to the next              *)
(* (prvStreamPop, Kvs_streamAddDataFrame, KvsApp_close).                   *)
THEOREM DecodeExactly == Spec => []BlocksDecodeExactly
<1>1. IInv => BlocksDecodeExactly
  BY DEF IInv, Times
<1> QED BY <1>1, Invariant, PTL

(* A list is no longer than there are frames.                              *)
LEMMA PendingBounded ==
    ASSUME Types, Places, NEW s \in StreamId
    PROVE  Len(stream[s].pending) \in Nat /\ Len(stream[s].pending) <= captured
<1> DEFINE q == stream[s].pending
           n == Len(q)
           f == [k \in 1..n |-> q[k].frame.id]
<1>1. q \in Seq(DataFrame) /\ n \in Nat /\ captured \in Nat
  BY DEF Types, Values
<1>2. ASSUME NEW k \in 1..n PROVE q[k].frame.id \in 1..captured
  <2>1. q[k].frame.id \in FrameId
    <3>1. q[k].frame \in DataFrameIn
      <4> HIDE DEF q
      <4> QED BY <1>1, <1>2, PendingFields
    <3> QED BY <3>1, FrameIs
  <2> DEFINE i == q[k].frame.id
  <2>2. Pending(i)
    BY DEF Pending
  <2>3. i <= captured /\ i \in Nat /\ i # 0
    BY <2>1, <2>2, Constants DEF Places, NULL
  <2> QED BY <1>1, <2>3
<1>3. f \in Injection(1..n, 1..captured)
  <2>1. f \in [1..n -> 1..captured]
    BY <1>2
  <2>2. \A j, k \in 1..n : f[j] = f[k] => j = k
    BY DEF Places, OnePosition
  <2> HIDE DEF f
  <2> QED BY <2>1, <2>2 DEF Injection, IsInjective
<1> HIDE DEF f
<1>4. IsFiniteSet(1..captured) /\ Cardinality(1..captured) = captured
  <2>1. 1 \in Int /\ captured \in Int /\ (1 > captured => captured = 0)
    BY <1>1
  <2>2. /\ IsFiniteSet(1..captured)
        /\ Cardinality(1..captured) = IF 1 > captured THEN 0 ELSE captured - 1 + 1
    BY <2>1, FS_Interval
  <2> QED BY <1>1, <2>1, <2>2
<1>5. Cardinality(1..n) = n
  BY <1>1, FS_Interval
<1>6. Cardinality(1..n) <= Cardinality(1..captured)
  BY <1>3, <1>4, FS_Injection
<1> QED BY <1>1, <1>4, <1>5, <1>6

(* A captured frame is in exactly one place: the hand of the thread that   *)
(* adds it, one stream, the send in progress, or back with the application *)
(* (the callers of prvCallOnDataFrameTerminate in kvsapp.c).               *)
THEOREM OnePlace == Spec => []FrameInOnePlace
<1>1. IInv => FrameInOnePlace
  <2> SUFFICES ASSUME Types, Control, Places, NEW i \in FrameId
               PROVE  terminated[i]
                      + Cardinality({a \in Adder : \E f \in hand[a] : f.id = i})
                      + Cardinality({p \in StreamId \X (1..captured) :
                              LET q == stream[p[1]].pending
                              IN  p[2] \in DOMAIN q /\ q[p[2]].frame.id = i})
                      + Cardinality({h \in held : h.data.frame.id = i})
                      = IF i <= captured THEN 1 ELSE 0
    BY DEF IInv, FrameInOnePlace
  <2> DEFINE A == {a \in Adder : \E f \in hand[a] : f.id = i}
             P == {p \in StreamId \X (1..captured) :
                       LET q == stream[p[1]].pending
                       IN  p[2] \in DOMAIN q /\ q[p[2]].frame.id = i}
             H == {h \in held : h.data.frame.id = i}
  <2>0. Cardinality({}) = 0 /\ \A x : Cardinality({x}) = 1
    BY FS_EmptySet, FS_Singleton
  <2>1. Cardinality(A) = IF InHand(i) THEN 1 ELSE 0
    <3>1. CASE InHand(i)
      <4>1. PICK a \in Adder : \E f \in hand[a] : f.id = i
        BY <3>1 DEF InHand
      <4>2. \A b \in A : b = a
        BY <4>1 DEF Places, OneHand
      <4>3. A = {a}
        BY <4>1, <4>2
      <4> HIDE DEF A
      <4> QED BY <2>0, <3>1, <4>3
    <3>2. CASE ~InHand(i)
      <4>1. A = {}
        BY <3>2 DEF InHand
      <4> HIDE DEF A
      <4> QED BY <2>0, <3>2, <4>1
    <3> QED BY <3>1, <3>2
  <2>2. Cardinality(P) = IF Pending(i) THEN 1 ELSE 0
    <3>0. \A s \in StreamId : DOMAIN stream[s].pending = 1..Len(stream[s].pending)
      BY DEF Types, Values
    <3>1. CASE Pending(i)
      <4>1. PICK s \in StreamId : \E k \in 1..Len(stream[s].pending) : stream[s].pending[k].frame.id = i
        BY <3>1 DEF Pending
      <4>2. PICK k \in 1..Len(stream[s].pending) : stream[s].pending[k].frame.id = i
        BY <4>1
      <4>3. k \in 1..captured
        <5>1. Len(stream[s].pending) \in Nat /\ Len(stream[s].pending) <= captured /\ captured \in Nat
          BY PendingBounded DEF Types, Values
        <5> QED BY <5>1
      <4>4. <<s, k>> \in P
        BY <3>0, <4>2, <4>3
      <4>5. ASSUME NEW p \in P PROVE p = <<s, k>>
        <5>1. p[1] \in StreamId /\ p = <<p[1], p[2]>>
          OBVIOUS
        <5>2. p[2] \in DOMAIN stream[p[1]].pending /\ stream[p[1]].pending[p[2]].frame.id = i
          OBVIOUS
        <5>3. p[2] \in 1..Len(stream[p[1]].pending)
          BY <3>0, <5>1, <5>2
        <5> DEFINE t == p[1]
                   j == p[2]
        <5>4. /\ t \in StreamId /\ j \in 1..Len(stream[t].pending)
              /\ stream[t].pending[j].frame.id = stream[s].pending[k].frame.id
          BY <4>2, <5>1, <5>2, <5>3
        <5> HIDE DEF P, t, j
        <5>5. t = s /\ j = k
          BY <5>4 DEF Places, OnePosition
        <5> QED BY <5>1, <5>5 DEF t, j
      <4> HIDE DEF P
      <4>6. P = {<<s, k>>}
        BY <4>4, <4>5
      <4> QED BY <2>0, <3>1, <4>6
    <3>2. CASE ~Pending(i)
      <4>1. ASSUME NEW p \in P PROVE FALSE
        <5>1. p[1] \in StreamId /\ p[2] \in DOMAIN stream[p[1]].pending
              /\ stream[p[1]].pending[p[2]].frame.id = i
          OBVIOUS
        <5> QED BY <3>0, <3>2, <5>1 DEF Pending
      <4> HIDE DEF P
      <4>2. P = {}
        BY <4>1
      <4> QED BY <2>0, <3>2, <4>2
    <3> QED BY <3>1, <3>2
  <2>3. Cardinality(H) = IF InSend(i) THEN 1 ELSE 0
    <3>1. \A g, h \in held : g = h
      BY DEF Control, Mains
    <3>2. CASE InSend(i)
      <4>1. PICK h \in held : h.data.frame.id = i
        BY <3>2 DEF InSend
      <4>2. H = {h}
        BY <3>1, <4>1
      <4> HIDE DEF H
      <4> QED BY <2>0, <3>2, <4>2
    <3>3. CASE ~InSend(i)
      <4>1. H = {}
        BY <3>3 DEF InSend
      <4> HIDE DEF H
      <4> QED BY <2>0, <3>3, <4>1
    <3> QED BY <3>2, <3>3
  <2> HIDE DEF A, P, H
  <2>4. terminated[i] + Cardinality(A) + Cardinality(P) + Cardinality(H) = IF i <= captured THEN 1 ELSE 0
    BY <2>1, <2>2, <2>3 DEF Places
  <2> QED BY <2>4 DEF A, P, H
<1> QED BY <1>1, Invariant, PTL

-----------------------------------------------------------------------------
(* The ring buffer policy.  A thread that is about to add a frame owes it  *)
(* to the current stream, whether it has measured or came here before the  *)
(* policy was set, and so does a thread that measures a stream while       *)
(* another has become the current one.  What a stream that room was found  *)
(* in holds and is owed stays within the limit and a frame of each thread. *)
Weight == Max(DataLen) + HeaderLen
Mem(s) == MemStatTotal(stream[s].pending, HeaderLen)

Owes(a) == \/ pc[a] = "add"
           \/ pc[a] \in {"measure", "flush"} /\ handle[a] # xStreamHandle

Owed(a) == IF Owes(a) THEN Weight ELSE 0
Debt == Owed("TRACK_VIDEO") + Owed("TRACK_AUDIO")

Created ==
    /\ xStreamHandle <= created
    /\ \A s \in StreamId : s > created => stream[s].pending = <<>>

Room ==
    /\ xPolicy # RingBuffer => roomy = {}
    /\ \A s \in roomy : Mem(s) + (IF s = xStreamHandle THEN Debt ELSE 0) <= uMemLimit + 2 * Weight

LEMMA WeightIs ==
    /\ Max(DataLen) \in Nat /\ HeaderLen \in Nat
    /\ Weight \in Nat /\ Weight = Max(DataLen) + HeaderLen
    /\ \A d \in DataLen : d \in Nat /\ d <= Max(DataLen)
<1>1. DataLen \subseteq Nat /\ \E m \in DataLen : \A n \in DataLen : n <= m
  BY StreamBufferAssumption, KvsAppAssumption
<1>2. \E m \in DataLen : \A n \in DataLen : m >= n
  BY <1>1
<1>3. Max(DataLen) \in DataLen /\ \A n \in DataLen : Max(DataLen) >= n
  BY <1>2 DEF Max
<1>4. HeaderLen \in Nat
  BY KvsAppAssumption
<1>5. Max(DataLen) \in Nat /\ \A d \in DataLen : d \in Nat /\ d <= Max(DataLen)
  BY <1>1, <1>3
<1> QED BY <1>4, <1>5 DEF Weight

LEMMA Adders ==
    /\ Adder = {"TRACK_VIDEO", "TRACK_AUDIO"} /\ "TRACK_VIDEO" # "TRACK_AUDIO"
    /\ Cardinality(Adder) = 2
<1>1. Adder = {"TRACK_VIDEO", "TRACK_AUDIO"} /\ "TRACK_VIDEO" # "TRACK_AUDIO"
  BY DEF Adder, TrackType
<1>2. IsFiniteSet({"TRACK_VIDEO"}) /\ Cardinality({"TRACK_VIDEO"}) = 1
  BY FS_Singleton
<1>3. Cardinality({"TRACK_VIDEO"} \cup {"TRACK_AUDIO"}) = 2
  <2>1. "TRACK_AUDIO" \notin {"TRACK_VIDEO"}
    BY <1>1
  <2>2. Cardinality({"TRACK_VIDEO"} \cup {"TRACK_AUDIO"}) = 1 + 1
    BY <1>2, <2>1, FS_AddElement
  <2> QED BY <2>2
<1>4. Adder = {"TRACK_VIDEO"} \cup {"TRACK_AUDIO"}
  BY <1>1
<1> QED BY <1>1, <1>3, <1>4

LEMMA MemIs ==
    ASSUME Types, NEW s \in StreamId
    PROVE  Mem(s) \in Nat /\ (stream[s].pending = <<>> => Mem(s) = 0)
<1> DEFINE q == stream[s].pending
<1>1. q \in Seq(DataFrame)
  BY DEF Types, Values
<1> HIDE DEF q
<1>2. MemStatTotal(q, HeaderLen) \in Nat /\ (q = <<>> => MemStatTotal(q, HeaderLen) = 0)
  BY <1>1, WeightIs, MemStatTotalType
<1> QED BY <1>2 DEF Mem, q

LEMMA MemNextIs ==
    ASSUME Types', NEW s \in StreamId
    PROVE  Mem(s)' \in Nat
<1> DEFINE q == stream'[s].pending
<1>1. q \in Seq(DataFrame)
  BY DEF Types, Values
<1> HIDE DEF q
<1>2. MemStatTotal(q, HeaderLen) \in Nat
  BY <1>1, WeightIs, MemStatTotalType
<1> QED BY <1>2 DEF Mem, q

LEMMA LimitIs == Types => uMemLimit \in Nat
BY KvsAppAssumption DEF Types, Values, Options

LEMMA DebtIs == Debt \in Nat /\ Debt <= 2 * Weight
BY WeightIs DEF Debt, Owed

(* A pop makes room, an insertion takes what one frame takes at most.      *)
LEMMA PopMem ==
    ASSUME Types, NEW s \in StreamId, stream[s].pending # <<>>, PopFrom(s)
    PROVE  /\ Mem(s)' \in Nat /\ Mem(s)' <= Mem(s)
           /\ \A t \in StreamId : t # s => stream'[t] = stream[t]
<1> DEFINE q == stream[s].pending
<1>1. stream \in Queues /\ q \in Seq(DataFrame) /\ q # <<>>
  BY DEF Types, Values, Queues
<1>2. stream'[s].pending = Tail(q) /\ \A t \in StreamId : t # s => stream'[t] = stream[t]
  BY <1>1, PopIs
<1> HIDE DEF q
<1>3. /\ 1 \in 1..Len(q) /\ q[1].frame \in DataFrameIn /\ Len(q) \in Nat
      /\ Tail(q) \in Seq(DataFrame) /\ Len(q) = Len(Tail(q)) + 1
      /\ \A k \in 1..Len(q) - 1 : Tail(q)[k] = q[k + 1]
  BY <1>1, HeadIs
<1> DEFINE r == Tail(q)
<1>4. \A i \in 1..Len(r) + 1 : (i < 1 => q[i].frame = r[i].frame) /\ (i > 1 => q[i].frame = r[i - 1].frame)
  <2> SUFFICES ASSUME NEW i \in 1..Len(r) + 1, i > 1 PROVE q[i].frame = r[i - 1].frame
    BY <1>3
  <2>1. i - 1 \in 1..Len(q) - 1 /\ (i - 1) + 1 = i
    BY <1>3
  <2> HIDE DEF r
  <2> QED BY <1>3, <2>1 DEF r
<1>5. r \in Seq(DataFrame) /\ Len(q) = Len(r) + 1 /\ 1 \in 1..Len(r) + 1
  BY <1>3
<1> HIDE DEF r
<1>6. MemStatTotal(q, HeaderLen) = MemStatTotal(r, HeaderLen) + q[1].frame.uDataLen + HeaderLen
  BY <1>1, <1>4, <1>5, WeightIs, MemStatTotalOfOneMore
<1>7. MemStatTotal(r, HeaderLen) \in Nat
  BY <1>5, WeightIs, MemStatTotalType
<1>8. q[1].frame.uDataLen \in Nat
  BY <1>3, WeightIs DEF DataFrameIn
<1>9. Mem(s)' = MemStatTotal(r, HeaderLen) /\ Mem(s) = MemStatTotal(q, HeaderLen)
  BY <1>2 DEF Mem, r, q
<1> QED BY <1>2, <1>6, <1>7, <1>8, <1>9, WeightIs

LEMMA AddMem ==
    ASSUME Types, NEW s \in StreamId, NEW f \in DataFrameIn, AddTo(s, f)
    PROVE  /\ Mem(s)' \in Nat /\ Mem(s)' <= Mem(s) + Weight
           /\ \A t \in StreamId : t # s => stream'[t] = stream[t]
<1> DEFINE q == stream[s].pending
           p == InsertPosition(q, f)
           r == stream'[s].pending
<1>1. stream \in Queues
  BY DEF Types, Values, Queues
<1>2. /\ \A t \in StreamId : t # s => stream'[t] = stream[t]
      /\ q \in Seq(DataFrame) /\ Len(q) \in Nat /\ p \in 1..Len(q) + 1
      /\ r \in Seq(DataFrame) /\ Len(r) = Len(q) + 1
      /\ \A i \in 1..Len(q) + 1 : i < p => r[i].frame = q[i].frame
      /\ \A i \in 1..Len(q) + 1 : i > p => r[i].frame = q[i - 1].frame
      /\ r[p].frame = f
  BY <1>1, AddIs
<1>3. Mem(s)' = MemStatTotal(r, HeaderLen) /\ Mem(s) = MemStatTotal(q, HeaderLen)
  BY DEF Mem
<1> HIDE DEF q, p, r
<1>4. MemStatTotal(r, HeaderLen) = MemStatTotal(q, HeaderLen) + r[p].frame.uDataLen + HeaderLen
  BY <1>2, WeightIs, MemStatTotalOfOneMore
<1>5. MemStatTotal(q, HeaderLen) \in Nat
  BY <1>2, WeightIs, MemStatTotalType
<1>6. f.uDataLen \in Nat /\ f.uDataLen <= Max(DataLen)
  BY WeightIs DEF DataFrameIn
<1>7. r[p].frame.uDataLen = f.uDataLen
  BY <1>2
<1> QED BY <1>2, <1>3, <1>4, <1>5, <1>6, <1>7, WeightIs

(* Nothing grows, and no thread comes to owe the current stream a frame,   *)
(* unless that is within its limit.                                        *)
LEMMA RoomKept ==
    ASSUME Types, Types', Room, UNCHANGED <<xPolicy, uMemLimit>>,
           \A s \in StreamId : Mem(s)' <= Mem(s),
           \A s \in roomy' : s \in roomy \/ (xPolicy = RingBuffer /\ Mem(s) <= uMemLimit),
           xPolicy = RingBuffer /\ xStreamHandle' # NULL =>
               /\ xStreamHandle' = xStreamHandle
               /\ \/ \A a \in Adder : Owes(a)' => Owes(a)
                  \/ Mem(xStreamHandle) <= uMemLimit
    PROVE  Room'
<1>1. xPolicy # RingBuffer => roomy' = {}
  BY DEF Room
<1>2. ASSUME NEW s \in roomy'
      PROVE  Mem(s)' + (IF s = xStreamHandle' THEN Debt' ELSE 0) <= uMemLimit + 2 * Weight
  <2>1. s \in StreamId /\ s # NULL /\ xPolicy = RingBuffer
    BY <1>1 DEF Types, Values, StreamId, NULL
  <2>2. Mem(s) \in Nat /\ Mem(s)' \in Nat /\ Mem(s)' <= Mem(s) /\ uMemLimit \in Nat
    BY <2>1, MemIs, MemNextIs, LimitIs
  <2>3. Debt \in Nat /\ Debt' \in Nat /\ Debt' <= 2 * Weight /\ Weight \in Nat
    BY WeightIs DEF Debt, Owed
  <2>4. CASE Mem(s) <= uMemLimit
    BY <2>2, <2>3, <2>4
  <2>5. CASE ~(Mem(s) <= uMemLimit) /\ s = xStreamHandle'
    <3>1. s \in roomy /\ s = xStreamHandle /\ \A a \in Adder : Owes(a)' => Owes(a)
      BY <2>1, <2>5
    <3>2. Debt' <= Debt
      BY <3>1, Adders, WeightIs DEF Debt, Owed
    <3>3. Mem(s) + Debt <= uMemLimit + 2 * Weight
      BY <3>1 DEF Room
    <3> QED BY <2>2, <2>3, <3>2, <3>3
  <2>6. CASE ~(Mem(s) <= uMemLimit) /\ s # xStreamHandle'
    <3>1. Mem(s) + (IF s = xStreamHandle THEN Debt ELSE 0) <= uMemLimit + 2 * Weight
      BY <2>6 DEF Room
    <3> QED BY <2>2, <2>3, <2>6, <3>1
  <2> QED BY <2>4, <2>5, <2>6
<1> QED BY <1>1, <1>2 DEF Room

LEMMA CreatedKept ==
    ASSUME Types, Created, created' = created, xStreamHandle' = xStreamHandle \/ xStreamHandle' = NULL,
           \A s \in StreamId : stream[s].pending = <<>> => stream'[s].pending = <<>>
    PROVE  Created'
BY Threads DEF Created, Types, Values

(* A stream that is stored is one that nothing was added to.               *)
LEMMA NewStreamRoom ==
    ASSUME Types, Types', Created, Room, NewStream, UNCHANGED <<xPolicy, uMemLimit>>
    PROVE  Created' /\ Room'
<1>1. /\ created' = created + 1 /\ xStreamHandle' = created' /\ stream' = stream /\ roomy' = roomy
      /\ created \in Nat
  BY DEF NewStream, Types, Values
<1>2. xStreamHandle' \in StreamId
  BY NewStreamIs
<1>3. Created'
  BY <1>1 DEF Created, StreamId
<1>4. ASSUME NEW s \in roomy
      PROVE  Mem(s)' + (IF s = xStreamHandle' THEN Debt' ELSE 0) <= uMemLimit + 2 * Weight
  <2>1. s \in StreamId /\ Mem(s)' = Mem(s)
    BY <1>1 DEF Mem, Types, Values
  <2>2. Mem(s) \in Nat /\ uMemLimit \in Nat
    BY <2>1, MemIs, LimitIs
  <2>3. Debt \in Nat /\ Debt' \in Nat /\ Debt' <= 2 * Weight /\ Weight \in Nat
    BY WeightIs DEF Debt, Owed
  <2>4. CASE s = xStreamHandle'
    <3>1. stream[s].pending = <<>>
      BY <1>1, <1>2, <2>4 DEF Created, StreamId
    <3>2. Mem(s) = 0
      BY <2>1, <3>1, MemIs
    <3>3. Mem(s)' = 0
      BY <2>1, <3>2
    <3> HIDE DEF Mem, Debt, Weight
    <3>4. \A d, l, w \in Nat : d <= 2 * w => 0 + d <= l + 2 * w
      OBVIOUS
    <3>5. 0 + Debt' <= uMemLimit + 2 * Weight
      BY <2>2, <2>3, <3>4, Zenon
    <3> QED BY <2>4, <3>3, <3>5
  <2>5. CASE s # xStreamHandle'
    <3>1. Mem(s) + (IF s = xStreamHandle THEN Debt ELSE 0) <= uMemLimit + 2 * Weight
      BY DEF Room
    <3> QED BY <2>1, <2>2, <2>3, <2>5, <3>1
  <2> QED BY <2>4, <2>5
<1> QED BY <1>1, <1>3, <1>4 DEF Room

(* What the others do does not concern a thread.                           *)
LEMMA OthersOwe ==
    ASSUME Types, NEW t \in Thread, NEW b \in Adder, b # t,
           \E l : pc' = [pc EXCEPT ![t] = l],
           handle' = handle \/ \E h : handle' = [handle EXCEPT ![t] = h],
           xStreamHandle' = xStreamHandle
    PROVE  Owes(b)' <=> Owes(b)
<1>1. pc'[b] = pc[b] /\ handle'[b] = handle[b]
  BY Threads DEF Types, Labels, Values
<1> QED BY <1>1 DEF Owes

(* One thread goes on without touching a stream.                           *)
LEMMA RoomStays ==
    ASSUME Types, Types', Created, Room, NEW a \in Adder, UNCHANGED <<xPolicy, uMemLimit, stream, created>>,
           \A s \in roomy' : s \in roomy \/ (xPolicy = RingBuffer /\ Mem(s) <= uMemLimit),
           \E l : pc' = [pc EXCEPT ![a] = l],
           handle' = handle \/ \E h : handle' = [handle EXCEPT ![a] = h],
           xStreamHandle' = xStreamHandle \/ xStreamHandle' = NULL,
           xPolicy = RingBuffer /\ xStreamHandle' # NULL =>
               (Owes(a)' => Owes(a)) \/ Mem(xStreamHandle) <= uMemLimit
    PROVE  Created' /\ Room'
<1>1. \A s \in StreamId : Mem(s)' <= Mem(s)
  <2>1. \A s \in StreamId : Mem(s)' = Mem(s) /\ Mem(s) \in Nat
    BY MemIs DEF Mem
  <2> QED BY <2>1
<1>2. xStreamHandle' = xStreamHandle => \A b \in Adder : b # a => (Owes(b)' <=> Owes(b))
  BY OthersOwe, Threads
<1>3. Room'
  BY <1>1, <1>2, RoomKept
<1>4. Created'
  BY CreatedKept
<1> QED BY <1>3, <1>4

LEMMA StreamReadyRoom ==
    ASSUME Types, Types', Created, Room, NEW a \in Adder, StreamReady(a),
           UNCHANGED <<xPolicy, uMemLimit, stream, created, roomy, xStreamHandle>>
    PROVE  Created' /\ Room'
<1>1. /\ pc' = [pc EXCEPT ![a] = IF xPolicy = RingBuffer THEN "measure" ELSE "add"]
      /\ handle' = [handle EXCEPT ![a] = IF xPolicy = RingBuffer THEN xStreamHandle' ELSE NULL]
  BY DEF StreamReady, Goto
<1>2. ASSUME xPolicy = RingBuffer PROVE ~Owes(a)'
  <2>1. pc'[a] = "measure" /\ handle'[a] = xStreamHandle'
    BY <1>1, <1>2, Threads DEF Types, Labels, Values
  <2> QED BY <2>1 DEF Owes
<1> QED BY <1>1, <1>2, RoomStays

(* A thread that goes to where it owes nothing.                            *)
LEMMA FreeRoom ==
    ASSUME Types, Types', Created, Room, NEW a \in Adder, NEW l, l \notin {"add", "measure", "flush"},
           pc' = [pc EXCEPT ![a] = l], UNCHANGED <<xPolicy, uMemLimit, stream, created, roomy, handle>>,
           xStreamHandle' = xStreamHandle \/ xStreamHandle' = NULL
    PROVE  Created' /\ Room'
<1>1. pc'[a] = l
  BY Threads DEF Types, Labels
<1>2. ~Owes(a)'
  BY <1>1 DEF Owes
<1> QED BY <1>2, RoomStays

LEMMA PopRoom ==
    ASSUME Types, Types', Created, Room, NEW s \in StreamId, stream[s].pending # <<>>, PopFrom(s),
           UNCHANGED <<xPolicy, uMemLimit, xStreamHandle, created, roomy>>,
           \A a \in Adder : Owes(a)' => Owes(a)
    PROVE  Created' /\ Room'
<1>1. Mem(s)' <= Mem(s) /\ \A t \in StreamId : t # s => stream'[t] = stream[t]
  BY PopMem
<1>2. \A t \in StreamId : Mem(t)' <= Mem(t)
  <2>1. \A t \in StreamId : t # s => Mem(t)' = Mem(t) /\ Mem(t) \in Nat
    BY <1>1, MemIs DEF Mem
  <2> QED BY <1>1, <2>1
<1>3. Room'
  BY <1>2, RoomKept
<1>4. Created'
  BY <1>1, CreatedKept
<1> QED BY <1>3, <1>4

(* The frame a thread adds is the one it owed.                             *)
LEMMA AddDataFrameRoom ==
    ASSUME Types, Types', Control, Created, Room, NEW a \in Adder, AddDataFrame(a)
    PROVE  Created' /\ Room'
<1> DEFINE x == xStreamHandle
<1>1. /\ pc[a] = "add" /\ x \in StreamId /\ x # NULL
      /\ UNCHANGED <<xPolicy, uMemLimit, roomy, xStreamHandle, created, handle>>
      /\ pc' = [pc EXCEPT ![a] = "idle"]
  BY DEF AddDataFrame, options, app, Goto, Types, Values
<1>2. PICK f \in DataFrameIn : AddTo(x, f)
  BY AddDataFrameIs
<1>3. /\ Mem(x)' \in Nat /\ Mem(x)' <= Mem(x) + Weight
      /\ \A t \in StreamId : t # x => stream'[t] = stream[t]
  BY <1>1, <1>2, AddMem
<1>4. Owes(a) /\ ~Owes(a)'
  BY <1>1, Threads DEF Owes, Types, Labels
<1>5. \A b \in Adder : b # a => (Owes(b)' <=> Owes(b))
  BY <1>1, OthersOwe, Threads
<1>6. Debt = Debt' + Weight /\ Debt' \in Nat
  BY <1>4, <1>5, Adders, WeightIs DEF Debt, Owed
<1>7. ASSUME NEW s \in roomy
      PROVE  Mem(s)' + (IF s = x THEN Debt' ELSE 0) <= uMemLimit + 2 * Weight
  <2>1. s \in StreamId /\ Mem(s) + (IF s = x THEN Debt ELSE 0) <= uMemLimit + 2 * Weight
    BY DEF Room, Types, Values
  <2>2. Mem(s) \in Nat /\ uMemLimit \in Nat /\ Weight \in Nat
    BY <2>1, MemIs, LimitIs, WeightIs
  <2>3. CASE s = x
    <3> DEFINE m == Mem(x)
               n == Mem(x)'
               d == Debt'
    <3>1. /\ m \in Nat /\ n \in Nat /\ d \in Nat /\ n <= m + Weight
          /\ m + (d + Weight) <= uMemLimit + 2 * Weight
      BY <1>3, <1>6, <2>1, <2>2, <2>3
    <3>2. Mem(s)' = n
      BY <1>1, <2>3 DEF Mem
    <3> HIDE DEF m, n, d
    <3>3. n + d <= uMemLimit + 2 * Weight
      BY <2>2, <3>1
    <3> QED BY <2>3, <3>2, <3>3 DEF d
  <2>4. CASE s # x
    BY <1>3, <2>1, <2>4 DEF Mem
  <2> QED BY <2>3, <2>4
<1>8. Created'
  BY <1>1, <1>3 DEF Created, Types, Values, StreamId
<1> QED BY <1>1, <1>7, <1>8 DEF Room

LEMMA AddStepRoom ==
    ASSUME Types, Types', Control, Created, Room, NEW a \in Adder, AddStep(a)
    PROVE  Created' /\ Room'
<1>1. CASE checkAndBuildStream(a)
  <2>1. UNCHANGED <<xPolicy, uMemLimit, xStreamHandle, stream, created, roomy>> /\ pc[a] = "build"
    BY <1>1 DEF checkAndBuildStream, options, app, streams
  <2>2. \/ StreamReady(a)
        \/ Goto(a, "create") /\ UNCHANGED handle
        \/ RejectFrame(a) /\ UNCHANGED handle
    BY <1>1 DEF checkAndBuildStream
  <2> QED BY <2>1, <2>2, StreamReadyRoom, FreeRoom DEF Goto, RejectFrame
<1>2. CASE createStream(a)
  <2>1. UNCHANGED <<xPolicy, uMemLimit, xStreamHandle, stream, created, roomy>>
    BY <1>2 DEF createStream, options, app, streams
  <2>2. StreamReady(a) \/ (Goto(a, "creating") /\ UNCHANGED handle)
    BY <1>2 DEF createStream
  <2> QED BY <2>1, <2>2, StreamReadyRoom, FreeRoom DEF Goto
<1>3. CASE StoreStream(a)
  BY <1>3, NewStreamRoom DEF StoreStream, NewStream, options
<1>4. CASE StoreTrackPresent(a)
  <2>1. UNCHANGED <<xPolicy, uMemLimit, xStreamHandle, stream, created, roomy>>
    BY <1>4 DEF StoreTrackPresent, options, streams
  <2>2. StreamReady(a) \/ (RejectFrame(a) /\ UNCHANGED handle)
    BY <1>4 DEF StoreTrackPresent
  <2> QED BY <2>1, <2>2, StreamReadyRoom, FreeRoom DEF Goto, RejectFrame
<1>5. CASE StoreStreamFails(a)
  BY <1>5, FreeRoom DEF StoreStreamFails, StoreNoStream, RejectFrame, Goto, options, streams
<1>6. CASE BuildFails(a)
  <2>1. UNCHANGED <<xPolicy, uMemLimit, xStreamHandle, stream, created, roomy>>
    BY <1>6 DEF BuildFails, options, app, streams
  <2>2. StreamReady(a) \/ (RejectFrame(a) /\ UNCHANGED handle)
    BY <1>6 DEF BuildFails
  <2> QED BY <2>1, <2>2, StreamReadyRoom, FreeRoom DEF Goto, RejectFrame
<1>7. CASE Measure(a)
  <2>1. /\ UNCHANGED <<xPolicy, uMemLimit, xStreamHandle, stream, created>>
        /\ pc[a] = "measure" /\ handle[a] \in StreamId /\ xPolicy = RingBuffer
    BY <1>7 DEF Measure, options, app, Control, Hands
  <2>2. CASE Goto(a, "flush") /\ UNCHANGED <<handle, roomy>>
    <3>1. pc'[a] = "flush"
      BY <2>2, Threads DEF Goto, Types, Labels
    <3>2. Owes(a)' => Owes(a)
      BY <2>1, <2>2, <3>1 DEF Owes
    <3> QED BY <2>1, <2>2, <3>2, RoomStays DEF Goto
  <2>3. CASE ~(Mem(handle[a]) > uMemLimit) /\ RoomMade(a) /\ roomy' = roomy \cup {handle[a]}
    <3>1. Mem(handle[a]) <= uMemLimit
      <4>1. Mem(handle[a]) \in Nat /\ uMemLimit \in Nat
        BY <2>1, MemIs, LimitIs
      <4> QED BY <2>3, <4>1
    <3>2. Owes(a) \/ Mem(xStreamHandle) <= uMemLimit
      BY <2>1, <3>1 DEF Owes
    <3> QED BY <2>1, <2>3, <3>1, <3>2, RoomStays DEF RoomMade, Goto
  <2> QED BY <1>7, <2>2, <2>3 DEF Measure, Mem
<1>8. CASE FlushHead(a)
  <2>1. /\ UNCHANGED <<xPolicy, uMemLimit, xStreamHandle>>
        /\ pc[a] = "flush" /\ handle[a] \in StreamId
    BY <1>8 DEF FlushHead, options, app, Control, Hands
  <2>2. CASE stream[handle[a]].pending = <<>>
    <3>1. RoomMade(a) /\ UNCHANGED <<stream, created, roomy>>
      BY <1>8, <2>2 DEF FlushHead, streams
    <3>2. Mem(handle[a]) = 0
      BY <2>1, <2>2, MemIs
    <3>3. Owes(a) \/ Mem(xStreamHandle) <= uMemLimit
      BY <2>1, <3>2, LimitIs DEF Owes
    <3> QED BY <2>1, <3>1, <3>3, RoomStays DEF RoomMade, Goto
  <2>3. CASE stream[handle[a]].pending # <<>>
    <3>1. PopFrom(handle[a]) /\ Goto(a, "measure") /\ UNCHANGED <<created, roomy, handle>>
      BY <1>8, <2>3 DEF FlushHead
    <3>2. pc'[a] = "measure"
      BY <3>1, Threads DEF Goto, Types, Labels
    <3>3. \A b \in Adder : Owes(b)' => Owes(b)
      <4>1. Owes(a)' => Owes(a)
        BY <2>1, <3>1, <3>2 DEF Owes
      <4>2. \A b \in Adder : b # a => (Owes(b)' <=> Owes(b))
        BY <2>1, <3>1, OthersOwe, Threads DEF Goto
      <4> QED BY <4>1, <4>2
    <3> QED BY <2>1, <2>3, <3>1, <3>3, PopRoom
  <2> QED BY <2>2, <2>3
<1>9. CASE AddDataFrame(a)
  BY <1>9, AddDataFrameRoom
<1>10. CASE AddDataFrameFails(a)
  BY <1>10, FreeRoom DEF AddDataFrameFails, RejectFrame, Goto, options, app, streams
<1> QED BY <1>1, <1>2, <1>3, <1>4, <1>5, <1>6, <1>7, <1>8, <1>9, <1>10 DEF AddStep

(* Main goes on from one label to another.                                 *)
LEMMA MainStepGoes ==
    ASSUME MainStep
    PROVE  /\ \E l : pc' = [pc EXCEPT ![Main] = l]
           /\ handle' = handle \/ \E h : handle' = [handle EXCEPT ![Main] = h]
<1> USE DEF MainGoto, Goto, Return, ReturnSent, Forget
<1>1. CASE KvsApp_open \/ OpenFails \/ OpenCreateStream \/ OpenStoreStream \/ KvsApp_doWork \/ KvsApp_doWorkEx
  BY <1>1 DEF KvsApp_open, OpenFails, OpenCreateStream, OpenStoreStream, KvsApp_doWork, KvsApp_doWorkEx
<1>2. CASE updateEbmlHeader \/ PeekHead
  BY <1>2 DEF updateEbmlHeader, PeekHead
<1>3. CASE Inspect
  BY <1>3 DEF Inspect
<1>4. CASE PopBlock \/ SendEbml \/ NetworkWork \/ PopToSend
  BY <1>4 DEF PopBlock, SendEbml, NetworkWork, PopToSend, working
<1>5. CASE AvailOnVideo \/ AvailOnAudio
  BY <1>5 DEF AvailOnVideo, AvailOnAudio
<1>6. CASE prvPutMediaSendData
  BY <1>6 DEF prvPutMediaSendData, SendHeld, WithholdHeld, SendHeldFails
<1>7. CASE CloseSession \/ StopThreads \/ KvsApp_terminate
  BY <1>7 DEF CloseSession, StopThreads, KvsApp_terminate, KvsApp_close
<1>8. CASE setKvsAppOptions \/ Reopen
  BY <1>8 DEF setKvsAppOptions, SetAudioTrackInfo, SetPolicy, SetMemLimit, Reopen
<1> QED BY <1>1, <1>2, <1>3, <1>4, <1>5, <1>6, <1>7, <1>8 DEF MainStep, Opening, Working

LEMMA MainStepStreams ==
    ASSUME Types, Control, MainStep
    PROVE  \/ UNCHANGED <<xPolicy, uMemLimit, streams>> /\ (xStreamHandle' = xStreamHandle \/ xStreamHandle' = NULL)
           \/ NewStream
           \/ UNCHANGED <<xStreamHandle, stream, created>> /\ roomy' = {}
           \/ /\ UNCHANGED <<xPolicy, uMemLimit, xStreamHandle, created, roomy>>
              /\ \E s \in StreamId : stream[s].pending # <<>> /\ PopFrom(s)
           \/ KvsApp_terminate
<1>1. CASE KvsApp_open \/ OpenFails \/ OpenCreateStream \/ KvsApp_doWork \/ KvsApp_doWorkEx
           \/ updateEbmlHeader \/ PeekHead \/ Inspect
  BY <1>1 DEF KvsApp_open, OpenFails, OpenCreateStream, KvsApp_doWork, KvsApp_doWorkEx, updateEbmlHeader,
     PeekHead, Inspect, options, app
<1>2. CASE OpenStoreStream
  BY <1>2 DEF OpenStoreStream, StoreNoStream, options, app
<1>3. CASE SendEbml \/ NetworkWork \/ AvailOnVideo \/ AvailOnAudio \/ CloseSession \/ StopThreads
  BY <1>3 DEF SendEbml, NetworkWork, AvailOnVideo, AvailOnAudio, CloseSession, StopThreads, options, app
<1>4. CASE prvPutMediaSendData
  BY <1>4 DEF prvPutMediaSendData, options
<1>5. CASE PopBlock
  <2>1. handle[Main] \in StreamId /\ UNCHANGED <<xPolicy, uMemLimit, xStreamHandle>>
    BY <1>5 DEF PopBlock, Control, Mains, options, app
  <2> QED BY <1>5, <2>1 DEF PopBlock, streams
<1>6. CASE PopToSend
  <2>1. xStreamHandle # NULL => xStreamHandle \in StreamId
    BY DEF Types, Values
  <2>2. UNCHANGED <<xPolicy, uMemLimit, xStreamHandle>>
    BY <1>6 DEF PopToSend, options, app
  <2> QED BY <1>6, <2>1, <2>2 DEF PopToSend
<1>7. CASE setKvsAppOptions \/ Reopen
  BY <1>7 DEF setKvsAppOptions, SetAudioTrackInfo, SetPolicy, SetMemLimit, Reopen, options, app, streams
<1> QED BY <1>1, <1>2, <1>3, <1>4, <1>5, <1>6, <1>7 DEF MainStep, Opening, Working

LEMMA MainStepRoom ==
    ASSUME Types, Types', Control, Created, Room, MainStep
    PROVE  Created' /\ Room'
<1>1. xStreamHandle' = xStreamHandle => \A a \in Adder : Owes(a)' <=> Owes(a)
  BY MainStepGoes, OthersOwe, Threads
<1>2. ASSUME UNCHANGED <<xPolicy, uMemLimit, streams>>, xStreamHandle' = xStreamHandle \/ xStreamHandle' = NULL
      PROVE  Created' /\ Room'
  <2>1. \A s \in StreamId : Mem(s)' <= Mem(s)
    <3>1. \A s \in StreamId : Mem(s)' = Mem(s) /\ Mem(s) \in Nat
      BY <1>2, MemIs DEF Mem, streams
    <3> QED BY <3>1
  <2> QED BY <1>1, <1>2, <2>1, RoomKept, CreatedKept DEF streams
<1>3. ASSUME NewStream PROVE Created' /\ Room'
  BY <1>3, NewStreamRoom DEF NewStream, options
<1>4. ASSUME UNCHANGED <<xPolicy, uMemLimit, xStreamHandle, created, roomy>>,
             NEW s \in StreamId, stream[s].pending # <<>>, PopFrom(s)
      PROVE  Created' /\ Room'
  BY <1>1, <1>4, PopRoom
<1>5. ASSUME KvsApp_terminate PROVE Created' /\ Room'
  <2>1. /\ UNCHANGED <<xPolicy, uMemLimit, created, roomy>> /\ xStreamHandle' = NULL
        /\ \A s \in StreamId : s # xStreamHandle => stream'[s] = stream[s]
        /\ xStreamHandle \in StreamId => stream'[xStreamHandle].pending = <<>>
    BY <1>5 DEF KvsApp_terminate, options, Types, Values
  <2>2. ASSUME NEW s \in StreamId PROVE Mem(s)' <= Mem(s) /\ (stream[s].pending = <<>> => stream'[s].pending = <<>>)
    <3>1. Mem(s) \in Nat
      BY MemIs
    <3>2. stream'[s].pending = stream[s].pending \/ stream'[s].pending = <<>>
      BY <2>1
    <3>3. MemStatTotal(<<>>, HeaderLen) = 0
      <4>1. <<>> \in Seq(DataFrame)
        OBVIOUS
      <4> QED BY <4>1, WeightIs, MemStatTotalType
    <3> QED BY <3>1, <3>2, <3>3, WeightIs DEF Mem
  <2> QED BY <2>1, <2>2, RoomKept, CreatedKept
<1>6. ASSUME UNCHANGED <<xStreamHandle, stream, created>>, roomy' = {} PROVE Created' /\ Room'
  BY <1>6 DEF Created, Room
<1> QED BY <1>2, <1>3, <1>4, <1>5, <1>6, MainStepStreams

LEMMA NextRoom ==
    ASSUME Types, Types', Control, Created, Room, [Next]_vars
    PROVE  Created' /\ Room'
<1>1. ASSUME NEW f \in DataFrameIn, KvsApp_addFrame(f.xTrackType, f)
      PROVE  Created' /\ Room'
  <2> DEFINE a == f.xTrackType
  <2>1. a \in Adder
    BY DEF DataFrameIn, Adder
  <2>2. /\ pc[a] = "idle" /\ UNCHANGED <<xPolicy, uMemLimit, xStreamHandle, stream, created, roomy, handle>>
        /\ pc' = pc \/ pc' = [pc EXCEPT ![a] = "build"]
    BY <1>1 DEF KvsApp_addFrame, options, app, streams, Goto
  <2> HIDE DEF a
  <2>3. pc' = pc => pc' = [pc EXCEPT ![a] = "idle"]
    BY <2>1, <2>2, Threads DEF Types, Labels
  <2> QED BY <2>1, <2>2, <2>3, FreeRoom
<1>2. CASE Interrupt \/ UNCHANGED vars
  <2>1. UNCHANGED <<xPolicy, uMemLimit, xStreamHandle, streams, pc, handle>>
    BY <1>2 DEF Interrupt, vars, options, app
  <2>2. \A s \in StreamId : Mem(s)' = Mem(s) /\ Mem(s) \in Nat
    BY <2>1, MemIs DEF Mem, streams
  <2>3. \A s \in StreamId : Mem(s)' <= Mem(s)
    BY <2>2
  <2>4. \A a \in Adder : Owes(a)' <=> Owes(a)
    BY <2>1 DEF Owes
  <2> QED BY <2>1, <2>3, <2>4, RoomKept, CreatedKept DEF streams
<1> QED BY <1>1, <1>2, AddStepRoom, MainStepRoom DEF Next

LEMMA InitRoom ==
    ASSUME Init, Types
    PROVE  Created /\ Room
<1>1. \A s \in StreamId : stream[s].pending = <<>>
  BY DEF Init
<1>2. \A s \in StreamId : Mem(s) = 0
  BY <1>1, MemIs
<1>3. created = 0 /\ xStreamHandle = NULL /\ roomy = {}
  BY DEF Init
<1> QED BY <1>1, <1>2, <1>3, WeightIs, Threads DEF Created, Room

(* Once room was found in a stream, it exceeds the limit of the ring       *)
(* buffer policy by at most the one frame each capture thread adds after   *)
(* it has measured, though the threads measure and add without a common    *)
(* lock, another stream may become the current one in between, and the     *)
(* policy is set when the threads are running (prvStreamFlushHeadUntilMem, *)
(* setKvsAppOptions).                                                      *)
THEOREM RingBounded == Spec => []RingMemoryBounded
<1> DEFINE RInv == IInv /\ Created /\ Room
<1>1. Init => RInv
  BY InitIInv, InitRoom DEF IInv
<1>2. RInv /\ [Next]_vars => RInv'
  <2> SUFFICES ASSUME IInv, Created, Room, [Next]_vars PROVE RInv'
    OBVIOUS
  <2>1. IInv'
    BY NextIInv
  <2> QED BY <2>1, NextRoom DEF IInv
<1>3. RInv => RingMemoryBounded
  <2> SUFFICES ASSUME Types, Room, NEW s \in roomy PROVE Mem(s) <= uMemLimit + 2 * Weight
    BY Adders DEF IInv, RingMemoryBounded, Mem, Weight
  <2>1. Mem(s) \in Nat /\ Debt \in Nat /\ uMemLimit \in Nat /\ Weight \in Nat
    BY MemIs, DebtIs, LimitIs, WeightIs DEF Types, Values
  <2>2. Mem(s) + (IF s = xStreamHandle THEN Debt ELSE 0) <= uMemLimit + 2 * Weight
    BY DEF Room
  <2> QED BY <2>1, <2>2
<1> HIDE DEF RInv
<1> QED BY <1>1, <1>2, <1>3, PTL DEF Spec
=============================================================================
