---------------------------- MODULE StreamBuffer ----------------------------
(***************************************************************************)
(* The data structure behind a KVS stream (src/source/stream/stream.c): a  *)
(* list of data frames ordered by timestamp, each with the MKV header the  *)
(* stream wrote for it when the frame was inserted.                        *)
(*                                                                         *)
(* Of the header only the timecode matters here.  A cluster carries its    *)
(* absolute timestamp; a simple block carries a 16-bit difference to the   *)
(* timestamp of the cluster it belongs to.  That makes a header right only *)
(* for as long as the block keeps following the same cluster.              *)
(*                                                                         *)
(* The operators are pure.  Stream.tla turns them into the component's     *)
(* state machine; KvsApp.tla composes them with the threads that share a   *)
(* stream.                                                                 *)
(***************************************************************************)
EXTENDS Integers, Sequences, SequencesExt

CONSTANTS
    FrameId,        \* identities of data frames, the pointers of the code
    Timestamp,      \* capture times in milliseconds, a uint64_t
    DataLen,        \* sizes a data frame may have
    DeltaModulus    \* 2^16: the block timecode is a uint16_t

ASSUME StreamBufferAssumption ==
    /\ Timestamp \subseteq Nat
    /\ DataLen \subseteq Nat
    /\ DeltaModulus \in Nat \ {0}

TrackType == {"TRACK_VIDEO", "TRACK_AUDIO"}
ClusterType == {"MKV_CLUSTER", "MKV_SIMPLE_BLOCK"}

\* What the application hands over.  KvsApp_addFrame makes a cluster of a key
\* frame only, and only a video frame is ever a key frame.
DataFrameIn ==
    {f \in [id : FrameId, uTimestampMs : Timestamp, xTrackType : TrackType,
            xClusterType : ClusterType, uDataLen : DataLen] :
        f.xClusterType = "MKV_CLUSTER" => f.xTrackType = "TRACK_VIDEO"}

\* What the list holds: the frame and the timecode in its MKV header.
DataFrame == [frame : DataFrameIn, timecode : Nat]

IsCluster(f) == f.xClusterType = "MKV_CLUSTER"

-----------------------------------------------------------------------------
(* Where a frame goes.                                                     *)

\* A plausible slip: audio overtakes the frames it ties with as well.
GoesBefore_AnyTrackOnTie(f, g) == f.uTimestampMs <= g.uTimestampMs

\* f is linked in front of g.
GoesBefore(f, g) ==
    \/ f.uTimestampMs < g.uTimestampMs
    \/ f.uTimestampMs = g.uTimestampMs /\ f.xTrackType = "TRACK_VIDEO"

\* The scan from the head stops at the first frame f goes before.
InsertPosition(q, f) ==
    Min({i \in 1..Len(q) : GoesBefore(f, q[i].frame)} \cup {Len(q) + 1})

-----------------------------------------------------------------------------
(* What its header says.                                                   *)

\* The cluster timestamp in force after the first k frames of q: that of the
\* last cluster among them, or earliest when there is none.
ClusterTimestampAt(q, k, earliest) ==
    LET clusters == {j \in 1..k : IsCluster(q[j].frame)}
    IN  IF clusters = {} THEN earliest ELSE q[Max(clusters)].frame.uTimestampMs

\* A plausible slip: the difference is not reduced to the width of the field.
Timecode_Unreduced(f, clusterTimestamp) ==
    IF IsCluster(f) THEN f.uTimestampMs ELSE f.uTimestampMs - clusterTimestamp

\* Mkv_initializeClusterHdr: the absolute timestamp into a cluster header, the
\* uint16_t difference into the header of a simple block.
Timecode(f, clusterTimestamp) ==
    IF IsCluster(f)
    THEN f.uTimestampMs
    ELSE (f.uTimestampMs - clusterTimestamp) % DeltaModulus

\* A plausible slip: an inserted cluster leaves the blocks behind it alone.
Rebased_Nothing(q) == q

\* The correction pass: every frame from the first cluster on has its header
\* written again.
Rebased(q) ==
    [i \in 1..Len(q) |->
        IF \E j \in 1..i : IsCluster(q[j].frame)
        THEN [q[i] EXCEPT !.timecode =
                Timecode(q[i].frame, ClusterTimestampAt(q, i, 0))]
        ELSE q[i]]

-----------------------------------------------------------------------------
(* The operations.                                                         *)

\* Kvs_streamAddDataFrame.  A cluster linked at the tail has nothing behind it
\* to correct.
Inserted(q, earliest, f) ==
    LET p == InsertPosition(q, f)
        t == Timecode(f, ClusterTimestampAt(q, p - 1, earliest))
        s == InsertAt(q, p, [frame |-> f, timecode |-> t])
    IN  IF IsCluster(f) /\ p <= Len(q) THEN Rebased(s) ELSE s

\* A plausible slip: the popped cluster is forgotten.
EarliestAfterPop_Forgets(q, earliest) == earliest

\* prvStreamPop without bPeek remembers the timestamp of a popped cluster.
EarliestAfterPop(q, earliest) ==
    IF IsCluster(Head(q).frame) THEN Head(q).frame.uTimestampMs ELSE earliest

\* Kvs_streamAvailOnTrack.
AvailOnTrack(q, track) == \E i \in DOMAIN q : q[i].frame.xTrackType = track

\* Kvs_streamMemStatTotal, less the constant size of the handle and of the
\* EBML header: the data of the pending frames and one header each.
MemStatTotal(q, headerLen) ==
    FoldLeft(LAMBDA sum, d : sum + d.frame.uDataLen + headerLen, 0, q)

-----------------------------------------------------------------------------
(* What makes a list of pending frames right.                              *)

\* Timestamps never descend, and at one instant video comes before audio.
InSendOrder(q) ==
    \A i, j \in 1..Len(q) : i < j =>
        /\ q[i].frame.uTimestampMs <= q[j].frame.uTimestampMs
        /\ q[i].frame.uTimestampMs = q[j].frame.uTimestampMs =>
              (q[j].frame.xTrackType = "TRACK_VIDEO" =>
                  q[i].frame.xTrackType = "TRACK_VIDEO")

\* Every header is the one its frame needs behind the cluster it now follows.
TimecodesCurrent(q, earliest) ==
    \A i \in 1..Len(q) :
        q[i].timecode = Timecode(q[i].frame, ClusterTimestampAt(q, i, earliest))
=============================================================================
