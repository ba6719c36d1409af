------------------------------- MODULE Stream -------------------------------
(***************************************************************************)
(* The stream component (src/source/stream/stream.c) on its own: every     *)
(* call takes the stream's lock for all of its work, so each is one atomic *)
(* step, whatever threads the callers run on.  Frames arrive with any      *)
(* timestamps in any order; keeping the list fit to send is the stream's   *)
(* own business.                                                           *)
(***************************************************************************)
EXTENDS StreamBuffer

VARIABLES
    pending,                    \* xDataFramePending
    uEarliestClusterTimestamp,  \* timestamp of the last cluster popped
    arrivals,                   \* history: how many frames were added
    popped                      \* history: what the last pop handed out

vars == <<pending, uEarliestClusterTimestamp, arrivals, popped>>

Init ==
    /\ pending = <<>>
    /\ uEarliestClusterTimestamp = 0
    /\ arrivals = 0
    /\ popped = {}

Kvs_streamAddDataFrame(f) ==
    /\ f.id = arrivals + 1
    /\ pending' = Inserted(pending, uEarliestClusterTimestamp, f)
    /\ arrivals' = arrivals + 1
    /\ UNCHANGED <<uEarliestClusterTimestamp, popped>>

Kvs_streamPop ==
    /\ pending # <<>>
    /\ pending' = Tail(pending)
    /\ uEarliestClusterTimestamp' = EarliestAfterPop(pending, uEarliestClusterTimestamp)
    /\ popped' = {Head(pending).frame}
    /\ UNCHANGED arrivals

Next == (\E f \in DataFrameIn : Kvs_streamAddDataFrame(f)) \/ Kvs_streamPop

Spec == Init /\ [][Next]_vars

-----------------------------------------------------------------------------
(* The stream holds well-formed frames and headers; a timecode is never    *)
(* negative, whichever way the clock runs between a block and its cluster. *)
TypeOK ==
    /\ pending \in Seq(DataFrame)
    /\ uEarliestClusterTimestamp \in Nat
    /\ arrivals \in Nat
    /\ popped \subseteq DataFrameIn

(* The list stays in the order frames must go out in, whatever the order   *)
(* in which two tracks deliver them (Kvs_streamAddDataFrame).              *)
PendingInSendOrder == InSendOrder(pending)

(* No header goes stale: after any number of insertions in front of,       *)
(* between and behind clusters, and of pops, each pending block's timecode *)
(* is relative to the cluster it will follow on the wire.                  *)
PendingTimecodesCurrent == TimecodesCurrent(pending, uEarliestClusterTimestamp)

(* The stream is the queue its users think of: what Pop returns is always  *)
(* the frame that is first among all those waiting.                        *)
Queue == INSTANCE FrameQueue WITH
    Frame <- DataFrameIn,
    queued <- {pending[i].frame : i \in DOMAIN pending}
ImplementsQueue == Queue!Spec
=============================================================================
