----------------------------- MODULE FrameQueue -----------------------------
(***************************************************************************)
(* What a stream promises its users, without lists, headers or timecodes:  *)
(* a bag of frames from which Pop takes the one that is first in a fixed   *)
(* order.  Earlier timestamps come first.  At one instant video precedes   *)
(* audio, audio frames keep their order of arrival, and video frames, each *)
(* linked in front of the frames it ties with, leave in the reverse of it. *)
(***************************************************************************)
EXTENDS Integers

CONSTANT Frame      \* the frames, numbered by arrival in their field id

VARIABLES
    queued,     \* the frames waiting
    arrivals,   \* how many frames have been added
    popped      \* the frame the last Pop returned; {} before the first

vars == <<queued, arrivals, popped>>

First(a, b) ==
    \/ a.uTimestampMs < b.uTimestampMs
    \/ /\ a.uTimestampMs = b.uTimestampMs
       /\ \/ a.xTrackType = "TRACK_VIDEO" /\ b.xTrackType = "TRACK_AUDIO"
          \/ a.xTrackType = "TRACK_VIDEO" /\ b.xTrackType = "TRACK_VIDEO" /\ a.id > b.id
          \/ a.xTrackType = "TRACK_AUDIO" /\ b.xTrackType = "TRACK_AUDIO" /\ a.id < b.id

Init == queued = {} /\ arrivals = 0 /\ popped = {}

Add(f) ==
    /\ f.id = arrivals + 1
    /\ arrivals' = arrivals + 1
    /\ queued' = queued \cup {f}
    /\ UNCHANGED popped

Pop(f) ==
    /\ f \in queued
    /\ \A g \in queued \ {f} : First(f, g)
    /\ queued' = queued \ {f}
    /\ popped' = {f}
    /\ UNCHANGED arrivals

Next == \E f \in Frame : Add(f) \/ Pop(f)

Spec == Init /\ [][Next]_vars
=============================================================================
