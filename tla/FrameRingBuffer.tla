-------------------------- MODULE FrameRingBuffer --------------------------
(***************************************************************************)
(* The frame ring buffer that the WebRTC sample shares between its capture *)
(* thread and its senders (app/frame-ring-buffer).  Every call works under *)
(* the buffer's lock and is one step, except that FrameRingBuffer_getFrame *)
(* looks into the key before it takes the lock.                            *)
(*                                                                         *)
(* A key handle is a pointer to the key inside the slot of its frame.      *)
(***************************************************************************)
EXTENDS Integers, Sequences, SequencesExt, FiniteSets

CONSTANTS
    uCapacity,      \* slots that may be in use
    UINT16_MAX,     \* largest value of a uint16_t
    FrameLen,       \* lengths a frame may have
    MemLimit,       \* limits of the drop-oldest policy
    MaxFrames       \* bound: frames enqueued

ASSUME FrameRingBufferAssumption ==
    /\ uCapacity \in Nat \ {0} /\ UINT16_MAX \in Nat
    /\ uCapacity < UINT16_MAX       \* uMaxSerialNumber would be 0
    /\ FrameLen \subseteq Nat \ {0} /\ MemLimit \subseteq Nat
    /\ MaxFrames \in Nat

eDontDrop == -1                     \* the policy without a limit

uSize == uCapacity + 1              \* one slot more, always unused
Slot == 0..(uSize - 1)

\* The largest multiple of uSize: the serial number of a frame gives its slot.
uMaxSerialNumber == (UINT16_MAX \div uSize) * uSize

Frame == [id : 1..MaxFrames, uLen : FrameLen]
NoFrame == [id |-> 0, uLen |-> 0]
Empty == [frame |-> NoFrame, uSerialNumber |-> 0]       \* all bytes zero

VARIABLES
    ring,           \* pBuf, uHeadIdx, uTailIdx and xStat; destroyed is history:
                    \* how often the destructor was called on each frame
    uNextSerialNumber,
    xDropFramePolicy,
    enqueued,       \* history: the frames enqueued so far, by number
    key,            \* history: the slot the key handle of each frame points to
    reader          \* a sender in FrameRingBuffer_getFrame, and what it got

vars == <<ring, uNextSerialNumber, xDropFramePolicy, enqueued, key, reader>>

Idle == [at |-> "idle", asked |-> 0, got |-> 0]

Init ==
    /\ ring = [pBuf |-> [i \in Slot |-> Empty], uHeadIdx |-> 0, uTailIdx |-> 0,
               used |-> 0, free |-> uCapacity, sum |-> 0,
               destroyed |-> [n \in 1..MaxFrames |-> 0]]
    /\ uNextSerialNumber = 0
    /\ xDropFramePolicy = eDontDrop
    /\ enqueued = 0
    /\ key = [n \in 1..MaxFrames |-> 0]
    /\ reader = Idle

NextSlot(i) == IF i + 1 >= uSize THEN 0 ELSE i + 1

-----------------------------------------------------------------------------
(* What the locked helpers do to the ring.                                 *)

\* prvDequeue of a ring that is not empty: destructor, memset, statistics.
prvDequeue(r) ==
    [r EXCEPT
        !.destroyed[r.pBuf[r.uTailIdx].frame.id] = @ + 1,
        !.pBuf[r.uTailIdx] = Empty,
        !.uTailIdx = NextSlot(@),
        !.sum = @ - r.pBuf[r.uTailIdx].frame.uLen,
        !.free = @ + 1,
        !.used = @ - 1]

\* A plausible slip: a full ring is overwritten without destroying a frame.
prvEnqueue_NoRoom(r, f, serial) ==
    [r EXCEPT
        !.pBuf[r.uHeadIdx] = [frame |-> f, uSerialNumber |-> serial],
        !.uHeadIdx = NextSlot(@),
        !.sum = @ + f.uLen,
        !.free = @ - 1,
        !.used = @ + 1]

\* prvEnqueue: the oldest frame makes room in a full ring.
prvEnqueue(r, f, serial) ==
    LET room == IF r.free = 0 THEN prvDequeue(r) ELSE r
    IN  [room EXCEPT
            !.pBuf[room.uHeadIdx] = [frame |-> f, uSerialNumber |-> serial],
            !.uHeadIdx = NextSlot(@),
            !.sum = @ + f.uLen,
            !.free = @ - 1,
            !.used = @ + 1]

\* The ring after its oldest k frames have been dropped.
AfterDrops(r) ==
    LET after[k \in 0..r.used] == IF k = 0 THEN r ELSE prvDequeue(after[k - 1])
    IN  after

\* A plausible slip: the limit itself is too much.
prvApplyPolicy_DropsAtLimit(r, policy) ==
    LET enough(k) == policy = eDontDrop \/ k = r.used \/ AfterDrops(r)[k].sum < policy
    IN  AfterDrops(r)[Min({k \in 0..r.used : enough(k)})]

\* prvApplyPolicy: drop the oldest while the sum exceeds the limit.
prvApplyPolicy(r, policy) ==
    LET enough(k) == policy = eDontDrop \/ k = r.used \/ AfterDrops(r)[k].sum <= policy
    IN  AfterDrops(r)[Min({k \in 0..r.used : enough(k)})]

\* A plausible slip: the range is taken for continuous at all times.
Searched_OneRange(r) ==
    r.uTailIdx .. (IF r.uHeadIdx = 0 THEN uCapacity ELSE r.uHeadIdx - 1)

\* The indices prvFindFrame looks at: one range, or two when frames wrap.
Searched(r) ==
    LET latest == IF r.uHeadIdx = 0 THEN uCapacity ELSE r.uHeadIdx - 1
    IN  IF r.used = 0 THEN {}
        ELSE IF latest >= r.uTailIdx THEN r.uTailIdx..latest
        ELSE (0..latest) \cup (r.uTailIdx..uCapacity)

\* prvFindFrame for the key in slot k: the slots it may answer, none or one.
prvFindFrame(r, k) ==
    LET serial == r.pBuf[k].uSerialNumber
        idx == serial % uSize
    IN  {i \in {idx} \cap Searched(r) : r.pBuf[i].uSerialNumber = serial}

-----------------------------------------------------------------------------
(* The operations.                                                         *)

FrameRingBuffer_enqueue(len) ==
    /\ enqueued < MaxFrames
    /\ enqueued' = enqueued + 1
    /\ LET f == [id |-> enqueued + 1, uLen |-> len]
           r == prvEnqueue(ring, f, uNextSerialNumber)
       IN  /\ ring' = prvApplyPolicy(r, xDropFramePolicy)
           /\ key' = [key EXCEPT ![f.id] = ring.uHeadIdx]
    /\ uNextSerialNumber' = IF uNextSerialNumber + 1 = uMaxSerialNumber
                            THEN 0 ELSE uNextSerialNumber + 1
    /\ UNCHANGED <<xDropFramePolicy, reader>>

FrameRingBuffer_dequeue ==
    /\ ring.used > 0
    /\ ring' = prvDequeue(ring)
    /\ UNCHANGED <<uNextSerialNumber, xDropFramePolicy, enqueued, key, reader>>

FrameRingBuffer_setDropFramePolicy(policy) ==
    /\ xDropFramePolicy' = policy
    /\ ring' = prvApplyPolicy(ring, policy)
    /\ UNCHANGED <<uNextSerialNumber, enqueued, key, reader>>

\* FrameRingBuffer_getFrame with the key handle of frame n.  Without the lock,
\* the pointer to the buffer in the slot is compared with NULL ...
GetFrame(n) ==
    /\ reader.at = "idle" /\ n <= enqueued
    /\ reader' = IF ring.pBuf[key[n]].frame = NoFrame
                 THEN Idle
                 ELSE [at |-> "load", asked |-> n, got |-> 0]
    /\ UNCHANGED <<ring, uNextSerialNumber, xDropFramePolicy, enqueued, key>>

\* ... and used; a build that reads it again may find NULL by then.
LoadBuffer ==
    /\ reader.at = "load"
    /\ \/ reader' = [reader EXCEPT !.at = "lock"]
       \/ /\ ring.pBuf[key[reader.asked]].frame = NoFrame
          /\ reader' = [reader EXCEPT !.at = "crashed"]
    /\ UNCHANGED <<ring, uNextSerialNumber, xDropFramePolicy, enqueued, key>>

\* The rest is done with the lock.
FindFrame ==
    /\ reader.at = "lock"
    /\ LET found == prvFindFrame(ring, key[reader.asked])
       IN  reader' = [reader EXCEPT
                        !.at = "done",
                        !.got = IF found = {} THEN 0
                                ELSE ring.pBuf[CHOOSE i \in found : TRUE].frame.id]
    /\ UNCHANGED <<ring, uNextSerialNumber, xDropFramePolicy, enqueued, key>>

Return ==
    /\ reader.at = "done"
    /\ reader' = Idle
    /\ UNCHANGED <<ring, uNextSerialNumber, xDropFramePolicy, enqueued, key>>

Next ==
    /\ reader.at # "crashed"
    /\ \/ \E len \in FrameLen : FrameRingBuffer_enqueue(len)
       \/ FrameRingBuffer_dequeue
       \/ \E m \in MemLimit \cup {eDontDrop} : FrameRingBuffer_setDropFramePolicy(m)
       \/ \E n \in 1..MaxFrames : GetFrame(n)
       \/ LoadBuffer
       \/ FindFrame
       \/ Return

Spec == Init /\ [][Next]_vars

-----------------------------------------------------------------------------
InUse == {i \in Slot : ring.pBuf[i].frame # NoFrame}

(* Indices and serial numbers are those of slots and of a uint16_t.        *)
TypeOK ==
    /\ ring.pBuf \in [Slot -> [frame : Frame \cup {NoFrame}, uSerialNumber : 0..UINT16_MAX]]
    /\ ring.uHeadIdx \in Slot /\ ring.uTailIdx \in Slot
    /\ ring.used \in 0..uCapacity /\ ring.free \in 0..uCapacity /\ ring.sum \in Nat
    /\ uNextSerialNumber \in 0..UINT16_MAX
    /\ xDropFramePolicy \in MemLimit \cup {eDontDrop}
    /\ enqueued \in 0..MaxFrames
    /\ key \in [1..MaxFrames -> Slot]
    /\ reader.at \in {"idle", "load", "lock", "done", "crashed"}

(* The key of a frame in the buffer finds it, wherever the ring and the    *)
(* serial numbers have wrapped (prvFindFrame, uMaxSerialNumber); that of   *)
(* one that has left finds nothing or, once its slot was used again, a     *)
(* newer frame there, never an older one.                                  *)
LiveKeyFinds ==
    /\ \A i \in InUse : prvFindFrame(ring, key[ring.pBuf[i].frame.id]) = {i}
    /\ reader.at = "done" => reader.got = 0 \/ reader.got >= reader.asked

(* The statistics that decide when to drop are those of the frames held,   *)
(* and so do they free each frame exactly once: a frame that left the      *)
(* buffer was destroyed, one inside it was not.                            *)
EachFrameDestroyedOnce ==
    /\ ring.used = Cardinality(InUse) /\ ring.used + ring.free = uCapacity
    /\ \A n \in 1..enqueued :
          ring.destroyed[n] = IF \E i \in InUse : ring.pBuf[i].frame.id = n THEN 0 ELSE 1

(* The buffer is a queue that drops the oldest: no frame is dropped that   *)
(* would have fitted, none is kept beyond the limit.                       *)
Live == [k \in 1..ring.used |-> ring.pBuf[(ring.uTailIdx + k - 1) % uSize].frame]
Queue == INSTANCE DropOldestQueue WITH
    Capacity <- uCapacity, Limit <- MemLimit \cup {eDontDrop},
    live <- Live, limit <- xDropFramePolicy
ImplementsDropOldest == Queue!Spec
=============================================================================
