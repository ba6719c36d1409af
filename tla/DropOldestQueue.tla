-------------------------- MODULE DropOldestQueue --------------------------
(***************************************************************************)
(* What the frame ring buffer promises, without slots, indices, serial     *)
(* numbers or statistics: a queue of at most Capacity frames, kept within  *)
(* a memory limit by dropping the oldest frames, and no more than needed.  *)
(***************************************************************************)
EXTENDS Integers, Sequences, SequencesExt

CONSTANTS Capacity, Frame, Limit

VARIABLES
    live,       \* the frames held, oldest first
    limit       \* the memory limit in force

vars == <<live, limit>>

\* The memory of the last k frames of q, for each k.
Memory(q) ==
    LET last[k \in 0..Len(q)] == IF k = 0 THEN 0 ELSE last[k - 1] + q[Len(q) - k + 1].uLen
    IN  last

\* What is left of q: its longest suffix within m, everything for a negative m.
Suffix(q, k) == SubSeq(q, k + 1, Len(q))
KeptWithin(q, m) ==
    IF m < 0 THEN q
    ELSE Suffix(q, Min({k \in 0..Len(q) : Memory(q)[Len(q) - k] <= m}))

Init == live = <<>> /\ limit = -1

Enqueue(f) ==
    /\ live' = KeptWithin(Append(IF Len(live) = Capacity THEN Tail(live) ELSE live, f), limit)
    /\ UNCHANGED limit

Dequeue ==
    /\ live # <<>>
    /\ live' = Tail(live)
    /\ UNCHANGED limit

SetLimit(m) ==
    /\ limit' = m
    /\ live' = KeptWithin(live, m)

Next == (\E f \in Frame : Enqueue(f)) \/ Dequeue \/ \E m \in Limit : SetLimit(m)

Spec == Init /\ [][Next]_vars
=============================================================================
