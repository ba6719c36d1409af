----------------------- MODULE FrameRingBufferProofs -----------------------
(***************************************************************************)
(* Theorems on FrameRingBuffer, for every capacity, every range of serial  *)
(* numbers that holds it, all lengths and limits.                          *)
(***************************************************************************)
EXTENDS FrameRingBuffer, FiniteSetTheorems, SequenceTheorems, TLAPS

-----------------------------------------------------------------------------
(* Numbers and remainders.                                                 *)

(* A non-empty set of numbers from 1..n has a least element.               *)
LEMMA LeastNat ==
    ASSUME NEW n \in Nat, NEW T, T \subseteq 1..n, T # {}
    PROVE  \E x \in T : \A y \in T : x <= y
<1>0. T \subseteq Nat
  OBVIOUS
<1>1. \E x \in T : \A y \in T : ~(<<y, x>> \in OpToRel(<, Nat))
  BY <1>0, NatLessThanWellFounded, WFMin
<1>2. \A x, y \in Nat : y < x => <<y, x>> \in OpToRel(<, Nat)
  BY DEF OpToRel
<1>3. \E x \in T : \A y \in T : ~(y < x)
  BY <1>0, <1>1, <1>2, Zenon
<1> QED BY <1>0, <1>3

(* A remainder is below the modulus, and the rest is a multiple of it.     *)
LEMMA ModRange ==
    ASSUME NEW a \in Int, NEW m \in Nat \ {0}
    PROVE  a % m \in 0..m-1 /\ \E q \in Int : a = m * q + (a % m)
<1>1. a % m \in 0..m - 1 /\ a \div m \in Int
  OBVIOUS
<1>2. a = m * (a \div m) + (a % m)
  OBVIOUS
<1> QED BY <1>1, <1>2

(* What is below the modulus is the remainder.                             *)
LEMMA ModUnique ==
    ASSUME NEW q \in Int, NEW r \in Nat, NEW m \in Nat \ {0}, r < m
    PROVE  (m * q + r) % m = r
BY Z3

(* Going on by less than the modulus wraps at most once.                   *)
LEMMA ModAdd ==
    ASSUME NEW a \in Int, NEW m \in Nat \ {0}, NEW d \in 0..m-1
    PROVE  (a + d) % m = IF (a % m) + d < m THEN (a % m) + d ELSE (a % m) + d - m
<1> DEFINE r == a % m
<1>1. PICK q \in Int : a = m*q + r
  BY ModRange
<1>2. r \in 0..m-1
  BY ModRange
<1> HIDE DEF r
<1>3. CASE r + d < m
  <2>1. a + d = m * q + (r + d)
    BY <1>1, <1>2
  <2>2. (m * q + (r + d)) % m = r + d
    BY <1>2, <1>3, ModUnique
  <2> QED BY <2>1, <2>2, <1>3 DEF r
<1>4. CASE r + d >= m
  <2>1. a + d = m * (q+1) + (r + d - m)
    BY <1>1, <1>2
  <2>2. r + d - m \in Nat /\ r + d - m < m /\ q + 1 \in Int
    BY <1>2, <1>4
  <2>3. (m * (q+1) + (r + d - m)) % m = r + d - m
    BY <2>2, ModUnique
  <2> QED BY <2>1, <2>3, <1>4, <1>2 DEF r
<1> QED BY <1>2, <1>3, <1>4

(* A multiple of the modulus in between changes nothing.                   *)
LEMMA ModMod ==
    ASSUME NEW a \in Int, NEW m \in Nat \ {0}, NEW k \in Nat \ {0}
    PROVE  (a % (k * m)) % m = a % m
<1> DEFINE n == k * m
           c == a % n
           r == c % m
<1>1. n \in Nat \ {0}
  OBVIOUS
<1> HIDE DEF n
<1>2. c \in 0..n-1 /\ \E q \in Int : a = n*q + c
  BY <1>1, ModRange
<1> HIDE DEF c
<1>3. r \in 0..m-1 /\ \E p \in Int : c = m * p + r
  <2>1. c \in Int
    BY <1>1, <1>2
  <2> QED BY <2>1, ModRange
<1> HIDE DEF r
<1>4. PICK q \in Int, p \in Int : a = n*q + c /\ c = m * p + r
  BY <1>2, <1>3
<1>5. k * q + p \in Int /\ a = m * (k * q + p) + r
  BY <1>2, <1>3, <1>4 DEF n
<1>6. (m * (k * q + p) + r) % m = r
  BY <1>3, <1>5, ModUnique
<1> QED BY <1>5, <1>6 DEF r, c, n

-----------------------------------------------------------------------------
(* The strengthening.  Frame n has a slot and a serial number whatever     *)
(* happened before it; the ring holds the last "used" of e frames, each in *)
(* its slot with its serial number, and nothing else.                      *)

SlotOf(n) == (n - 1) % uSize
SerialOf(n) == (n - 1) % uMaxSerialNumber
Held(r, e) == (e - r.used + 1)..e

Ring == [pBuf : [Slot -> [frame : Frame \cup {NoFrame}, uSerialNumber : 0..UINT16_MAX]],
         uHeadIdx : Slot, uTailIdx : Slot, used : 0..uCapacity, free : 0..uCapacity,
         sum : Nat, destroyed : [1..MaxFrames -> Nat]]

Indices(r, e) ==
    /\ r.used <= e /\ r.free = uCapacity - r.used
    /\ r.uHeadIdx = e % uSize
    /\ r.uTailIdx = (e - r.used) % uSize

Contents(r, e) ==
    /\ \A n \in Held(r, e) :
        /\ r.pBuf[SlotOf(n)].frame \in Frame /\ r.pBuf[SlotOf(n)].frame.id = n
        /\ r.pBuf[SlotOf(n)].uSerialNumber = SerialOf(n)
    /\ \A i \in Slot : r.pBuf[i] = Empty \/ \E n \in Held(r, e) : i = SlotOf(n)

Destroyed(r, e) ==
    \A n \in 1..MaxFrames : r.destroyed[n] = IF n <= e - r.used THEN 1 ELSE 0

(* The sum is that of the lengths: c[k] is the memory of the last k frames.*)
Summed(r, e) ==
    \E c \in [0..r.used -> Nat] :
        /\ c[0] = 0 /\ c[r.used] = r.sum
        /\ \A k \in 1..r.used : c[k] = c[k - 1] + r.pBuf[SlotOf(e - k + 1)].frame.uLen

Consistent(r, e) == r \in Ring /\ Indices(r, e) /\ Contents(r, e) /\ Destroyed(r, e) /\ Summed(r, e)

-----------------------------------------------------------------------------
(* Slots and serial numbers.                                               *)

LEMMA Whole ==
    /\ uMaxSerialNumber \in Nat \ {0} /\ uMaxSerialNumber <= UINT16_MAX
    /\ \E k \in Nat \ {0} : uMaxSerialNumber = k * uSize
<1>1. uSize \in Nat /\ uSize >= 2 /\ uCapacity = uSize - 1 /\ uSize <= UINT16_MAX /\ UINT16_MAX \in Nat
  BY FrameRingBufferAssumption DEF uSize
<1> DEFINE k == UINT16_MAX \div uSize
<1>2. k \in Int /\ UINT16_MAX % uSize \in 0..uSize - 1
  BY <1>1
<1>3. UINT16_MAX = uSize * k + (UINT16_MAX % uSize)
  BY <1>1
<1>4. uMaxSerialNumber = k * uSize
  BY DEF uMaxSerialNumber
<1> HIDE DEF k
<1>5. k \in Nat \ {0}
  BY <1>1, <1>2, <1>3
<1>6. k * uSize \in Nat \ {0} /\ k * uSize <= UINT16_MAX
  BY <1>1, <1>2, <1>3, <1>5
<1> QED BY <1>4, <1>5, <1>6

LEMMA Sizes ==
    /\ uSize \in Nat \ {0} /\ uSize >= 2 /\ uCapacity = uSize - 1
    /\ uMaxSerialNumber \in Nat \ {0} /\ uMaxSerialNumber <= UINT16_MAX
BY Whole, FrameRingBufferAssumption DEF uSize

LEMMA SlotIsSlot ==
    ASSUME NEW n \in Int
    PROVE  SlotOf(n) \in Slot /\ SerialOf(n) \in 0..UINT16_MAX /\ SlotOf(n) \in Nat /\ SerialOf(n) \in Nat
<1>0. n - 1 \in Int
  OBVIOUS
<1>1. SlotOf(n) \in 0..uSize - 1
  BY <1>0, Sizes, ModRange DEF SlotOf
<1>2. SerialOf(n) \in 0..uMaxSerialNumber - 1
  BY <1>0, Sizes, ModRange DEF SerialOf
<1> QED BY <1>1, <1>2, Sizes, FrameRingBufferAssumption DEF Slot

(* The slot of the next frame.                                             *)
LEMMA NextSlotIs ==
    ASSUME NEW e \in Nat
    PROVE  NextSlot(e % uSize) = (e + 1) % uSize /\ e % uSize = SlotOf(e + 1) /\ e % uSize \in Slot
<1>0. 1 \in 0..uSize - 1 /\ e \in Int
  BY Sizes
<1>1. (e + 1) % uSize = IF (e % uSize) + 1 < uSize THEN (e % uSize) + 1 ELSE (e % uSize) + 1 - uSize
  BY <1>0, Sizes, ModAdd
<1>2. e % uSize \in 0..uSize - 1
  BY <1>0, Sizes, ModRange
<1>3. (e + 1) - 1 = e
  OBVIOUS
<1> QED BY <1>1, <1>2, <1>3, Sizes DEF NextSlot, SlotOf, Slot

(* Fewer frames than slots in a row share none.                            *)
LEMMA SlotsDiffer ==
    ASSUME NEW n \in Int, NEW m \in Int, n < m, m - n < uSize
    PROVE  SlotOf(n) # SlotOf(m)
<1> DEFINE d == m - n
           a == n - 1
<1>1. d \in 0..uSize - 1 /\ d > 0 /\ a \in Int /\ m - 1 = a + d
  BY Sizes
<1> HIDE DEF d
<1>2. (a + d) % uSize = IF (a % uSize) + d < uSize THEN (a % uSize) + d ELSE (a % uSize) + d - uSize
  BY <1>1, Sizes, ModAdd
<1>3. a % uSize \in 0..uSize - 1
  BY <1>1, Sizes, ModRange
<1>4. (a + d) % uSize # a % uSize
  BY <1>1, <1>2, <1>3, Sizes
<1> QED BY <1>1, <1>4 DEF SlotOf, a

(* The serial number gives the slot back.                                  *)
LEMMA SerialGivesSlot ==
    ASSUME NEW n \in Int
    PROVE  SerialOf(n) % uSize = SlotOf(n)
<1>1. PICK k \in Nat \ {0} : uMaxSerialNumber = k * uSize
  BY Whole
<1>2. uSize \in Nat \ {0} /\ n - 1 \in Int
  BY Sizes
<1> QED BY <1>1, <1>2, ModMod DEF SerialOf, SlotOf

-----------------------------------------------------------------------------
(* The helpers keep the ring consistent.                                   *)

(* Dropping the oldest frame: its slot becomes empty, the tail is that of  *)
(* the next, and its length is the last one in the sum.                    *)
LEMMA DequeueKeeps ==
    ASSUME NEW r, NEW e \in 0..MaxFrames, Consistent(r, e), r.used > 0
    PROVE  Consistent(prvDequeue(r), e) /\ prvDequeue(r).used = r.used - 1
<1> DEFINE t == e - r.used + 1
           d == prvDequeue(r)
<1>1. /\ r \in Ring /\ r.used \in 1..uCapacity /\ r.used <= e /\ r.free = uCapacity - r.used
      /\ r.uHeadIdx = e % uSize /\ r.uTailIdx = (e - r.used) % uSize
  BY DEF Consistent, Ring, Indices
<1>2. /\ e \in Nat /\ e - r.used \in Nat /\ t \in Held(r, e) /\ t \in 1..MaxFrames
  BY <1>1, Sizes, FrameRingBufferAssumption DEF Held
<1>3. /\ r.uTailIdx = SlotOf(t) /\ r.uTailIdx \in Slot
      /\ NextSlot(r.uTailIdx) = (e - r.used + 1) % uSize /\ NextSlot(r.uTailIdx) \in Slot
  BY <1>1, <1>2, NextSlotIs, SlotIsSlot
<1>4. /\ r.pBuf[r.uTailIdx].frame \in Frame /\ r.pBuf[r.uTailIdx].frame.id = t
      /\ r.pBuf[r.uTailIdx].frame.uLen \in Nat
  BY <1>2, <1>3, FrameRingBufferAssumption DEF Consistent, Contents, Frame
<1>5. /\ d.pBuf = [r.pBuf EXCEPT ![r.uTailIdx] = Empty]
      /\ d.uHeadIdx = r.uHeadIdx /\ d.uTailIdx = NextSlot(r.uTailIdx)
      /\ d.sum = r.sum - r.pBuf[r.uTailIdx].frame.uLen
      /\ d.free = r.free + 1 /\ d.used = r.used - 1
      /\ d.destroyed = [r.destroyed EXCEPT ![t] = @ + 1]
  BY <1>1, <1>4 DEF prvDequeue, Ring
<1>6. d \in [pBuf : {d.pBuf}, uHeadIdx : {d.uHeadIdx}, uTailIdx : {d.uTailIdx}, used : {d.used},
             free : {d.free}, sum : {d.sum}, destroyed : {d.destroyed}]
  BY <1>1 DEF prvDequeue, Ring
<1> HIDE DEF d, t
(* The slots of the frames that stay are others.                           *)
<1>7. \A n \in Held(d, e) : n \in Held(r, e) /\ SlotOf(n) # SlotOf(t) /\ SlotOf(n) \in Slot
  <2> SUFFICES ASSUME NEW n \in Held(d, e) PROVE n \in Held(r, e) /\ SlotOf(n) # SlotOf(t) /\ SlotOf(n) \in Slot
    OBVIOUS
  <2>1. n \in Int /\ t \in Int /\ t < n /\ n - t < uSize /\ n \in Held(r, e)
    BY <1>1, <1>2, <1>5, Sizes DEF Held, t
  <2> QED BY <2>1, SlotsDiffer, SlotIsSlot
<1>8. \A n \in Held(d, e) : d.pBuf[SlotOf(n)] = r.pBuf[SlotOf(n)]
  BY <1>1, <1>3, <1>5, <1>7 DEF Ring
<1>9. Indices(d, e)
  BY <1>1, <1>2, <1>3, <1>5, Sizes DEF Indices
<1>10. Contents(d, e)
  <2>1. \A n \in Held(d, e) : /\ d.pBuf[SlotOf(n)].frame \in Frame /\ d.pBuf[SlotOf(n)].frame.id = n
                              /\ d.pBuf[SlotOf(n)].uSerialNumber = SerialOf(n)
    BY <1>7, <1>8 DEF Consistent, Contents
  <2>2. ASSUME NEW i \in Slot, d.pBuf[i] # Empty PROVE \E n \in Held(d, e) : i = SlotOf(n)
    <3>1. i # SlotOf(t) /\ d.pBuf[i] = r.pBuf[i]
      BY <1>1, <1>3, <1>5, <2>2 DEF Ring
    <3>2. PICK n \in Held(r, e) : i = SlotOf(n)
      BY <2>2, <3>1 DEF Consistent, Contents
    <3>3. n \in Held(d, e)
      BY <1>1, <1>2, <1>5, <3>1, <3>2 DEF Held, t
    <3> QED BY <3>2, <3>3
  <2> QED BY <2>1, <2>2 DEF Contents
<1>11. Destroyed(d, e)
  <2> SUFFICES ASSUME NEW n \in 1..MaxFrames PROVE d.destroyed[n] = IF n <= e - d.used THEN 1 ELSE 0
    BY DEF Destroyed
  <2>1. r.destroyed[n] = IF n <= e - r.used THEN 1 ELSE 0
    BY DEF Consistent, Destroyed
  <2>2. d.destroyed[n] = IF n = t THEN r.destroyed[n] + 1 ELSE r.destroyed[n]
    BY <1>1, <1>5 DEF Ring
  <2> QED BY <2>1, <2>2, <1>1, <1>2, <1>5, FrameRingBufferAssumption DEF t
<1>12. PICK c \in [0..r.used -> Nat] :
            /\ c[0] = 0 /\ c[r.used] = r.sum
            /\ \A k \in 1..r.used : c[k] = c[k - 1] + r.pBuf[SlotOf(e - k + 1)].frame.uLen
  BY DEF Consistent, Summed
<1>13. c[d.used] = d.sum
  <2>1. r.used \in 1..r.used /\ e - r.used + 1 = t
    BY <1>1, <1>2 DEF t
  <2>2. c[r.used] = c[r.used - 1] + r.pBuf[SlotOf(t)].frame.uLen
    BY <1>12, <2>1
  <2>3. c[r.used - 1] \in Nat /\ c[r.used] \in Nat
    BY <1>1, <1>12
  <2> QED BY <1>3, <1>4, <1>5, <1>12, <2>2, <2>3
<1>14. Summed(d, e)
  <2> DEFINE b == [k \in 0..d.used |-> c[k]]
  <2>1. b \in [0..d.used -> Nat] /\ b[0] = 0 /\ b[d.used] = d.sum
    BY <1>1, <1>5, <1>12, <1>13
  <2>2. ASSUME NEW k \in 1..d.used PROVE b[k] = b[k - 1] + d.pBuf[SlotOf(e - k + 1)].frame.uLen
    <3>1. k \in 1..r.used /\ k \in 0..d.used /\ k - 1 \in 0..d.used
      BY <1>1, <1>5
    <3>2. e - k + 1 \in Held(d, e)
      BY <1>1, <1>2, <1>5 DEF Held
    <3> QED BY <1>8, <1>12, <3>1, <3>2
  <2> QED BY <2>1, <2>2 DEF Summed
<1>15. d \in Ring
  <2>1. d.pBuf \in [Slot -> [frame : Frame \cup {NoFrame}, uSerialNumber : 0..UINT16_MAX]]
    BY <1>1, <1>5, FrameRingBufferAssumption DEF Ring, Empty
  <2>2. d.destroyed \in [1..MaxFrames -> Nat]
    <3>1. r.destroyed \in [1..MaxFrames -> Nat]
      BY <1>1 DEF Ring
    <3>2. r.destroyed[t] = 0
      <4>1. t \in 1..MaxFrames /\ ~(t <= e - r.used)
        BY <1>1, <1>2 DEF t
      <4> QED BY <4>1 DEF Consistent, Destroyed
    <3>3. d.destroyed = [r.destroyed EXCEPT ![t] = 1]
      BY <1>5, <3>2
    <3>4. \A n \in 1..MaxFrames : d.destroyed[n] = IF n = t THEN 1 ELSE r.destroyed[n]
      BY <3>1, <3>3
    <3>5. d.destroyed = [n \in 1..MaxFrames |-> d.destroyed[n]]
      BY <3>1, <3>3
    <3>6. ASSUME NEW n \in 1..MaxFrames PROVE d.destroyed[n] \in Nat
      <4>1. r.destroyed[n] \in Nat
        BY <3>1
      <4>2. CASE n = t
        BY <3>4, <4>2
      <4>3. CASE n # t
        BY <3>4, <4>1, <4>3
      <4> QED BY <4>2, <4>3
    <3> QED BY <3>5, <3>6
  <2>3. d.sum \in Nat
    BY <1>1, <1>5, <1>12, <1>13
  <2>4. d.used \in 0..uCapacity /\ d.free \in 0..uCapacity
    BY <1>1, <1>5, Sizes
  <2>5. d.uHeadIdx \in Slot /\ d.uTailIdx \in Slot
    BY <1>1, <1>3, <1>5 DEF Ring
  <2> QED BY <1>6, <2>1, <2>2, <2>3, <2>4, <2>5 DEF Ring
<1> QED BY <1>5, <1>9, <1>10, <1>11, <1>14, <1>15 DEF Consistent, d

(* A frame in the next slot, which is free when there is room.             *)
Put(r, e, f) ==
    [r EXCEPT !.pBuf[r.uHeadIdx] = [frame |-> f, uSerialNumber |-> SerialOf(e + 1)],
              !.uHeadIdx = NextSlot(@),
              !.sum = @ + f.uLen,
              !.free = @ - 1,
              !.used = @ + 1]

LEMMA PutKeeps ==
    ASSUME NEW r, NEW e \in Nat, e + 1 <= MaxFrames, Consistent(r, e), r.used < uCapacity,
           NEW f \in Frame, f.id = e + 1,
           NEW p, p = Put(r, e, f)
    PROVE  Consistent(p, e + 1)
<1>1. /\ r \in Ring /\ r.used \in 0..uCapacity /\ r.used <= e /\ r.free = uCapacity - r.used
      /\ r.uHeadIdx = e % uSize /\ r.uTailIdx = (e - r.used) % uSize
  BY DEF Consistent, Ring, Indices
<1>2. /\ r.uHeadIdx = SlotOf(e + 1) /\ r.uHeadIdx \in Slot
      /\ NextSlot(r.uHeadIdx) = (e + 1) % uSize /\ NextSlot(r.uHeadIdx) \in Slot
  <2>1. (e + 1) % uSize \in Slot
    BY NextSlotIs
  <2> QED BY <1>1, <2>1, NextSlotIs
<1>3. SerialOf(e + 1) \in 0..UINT16_MAX /\ f.uLen \in Nat
  <2>1. e + 1 \in Int
    OBVIOUS
  <2>2. SerialOf(e + 1) \in 0..UINT16_MAX
    BY <2>1, SlotIsSlot
  <2> QED BY <2>2, FrameRingBufferAssumption DEF Frame
<1> DEFINE new == [frame |-> f, uSerialNumber |-> SerialOf(e + 1)]
<1>4. /\ p.pBuf = [r.pBuf EXCEPT ![r.uHeadIdx] = new]
      /\ p.uHeadIdx = NextSlot(r.uHeadIdx) /\ p.uTailIdx = r.uTailIdx
      /\ p.sum = r.sum + f.uLen
      /\ p.free = r.free - 1 /\ p.used = r.used + 1
      /\ p.destroyed = r.destroyed
  BY <1>1 DEF Ring, Put
<1>5. p \in [pBuf : {p.pBuf}, uHeadIdx : {p.uHeadIdx}, uTailIdx : {p.uTailIdx}, used : {p.used},
             free : {p.free}, sum : {p.sum}, destroyed : {p.destroyed}]
  BY <1>1 DEF Ring, Put
<1>6. new.frame = f /\ new.uSerialNumber = SerialOf(e + 1)
      /\ new \in [frame : Frame \cup {NoFrame}, uSerialNumber : 0..UINT16_MAX]
  BY <1>3
<1> HIDE DEF new
<1>7. p.pBuf[SlotOf(e + 1)] = new
  BY <1>1, <1>2, <1>4 DEF Ring
<1>8. \A n \in Held(p, e + 1) : n = e + 1 \/ /\ n \in Held(r, e) /\ SlotOf(n) \in Slot
                                             /\ SlotOf(n) # SlotOf(e + 1)
  <2> SUFFICES ASSUME NEW n \in Held(p, e + 1), n # e + 1
               PROVE  n \in Held(r, e) /\ SlotOf(n) \in Slot /\ SlotOf(n) # SlotOf(e + 1)
    OBVIOUS
  <2>1. n \in Int /\ e + 1 \in Int /\ n < e + 1 /\ (e + 1) - n < uSize /\ n \in Held(r, e)
    <3>1. p.used = r.used + 1
      BY <1>4
    <3>2. n \in Int /\ (e + 1) - (r.used + 1) + 1 <= n /\ n <= e + 1
      BY <1>1, <3>1 DEF Held
    <3> QED BY <1>1, <3>2, Sizes DEF Held
  <2> QED BY <2>1, SlotsDiffer, SlotIsSlot
<1>9. \A n \in Held(r, e) : SlotOf(n) # SlotOf(e + 1)
  <2> SUFFICES ASSUME NEW n \in Held(r, e) PROVE SlotOf(n) # SlotOf(e + 1)
    OBVIOUS
  <2>1. n \in Int /\ e + 1 \in Int /\ n < e + 1 /\ (e + 1) - n < uSize
    BY <1>1, Sizes DEF Held
  <2> QED BY <2>1, SlotsDiffer
<1>10. \A i \in Slot : i # SlotOf(e + 1) => p.pBuf[i] = r.pBuf[i]
  BY <1>1, <1>2, <1>4 DEF Ring
<1>11. Indices(p, e + 1)
  <2>1. (e + 1) - p.used = e - r.used
    BY <1>1, <1>4
  <2> QED BY <1>1, <1>2, <1>4, <2>1, Sizes DEF Indices
<1>12. Contents(p, e + 1)
  <2>1. ASSUME NEW n \in Held(p, e + 1)
        PROVE  /\ p.pBuf[SlotOf(n)].frame \in Frame /\ p.pBuf[SlotOf(n)].frame.id = n
               /\ p.pBuf[SlotOf(n)].uSerialNumber = SerialOf(n)
    <3>1. CASE n = e + 1
      BY <3>1, <1>6, <1>7
    <3>2. CASE n # e + 1
      BY <3>2, <1>8, <1>10 DEF Consistent, Contents
    <3> QED BY <3>1, <3>2
  <2>2. ASSUME NEW i \in Slot, p.pBuf[i] # Empty PROVE \E n \in Held(p, e + 1) : i = SlotOf(n)
    <3>1. CASE i = SlotOf(e + 1)
      <4>1. e + 1 \in Held(p, e + 1)
        BY <1>1, <1>4 DEF Held
      <4> QED BY <3>1, <4>1
    <3>2. CASE i # SlotOf(e + 1)
      <4>1. PICK n \in Held(r, e) : i = SlotOf(n)
        BY <2>2, <3>2, <1>10 DEF Consistent, Contents
      <4>2. n \in Held(p, e + 1)
        BY <1>1, <1>4 DEF Held
      <4> QED BY <4>1, <4>2
    <3> QED BY <3>1, <3>2
  <2> QED BY <2>1, <2>2 DEF Contents
<1>13. Destroyed(p, e + 1)
  <2>1. (e + 1) - p.used = e - r.used
    BY <1>1, <1>4
  <2> QED BY <1>4, <2>1 DEF Consistent, Destroyed
<1>14. Summed(p, e + 1)
  <2>1. PICK c \in [0..r.used -> Nat] :
            /\ c[0] = 0 /\ c[r.used] = r.sum
            /\ \A k \in 1..r.used : c[k] = c[k - 1] + r.pBuf[SlotOf(e - k + 1)].frame.uLen
    BY DEF Consistent, Summed
  <2> DEFINE b == [k \in 0..p.used |-> IF k = 0 THEN 0 ELSE c[k - 1] + f.uLen]
  <2>2. b \in [0..p.used -> Nat] /\ b[0] = 0 /\ b[p.used] = p.sum
    <3>1. ASSUME NEW k \in 0..p.used PROVE b[k] \in Nat
      BY <1>1, <1>3, <1>4
    <3>2. 0 \in 0..p.used /\ p.used \in 0..p.used /\ p.used # 0 /\ p.used - 1 = r.used
      BY <1>1, <1>4
    <3> QED BY <3>1, <3>2, <2>1, <1>4
  <2>3. ASSUME NEW k \in 1..p.used
        PROVE  b[k] = b[k - 1] + p.pBuf[SlotOf((e + 1) - k + 1)].frame.uLen
    <3>1. /\ k \in 0..p.used /\ k - 1 \in 0..p.used /\ k \in Nat /\ k # 0 /\ k <= r.used + 1
      BY <1>1, <1>4
    <3>2. CASE k = 1
      <4>1. (e + 1) - k + 1 = e + 1
        BY <3>2
      <4>2. p.pBuf[SlotOf((e + 1) - k + 1)].frame.uLen = f.uLen
        BY <4>1, <1>6, <1>7
      <4> QED BY <3>1, <3>2, <4>2, <2>1, <1>3
    <3>3. CASE k # 1
      <4>1. /\ k - 1 \in 1..r.used /\ (e + 1) - k + 1 = e - (k - 1) + 1
            /\ e - (k - 1) + 1 \in Held(r, e)
        BY <3>1, <3>3, <1>1 DEF Held
      <4>2. c[k - 1] = c[(k - 1) - 1] + r.pBuf[SlotOf(e - (k - 1) + 1)].frame.uLen
        BY <2>1, <4>1
      <4>3. /\ SlotOf(e - (k - 1) + 1) \in Slot /\ SlotOf(e - (k - 1) + 1) # SlotOf(e + 1)
        <5>1. e - (k - 1) + 1 \in Int
          BY <3>1
        <5> QED BY <4>1, <5>1, <1>9, SlotIsSlot
      <4>4. /\ p.pBuf[SlotOf(e - (k - 1) + 1)] = r.pBuf[SlotOf(e - (k - 1) + 1)]
            /\ r.pBuf[SlotOf(e - (k - 1) + 1)].frame.uLen \in Nat
        BY <4>1, <4>3, <1>10, FrameRingBufferAssumption DEF Consistent, Contents, Frame
      <4>5. /\ (k - 1) - 1 \in 0..r.used /\ c[(k - 1) - 1] \in Nat
            /\ b[k] = c[k - 1] + f.uLen /\ b[k - 1] = c[(k - 1) - 1] + f.uLen
        <5>1. (k - 1) - 1 \in 0..r.used /\ k - 1 # 0
          BY <1>1, <4>1
        <5> QED BY <3>1, <5>1, <2>1
      <4>6. p.pBuf[SlotOf((e + 1) - k + 1)].frame.uLen = r.pBuf[SlotOf(e - (k - 1) + 1)].frame.uLen
        BY <4>1, <4>4
      <4> HIDE DEF b
      <4> QED BY <4>2, <4>4, <4>5, <4>6, <1>3, SMTT(30)
    <3> QED BY <3>2, <3>3
  <2> QED BY <2>2, <2>3 DEF Summed
<1>15. p \in Ring
  <2>1. p.pBuf \in [Slot -> [frame : Frame \cup {NoFrame}, uSerialNumber : 0..UINT16_MAX]]
    BY <1>1, <1>2, <1>4, <1>6 DEF Ring
  <2>2. p.destroyed \in [1..MaxFrames -> Nat] /\ r.sum \in Nat
    BY <1>1, <1>4 DEF Ring
  <2>3. p.sum \in Nat
    BY <1>3, <1>4, <2>2
  <2>4. p.used \in 0..uCapacity /\ p.free \in 0..uCapacity
    BY <1>1, <1>4, Sizes
  <2>5. p.uHeadIdx \in Slot /\ p.uTailIdx \in Slot
    BY <1>1, <1>2, <1>4 DEF Ring
  <2> QED BY <1>5, <2>1, <2>2, <2>3, <2>4, <2>5 DEF Ring
<1> QED BY <1>11, <1>12, <1>13, <1>14, <1>15 DEF Consistent

(* A ring that is full drops the oldest frame first.                       *)
LEMMA EnqueueKeeps ==
    ASSUME NEW r, NEW e \in Nat, e + 1 <= MaxFrames, Consistent(r, e),
           NEW f \in Frame, f.id = e + 1
    PROVE  Consistent(prvEnqueue(r, f, SerialOf(e + 1)), e + 1)
<1> DEFINE room == IF r.free = 0 THEN prvDequeue(r) ELSE r
<1>1. r.used \in 0..uCapacity /\ r.free = uCapacity - r.used /\ e \in 0..MaxFrames
  BY FrameRingBufferAssumption DEF Consistent, Ring, Indices
<1>2. Consistent(room, e) /\ room.used < uCapacity
  <2>1. CASE r.free = 0
    <3>1. r.used = uCapacity /\ r.used > 0
      BY <1>1, <2>1, Sizes
    <3>2. Consistent(prvDequeue(r), e) /\ prvDequeue(r).used = r.used - 1
      BY <1>1, <3>1, DequeueKeeps
    <3> QED BY <2>1, <3>1, <3>2, Sizes
  <2>2. CASE r.free # 0
    BY <1>1, <2>2, Sizes
  <2> QED BY <2>1, <2>2
<1>3. prvEnqueue(r, f, SerialOf(e + 1)) = Put(room, e, f)
  BY DEF prvEnqueue, Put
<1> HIDE DEF room
<1> QED BY <1>2, <1>3, PutKeeps

(* The loop of the policy: the recursive function exists, and each of its  *)
(* values is that before with the oldest frame dropped.                    *)
LEMMA DropsExist ==
    ASSUME NEW r, NEW n \in Nat
    PROVE  \E g : g = [k \in 0..n |-> IF k = 0 THEN r ELSE prvDequeue(g[k - 1])]
<1> DEFINE Has(m) == \E g : g = [k \in 0..m |-> IF k = 0 THEN r ELSE prvDequeue(g[k - 1])]
           T == {m \in 1..n : ~Has(m)}
<1>1. Has(0)
  <2> DEFINE g == [k \in 0..0 |-> r]
  <2>1. g = [k \in 0..0 |-> IF k = 0 THEN r ELSE prvDequeue(g[k - 1])]
    OBVIOUS
  <2> QED BY <2>1
<1>2. ASSUME NEW m \in 1..n, Has(m - 1) PROVE Has(m)
  <2>1. PICK g : g = [k \in 0..m - 1 |-> IF k = 0 THEN r ELSE prvDequeue(g[k - 1])]
    BY <1>2
  <2> DEFINE h == [k \in 0..m |-> IF k = m THEN prvDequeue(g[m - 1]) ELSE g[k]]
  <2>2. ASSUME NEW k \in 0..m PROVE h[k] = IF k = 0 THEN r ELSE prvDequeue(h[k - 1])
    <3>1. CASE k = m
      <4>1. m - 1 \in 0..m /\ m - 1 # m /\ m # 0
        OBVIOUS
      <4>2. h[m - 1] = g[m - 1] /\ h[m] = prvDequeue(g[m - 1])
        BY <4>1
      <4> QED BY <3>1, <4>1, <4>2
    <3>2. CASE k # m /\ k # 0
      <4>1. k \in 0..m - 1 /\ k - 1 \in 0..m /\ k - 1 # m
        BY <3>2
      <4>2. h[k] = g[k] /\ h[k - 1] = g[k - 1]
        BY <3>2, <4>1
      <4>3. g[k] = prvDequeue(g[k - 1])
        BY <2>1, <3>2, <4>1
      <4> QED BY <3>2, <4>2, <4>3
    <3>3. CASE k # m /\ k = 0
      <4>1. 0 \in 0..m - 1 /\ g[0] = r
        BY <2>1
      <4> QED BY <3>3, <4>1
    <3> QED BY <3>1, <3>2, <3>3
  <2> QED BY <2>2
<1>3. CASE T = {}
  <2>1. Has(n)
    <3> HIDE DEF Has
    <3> QED BY <1>1, <1>3
  <2> QED BY <2>1
<1>4. CASE T # {}
  <2>1. PICK m \in T : \A x \in T : m <= x
    <3> HIDE DEF Has
    <3>1. T \subseteq 1..n
      OBVIOUS
    <3> HIDE DEF T
    <3> QED BY <1>4, <3>1, LeastNat
  <2> HIDE DEF Has
  <2>2. m \in 1..n /\ (m - 1 = 0 \/ m - 1 \in 1..n) /\ m - 1 \notin T
    BY <2>1
  <2> QED BY <1>1, <1>2, <2>1, <2>2
<1> QED BY <1>3, <1>4

LEMMA DropsAre ==
    ASSUME NEW r, r.used \in Nat
    PROVE  AfterDrops(r) = [k \in 0..r.used |-> IF k = 0 THEN r ELSE prvDequeue(AfterDrops(r)[k - 1])]
BY DropsExist DEF AfterDrops

LEMMA DropsKeep ==
    ASSUME NEW r, NEW e \in 0..MaxFrames, Consistent(r, e)
    PROVE  \A k \in 0..r.used : Consistent(AfterDrops(r)[k], e) /\ AfterDrops(r)[k].used = r.used - k
<1> DEFINE g == AfterDrops(r)
           n == r.used
           Kept(k) == Consistent(g[k], e) /\ g[k].used = n - k
           T == {k \in 1..n : ~Kept(k)}
<1>1. n \in Nat
  BY DEF Consistent, Ring
<1>2. g = [k \in 0..n |-> IF k = 0 THEN r ELSE prvDequeue(g[k - 1])]
  BY <1>1, DropsAre
<1> HIDE DEF g, n
<1>3. Kept(0)
  <2>1. g[0] = r
    BY <1>1, <1>2
  <2> QED BY <1>1, <2>1 DEF n
<1>4. ASSUME NEW k \in 1..n, Kept(k - 1) PROVE Kept(k)
  <2>1. g[k - 1].used = n - (k - 1) /\ g[k - 1].used > 0 /\ Consistent(g[k - 1], e)
    BY <1>1, <1>4
  <2>2. Consistent(prvDequeue(g[k - 1]), e) /\ prvDequeue(g[k - 1]).used = g[k - 1].used - 1
    BY <2>1, DequeueKeeps
  <2>3. g[k] = prvDequeue(g[k - 1])
    BY <1>1, <1>2
  <2> QED BY <1>1, <2>1, <2>2, <2>3
<1> HIDE DEF Kept
<1>5. T = {}
  <2> SUFFICES ASSUME T # {} PROVE FALSE
    OBVIOUS
  <2>1. PICK k \in T : \A x \in T : k <= x
    <3>1. T \subseteq 1..n /\ T # {}
      OBVIOUS
    <3> HIDE DEF T
    <3> QED BY <1>1, <3>1, LeastNat
  <2>2. k \in 1..n /\ (k - 1 = 0 \/ k - 1 \in 1..n) /\ k - 1 \notin T
    BY <1>1, <2>1
  <2> QED BY <1>3, <1>4, <2>1, <2>2
<1>6. \A k \in 0..n : Kept(k)
  BY <1>1, <1>3, <1>5
<1> QED BY <1>6 DEF Kept, g, n

(* However many frames the policy drops.                                   *)
LEMMA PolicyKeeps ==
    ASSUME NEW r, NEW e \in 0..MaxFrames, Consistent(r, e), NEW policy
    PROVE  Consistent(prvApplyPolicy(r, policy), e)
<1> DEFINE enough(k) == policy = eDontDrop \/ k = r.used \/ AfterDrops(r)[k].sum <= policy
           E == {k \in 0..r.used : enough(k)}
<1>1. r.used \in Nat
  BY DEF Consistent, Ring
<1>2. prvApplyPolicy(r, policy) = AfterDrops(r)[Min(E)]
  BY DEF prvApplyPolicy
<1>3. E \subseteq 0..r.used /\ r.used \in E
  BY <1>1
<1> HIDE DEF E
<1>4. \E x \in E : \A y \in E : x <= y
  <2>1. CASE 0 \in E
    BY <1>1, <1>3, <2>1
  <2>2. CASE 0 \notin E
    <3>1. E \subseteq 1..r.used /\ E # {}
      BY <1>1, <1>3, <2>2
    <3> QED BY <1>1, <3>1, LeastNat
  <2> QED BY <2>1, <2>2
<1>5. Min(E) \in 0..r.used
  BY <1>3, <1>4 DEF Min
<1> QED BY <1>2, <1>5, DropsKeep

-----------------------------------------------------------------------------
(* What a consistent ring answers.                                         *)

(* The search looks at the slots of the frames held.                       *)
LEMMA HeldAreSearched ==
    ASSUME NEW r, NEW e \in Nat, Consistent(r, e), NEW n \in Held(r, e)
    PROVE  SlotOf(n) \in Searched(r)
<1> DEFINE a == e - r.used
           off == n - 1 - a
           last == r.used - 1
           latest == IF r.uHeadIdx = 0 THEN uCapacity ELSE r.uHeadIdx - 1
<1>1. /\ r.used \in 0..uCapacity /\ r.used <= e
      /\ r.uHeadIdx = e % uSize /\ r.uTailIdx = a % uSize
      /\ n \in Int /\ a < n /\ n <= e
  BY DEF Consistent, Ring, Indices, Held
<1>2. a \in Nat /\ off \in Nat /\ last \in Nat /\ off <= last /\ last < uSize /\ r.used # 0
  BY <1>1, Sizes
<1>3. n - 1 = a + off /\ e - 1 = a + last /\ e - 1 \in Nat
  BY <1>1, <1>2
<1> HIDE DEF a, off, last
<1>4. off \in 0..uSize - 1 /\ last \in 0..uSize - 1 /\ a \in Int /\ uSize \in Nat \ {0}
  BY <1>2, Sizes
<1>5. SlotOf(n) = IF (a % uSize) + off < uSize THEN (a % uSize) + off ELSE (a % uSize) + off - uSize
  BY <1>3, <1>4, ModAdd DEF SlotOf
<1>6. SlotOf(e) = IF (a % uSize) + last < uSize THEN (a % uSize) + last ELSE (a % uSize) + last - uSize
  BY <1>3, <1>4, ModAdd DEF SlotOf
<1>7. SlotOf(e) = latest
  <2>1. NextSlot((e - 1) % uSize) = ((e - 1) + 1) % uSize
    BY <1>3, NextSlotIs
  <2>2. (e - 1) + 1 = e /\ SlotOf(e) \in 0..uSize - 1
    BY SlotIsSlot DEF Slot
  <2> QED BY <1>1, <2>1, <2>2, Sizes DEF NextSlot, SlotOf
<1>8. a % uSize \in 0..uSize - 1
  BY <1>4, ModRange
<1>9. Searched(r) = IF latest >= r.uTailIdx THEN r.uTailIdx..latest
                    ELSE (0..latest) \cup (r.uTailIdx..uCapacity)
  BY <1>2 DEF Searched
<1> HIDE DEF latest
<1> DEFINE t == a % uSize
           s == SlotOf(n)
<1>10. t \in Nat /\ t < uSize /\ r.uTailIdx = t
       /\ s = (IF t + off < uSize THEN t + off ELSE t + off - uSize)
       /\ latest = (IF t + last < uSize THEN t + last ELSE t + last - uSize)
  BY <1>1, <1>4, <1>5, <1>6, <1>7, <1>8
<1> HIDE DEF t, s
<1>11. IF latest >= t THEN s \in t..latest ELSE s \in 0..latest \/ s \in t..uCapacity
  BY <1>2, <1>10, Sizes
<1> QED BY <1>9, <1>10, <1>11 DEF s

LEMMA HeldIsFound ==
    ASSUME NEW r, NEW e \in Nat, Consistent(r, e), NEW n \in Held(r, e)
    PROVE  prvFindFrame(r, SlotOf(n)) = {SlotOf(n)}
<1>1. n \in Int /\ r.pBuf[SlotOf(n)].uSerialNumber = SerialOf(n)
  BY DEF Consistent, Contents, Held
<1>2. SerialOf(n) % uSize = SlotOf(n)
  BY <1>1, SerialGivesSlot
<1>3. SlotOf(n) \in Searched(r)
  BY HeldAreSearched
<1> QED BY <1>1, <1>2, <1>3 DEF prvFindFrame

(* A slot has nothing in it, or one of the frames held.                    *)
LEMMA SlotHolds ==
    ASSUME NEW r, NEW e \in Nat, Consistent(r, e), NEW i \in Slot
    PROVE  \/ r.pBuf[i].frame = NoFrame
           \/ r.pBuf[i].frame.id \in Held(r, e) /\ i = SlotOf(r.pBuf[i].frame.id)
BY DEF Consistent, Contents, Empty

LEMMA UsedAreCounted ==
    ASSUME NEW r, NEW e \in Nat, Consistent(r, e)
    PROVE  r.used = Cardinality({i \in Slot : r.pBuf[i].frame # NoFrame})
<1> DEFINE U == {i \in Slot : r.pBuf[i].frame # NoFrame}
           f == [k \in 1..r.used |-> SlotOf(e - r.used + k)]
<1>1. r.used \in Nat /\ r.used <= uCapacity /\ r.used <= e
  BY Sizes DEF Consistent, Ring, Indices
<1>2. \A k \in 1..r.used : e - r.used + k \in Held(r, e) /\ e - r.used + k \in Int
  BY <1>1 DEF Held
<1>3. ASSUME NEW k \in 1..r.used PROVE f[k] \in U
  <2>1. SlotOf(e - r.used + k) \in Slot
    BY <1>2, SlotIsSlot
  <2>2. /\ r.pBuf[SlotOf(e - r.used + k)].frame \in Frame
    BY <1>2 DEF Consistent, Contents
  <2>3. r.pBuf[SlotOf(e - r.used + k)].frame # NoFrame
    BY <2>2 DEF Frame, NoFrame
  <2> QED BY <2>1, <2>3
<1>4. ASSUME NEW j \in 1..r.used, NEW k \in 1..r.used, f[j] = f[k] PROVE j = k
  <2>1. SlotOf(e - r.used + j) = SlotOf(e - r.used + k)
    BY <1>4
  <2>2. \A x, y \in 1..r.used : x < y => SlotOf(e - r.used + x) # SlotOf(e - r.used + y)
    <3> SUFFICES ASSUME NEW x \in 1..r.used, NEW y \in 1..r.used, x < y
                 PROVE  SlotOf(e - r.used + x) # SlotOf(e - r.used + y)
      OBVIOUS
    <3> DEFINE n == e - r.used + x
               m == e - r.used + y
    <3>1. n \in Int /\ m \in Int /\ n < m /\ m - n < uSize
      BY <1>1, Sizes
    <3> HIDE DEF n, m
    <3>2. SlotOf(n) # SlotOf(m)
      BY <3>1, SlotsDiffer
    <3> QED BY <3>2 DEF n, m
  <2>3. ~(j < k) /\ ~(k < j)
    BY <2>1, <2>2
  <2> QED BY <2>3, <1>1
<1>5. ASSUME NEW i \in U PROVE \E k \in 1..r.used : f[k] = i
  <2>1. PICK n \in Held(r, e) : i = SlotOf(n)
    BY SlotHolds
  <2>2. n - (e - r.used) \in 1..r.used /\ (e - r.used) + (n - (e - r.used)) = n
    BY <1>1 DEF Held
  <2> QED BY <2>1, <2>2
<1>6. f \in Bijection(1..r.used, U)
  <2> HIDE DEF U
  <2>1. f \in [1..r.used -> U]
    BY <1>3
  <2> HIDE DEF f
  <2>2. f \in Injection(1..r.used, U)
    BY <2>1, <1>4 DEF Injection, IsInjective
  <2>3. f \in Surjection(1..r.used, U)
    BY <2>1, <1>5 DEF Surjection
  <2> QED BY <2>2, <2>3 DEF Bijection
<1> HIDE DEF U, f
<1>7. Cardinality(U) = r.used
  BY <1>1, <1>6, FS_CountingElements DEF ExistsBijection
<1> QED BY <1>7 DEF U

-----------------------------------------------------------------------------
(* The invariant, which is inductive.                                      *)

Reading ==
    /\ reader \in [at : {"idle", "load", "lock", "done", "crashed"}, asked : Nat, got : Nat]
    /\ reader.at # "idle" => reader.asked \in 1..enqueued
    /\ reader.at = "done" => reader.got = 0 \/ reader.got >= reader.asked

Keys ==
    /\ key \in [1..MaxFrames -> Slot]
    /\ \A n \in 1..enqueued : key[n] = SlotOf(n)

IInv ==
    /\ enqueued \in 0..MaxFrames
    /\ Consistent(ring, enqueued)
    /\ uNextSerialNumber = enqueued % uMaxSerialNumber
    /\ xDropFramePolicy \in MemLimit \cup {eDontDrop}
    /\ Keys
    /\ Reading

LEMMA InitIInv == Init => IInv
<1> SUFFICES ASSUME Init PROVE IInv
  OBVIOUS
<1>1. enqueued = 0 /\ enqueued \in 0..MaxFrames
  BY FrameRingBufferAssumption DEF Init
<1>2. 0 % uSize = 0 /\ 0 % uMaxSerialNumber = 0 /\ 0 \in Slot
  BY Sizes DEF Slot
<1>3. ring.used = 0 /\ Held(ring, 0) = {}
  BY DEF Init, Held
<1>4. ring \in Ring
  BY <1>2, Sizes, FrameRingBufferAssumption DEF Init, Ring, Empty
<1>5. Indices(ring, 0)
  BY <1>2, Sizes DEF Init, Indices
<1>6. Contents(ring, 0)
  BY <1>3 DEF Init, Contents
<1>7. Destroyed(ring, 0)
  BY <1>3 DEF Init, Destroyed
<1>8. Summed(ring, 0)
  <2> DEFINE c == [k \in 0..0 |-> 0]
  <2>1. /\ c \in [0..ring.used -> Nat] /\ c[0] = 0 /\ c[ring.used] = ring.sum
        /\ \A k \in 1..ring.used : FALSE
    BY <1>3 DEF Init
  <2> HIDE DEF c
  <2> QED BY <2>1 DEF Summed
<1>9. Consistent(ring, enqueued)
  BY <1>1, <1>4, <1>5, <1>6, <1>7, <1>8 DEF Consistent
<1>10. Keys
  BY <1>1, <1>2 DEF Init, Keys
<1>11. Reading
  BY DEF Init, Reading, Idle
<1> QED BY <1>1, <1>2, <1>9, <1>10, <1>11 DEF IInv, Init

LEMMA EnqueueIInv ==
    ASSUME IInv, NEW len \in FrameLen, FrameRingBuffer_enqueue(len)
    PROVE  IInv'
<1> DEFINE f == [id |-> enqueued + 1, uLen |-> len]
           r == prvEnqueue(ring, f, uNextSerialNumber)
<1>1. /\ enqueued \in Nat /\ enqueued + 1 <= MaxFrames /\ enqueued' = enqueued + 1
      /\ enqueued + 1 \in 0..MaxFrames /\ enqueued + 1 \in 1..MaxFrames
  BY FrameRingBufferAssumption DEF IInv, FrameRingBuffer_enqueue
<1>2. f \in Frame /\ f.id = enqueued + 1
  BY <1>1 DEF Frame
<1>3. ring' = prvApplyPolicy(r, xDropFramePolicy) /\ key' = [key EXCEPT ![enqueued + 1] = ring.uHeadIdx]
  BY DEF FrameRingBuffer_enqueue
<1> HIDE DEF f
<1>4. uNextSerialNumber = SerialOf(enqueued + 1)
  <2>1. (enqueued + 1) - 1 = enqueued
    BY <1>1
  <2> QED BY <2>1 DEF IInv, SerialOf
<1>5. Consistent(r, enqueued + 1)
  BY <1>1, <1>2, <1>4, EnqueueKeeps DEF IInv
<1> HIDE DEF r
<1>6. Consistent(ring', enqueued')
  BY <1>1, <1>3, <1>5, PolicyKeeps
<1>7. uNextSerialNumber' = enqueued' % uMaxSerialNumber
  <2>1. uMaxSerialNumber \in Nat \ {0} /\ uMaxSerialNumber >= 2
    BY Whole, Sizes
  <2>2. enqueued \in Int /\ 1 \in 0..uMaxSerialNumber - 1
    BY <1>1, <2>1
  <2>3. (enqueued + 1) % uMaxSerialNumber =
            IF (enqueued % uMaxSerialNumber) + 1 < uMaxSerialNumber
            THEN (enqueued % uMaxSerialNumber) + 1
            ELSE (enqueued % uMaxSerialNumber) + 1 - uMaxSerialNumber
    BY <2>1, <2>2, ModAdd
  <2>4. enqueued % uMaxSerialNumber \in 0..uMaxSerialNumber - 1
    BY <2>1, <2>2, ModRange
  <2>5. uNextSerialNumber = enqueued % uMaxSerialNumber
    BY DEF IInv
  <2> QED BY <1>1, <2>1, <2>3, <2>4, <2>5 DEF FrameRingBuffer_enqueue
<1>8. Keys'
  <2>1. ring.uHeadIdx = SlotOf(enqueued + 1) /\ ring.uHeadIdx \in Slot
    BY <1>1, NextSlotIs DEF IInv, Consistent, Indices
  <2>2. key' \in [1..MaxFrames -> Slot]
    BY <1>3, <2>1 DEF IInv, Keys
  <2>3. ASSUME NEW n \in 1..enqueued' PROVE key'[n] = SlotOf(n)
    <3>1. n = enqueued + 1 \/ n \in 1..enqueued
      BY <1>1
    <3>2. n \in 1..MaxFrames
      BY <1>1, FrameRingBufferAssumption
    <3> QED BY <1>3, <2>1, <3>1, <3>2 DEF IInv, Keys
  <2> QED BY <2>2, <2>3 DEF Keys
<1>9. Reading'
  <2>1. 1..enqueued \subseteq 1..enqueued'
    BY <1>1
  <2> QED BY <2>1 DEF FrameRingBuffer_enqueue, IInv, Reading
<1> QED BY <1>1, <1>6, <1>7, <1>8, <1>9 DEF IInv, FrameRingBuffer_enqueue

LEMMA FindFrameIInv ==
    ASSUME IInv, FindFrame
    PROVE  IInv'
<1> DEFINE n == reader.asked
           found == prvFindFrame(ring, key[n])
           got == IF found = {} THEN 0 ELSE ring.pBuf[CHOOSE i \in found : TRUE].frame.id
<1>1. /\ enqueued \in Nat /\ enqueued <= MaxFrames /\ Consistent(ring, enqueued)
      /\ n \in 1..enqueued /\ key[n] = SlotOf(n)
  BY FrameRingBufferAssumption DEF IInv, FindFrame, Reading, Keys
<1>2. got \in Nat /\ (got = 0 \/ got >= n)
  <2>1. CASE n \in Held(ring, enqueued)
    <3>1. found = {SlotOf(n)}
      BY <1>1, <2>1, HeldIsFound
    <3>2. ring.pBuf[SlotOf(n)].frame.id = n
      BY <1>1, <2>1 DEF Consistent, Contents
    <3> HIDE DEF found
    <3>3. (CHOOSE i \in found : TRUE) = SlotOf(n)
      BY <3>1
    <3>4. got = n
      BY <3>1, <3>2, <3>3
    <3> QED BY <1>1, <3>4
  <2>2. CASE n \notin Held(ring, enqueued) /\ found # {}
    <3> DEFINE i == CHOOSE i \in found : TRUE
    <3>1. i \in found
      BY <2>2
    <3>2. \A k \in found : k \in 0..uSize - 1 /\ k \in Slot
      <4> SUFFICES ASSUME NEW k \in found PROVE k \in Slot
        BY DEF Slot
      <4>1. k \in Searched(ring)
        BY DEF prvFindFrame
      <4>2. ring.uHeadIdx \in Slot /\ ring.uTailIdx \in Slot
        BY <1>1 DEF Consistent, Ring
      <4> QED BY <4>1, <4>2, Sizes DEF Searched, Slot
    <3>3. i \in Slot
      BY <3>1, <3>2
    <3> HIDE DEF i
    <3>4. \/ ring.pBuf[i].frame = NoFrame
          \/ ring.pBuf[i].frame.id \in Held(ring, enqueued)
      BY <1>1, <3>3, SlotHolds
    <3>5. got = ring.pBuf[i].frame.id
      BY <2>2 DEF i
    <3>6. CASE ring.pBuf[i].frame = NoFrame
      BY <3>5, <3>6 DEF NoFrame
    <3>7. CASE ring.pBuf[i].frame.id \in Held(ring, enqueued)
      <4>1. ring.used \in Nat /\ ring.used <= enqueued
        BY <1>1 DEF Consistent, Ring, Indices
      <4> QED BY <1>1, <2>2, <3>5, <3>7, <4>1 DEF Held
    <3> QED BY <3>4, <3>6, <3>7
  <2>3. CASE found = {}
    BY <2>3
  <2> QED BY <2>1, <2>2, <2>3
<1>3. reader' = [reader EXCEPT !.at = "done", !.got = got]
  BY DEF FindFrame
<1> HIDE DEF got
<1>4. Reading'
  BY <1>1, <1>2, <1>3 DEF IInv, Reading, FindFrame
<1> QED BY <1>4 DEF IInv, FindFrame, Keys

LEMMA NextIInv == IInv /\ [Next]_vars => IInv'
<1> SUFFICES ASSUME IInv, [Next]_vars PROVE IInv'
  OBVIOUS
<1>1. ASSUME NEW len \in FrameLen, FrameRingBuffer_enqueue(len) PROVE IInv'
  BY <1>1, EnqueueIInv
<1>2. CASE FrameRingBuffer_dequeue
  <2>1. Consistent(ring', enqueued')
    BY <1>2, DequeueKeeps DEF FrameRingBuffer_dequeue, IInv
  <2> QED BY <1>2, <2>1 DEF FrameRingBuffer_dequeue, IInv, Keys, Reading
<1>3. ASSUME NEW m \in MemLimit \cup {eDontDrop}, FrameRingBuffer_setDropFramePolicy(m) PROVE IInv'
  <2>1. Consistent(ring', enqueued')
    BY <1>3, PolicyKeeps DEF FrameRingBuffer_setDropFramePolicy, IInv
  <2> QED BY <1>3, <2>1 DEF FrameRingBuffer_setDropFramePolicy, IInv, Keys, Reading
<1>4. ASSUME NEW n \in 1..MaxFrames, GetFrame(n) PROVE IInv'
  <2>1. Reading'
    BY <1>4, FrameRingBufferAssumption DEF GetFrame, IInv, Reading, Idle
  <2> QED BY <1>4, <2>1 DEF GetFrame, IInv, Keys
<1>5. CASE LoadBuffer
  <2>1. Reading'
    BY <1>5 DEF LoadBuffer, IInv, Reading
  <2> QED BY <1>5, <2>1 DEF LoadBuffer, IInv, Keys
<1>6. CASE FindFrame
  BY <1>6, FindFrameIInv
<1>7. CASE Return
  BY <1>7 DEF Return, IInv, Keys, Reading, Idle
<1>8. CASE UNCHANGED vars
  BY <1>8 DEF vars, IInv, Keys, Reading
<1> QED BY <1>1, <1>2, <1>3, <1>4, <1>5, <1>6, <1>7, <1>8 DEF Next

LEMMA Inductive == Spec => []IInv
BY InitIInv, NextIInv, PTL DEF Spec

-----------------------------------------------------------------------------
(* Indices, serial numbers and statistics stay within their types: no      *)
(* counter falls below zero or grows beyond the ring, and the sum of the   *)
(* lengths is never less than what is taken off it (frame_ring_buffer.c).  *)
THEOREM TypeCorrect == Spec => []TypeOK
<1>1. IInv => TypeOK
  <2> SUFFICES ASSUME IInv PROVE TypeOK
    OBVIOUS
  <2>1. enqueued \in Int /\ uMaxSerialNumber \in Nat \ {0} /\ uMaxSerialNumber <= UINT16_MAX
    BY Sizes, FrameRingBufferAssumption DEF IInv
  <2>2. enqueued % uMaxSerialNumber \in 0..uMaxSerialNumber - 1
    BY <2>1, ModRange
  <2>3. uNextSerialNumber \in 0..UINT16_MAX
    BY <2>1, <2>2, FrameRingBufferAssumption DEF IInv
  <2>4. ring \in Ring
    BY DEF IInv, Consistent
  <2> QED BY <2>3, <2>4 DEF IInv, Ring, Keys, Reading, TypeOK
<1> QED BY <1>1, Inductive, PTL

(* The statistics count the frames held, and each frame that has left was  *)
(* destroyed once, however it left (prvDequeue in enqueue, dequeue and the *)
(* policy).                                                                *)
THEOREM DestroyedOnce == Spec => []EachFrameDestroyedOnce
<1>1. IInv => EachFrameDestroyedOnce
  <2> SUFFICES ASSUME IInv PROVE EachFrameDestroyedOnce
    OBVIOUS
  <2>1. enqueued \in Nat /\ enqueued <= MaxFrames /\ Consistent(ring, enqueued) /\ MaxFrames \in Nat
    BY FrameRingBufferAssumption DEF IInv
  <2>2. ring.used = Cardinality(InUse)
    BY <2>1, UsedAreCounted DEF InUse
  <2>3. ring.used \in Nat /\ ring.used <= enqueued /\ ring.used + ring.free = uCapacity
    BY <2>1, Sizes DEF Consistent, Ring, Indices
  <2>4. ASSUME NEW n \in 1..enqueued
        PROVE  ring.destroyed[n] = IF \E i \in InUse : ring.pBuf[i].frame.id = n THEN 0 ELSE 1
    <3>1. n \in 1..MaxFrames
      BY <2>1
    <3>2. ring.destroyed[n] = IF n <= enqueued - ring.used THEN 1 ELSE 0
      BY <2>1, <3>1 DEF Consistent, Destroyed
    <3>3. CASE n <= enqueued - ring.used
      <4>1. n \notin Held(ring, enqueued)
        BY <2>3, <3>3, <2>1 DEF Held
      <4>2. ~ \E i \in InUse : ring.pBuf[i].frame.id = n
        BY <2>1, <4>1, SlotHolds DEF InUse
      <4> QED BY <3>2, <3>3, <4>2
    <3>4. CASE ~(n <= enqueued - ring.used)
      <4>1. n \in Held(ring, enqueued) /\ n \in Int
        BY <2>1, <2>3, <3>4 DEF Held
      <4>2. SlotOf(n) \in Slot /\ ring.pBuf[SlotOf(n)].frame \in Frame /\ ring.pBuf[SlotOf(n)].frame.id = n
        BY <2>1, <4>1, SlotIsSlot DEF Consistent, Contents
      <4>3. SlotOf(n) \in InUse
        BY <4>2 DEF InUse, Frame, NoFrame
      <4> QED BY <3>2, <3>4, <4>2, <4>3
    <3> QED BY <3>3, <3>4
  <2> QED BY <2>2, <2>3, <2>4 DEF EachFrameDestroyedOnce
<1> QED BY <1>1, Inductive, PTL

(* The key of a frame that is still held finds it, and no key an older one *)
(* than its own, although indices and serial numbers wrap at different     *)
(* times (prvFindFrame, FrameRingBuffer_getFrame).                         *)
THEOREM KeysFind == Spec => []LiveKeyFinds
<1>1. IInv => LiveKeyFinds
  <2> SUFFICES ASSUME IInv PROVE LiveKeyFinds
    OBVIOUS
  <2>1. enqueued \in Nat /\ Consistent(ring, enqueued)
    BY FrameRingBufferAssumption DEF IInv
  <2>2. ASSUME NEW i \in InUse PROVE prvFindFrame(ring, key[ring.pBuf[i].frame.id]) = {i}
    <3> DEFINE n == ring.pBuf[i].frame.id
    <3>1. n \in Held(ring, enqueued) /\ i = SlotOf(n)
      BY <2>1, SlotHolds DEF InUse
    <3> HIDE DEF n
    <3>2. n \in 1..enqueued
      BY <2>1, <3>1 DEF Held, Consistent, Ring, Indices
    <3>3. key[n] = i
      BY <3>1, <3>2 DEF IInv, Keys
    <3>4. prvFindFrame(ring, SlotOf(n)) = {SlotOf(n)}
      BY <2>1, <3>1, HeldIsFound
    <3> QED BY <3>1, <3>3, <3>4 DEF n
  <2> QED BY <2>2 DEF LiveKeyFinds, IInv, Reading
<1> QED BY <1>1, Inductive, PTL

-----------------------------------------------------------------------------
(* The ring as a queue.                                                    *)

LiveOf(r) == [k \in 1..r.used |-> r.pBuf[(r.uTailIdx + k - 1) % uSize].frame]

(* The k-th frame of the queue is the k-th of those held.                  *)
LEMMA LiveIs ==
    ASSUME NEW r, NEW e \in Nat, Consistent(r, e)
    PROVE  /\ LiveOf(r) = [k \in 1..r.used |-> r.pBuf[SlotOf(e - r.used + k)].frame]
           /\ LiveOf(r) \in Seq(Frame) /\ Len(LiveOf(r)) = r.used
<1> DEFINE a == e - r.used
<1>1. r.used \in Nat /\ r.used < uSize /\ a \in Nat /\ r.uTailIdx = a % uSize
  BY Sizes DEF Consistent, Ring, Indices
<1> HIDE DEF a
<1>2. ASSUME NEW k \in 1..r.used PROVE (r.uTailIdx + k - 1) % uSize = SlotOf(a + k)
  <2> DEFINE d == k - 1
             t == a % uSize
  <2>1. uSize \in Nat \ {0} /\ d \in 0..uSize - 1 /\ a \in Int
    BY <1>1, Sizes
  <2>2. a + k - 1 = a + d /\ (a + k) - 1 = a + d /\ r.uTailIdx + k - 1 = t + d
    <3>1. t \in Int
      BY <2>1, ModRange
    <3> QED BY <1>1, <3>1
  <2> HIDE DEF d
  <2>7. t \in 0..uSize - 1
    BY <2>1, ModRange
  <2>3. t \in 0..uSize - 1 /\ t \in Int
    BY <2>1, <2>7
  <2>4. (a + d) % uSize = IF t + d < uSize THEN t + d ELSE t + d - uSize
    BY <2>1, ModAdd
  <2>5. t % uSize = t
    BY <2>1, <2>3
  <2> HIDE DEF t
  <2>6. (t + d) % uSize = IF (t % uSize) + d < uSize THEN (t % uSize) + d ELSE (t % uSize) + d - uSize
    BY <2>1, <2>3, ModAdd
  <2> QED BY <2>2, <2>4, <2>5, <2>6 DEF SlotOf
<1>3. ASSUME NEW k \in 1..r.used PROVE r.pBuf[SlotOf(a + k)].frame \in Frame
  <2>1. a + k \in Held(r, e)
    BY <1>1 DEF a, Held
  <2> QED BY <2>1 DEF Consistent, Contents
<1>4. LiveOf(r) = [k \in 1..r.used |-> r.pBuf[SlotOf(a + k)].frame]
  BY <1>2 DEF LiveOf
<1> DEFINE s == [k \in 1..r.used |-> r.pBuf[SlotOf(a + k)].frame]
<1>5. s \in [1..r.used -> Frame]
  BY <1>3
<1> HIDE DEF s
<1>6. s \in Seq(Frame) /\ Len(s) = r.used
  BY <1>1, <1>5
<1> QED BY <1>4, <1>6 DEF a, s

(* Dropping the oldest takes the first frame off.                          *)
LEMMA DequeueIsTail ==
    ASSUME NEW r, NEW e \in 0..MaxFrames, Consistent(r, e), r.used > 0
    PROVE  /\ LiveOf(prvDequeue(r)) = Tail(LiveOf(r))
           /\ prvDequeue(r).sum = r.sum - LiveOf(r)[1].uLen
<1> DEFINE d == prvDequeue(r)
           n == r.used
           a == e - n
<1>1. e \in Nat /\ Consistent(d, e) /\ d.used = n - 1
  BY DequeueKeeps, FrameRingBufferAssumption
<1>2. n \in Nat /\ n > 0 /\ a \in Nat /\ n < uSize /\ r.uTailIdx = a % uSize /\ r \in Ring
  <2>1. e \in Nat
    BY <1>1
  <2>2. r \in Ring /\ r.used \in 0..uCapacity /\ r.used <= e /\ r.uTailIdx = (e - r.used) % uSize
    BY DEF Consistent, Ring, Indices
  <2> QED BY <2>1, <2>2, Sizes
<1>3. r.uTailIdx = SlotOf(a + 1)
  BY <1>2, NextSlotIs
<1>4. /\ d.pBuf = [r.pBuf EXCEPT ![r.uTailIdx] = Empty]
      /\ d.sum = r.sum - r.pBuf[r.uTailIdx].frame.uLen
  BY <1>2 DEF prvDequeue, Ring
<1> HIDE DEF d
<1>5. /\ LiveOf(r) = [k \in 1..n |-> r.pBuf[SlotOf(a + k)].frame]
      /\ LiveOf(r) \in Seq(Frame) /\ Len(LiveOf(r)) = n
  BY <1>1, LiveIs
<1>6. LiveOf(d) = [k \in 1..n - 1 |-> d.pBuf[SlotOf(e - (n - 1) + k)].frame]
  BY <1>1, LiveIs
<1> HIDE DEF n
<1>7. ASSUME NEW k \in 1..n - 1
      PROVE  d.pBuf[SlotOf(e - (n - 1) + k)].frame = r.pBuf[SlotOf(a + (k + 1))].frame
  <2>1. e - (n - 1) + k = a + (k + 1)
    BY <1>1, <1>2
  <2> HIDE DEF a
  <2> DEFINE i == a + 1
             j == a + (k + 1)
  <2>2. i \in Int /\ j \in Int /\ i < j /\ j - i < uSize
    BY <1>2, Sizes
  <2> HIDE DEF i, j
  <2>3. SlotOf(i) # SlotOf(j) /\ SlotOf(j) \in Slot
    BY <2>2, SlotsDiffer, SlotIsSlot
  <2> QED BY <1>2, <1>3, <1>4, <2>1, <2>3 DEF Ring, i, j
<1>8. LiveOf(d) = [k \in 1..n - 1 |-> LiveOf(r)[k + 1]]
  <2>1. ASSUME NEW k \in 1..n - 1 PROVE LiveOf(r)[k + 1] = r.pBuf[SlotOf(a + (k + 1))].frame
    BY <1>2, <1>5
  <2> QED BY <1>6, <1>7, <2>1
<1>9. Tail(LiveOf(r)) = [k \in 1..n - 1 |-> LiveOf(r)[k + 1]]
  BY <1>2, <1>5
<1>10. LiveOf(r)[1] = r.pBuf[r.uTailIdx].frame
  BY <1>2, <1>3, <1>5
<1> QED BY <1>4, <1>8, <1>9, <1>10 DEF d

(* A frame put into the next slot is appended.                             *)
LEMMA PutIsAppend ==
    ASSUME NEW r, NEW e \in Nat, e + 1 <= MaxFrames, Consistent(r, e), r.used < uCapacity,
           NEW f \in Frame, f.id = e + 1,
           NEW p, p = Put(r, e, f)
    PROVE  LiveOf(p) = Append(LiveOf(r), f)
<1> DEFINE new == [frame |-> f, uSerialNumber |-> SerialOf(e + 1)]
           n == r.used
           a == e - n
<1>1. Consistent(p, e + 1)
  BY PutKeeps
<1>2. /\ r \in Ring /\ n \in Nat /\ n <= e /\ n + 1 < uSize
      /\ r.uHeadIdx = SlotOf(e + 1) /\ r.uHeadIdx \in Slot
  <2>1. r \in Ring /\ n \in 0..uCapacity /\ n <= e /\ r.uHeadIdx = e % uSize
    BY DEF Consistent, Ring, Indices
  <2>2. e % uSize = SlotOf(e + 1) /\ e % uSize \in Slot
    BY NextSlotIs
  <2> QED BY <2>1, <2>2, Sizes
<1>3. p.pBuf = [r.pBuf EXCEPT ![r.uHeadIdx] = new] /\ p.used = n + 1 /\ new.frame = f
  BY <1>2 DEF Ring, Put
<1>4. /\ LiveOf(r) = [k \in 1..n |-> r.pBuf[SlotOf(a + k)].frame]
      /\ LiveOf(r) \in Seq(Frame) /\ Len(LiveOf(r)) = n
  BY LiveIs
<1>5. LiveOf(p) = [k \in 1..n + 1 |-> p.pBuf[SlotOf((e + 1) - (n + 1) + k)].frame]
  <2>1. e + 1 \in Nat
    OBVIOUS
  <2> HIDE DEF n
  <2> DEFINE last == e + 1
  <2>2. last \in Nat /\ Consistent(p, last)
    BY <1>1, <2>1
  <2> HIDE DEF last
  <2>4. LiveOf(p) = [k \in 1..p.used |-> p.pBuf[SlotOf(last - p.used + k)].frame]
    BY ONLY <2>2, LiveIs
  <2>3. p.used = n + 1
    BY <1>3
  <2> QED BY <2>3, <2>4 DEF last
<1> HIDE DEF n, new
<1>6. ASSUME NEW k \in 1..n + 1
      PROVE  p.pBuf[SlotOf((e + 1) - (n + 1) + k)].frame = IF k = n + 1 THEN f ELSE r.pBuf[SlotOf(a + k)].frame
  <2> DEFINE i == a + k
             j == e + 1
  <2>1. (e + 1) - (n + 1) + k = i
    BY <1>2
  <2>2. CASE k = n + 1
    <3>1. i = j
      BY <1>2, <2>2
    <3> HIDE DEF i, j
    <3>2. p.pBuf[r.uHeadIdx] = new
      BY <1>2, <1>3 DEF Ring
    <3> QED BY <1>2, <1>3, <2>1, <2>2, <3>1, <3>2 DEF j
  <2>3. CASE k # n + 1
    <3>1. i \in Int /\ j \in Int /\ i < j /\ j - i < uSize
      BY <1>2, <2>3, Sizes
    <3> HIDE DEF i, j
    <3>2. SlotOf(i) # SlotOf(j) /\ SlotOf(i) \in Slot
      BY <3>1, SlotsDiffer, SlotIsSlot
    <3>3. p.pBuf[SlotOf(i)] = r.pBuf[SlotOf(i)]
      BY <1>2, <1>3, <3>2 DEF Ring, j
    <3> QED BY <2>1, <2>3, <3>3 DEF i
  <2> QED BY <2>2, <2>3
<1>7. LiveOf(p) = [k \in 1..n + 1 |-> IF k = n + 1 THEN f ELSE LiveOf(r)[k]]
  <2>1. ASSUME NEW k \in 1..n + 1, k # n + 1 PROVE LiveOf(r)[k] = r.pBuf[SlotOf(a + k)].frame
    <3>1. k \in 1..n
      BY <1>2, <2>1
    <3> QED BY <1>4, <3>1
  <2> QED BY <1>5, <1>6, <2>1
<1>8. Append(LiveOf(r), f) = [k \in 1..n + 1 |-> IF k = n + 1 THEN f ELSE LiveOf(r)[k]]
  BY <1>2, <1>4
<1> QED BY <1>7, <1>8

(* The memory the queue computes exists, and is the sum the ring keeps.    *)
LEMMA MemoryIsSum ==
    ASSUME NEW r, NEW e \in Nat, Consistent(r, e)
    PROVE  LET q == LiveOf(r)
               M == Queue!Memory(q)
           IN  /\ M \in [0..r.used -> Nat] /\ M[0] = 0 /\ M[r.used] = r.sum
               /\ \A k \in 1..r.used : M[k] = M[k - 1] + q[r.used - k + 1].uLen
<1> DEFINE q == LiveOf(r)
           M == Queue!Memory(q)
           n == r.used
           Is(g) == g = [k \in 0..n |-> IF k = 0 THEN 0 ELSE g[k - 1] + q[n - k + 1].uLen]
<1>1. n \in Nat /\ n <= e /\ r.sum \in Nat
  BY DEF Consistent, Ring, Indices
<1>2. /\ q = [k \in 1..n |-> r.pBuf[SlotOf(e - n + k)].frame]
      /\ q \in Seq(Frame) /\ Len(q) = n
  BY LiveIs
<1>3. PICK c \in [0..n -> Nat] :
            /\ c[0] = 0 /\ c[n] = r.sum
            /\ \A k \in 1..n : c[k] = c[k - 1] + r.pBuf[SlotOf(e - k + 1)].frame.uLen
  BY DEF Consistent, Summed
<1> HIDE DEF n
<1>4. ASSUME NEW k \in 1..n PROVE c[k] = c[k - 1] + q[n - k + 1].uLen
  <2>1. n - k + 1 \in 1..n /\ e - n + (n - k + 1) = e - k + 1
    BY <1>1
  <2> QED BY <1>2, <1>3, <2>1
<1> HIDE DEF q
<1>5. Is(c)
  <2>1. c = [k \in 0..n |-> c[k]]
    BY <1>3
  <2>2. ASSUME NEW k \in 0..n PROVE c[k] = IF k = 0 THEN 0 ELSE c[k - 1] + q[n - k + 1].uLen
    <3>1. CASE k = 0
      BY <1>3, <3>1
    <3>2. CASE k # 0
      <4>1. k \in 1..n
        BY <3>2
      <4> QED BY <1>4, <3>2, <4>1
    <3> QED BY <3>1, <3>2
  <2> QED BY <2>1, <2>2
<1>6. M = CHOOSE g : Is(g)
  BY <1>2 DEF Queue!Memory
<1>7. Is(M)
  <2> HIDE DEF Is
  <2> QED BY <1>5, <1>6
<1> HIDE DEF M
<1>8. M[0] = 0 /\ \A k \in 1..n : M[k] = M[k - 1] + q[n - k + 1].uLen
  BY <1>1, <1>7
<1>9. \A k \in 0..n : M[k] = c[k]
  <2> DEFINE T == {k \in 1..n : M[k] # c[k]}
  <2> SUFFICES ASSUME T # {} PROVE FALSE
    <3>1. ASSUME T = {}, NEW k \in 0..n PROVE M[k] = c[k]
      <4>1. k = 0 \/ k \in 1..n
        OBVIOUS
      <4> QED BY <1>3, <1>8, <3>1, <4>1
    <3> QED BY <3>1
  <2>1. PICK k \in T : \A x \in T : k <= x
    <3>1. T \subseteq 1..n
      OBVIOUS
    <3> HIDE DEF T
    <3> QED BY <1>1, <3>1, LeastNat
  <2>2. k \in 1..n /\ (k - 1 = 0 \/ k - 1 \in 1..n) /\ ~(k <= k - 1)
    BY <1>1, <2>1
  <2>3. M[k - 1] = c[k - 1]
    BY <1>3, <1>8, <2>1, <2>2
  <2> QED BY <1>4, <1>8, <2>1, <2>2, <2>3
<1>10. M \in [0..n -> Nat]
  <2>1. M = [k \in 0..n |-> M[k]]
    BY <1>7
  <2> HIDE DEF Is
  <2> QED BY <1>3, <1>9, <2>1
<1> QED BY <1>1, <1>3, <1>8, <1>9, <1>10 DEF M, q, n

(* After k drops the queue has lost its first k frames, and the sum is the *)
(* memory of the rest.                                                     *)
LEMMA DropsAreSuffixes ==
    ASSUME NEW r, NEW e \in 0..MaxFrames, Consistent(r, e)
    PROVE  \A k \in 0..r.used :
              /\ LiveOf(AfterDrops(r)[k]) = Queue!Suffix(LiveOf(r), k)
              /\ AfterDrops(r)[k].sum = Queue!Memory(LiveOf(r))[r.used - k]
<1> DEFINE g == AfterDrops(r)
           q == LiveOf(r)
           M == Queue!Memory(q)
           n == r.used
           Dropped(k) == LiveOf(g[k]) = SubSeq(q, k + 1, n) /\ g[k].sum = M[n - k]
           T == {k \in 1..n : ~Dropped(k)}
<1>1. n \in Nat /\ e \in Nat /\ r.sum \in Nat
  BY FrameRingBufferAssumption DEF Consistent, Ring
<1>2. g = [k \in 0..n |-> IF k = 0 THEN r ELSE prvDequeue(g[k - 1])]
  BY <1>1, DropsAre
<1>3. \A k \in 0..n : Consistent(g[k], e) /\ g[k].used = n - k
  BY DropsKeep
<1>4. q \in Seq(Frame) /\ Len(q) = n
  BY <1>1, LiveIs
<1>5. /\ M \in [0..n -> Nat] /\ M[n] = r.sum
      /\ \A k \in 1..n : M[k] = M[k - 1] + q[n - k + 1].uLen
  BY <1>1, MemoryIsSum
<1>6. \A i \in 1..n : q[i].uLen \in Nat
  <2> HIDE DEF q, n
  <2>1. \A i \in 1..n : q[i] \in Frame
    BY <1>1, <1>4
  <2> QED BY <2>1, FrameRingBufferAssumption DEF Frame
<1>7. g[0] = r
  BY <1>1, <1>2
<1> HIDE DEF g, M
<1>8. Dropped(0)
  <2>1. LiveOf(g[0]) = q
    BY <1>7
  <2> HIDE DEF q, n
  <2>2. SubSeq(q, 0 + 1, n) = q
    BY <1>1, <1>4
  <2> QED BY <1>1, <1>5, <1>7, <2>1, <2>2
<1> HIDE DEF q, n
<1>9. ASSUME NEW k \in 1..n, Dropped(k - 1) PROVE Dropped(k)
  <2> DEFINE o == g[k - 1]
  <2>1. k - 1 \in 0..n /\ k \in Nat /\ k <= n
    BY <1>1
  <2>2. Consistent(o, e) /\ o.used = n - (k - 1) /\ o.used > 0 /\ g[k] = prvDequeue(o)
    BY <1>1, <1>2, <1>3, <2>1
  <2>3. LiveOf(o) = SubSeq(q, k, n) /\ o.sum = M[n - k + 1]
    BY <1>1, <1>9
  <2> HIDE DEF o
  <2>4. LiveOf(g[k]) = Tail(LiveOf(o)) /\ g[k].sum = o.sum - LiveOf(o)[1].uLen
    BY <2>2, DequeueIsTail
  <2>5. LiveOf(o)[1] = q[k] /\ Tail(LiveOf(o)) = SubSeq(q, k + 1, n)
    BY <1>1, <1>4, <2>1, <2>3
  <2>6. n - k + 1 \in 1..n /\ (n - k + 1) - 1 = n - k /\ n - (n - k + 1) + 1 = k
    BY <1>1, <2>1
  <2>7. M[n - k + 1] = M[n - k] + q[k].uLen
    BY <1>5, <2>6
  <2>8. M[n - k] \in Nat /\ q[k].uLen \in Nat
    BY <1>5, <1>6, <2>1, <2>6, <1>1
  <2>9. g[k].sum = (M[n - k] + q[k].uLen) - q[k].uLen
    BY <2>3, <2>4, <2>5, <2>7
  <2>10. g[k].sum = M[n - k]
    BY <2>8, <2>9
  <2>11. LiveOf(g[k]) = SubSeq(q, k + 1, n)
    BY <2>4, <2>5
  <2> QED BY <2>10, <2>11
<1> HIDE DEF Dropped
<1>10. T = {}
  <2> SUFFICES ASSUME T # {} PROVE FALSE
    OBVIOUS
  <2>1. PICK k \in T : \A x \in T : k <= x
    <3>1. T \subseteq 1..n
      OBVIOUS
    <3> HIDE DEF T
    <3> QED BY <1>1, <3>1, LeastNat
  <2>2. k \in 1..n /\ (k - 1 = 0 \/ k - 1 \in 1..n) /\ k - 1 \notin T
    BY <1>1, <2>1
  <2> QED BY <1>8, <1>9, <2>1, <2>2
<1>11. \A k \in 0..n : Dropped(k)
  BY <1>1, <1>8, <1>10
<1> QED BY <1>4, <1>11 DEF Dropped, g, q, n, M, Queue!Suffix

(* The policy keeps what the queue keeps: the loop stops at the first k    *)
(* for which the rest fits.                                                *)
LEMMA PolicyIsKept ==
    ASSUME NEW r, NEW e \in 0..MaxFrames, Consistent(r, e), NEW m \in MemLimit \cup {eDontDrop}
    PROVE  LiveOf(prvApplyPolicy(r, m)) = Queue!KeptWithin(LiveOf(r), m)
<1> DEFINE n == r.used
           q == LiveOf(r)
           M == Queue!Memory(q)
           enough(k) == m = eDontDrop \/ k = n \/ AfterDrops(r)[k].sum <= m
           E == {k \in 0..n : enough(k)}
           F == {k \in 0..Len(q) : M[Len(q) - k] <= m}
<1>1. n \in Nat /\ e \in Nat
  BY FrameRingBufferAssumption DEF Consistent, Ring
<1>2. Len(q) = n /\ q \in Seq(Frame)
  BY <1>1, LiveIs
<1>3. M[0] = 0
  BY <1>1, MemoryIsSum
<1>4. \A k \in 0..n : LiveOf(AfterDrops(r)[k]) = Queue!Suffix(q, k) /\ AfterDrops(r)[k].sum = M[n - k]
  BY DropsAreSuffixes
<1>5. prvApplyPolicy(r, m) = AfterDrops(r)[Min(E)]
  BY DEF prvApplyPolicy
<1> HIDE DEF n, q, M
<1>6. CASE m = eDontDrop
  <2>1. 0 \in E /\ \A k \in E : 0 <= k
    BY <1>1, <1>6
  <2> HIDE DEF E
  <2>2. \A k \in E : k \in Nat
    BY <1>1 DEF E
  <2>3. Min(E) = 0
    BY <2>1, <2>2 DEF Min
  <2>4. 0 \in 0..n
    BY <1>1
  <2>5. Queue!Suffix(q, 0) = q
    BY <1>1, <1>2 DEF Queue!Suffix
  <2>6. Queue!KeptWithin(q, m) = q
    BY <1>6 DEF Queue!KeptWithin, eDontDrop
  <2> QED BY <1>4, <1>5, <2>3, <2>4, <2>5, <2>6 DEF q
<1>7. CASE m # eDontDrop
  <2>1. m \in Nat
    BY <1>7, FrameRingBufferAssumption
  <2>2. E = F
    <3>1. ASSUME NEW k \in 0..n PROVE k \in E <=> k \in F
      <4>1. CASE k = n
        <5>1. n - k = 0
          BY <1>1, <4>1
        <5> QED BY <1>1, <1>2, <1>3, <2>1, <4>1, <5>1
      <4>2. CASE k # n
        BY <1>2, <1>4, <1>7, <4>2
      <4> QED BY <4>1, <4>2
    <3> QED BY <1>2, <3>1
  <2>3. Queue!KeptWithin(q, m) = Queue!Suffix(q, Min(F))
    BY <2>1 DEF Queue!KeptWithin, Queue!Min, Min, M
  <2>4. n \in E /\ E \subseteq 0..n
    BY <1>1
  <2> HIDE DEF E, F
  <2>5. \E x \in E : \A y \in E : x <= y
    <3>1. CASE 0 \in E
      BY <1>1, <2>4, <3>1
    <3>2. CASE 0 \notin E
      <4>1. E \subseteq 1..n /\ E # {}
        BY <1>1, <2>4, <3>2
      <4> QED BY <1>1, <4>1, LeastNat
    <3> QED BY <3>1, <3>2
  <2>6. Min(E) \in 0..n
    BY <2>4, <2>5 DEF Min
  <2> QED BY <1>4, <1>5, <2>2, <2>3, <2>6 DEF q
<1> QED BY <1>6, <1>7

(* Enqueuing drops the oldest of a full queue, appends, and keeps what     *)
(* fits.                                                                   *)
LEMMA EnqueueIsAppend ==
    ASSUME NEW r, NEW e \in Nat, e + 1 <= MaxFrames, Consistent(r, e),
           NEW f \in Frame, f.id = e + 1
    PROVE  LiveOf(prvEnqueue(r, f, SerialOf(e + 1))) =
              Append(IF Len(LiveOf(r)) = uCapacity THEN Tail(LiveOf(r)) ELSE LiveOf(r), f)
<1> DEFINE room == IF r.free = 0 THEN prvDequeue(r) ELSE r
<1>1. r.used \in 0..uCapacity /\ r.free = uCapacity - r.used /\ e \in 0..MaxFrames
  BY FrameRingBufferAssumption DEF Consistent, Ring, Indices
<1>2. Len(LiveOf(r)) = r.used
  BY LiveIs
<1>3. /\ Consistent(room, e) /\ room.used < uCapacity
      /\ LiveOf(room) = IF Len(LiveOf(r)) = uCapacity THEN Tail(LiveOf(r)) ELSE LiveOf(r)
  <2>1. CASE r.free = 0
    <3>1. r.used = uCapacity /\ r.used > 0
      BY <1>1, <2>1, Sizes
    <3>2. Consistent(prvDequeue(r), e) /\ prvDequeue(r).used = r.used - 1
      BY <1>1, <3>1, DequeueKeeps
    <3>3. LiveOf(prvDequeue(r)) = Tail(LiveOf(r))
      BY <1>1, <3>1, DequeueIsTail
    <3> QED BY <1>2, <2>1, <3>1, <3>2, <3>3, Sizes
  <2>2. CASE r.free # 0
    BY <1>1, <1>2, <2>2, Sizes
  <2> QED BY <2>1, <2>2
<1>4. prvEnqueue(r, f, SerialOf(e + 1)) = Put(room, e, f)
  BY DEF prvEnqueue, Put
<1> HIDE DEF room
<1>5. Consistent(room, e) /\ room.used < uCapacity
  BY <1>3
<1>6. LiveOf(Put(room, e, f)) = Append(LiveOf(room), f)
  BY <1>5, PutIsAppend
<1> QED BY <1>3, <1>4, <1>6

LEMMA StepImplements == IInv /\ [Next]_vars => [Queue!Next]_(Queue!vars)
<1> SUFFICES ASSUME IInv, [Next]_vars PROVE [Queue!Next]_(Queue!vars)
  OBVIOUS
<1>1. /\ enqueued \in 0..MaxFrames /\ enqueued \in Nat /\ Consistent(ring, enqueued)
      /\ xDropFramePolicy \in MemLimit \cup {eDontDrop}
  BY FrameRingBufferAssumption DEF IInv
<1>2. Live = LiveOf(ring) /\ Live' = LiveOf(ring')
  BY DEF Live, LiveOf
<1>3. ASSUME NEW len \in FrameLen, FrameRingBuffer_enqueue(len) PROVE Queue!Next
  <2> DEFINE f == [id |-> enqueued + 1, uLen |-> len]
             r == prvEnqueue(ring, f, SerialOf(enqueued + 1))
  <2>1. enqueued + 1 <= MaxFrames /\ enqueued + 1 \in 0..MaxFrames /\ f \in Frame /\ f.id = enqueued + 1
    BY <1>1, <1>3, FrameRingBufferAssumption DEF FrameRingBuffer_enqueue, Frame
  <2>2. uNextSerialNumber = SerialOf(enqueued + 1)
    <3>1. (enqueued + 1) - 1 = enqueued
      BY <1>1
    <3> QED BY <3>1 DEF IInv, SerialOf
  <2>3. ring' = prvApplyPolicy(r, xDropFramePolicy) /\ xDropFramePolicy' = xDropFramePolicy
    BY <1>3, <2>2 DEF FrameRingBuffer_enqueue
  <2> HIDE DEF f
  <2>4. /\ Consistent(r, enqueued + 1)
        /\ LiveOf(r) = Append(IF Len(Live) = uCapacity THEN Tail(Live) ELSE Live, f)
    BY <1>1, <1>2, <2>1, EnqueueKeeps, EnqueueIsAppend
  <2> HIDE DEF r
  <2>5. LiveOf(ring') = Queue!KeptWithin(LiveOf(r), xDropFramePolicy)
    BY <1>1, <2>1, <2>3, <2>4, PolicyIsKept
  <2>6. Queue!Enqueue(f)
    BY <1>2, <2>3, <2>4, <2>5 DEF Queue!Enqueue
  <2> QED BY <2>1, <2>6 DEF Queue!Next
<1>4. CASE FrameRingBuffer_dequeue
  <2>1. ring.used > 0 /\ ring' = prvDequeue(ring) /\ xDropFramePolicy' = xDropFramePolicy
    BY <1>4 DEF FrameRingBuffer_dequeue
  <2>2. Live' = Tail(Live)
    BY <1>1, <1>2, <2>1, DequeueIsTail
  <2>3. Live # <<>>
    <3>1. Len(Live) = ring.used
      BY <1>1, <1>2, LiveIs
    <3> QED BY <2>1, <3>1
  <2> QED BY <2>1, <2>2, <2>3 DEF Queue!Next, Queue!Dequeue
<1>5. ASSUME NEW m \in MemLimit \cup {eDontDrop}, FrameRingBuffer_setDropFramePolicy(m) PROVE Queue!Next
  <2>1. ring' = prvApplyPolicy(ring, m) /\ xDropFramePolicy' = m
    BY <1>5 DEF FrameRingBuffer_setDropFramePolicy
  <2>2. Live' = Queue!KeptWithin(Live, m)
    BY <1>1, <1>2, <2>1, PolicyIsKept
  <2> QED BY <2>1, <2>2 DEF Queue!Next, Queue!SetLimit
<1>6. ASSUME UNCHANGED <<ring, xDropFramePolicy>> PROVE UNCHANGED Queue!vars
  BY <1>2, <1>6 DEF Queue!vars
<1>7. \/ \E len \in FrameLen : FrameRingBuffer_enqueue(len)
      \/ FrameRingBuffer_dequeue
      \/ \E m \in MemLimit \cup {eDontDrop} : FrameRingBuffer_setDropFramePolicy(m)
      \/ UNCHANGED <<ring, xDropFramePolicy>>
  BY DEF Next, vars, GetFrame, LoadBuffer, FindFrame, Return
<1> QED BY <1>3, <1>4, <1>5, <1>6, <1>7

(* The buffer is the queue that drops the oldest, for every capacity and   *)
(* limit: no frame is dropped that would have fitted, and none is kept     *)
(* beyond the limit (prvEnqueue, prvApplyPolicyDropOldest).                *)
THEOREM Refinement == Spec => ImplementsDropOldest
<1>1. Init => Queue!Init
  BY DEF Init, Queue!Init, Live, eDontDrop
<1> QED BY <1>1, Inductive, StepImplements, PTL DEF Spec, ImplementsDropOldest, Queue!Spec
=============================================================================
