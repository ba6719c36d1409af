------------------------------ MODULE RtpProofs ------------------------------
(***************************************************************************)
(* Theorems on Rtp, for any track and frames, any room in the buffer, any  *)
(* number of sequence numbers that is larger, and any NACKs; and on        *)
(* VideoSource, for any NALUs, frames and sizes.  Both cut frames into     *)
(* payloads, and the first lemmas are for both.                            *)
(***************************************************************************)
EXTENDS Rtp, VideoSource, SequenceTheorems, FiniteSetTheorems, TLAPS

-----------------------------------------------------------------------------
(* The strengthening of Rtp, in parts.                                     *)

(* What is known of the variables besides TypeOK; packet n has index n - 1.*)
Made == UNION {Range(pays) : pays \in UNION {rtpPayloadFunc(Codec, data) : data \in FrameData}}
RtpPacket ==
    [seq : 0..SeqSize - 1, frame : Nat, header : {p.header : p \in Made}, data : {p.data : p \in Made},
     refOffset : {p.refOffset : p \in Made}, refLength : {p.refLength : p \in Made}]
Typed ==
    /\ todo \in Seq(RtpPacket) /\ packets \in Seq(RtpPacket) /\ frames \in Seq(FrameData)
    /\ unbuffered \in Nat
    /\ tailIndex \in Nat /\ headIndex = Len(packets) /\ lastIndex \in Int
    /\ sequenceNumberList \in Seq(0..SeqSize - 1) /\ validIndexList \in Seq(Int)
    /\ freed \subseteq Packet /\ leaked \subseteq Packet

(* What holds where the two threads are.                                   *)
Control ==
    /\ writer = "idle" => todo = <<>>
    /\ resender \in {"idle", "list"} => index = 1 /\ validIndexList = <<>>
    /\ resender \in {"idle", "list", "extract"} => item = NoPacket
    /\ resender \in {"check", "resend", "putback"} => index <= Len(validIndexList)

(* A packet is in one place; what a slot holds, an index of the buffer     *)
(* leads to.                                                               *)
Kept(s) == \E i \in Int : InRange(i) /\ Slot(i) = s
Places ==
    /\ \A s \in 0..Capacity - 1 : slots[s] # NoPacket =>
        /\ slots[s] # item /\ slots[s] \notin freed /\ slots[s] \notin leaked
        /\ Kept(s)
        /\ \A t \in 0..Capacity - 1 : slots[t] = slots[s] => t = s
    /\ item \notin freed /\ item \notin leaked
    /\ \A n \in freed : n \notin leaked
    /\ \A n \in Packet : n = item \/ n \in freed \/ n \in leaked \/ \E s \in 0..Capacity - 1 : slots[s] = n

(* The packets still to come have the numbers of their indexes.            *)
Sequence ==
    /\ SequenceFollowsIndex
    /\ \A k \in DOMAIN todo : todo[k].seq = GET_UINT16_SEQ_NUM(headIndex + unbuffered + k - 1)

IInv == TypeOK /\ Typed /\ Control /\ Places /\ Sequence

-----------------------------------------------------------------------------
(* Numbers.                                                                *)

(* A non-empty set of numbers has a least element.                         *)
LEMMA LeastNat ==
    ASSUME NEW T, T \subseteq Nat, T # {}
    PROVE  \E x \in T : \A y \in T : x <= y
<1>1. \E x \in T : \A y \in T : ~(<<y, x>> \in OpToRel(<, Nat))
  BY NatLessThanWellFounded, WFMin
<1>2. \A x, y \in Nat : y < x => <<y, x>> \in OpToRel(<, Nat)
  BY DEF OpToRel
<1>3. \E x \in T : \A y \in T : ~(y < x)
  BY <1>1, <1>2, Zenon
<1> QED BY <1>3

LEMMA MinOfTwo ==
    ASSUME NEW a \in Int, NEW b \in Int
    PROVE  Min({a, b}) = IF a <= b THEN a ELSE b
<1>1. \A x \in {a, b} : (\A y \in {a, b} : x <= y) => x = IF a <= b THEN a ELSE b
  OBVIOUS
<1>2. \E x \in {a, b} : \A y \in {a, b} : x <= y
  OBVIOUS
<1> DEFINE c == CHOOSE x \in {a, b} : \A y \in {a, b} : x <= y
<1>3. c \in {a, b} /\ \A y \in {a, b} : c <= y
  BY <1>2
<1>4. Min({a, b}) = c
  BY DEF Min
<1> HIDE DEF c
<1> QED BY <1>1, <1>3, <1>4

(* A remainder is below the modulus, and the rest is a multiple of it.     *)
LEMMA ModRange ==
    ASSUME NEW a \in Int, NEW m \in Nat \ {0}
    PROVE  a % m \in 0..m-1 /\ \E q \in Int : a = m * q + (a % m)
<1>1. a % m \in 0..m - 1 /\ a \div m \in Int
  OBVIOUS
<1>2. a = m * (a \div m) + (a % m)
  OBVIOUS
<1> QED BY <1>1, <1>2

(* What is below the modulus is the remainder.                             *)
LEMMA ModUnique ==
    ASSUME NEW q \in Int, NEW r \in Nat, NEW m \in Nat \ {0}, r < m
    PROVE  (m * q + r) % m = r
BY Z3

(* Going on from the remainder is going on from the number.                *)
LEMMA ModPlus ==
    ASSUME NEW a \in Int, NEW d \in Int, NEW m \in Nat \ {0}
    PROVE  ((a % m) + d) % m = (a + d) % m
<1> DEFINE r == a % m
           s == r + d
           t == s % m
<1>1. r \in 0..m - 1 /\ \E q \in Int : a = m * q + r
  BY ModRange
<1> HIDE DEF r
<1>2. s \in Int
  BY <1>1
<1> HIDE DEF s
<1>3. t \in 0..m - 1 /\ \E p \in Int : s = m * p + t
  BY <1>2, ModRange
<1> HIDE DEF t
<1>4. PICK q \in Int, p \in Int : a = m * q + r /\ s = m * p + t
  BY <1>1, <1>3
<1>5. q + p \in Int /\ a + d = m * (q + p) + t
  BY <1>1, <1>3, <1>4 DEF s
<1>6. (m * (q + p) + t) % m = t
  BY <1>3, <1>5, ModUnique
<1> QED BY <1>5, <1>6 DEF t, s, r

(* Numbers less than the modulus apart have different remainders.          *)
LEMMA ModApart ==
    ASSUME NEW a \in Int, NEW d \in Int, NEW m \in Nat \ {0}, 0 < d, d < m
    PROVE  (a + d) % m # a % m
<1> SUFFICES ASSUME (a + d) % m = a % m PROVE FALSE
  OBVIOUS
<1> DEFINE r == a % m
<1>1. PICK q \in Int, p \in Int : a = m * q + r /\ a + d = m * p + r
  <2>1. \E q \in Int : a = m * q + r
    BY ModRange
  <2>2. \E p \in Int : a + d = m * p + ((a + d) % m)
    <3> DEFINE b == a + d
    <3>1. b \in Int
      OBVIOUS
    <3> HIDE DEF b
    <3>2. \E p \in Int : b = m * p + (b % m)
      BY <3>1, ModRange
    <3> QED BY <3>2 DEF b
  <2> QED BY <2>1, <2>2
<1>2. r \in 0..m - 1
  BY ModRange
<1> HIDE DEF r
<1> DEFINE k == p - q
<1>3. k \in Int /\ d = m * k
  BY <1>1, <1>2
<1> HIDE DEF k
<1>4. CASE k <= 0
  <2>1. m * k <= 0
    BY <1>3, <1>4
  <2> QED BY <1>3, <2>1
<1>5. CASE k >= 1
  <2>1. m * k >= m
    BY <1>3, <1>5
  <2> QED BY <1>3, <2>1
<1> QED BY <1>3, <1>4, <1>5

(* A whole modulus more is the same remainder.                             *)
LEMMA ModAround ==
    ASSUME NEW a \in Int, NEW m \in Nat \ {0}
    PROVE  (a + m) % m = a % m
<1> DEFINE r == a % m
<1>1. PICK q \in Int : a = m * q + r
  BY ModRange
<1>2. r \in 0..m - 1
  BY ModRange
<1> HIDE DEF r
<1>3. q + 1 \in Int /\ a + m = m * (q + 1) + r
  BY <1>1, <1>2
<1>4. (m * (q + 1) + r) % m = r
  BY <1>2, <1>3, ModUnique
<1> QED BY <1>3, <1>4 DEF r

(* Of m numbers that follow each other, the remainders say which is which. *)
LEMMA ModWindow ==
    ASSUME NEW a \in Int, NEW b \in Int, NEW m \in Nat \ {0}, a - b < m, b - a < m, a % m = b % m
    PROVE  a = b
<1>1. CASE a < b
  <2> DEFINE d == b - a
  <2>1. a + d = b /\ d \in Int /\ 0 < d /\ d < m
    BY <1>1
  <2> HIDE DEF d
  <2>2. (a + d) % m # a % m
    BY <2>1, ModApart
  <2> QED BY <2>1, <2>2
<1>2. CASE b < a
  <2> DEFINE d == a - b
  <2>1. b + d = a /\ d \in Int /\ 0 < d /\ d < m
    BY <1>2
  <2> HIDE DEF d
  <2>2. (b + d) % m # b % m
    BY <2>1, ModApart
  <2> QED BY <2>1, <2>2
<1> QED BY <1>1, <1>2

-----------------------------------------------------------------------------
(* Sequences.                                                              *)

(* A set with at most one element as a sequence.                           *)
LEMMA SetToSeqProps ==
    ASSUME NEW S, NEW T, T = {} \/ \E x \in S : T = {x}
    PROVE  SetToSeq(T) \in Seq(T) /\ Len(SetToSeq(T)) <= 1 /\ SetToSeq(T) \in Seq(S)
<1> DEFINE N == Cardinality(T)
<1>1. N \in {0, 1} /\ (T = {} <=> N = 0)
  <2>1. Cardinality({}) = 0
    BY FS_EmptySet
  <2>2. \A x : Cardinality({x}) = 1
    BY FS_Singleton
  <2>3. T # {} => N = 1
    BY <2>2
  <2> QED BY <2>1, <2>3
<1>2. \E f \in [1..N -> T] : IsInjective(f)
  <2>1. CASE T = {}
    <3>1. <<>> \in [1..N -> T] /\ IsInjective(<<>>)
      BY <1>1, <2>1 DEF IsInjective
    <3> QED BY <3>1
  <2>2. CASE T # {}
    <3>1. PICK x \in S : T = {x}
      BY <2>2
    <3> DEFINE f == [k \in 1..N |-> x]
    <3>2. f \in [1..N -> T]
      BY <3>1
    <3>3. IsInjective(f)
      BY <1>1 DEF IsInjective
    <3> QED BY <3>2, <3>3
  <2> QED BY <2>1, <2>2
<1>3. SetToSeq(T) \in [1..N -> T]
  BY <1>2 DEF SetToSeq
<1>4. SetToSeq(T) \in Seq(T) /\ Len(SetToSeq(T)) = N
  <2> DEFINE q == SetToSeq(T)
  <2>1. q \in [1..N -> T] /\ N \in Nat
    BY <1>1, <1>3
  <2> HIDE DEF q, N
  <2>2. q \in Seq(T) /\ DOMAIN q = 1..N
    BY <2>1
  <2> QED BY <2>1, <2>2 DEF q
<1>5. T \subseteq S
  OBVIOUS
<1> QED BY <1>1, <1>4, <1>5, SeqMonotonic

(* Going on by less than the modulus wraps at most once.                   *)
LEMMA ModAdd ==
    ASSUME NEW a \in Int, NEW m \in Nat \ {0}, NEW d \in 0..m-1
    PROVE  (a + d) % m = IF (a % m) + d < m THEN (a % m) + d ELSE (a % m) + d - m
<1> DEFINE r == a % m
<1>1. PICK q \in Int : a = m*q + r
  BY ModRange
<1>2. r \in 0..m-1
  BY ModRange
<1> HIDE DEF r
<1>3. CASE r + d < m
  <2>1. a + d = m * q + (r + d)
    BY <1>1, <1>2
  <2>2. (m * q + (r + d)) % m = r + d
    BY <1>2, <1>3, ModUnique
  <2> QED BY <2>1, <2>2, <1>3 DEF r
<1>4. CASE r + d >= m
  <2>1. a + d = m * (q+1) + (r + d - m)
    BY <1>1, <1>2
  <2>2. r + d - m \in Nat /\ r + d - m < m /\ q + 1 \in Int
    BY <1>2, <1>4
  <2>3. (m * (q+1) + (r + d - m)) % m = r + d - m
    BY <2>2, ModUnique
  <2> QED BY <2>1, <2>3, <1>4, <1>2 DEF r
<1> QED BY <1>2, <1>3, <1>4

-----------------------------------------------------------------------------
(* What the operators of the module give.                                  *)

(* The types of the variables, in the words the steps below use.           *)
LEMMA Known ==
    ASSUME IInv
    PROVE  /\ Capacity \in Nat \ {0} /\ SeqSize \in Nat \ {0} /\ Capacity < SeqSize
           /\ ValidIndexes \in Nat \ {0}
           /\ Len(packets) \in Nat /\ Packet = 1..Len(packets) /\ NoPacket \notin Packet
           /\ \A n \in Packet : packets[n] \in RtpPacket
           /\ Len(todo) \in Nat /\ DOMAIN todo = 1..Len(todo) /\ (todo = <<>> <=> Len(todo) = 0)
           /\ \A k \in DOMAIN todo : todo[k] \in RtpPacket
           /\ Len(sequenceNumberList) \in Nat
           /\ DOMAIN sequenceNumberList = 1..Len(sequenceNumberList)
           /\ \A k \in DOMAIN sequenceNumberList : sequenceNumberList[k] \in 0..SeqSize - 1
           /\ Len(validIndexList) \in Nat /\ Len(validIndexList) <= Len(sequenceNumberList)
           /\ \A k \in 1..Len(validIndexList) : validIndexList[k] \in Int
           /\ tailIndex \in Nat /\ headIndex \in Nat /\ tailIndex <= headIndex
           /\ headIndex - tailIndex <= Capacity /\ headIndex = Len(packets)
           /\ \A s \in 0..Capacity - 1 : slots[s] = NoPacket \/ slots[s] \in Packet
           /\ sequenceNumber \in 0..SeqSize - 1 /\ unbuffered \in Nat
<1>1. /\ Capacity \in Nat \ {0} /\ SeqSize \in Nat \ {0} /\ Capacity < SeqSize
      /\ ValidIndexes \in Nat \ {0}
  BY RtpAssumption
<1>2. Typed /\ TypeOK
  BY DEF IInv
<1>3. Len(packets) \in Nat /\ Packet = 1..Len(packets) /\ \A n \in Packet : packets[n] \in RtpPacket
  <2>1. packets \in Seq(RtpPacket)
    BY <1>2 DEF Typed
  <2>2. Len(packets) \in Nat /\ DOMAIN packets = 1..Len(packets)
    BY <2>1
  <2> QED BY <2>1, <2>2, ElementOfSeq DEF Packet
<1>4. /\ Len(todo) \in Nat /\ DOMAIN todo = 1..Len(todo) /\ (todo = <<>> <=> Len(todo) = 0)
      /\ \A k \in DOMAIN todo : todo[k] \in RtpPacket
  <2>1. todo \in Seq(RtpPacket)
    BY <1>2 DEF Typed
  <2>2. Len(todo) \in Nat /\ DOMAIN todo = 1..Len(todo)
    BY <2>1
  <2>3. todo = <<>> <=> Len(todo) = 0
    BY <2>1, EmptySeq
  <2> QED BY <2>1, <2>2, <2>3, ElementOfSeq
<1>5. /\ Len(sequenceNumberList) \in Nat
      /\ DOMAIN sequenceNumberList = 1..Len(sequenceNumberList)
      /\ \A k \in DOMAIN sequenceNumberList : sequenceNumberList[k] \in 0..SeqSize - 1
  <2>1. sequenceNumberList \in Seq(0..SeqSize - 1)
    BY <1>2 DEF Typed
  <2>2. Len(sequenceNumberList) \in Nat /\ DOMAIN sequenceNumberList = 1..Len(sequenceNumberList)
    BY <2>1
  <2> QED BY <2>1, <2>2, ElementOfSeq
<1>6. /\ Len(validIndexList) \in Nat
      /\ \A k \in 1..Len(validIndexList) : validIndexList[k] \in Int
  <2>1. validIndexList \in Seq(Int)
    BY <1>2 DEF Typed
  <2>2. Len(validIndexList) \in Nat
    BY <2>1
  <2> QED BY <2>1, <2>2, ElementOfSeq
<1>7. Len(validIndexList) <= Len(sequenceNumberList)
  <2>1. Len(validIndexList) <= Min({Len(sequenceNumberList), ValidIndexes})
    BY <1>2 DEF TypeOK
  <2>2. Min({Len(sequenceNumberList), ValidIndexes}) =
            IF Len(sequenceNumberList) <= ValidIndexes THEN Len(sequenceNumberList) ELSE ValidIndexes
    BY <1>1, <1>5, MinOfTwo
  <2> QED BY <1>1, <1>5, <1>6, <2>1, <2>2
<1>8. /\ tailIndex \in Nat /\ headIndex \in Nat /\ tailIndex <= headIndex
      /\ headIndex - tailIndex <= Capacity /\ headIndex = Len(packets)
      /\ sequenceNumber \in 0..SeqSize - 1 /\ unbuffered \in Nat
  BY <1>2, <1>3 DEF TypeOK, Typed
<1>9. \A s \in 0..Capacity - 1 : slots[s] = NoPacket \/ slots[s] \in Packet
  BY <1>2 DEF TypeOK
<1>10. NoPacket \notin Packet
  BY <1>3 DEF NoPacket
<1> QED BY <1>1, <1>3, <1>4, <1>5, <1>6, <1>7, <1>8, <1>9, <1>10

LEMMA SlotIs ==
    ASSUME Capacity \in Nat \ {0}, NEW i \in Int
    PROVE  Slot(i) \in 0..Capacity - 1
BY ModRange DEF Slot

LEMMA SeqIs ==
    ASSUME SeqSize \in Nat \ {0}, NEW i \in Int
    PROVE  GET_UINT16_SEQ_NUM(i) \in 0..SeqSize - 1
BY ModRange DEF GET_UINT16_SEQ_NUM

(* A number is reached from 0 step by step.                                *)
LEMMA UpTo ==
    ASSUME NEW n \in Nat, NEW P, 0 \in P, \A k \in 1..n : k - 1 \in P => k \in P
    PROVE  n \in P
<1> SUFFICES ASSUME n \notin P PROVE FALSE
  OBVIOUS
<1> DEFINE T == {k \in 1..n : k \notin P}
<1>1. T \subseteq Nat /\ n \in T
  BY Z3
<1>2. PICK m \in T : \A k \in T : m <= k
  <2> HIDE DEF T
  <2>1. T # {}
    BY <1>1
  <2> QED BY <1>1, <2>1, LeastNat
<1>3. m \in 1..n /\ m \notin P
  OBVIOUS
<1>4. m - 1 = 0 \/ m - 1 \in 1..n
  BY <1>3
<1>5. m - 1 \notin T
  <2> HIDE DEF T
  <2> QED BY <1>2, <1>3
<1>6. m - 1 \in P
  <2>1. CASE m - 1 = 0
    BY <2>1
  <2>2. CASE m - 1 \in 1..n
    BY <1>5, <2>2
  <2> QED BY <1>4, <2>1, <2>2
<1> QED BY <1>3, <1>6

LEMMA MaxIs ==
    ASSUME NEW k \in Nat, NEW s \in SUBSET (1..k), k \in s
    PROVE  Max(s) = k
<1>1. \A x \in s : (\A y \in s : x >= y) => x = k
  OBVIOUS
<1>2. \E x \in s : \A y \in s : x >= y
  OBVIOUS
<1> DEFINE c == CHOOSE x \in s : \A y \in s : x >= y
<1>3. c \in s /\ \A y \in s : c >= y
  BY <1>2
<1>4. Max(s) = c
  BY DEF Max
<1> HIDE DEF c
<1> QED BY <1>1, <1>3, <1>4

LEMMA MaxIn ==
    ASSUME NEW n \in Nat, NEW s \in SUBSET (1..n), s # {}
    PROVE  Max(s) \in s /\ Max(s) \in 1..n /\ s \ {Max(s)} \in SUBSET (1..n)
<1> DEFINE R == {n - x : x \in s}
<1>0. \A x \in s : x \in 1..n
  OBVIOUS
<1>1. R \subseteq Nat /\ R # {}
  BY <1>0
<1>2. PICK r \in R : \A y \in R : r <= y
  <2> HIDE DEF R
  <2> QED BY <1>1, LeastNat
<1>3. PICK x \in s : r = n - x
  OBVIOUS
<1>4. \A y \in s : x >= y
  <2> SUFFICES ASSUME NEW y \in s PROVE x >= y
    OBVIOUS
  <2>1. n - x <= n - y
    BY <1>2, <1>3
  <2> QED BY <1>0, <2>1
<1>5. x = Max(s) \/ Max(s) \in s
  BY <1>4 DEF Max
<1> QED BY <1>5

LEMMA PrefixIs ==
    ASSUME NEW n \in Nat, NEW k \in 1..n
    PROVE  1..k \in SUBSET (1..n) /\ 1..k # {} /\ Max(1..k) = k
<1>1. k \in Nat /\ k \in 1..k /\ 1..k \in SUBSET (1..n)
  OBVIOUS
<1>2. Max(1..k) = k
  <2> DEFINE s == 1..k
  <2>1. s \in SUBSET (1..k) /\ k \in s
    BY <1>1
  <2> HIDE DEF s
  <2>2. Max(s) = k
    BY <1>1, <2>1, MaxIs
  <2> QED BY <2>2 DEF s
<1> QED BY <1>1, <1>2

(* The recursive function by which numbers are folded, the next to be      *)
(* taken picked from those that are left, exists: by their number.         *)
FoldingBy(pick, f, n, base, F) ==
    \A s \in SUBSET (1..n) : f[s] = IF s = {} THEN base ELSE F[pick[s]][f[s \ {pick[s]}]]

LEMMA FoldByExists ==
    ASSUME NEW n \in Nat, NEW D, NEW base \in D, NEW F \in [1..n -> [D -> D]],
           NEW pick, \A s \in SUBSET (1..n) : s # {} => pick[s] \in s
    PROVE  \E f \in [SUBSET (1..n) -> D] : FoldingBy(pick, f, n, base, F)
<1> DEFINE S == SUBSET (1..n)
           Rec(f, s) == f[s] = IF s = {} THEN base ELSE F[pick[s]][f[s \ {pick[s]}]]
           P == {m \in 0..n : \E f \in [S -> D] : \A s \in S : Cardinality(s) <= m => Rec(f, s)}
<1>1. \A s \in S : /\ Cardinality(s) \in 0..n /\ (s = {} <=> Cardinality(s) = 0)
                   /\ \A x \in s : s \ {x} \in S /\ Cardinality(s \ {x}) = Cardinality(s) - 1
  <2>1. IsFiniteSet(1..n) /\ Cardinality(1..n) = n
    BY FS_Interval
  <2> SUFFICES ASSUME NEW s \in S
               PROVE  /\ Cardinality(s) \in 0..n /\ (s = {} <=> Cardinality(s) = 0)
                      /\ \A x \in s : s \ {x} \in S /\ Cardinality(s \ {x}) = Cardinality(s) - 1
    OBVIOUS
  <2>2. IsFiniteSet(s) /\ Cardinality(s) <= n
    <3>1. s \in SUBSET (1..n)
      OBVIOUS
    <3>2. IsFiniteSet(s) /\ Cardinality(s) <= Cardinality(1..n)
      BY <2>1, <3>1, FS_Subset, Zenon
    <3> QED BY <2>1, <3>2, Zenon
  <2>3. Cardinality(s) \in Nat
    BY <2>2, FS_CardinalityType
  <2>4. s = {} <=> Cardinality(s) = 0
    BY <2>2, FS_EmptySet
  <2>5. \A x \in s : Cardinality(s \ {x}) = Cardinality(s) - 1
    BY <2>2, FS_RemoveElement
  <2> QED BY <2>2, <2>3, <2>4, <2>5
<1>2. 0 \in P
  <2> DEFINE f == [s \in S |-> base]
  <2>1. f \in [S -> D] /\ \A s \in S : f[s] = base
    BY Zenon
  <2> HIDE DEF f, S
  <2>2. \A s \in S : Cardinality(s) <= 0 => Rec(f, s)
    BY <1>1, <2>1
  <2>3. 0 \in 0..n
    OBVIOUS
  <2> HIDE DEF Rec
  <2> QED BY <2>1, <2>2, <2>3
<1>3. ASSUME NEW m \in 1..n, m - 1 \in P PROVE m \in P
  <2> HIDE DEF S, Rec
  <2>1. PICK f \in [S -> D] : \A s \in S : Cardinality(s) <= m - 1 => Rec(f, s)
    BY <1>3
  <2> DEFINE v(s) == IF s = {} THEN base ELSE F[pick[s]][f[s \ {pick[s]}]]
             g == [s \in S |-> IF Cardinality(s) <= m - 1 THEN f[s] ELSE v(s)]
  <2>2. ASSUME NEW s \in S PROVE v(s) \in D
    <3>1. CASE s = {}
      BY <3>1
    <3>2. CASE s # {}
      <4>1. pick[s] \in s /\ s \in SUBSET (1..n)
        BY <3>2 DEF S
      <4>2. F[pick[s]] \in [D -> D] /\ s \ {pick[s]} \in S
        BY <1>1, <4>1
      <4>3. f[s \ {pick[s]}] \in D
        BY <4>2
      <4> QED BY <3>2, <4>2, <4>3
    <3> QED BY <3>1, <3>2
  <2>3. g \in [S -> D]
    <3> HIDE DEF v
    <3> QED BY <2>2
  <2>4. \A s \in S : g[s] = IF Cardinality(s) <= m - 1 THEN f[s] ELSE v(s)
    BY Zenon
  <2> HIDE DEF g
  <2>5. ASSUME NEW s \in S, Cardinality(s) <= m PROVE Rec(g, s)
    <3>1. s # {} => pick[s] \in s
      BY DEF S
    <3>2. s # {} => g[s \ {pick[s]}] = f[s \ {pick[s]}]
      <4> SUFFICES ASSUME s # {} PROVE g[s \ {pick[s]}] = f[s \ {pick[s]}]
        OBVIOUS
      <4> DEFINE t == s \ {pick[s]}
      <4>1. t \in S /\ Cardinality(t) = Cardinality(s) - 1 /\ Cardinality(s) \in Nat
        <5>1. pick[s] \in s /\ Cardinality(s) \in 0..n
          BY <1>1, <3>1
        <5>2. t \in S /\ Cardinality(t) = Cardinality(s) - 1
          BY <1>1, <5>1, Zenon
        <5> QED BY <5>1, <5>2
      <4> HIDE DEF t
      <4>2. Cardinality(t) <= m - 1
        BY <2>5, <4>1
      <4> QED BY <2>4, <4>1, <4>2 DEF t
    <3>3. CASE Cardinality(s) <= m - 1
      <4>1. g[s] = f[s] /\ Rec(f, s)
        BY <2>1, <2>4, <3>3
      <4> QED BY <3>2, <4>1 DEF Rec
    <3>4. CASE ~(Cardinality(s) <= m - 1)
      <4>1. g[s] = v(s)
        BY <2>4, <3>4
      <4> QED BY <3>2, <4>1 DEF Rec
    <3> QED BY <3>3, <3>4
  <2>6. m \in 0..n
    OBVIOUS
  <2> QED BY <2>3, <2>5, <2>6
<1> HIDE DEF P
<1>4. n \in P
  BY <1>2, <1>3, UpTo
<1>5. PICK f \in [S -> D] : \A s \in S : Cardinality(s) <= n => Rec(f, s)
  BY <1>4 DEF P
<1>6. \A s \in S : Rec(f, s)
  <2>1. \A s \in S : Cardinality(s) <= n
    BY <1>1
  <2> HIDE DEF S, Rec
  <2> QED BY <1>5, <2>1
<1> QED BY <1>6 DEF FoldingBy

LEMMA MinIn ==
    ASSUME NEW n \in Nat, NEW s \in SUBSET (1..n), s # {}
    PROVE  Min(s) \in s
<1>1. PICK x \in s : \A y \in s : x <= y
  <2>1. s \subseteq Nat
    OBVIOUS
  <2> QED BY <2>1, LeastNat
<1> QED BY <1>1, Zenon DEF Min

LEMMA MinIs ==
    ASSUME NEW s \in SUBSET Nat, NEW k \in s, \A x \in s : k <= x
    PROVE  Min(s) = k
<1>1. \A x \in s : (\A y \in s : x <= y) => x = k
  <2> SUFFICES ASSUME NEW x \in s, x <= k PROVE x = k
    OBVIOUS
  <2>1. k <= x /\ x \in Nat /\ k \in Nat
    OBVIOUS
  <2> QED BY <2>1
<1> DEFINE c == CHOOSE x \in s : \A y \in s : x <= y
<1>2. c \in s /\ \A y \in s : c <= y
  <2>1. \E x \in s : \A y \in s : x <= y
    OBVIOUS
  <2> QED BY <2>1, Zenon
<1>3. Min(s) = c
  BY DEF Min
<1> HIDE DEF c
<1> QED BY <1>1, <1>2, <1>3

(* F[k] is what the first k sequences make one behind the other.           *)
Joins(F, n, q) == F[0] = <<>> /\ \A k \in 1..n : F[k] = F[k - 1] \o q[k]

LEMMA JoinsExist ==
    ASSUME NEW S, NEW n \in Nat, NEW q \in [1..n -> Seq(S)]
    PROVE  \E F \in [0..n -> Seq(S)] : Joins(F, n, q)
<1> DEFINE G == [k \in 1..n |-> [r \in Seq(S) |-> r \o q[k]]]
           pick == [s \in SUBSET (1..n) |-> Max(s)]
<1>1. \A k \in 1..n, r \in Seq(S) : r \o q[k] \in Seq(S)
  BY ConcatProperties
<1>2. G \in [1..n -> [Seq(S) -> Seq(S)]]
  BY <1>1
<1>3. \A k \in 1..n, r \in Seq(S) : G[k][r] = r \o q[k]
  OBVIOUS
<1>4. \A s \in SUBSET (1..n) : pick[s] = Max(s) /\ (s # {} => pick[s] \in s)
  <2>1. \A s \in SUBSET (1..n) : s # {} => Max(s) \in s
    BY MaxIn
  <2> QED BY <2>1
<1> HIDE DEF G, pick
<1>5. <<>> \in Seq(S)
  OBVIOUS
<1>6. PICK f \in [SUBSET (1..n) -> Seq(S)] : FoldingBy(pick, f, n, <<>>, G)
  BY <1>2, <1>4, <1>5, FoldByExists
<1> DEFINE F == [k \in 0..n |-> f[1..k]]
<1>7. \A k \in 0..n : 1..k \in SUBSET (1..n)
  OBVIOUS
<1>8. F \in [0..n -> Seq(S)]
  BY <1>6, <1>7
<1>9. F[0] = <<>>
  <2>1. 1..0 = {} /\ 0 \in 0..n
    OBVIOUS
  <2>2. F[0] = f[1..0]
    BY <2>1
  <2> QED BY <1>6, <2>1, <2>2 DEF FoldingBy
<1>10. ASSUME NEW k \in 1..n PROVE F[k] = F[k - 1] \o q[k]
  <2>1. 1..k \in SUBSET (1..n) /\ 1..k # {} /\ Max(1..k) = k
    BY PrefixIs
  <2>2. (1..k) \ {k} = 1..(k - 1) /\ k \in 0..n /\ k - 1 \in 0..n
    OBVIOUS
  <2>3. F[k] = f[1..k] /\ F[k - 1] = f[1..(k - 1)] /\ F[k - 1] \in Seq(S)
    BY <1>8, <2>2
  <2> HIDE DEF F
  <2>4. f[1..k] = G[k][f[1..(k - 1)]]
    <3>1. pick[1..k] = k
      BY <1>4, <2>1
    <3>2. f[1..k] = G[pick[1..k]][f[(1..k) \ {pick[1..k]}]]
      BY <1>6, <2>1 DEF FoldingBy
    <3> QED BY <2>2, <3>1, <3>2
  <2> QED BY <1>3, <2>3, <2>4
<1> HIDE DEF F
<1> QED BY <1>8, <1>9, <1>10 DEF Joins

LEMMA JoinsSame ==
    ASSUME NEW n \in Nat, NEW q, NEW F, NEW G, Joins(F, n, q), Joins(G, n, q)
    PROVE  F[n] = G[n]
<1> DEFINE P == {k \in 0..n : F[k] = G[k]}
<1>1. 0 \in P
  BY DEF Joins
<1>2. ASSUME NEW k \in 1..n, k - 1 \in P PROVE k \in P
  <2>1. F[k - 1] = G[k - 1] /\ k \in 0..n
    BY <1>2
  <2> QED BY <2>1 DEF Joins
<1> HIDE DEF P
<1>3. n \in P
  BY <1>1, <1>2, UpTo
<1> QED BY <1>3 DEF P

(* FlattenSeq makes what they all make.                                    *)
LEMMA FlattenIs ==
    ASSUME NEW S, NEW n \in Nat, NEW q \in [1..n -> Seq(S)], NEW F, Joins(F, n, q)
    PROVE  FlattenSeq(q) = F[n] /\ F[n] \in Seq(S)
<1> DEFINE Is(f) == f = [i \in 1..n |-> IF i = 1 THEN q[i] ELSE f[i - 1] \o q[i]]
           flatten == CHOOSE f : Is(f)
<1>1. PICK G \in [0..n -> Seq(S)] : Joins(G, n, q)
  BY JoinsExist
<1>2. F[n] = G[n] /\ G[n] \in Seq(S)
  <2>1. G[n] \in Seq(S)
    BY <1>1
  <2> QED BY <1>1, <2>1, JoinsSame
<1>3. Len(q) = n
  <2>1. q \in Seq(Seq(S)) /\ DOMAIN q = 1..n
    OBVIOUS
  <2> QED BY <2>1
<1>4. CASE n = 0
  <2>1. FlattenSeq(q) = q
    BY <1>3, <1>4 DEF FlattenSeq
  <2>2. q = <<>>
    BY <1>4
  <2> QED BY <1>4, <1>2, <2>1, <2>2 DEF Joins
<1>5. CASE n # 0
  <2>1. FlattenSeq(q) = flatten[n]
    BY <1>3, <1>5 DEF FlattenSeq
  <2>2. Is(flatten)
    <3> DEFINE f == [i \in 1..n |-> G[i]]
    <3>1. ASSUME NEW i \in 1..n PROVE f[i] = IF i = 1 THEN q[i] ELSE f[i - 1] \o q[i]
      <4>1. G[i] = G[i - 1] \o q[i] /\ f[i] = G[i]
        BY <1>1 DEF Joins
      <4>2. CASE i = 1
        <5>1. G[i - 1] = <<>>
          BY <1>1, <4>2 DEF Joins
        <5>2. <<>> \o q[i] = q[i]
          <6>1. q[i] \in Seq(S)
            OBVIOUS
          <6> QED BY <6>1, ConcatEmptySeq
        <5> QED BY <4>1, <4>2, <5>1, <5>2
      <4>3. CASE i # 1
        <5>1. i - 1 \in 1..n
          BY <4>3
        <5> QED BY <4>1, <4>3, <5>1
      <4> QED BY <4>2, <4>3
    <3>2. f = [i \in 1..n |-> f[i]]
      OBVIOUS
    <3> HIDE DEF f
    <3>3. Is(f)
      BY <3>1, <3>2
    <3> HIDE DEF Is
    <3> QED BY <3>3
  <2> HIDE DEF flatten
  <2>3. \A i \in 1..n : flatten[i] = IF i = 1 THEN q[i] ELSE flatten[i - 1] \o q[i]
    BY <2>2
  <2> HIDE DEF Is
  <2> DEFINE H == [k \in 0..n |-> IF k = 0 THEN <<>> ELSE flatten[k]]
  <2>4. H[0] = <<>> /\ \A k \in 1..n : H[k] = flatten[k]
    OBVIOUS
  <2> HIDE DEF H
  <2>5. ASSUME NEW k \in 1..n PROVE H[k] = H[k - 1] \o q[k]
    <3>1. CASE k = 1
      <4>1. H[k] = q[k] /\ H[k - 1] = <<>> /\ q[k] \in Seq(S)
        BY <2>3, <2>4, <3>1
      <4> QED BY <4>1, ConcatEmptySeq
    <3>2. CASE k # 1
      <4>1. k - 1 \in 1..n
        BY <3>2
      <4> QED BY <2>3, <2>4, <3>2, <4>1
    <3> QED BY <3>1, <3>2
  <2>6. Joins(H, n, q)
    BY <2>4, <2>5 DEF Joins
  <2>7. H[n] = F[n]
    BY <2>6, JoinsSame
  <2>8. n \in 1..n
    BY <1>5
  <2> QED BY <1>2, <2>1, <2>4, <2>7, <2>8
<1> QED BY <1>4, <1>5

(* What is there at the end of the first k does not change any more.       *)
Laid(F, n, q) ==
    /\ \A k \in 1..n : Len(F[k]) = Len(F[k - 1]) + Len(q[k])
    /\ \A i \in 0..n, k \in 0..n : i <= k => Len(F[i]) <= Len(F[k])
    /\ \A k \in 1..n : \A j \in 1..Len(q[k]) : F[n][Len(F[k - 1]) + j] = q[k][j]

LEMMA JoinsLaid ==
    ASSUME NEW S, NEW n \in Nat, NEW q \in [1..n -> Seq(S)], NEW F \in [0..n -> Seq(S)], Joins(F, n, q)
    PROVE  Laid(F, n, q)
<1>1. ASSUME NEW k \in 1..n
      PROVE  /\ k \in 0..n /\ k - 1 \in 0..n /\ F[k] \in Seq(S) /\ F[k - 1] \in Seq(S) /\ q[k] \in Seq(S)
             /\ Len(F[k]) \in Nat /\ Len(F[k - 1]) \in Nat /\ Len(q[k]) \in Nat
             /\ F[k] = F[k - 1] \o q[k] /\ Len(F[k]) = Len(F[k - 1]) + Len(q[k])
             /\ \A j \in 1..Len(F[k - 1]) : F[k][j] = F[k - 1][j]
             /\ \A j \in 1..Len(q[k]) : F[k][Len(F[k - 1]) + j] = q[k][j]
  <2>1. k \in 0..n /\ k - 1 \in 0..n
    OBVIOUS
  <2>2. F[k] \in Seq(S) /\ F[k - 1] \in Seq(S) /\ q[k] \in Seq(S)
    BY <2>1
  <2>3. F[k] = F[k - 1] \o q[k]
    BY DEF Joins
  <2>4. Len(F[k]) \in Nat /\ Len(F[k - 1]) \in Nat /\ Len(q[k]) \in Nat
    BY <2>2
  <2>5. /\ Len(F[k]) = Len(F[k - 1]) + Len(q[k])
        /\ \A i \in 1 .. Len(F[k - 1]) + Len(q[k]) :
             F[k][i] = IF i <= Len(F[k - 1]) THEN F[k - 1][i] ELSE q[k][i - Len(F[k - 1])]
    BY <2>2, <2>3, ConcatProperties
  <2>6. \A j \in 1..Len(F[k - 1]) : F[k][j] = F[k - 1][j]
    <3>1. \A j \in 1..Len(F[k - 1]) : j \in 1..Len(F[k - 1]) + Len(q[k]) /\ j <= Len(F[k - 1])
      BY <2>4
    <3> QED BY <2>5, <3>1
  <2>7. ASSUME NEW j \in 1..Len(q[k]) PROVE F[k][Len(F[k - 1]) + j] = q[k][j]
    <3> DEFINE a == Len(F[k - 1])
    <3>1. a \in Nat /\ a + j \in 1..a + Len(q[k]) /\ ~(a + j <= a) /\ (a + j) - a = j
      BY <2>4
    <3> HIDE DEF a
    <3> QED BY <2>5, <3>1 DEF a
  <2> QED BY <2>1, <2>2, <2>3, <2>4, <2>5, <2>6, <2>7
<1> DEFINE Good(i, k) == Len(F[i]) <= Len(F[k]) /\ \A j \in 1..Len(F[i]) : F[k][j] = F[i][j]
<1>0. \A i \in 0..n : F[i] \in Seq(S) /\ Len(F[i]) \in Nat
  OBVIOUS
<1>2. ASSUME NEW i \in 0..n, NEW k \in i..n PROVE Good(i, k)
  <2> DEFINE P == {m \in 0..n : m >= i => Good(i, m)}
  <2>1. 0 \in P
    BY <1>0
  <2>2. ASSUME NEW m \in 1..n, m - 1 \in P PROVE m \in P
    <3>1. m \in 0..n
      OBVIOUS
    <3>2. ASSUME m >= i PROVE Good(i, m)
      <4>1. CASE m = i
        BY <1>0, <4>1
      <4>2. CASE m # i
        <5>1. m - 1 >= i
          BY <3>2, <4>2
        <5>2. Good(i, m - 1)
          BY <2>2, <5>1
        <5> QED BY <1>0, <1>1, <5>2
      <4> QED BY <4>1, <4>2
    <3> QED BY <3>1, <3>2
  <2> HIDE DEF P
  <2>3. n \in P
    BY <2>1, <2>2, UpTo
  <2>4. k \in Nat /\ \A m \in 1..k : m \in 1..n
    OBVIOUS
  <2>5. k \in P
    BY <2>1, <2>2, <2>4, UpTo
  <2>6. k >= i
    OBVIOUS
  <2> QED BY <2>5, <2>6 DEF P
<1>3. ASSUME NEW k \in 1..n, NEW j \in 1..Len(q[k]) PROVE F[n][Len(F[k - 1]) + j] = q[k][j]
  <2>1. n \in k..n /\ k \in 0..n
    OBVIOUS
  <2>2. Good(k, n)
    BY <1>2, <2>1
  <2>3. Len(F[k - 1]) + j \in 1..Len(F[k])
    BY <1>1
  <2> QED BY <1>1, <2>2, <2>3
<1>4. \A i \in 0..n, k \in 0..n : i <= k => k \in i..n
  OBVIOUS
<1> HIDE DEF Good
<1>5. \A i \in 0..n, k \in 0..n : i <= k => Good(i, k)
  BY <1>2, <1>4
<1> QED BY <1>1, <1>3, <1>5 DEF Good, Laid

(* The recursive function by which numbers are folded, F[k] what is done   *)
(* at the kth, exists: the largest is picked first.                        *)
Folding(f, n, base, F) ==
    \A s \in SUBSET (1..n) : f[s] = IF s = {} THEN base ELSE F[Max(s)][f[s \ {Max(s)}]]

LEMMA FoldExists ==
    ASSUME NEW n \in Nat, NEW base \in Nat, NEW F \in [1..n -> [Nat -> Nat]]
    PROVE  \E f \in [SUBSET (1..n) -> Nat] : Folding(f, n, base, F)
<1> DEFINE pick == [s \in SUBSET (1..n) |-> Max(s)]
<1>1. \A s \in SUBSET (1..n) : pick[s] = Max(s) /\ (s # {} => pick[s] \in s)
  <2>1. \A s \in SUBSET (1..n) : s # {} => Max(s) \in s
    BY MaxIn
  <2> QED BY <2>1
<1> HIDE DEF pick
<1>2. PICK f \in [SUBSET (1..n) -> Nat] : FoldingBy(pick, f, n, base, F)
  BY <1>1, FoldByExists
<1>3. Folding(f, n, base, F)
  BY <1>1, <1>2, Zenon DEF Folding, FoldingBy
<1> QED BY <1>3

(* What it gives for all n is reached from the base over the first k.      *)
LEMMA FoldType ==
    ASSUME NEW n \in Nat, NEW base \in Nat, NEW f,
           f[{}] = base,
           \A k \in 1..n : f[(1..k) \ {k}] \in Nat => f[1..k] \in Nat
    PROVE  f[1..n] \in Nat
<1> DEFINE P == {k \in 0..n : f[1..k] \in Nat}
<1>1. 0 \in P
  <2>1. 1..0 = {}
    OBVIOUS
  <2> QED BY <2>1
<1>2. ASSUME NEW k \in 1..n, k - 1 \in P PROVE k \in P
  <2>1. (1..k) \ {k} = 1..(k - 1)
    OBVIOUS
  <2>2. f[1..(k - 1)] \in Nat
    BY <1>2
  <2>3. f[1..k] \in Nat
    BY <2>1, <2>2
  <2>4. k \in 0..n
    OBVIOUS
  <2> QED BY <2>3, <2>4
<1> HIDE DEF P
<1>3. n \in P
  BY <1>1, <1>2, UpTo
<1> QED BY <1>3 DEF P

(* Bytes in base Radix are a number.                                       *)
LEMMA BigEndianType ==
    ASSUME NEW n \in Nat, NEW q \in [1..n -> Nat], Radix \in Nat
    PROVE  FoldLeft(LAMBDA m, byte : m * Radix + byte, 0, q) \in Nat
<1> DEFINE Is(f) == f = [s \in SUBSET (1..n) |->
                           IF s = {} THEN 0 ELSE LET x == Max(s) IN f[s \ {x}] * Radix + q[x]]
           iter == CHOOSE f : Is(f)
           F == [k \in 1..n |-> [m \in Nat |-> m * Radix + q[k]]]
<1>1. F \in [1..n -> [Nat -> Nat]]
  BY Z3
<1>2. \A k \in 1..n, m \in Nat : F[k][m] = m * Radix + q[k]
  OBVIOUS
<1> HIDE DEF F
<1>3. PICK f \in [SUBSET (1..n) -> Nat] : Folding(f, n, 0, F)
  BY <1>1, FoldExists
<1>4. ASSUME NEW s \in SUBSET (1..n), s # {}
      PROVE  Max(s) \in 1..n /\ s \ {Max(s)} \in SUBSET (1..n)
  BY <1>4, MaxIn
<1>5. Is(f)
  <2>1. ASSUME NEW s \in SUBSET (1..n)
        PROVE  f[s] = IF s = {} THEN 0 ELSE LET x == Max(s) IN f[s \ {x}] * Radix + q[x]
    BY <1>2, <1>3, <1>4 DEF Folding
  <2>2. f = [s \in SUBSET (1..n) |-> f[s]]
    OBVIOUS
  <2> QED BY <2>1, <2>2
<1>6. Is(iter)
  <2> HIDE DEF Is
  <2> QED BY <1>5
<1>7. FoldLeft(LAMBDA m, byte : m * Radix + byte, 0, q) = iter[1..n]
  BY DEF FoldLeft, MapThenFoldSet
<1> HIDE DEF iter
<1>8. \A s \in SUBSET (1..n) : iter[s] = IF s = {} THEN 0 ELSE iter[s \ {Max(s)}] * Radix + q[Max(s)]
  BY <1>6
<1> HIDE DEF Is
<1>9. iter[{}] = 0
  BY <1>8
<1>10. ASSUME NEW k \in 1..n, iter[(1..k) \ {k}] \in Nat PROVE iter[1..k] \in Nat
  <2>1. 1..k \in SUBSET (1..n) /\ 1..k # {} /\ Max(1..k) = k
    BY PrefixIs
  <2>2. iter[1..k] = iter[(1..k) \ {k}] * Radix + q[k]
    BY <1>8, <2>1
  <2> DEFINE a == iter[(1..k) \ {k}]
  <2>3. a \in Nat /\ q[k] \in Nat
    BY <1>10
  <2> HIDE DEF a
  <2>4. a * Radix \in Nat
    BY <2>3
  <2> QED BY <2>2, <2>3, <2>4 DEF a
<1> DEFINE none == 0
<1>11. none \in Nat /\ iter[{}] = none
  BY <1>9
<1> HIDE DEF none
<1>12. iter[1..n] \in Nat
  BY <1>10, <1>11, FoldType
<1> QED BY <1>7, <1>12

(* Lengths added to an offset give an offset.                              *)
LEMMA NextOffsetType ==
    ASSUME NEW n \in Nat, NEW offset \in Nat, NEW q, DOMAIN q = 1..n, \A k \in 1..n : q[k].refLength \in Nat
    PROVE  FoldLeft(LAMBDA m, p : m + p.refLength, offset, q) \in Nat
<1> DEFINE Is(f) == f = [s \in SUBSET (1..n) |->
                           IF s = {} THEN offset ELSE LET x == Max(s) IN f[s \ {x}] + q[x].refLength]
           iter == CHOOSE f : Is(f)
           F == [k \in 1..n |-> [m \in Nat |-> m + q[k].refLength]]
<1>1. F \in [1..n -> [Nat -> Nat]]
  BY Z3
<1>2. \A k \in 1..n, m \in Nat : F[k][m] = m + q[k].refLength
  OBVIOUS
<1> HIDE DEF F
<1>3. PICK f \in [SUBSET (1..n) -> Nat] : Folding(f, n, offset, F)
  BY <1>1, FoldExists
<1>4. ASSUME NEW s \in SUBSET (1..n), s # {}
      PROVE  Max(s) \in 1..n /\ s \ {Max(s)} \in SUBSET (1..n)
  BY <1>4, MaxIn
<1>5. Is(f)
  <2>1. ASSUME NEW s \in SUBSET (1..n)
        PROVE  f[s] = IF s = {} THEN offset ELSE LET x == Max(s) IN f[s \ {x}] + q[x].refLength
    BY <1>2, <1>3, <1>4 DEF Folding
  <2>2. f = [s \in SUBSET (1..n) |-> f[s]]
    OBVIOUS
  <2> QED BY <2>1, <2>2
<1>6. Is(iter)
  <2> HIDE DEF Is
  <2> QED BY <1>5
<1>7. FoldLeft(LAMBDA m, p : m + p.refLength, offset, q) = iter[1..n]
  BY DEF FoldLeft, MapThenFoldSet
<1> HIDE DEF iter
<1>8. \A s \in SUBSET (1..n) : iter[s] = IF s = {} THEN offset ELSE iter[s \ {Max(s)}] + q[Max(s)].refLength
  BY <1>6
<1> HIDE DEF Is
<1>9. iter[{}] = offset
  BY <1>8
<1>10. ASSUME NEW k \in 1..n, iter[(1..k) \ {k}] \in Nat PROVE iter[1..k] \in Nat
  <2>1. 1..k \in SUBSET (1..n) /\ 1..k # {} /\ Max(1..k) = k
    BY PrefixIs
  <2>2. iter[1..k] = iter[(1..k) \ {k}] + q[k].refLength
    BY <1>8, <2>1
  <2> QED BY <1>10, <2>2
<1>11. iter[1..n] \in Nat
  BY <1>9, <1>10, FoldType
<1> QED BY <1>7, <1>11

-----------------------------------------------------------------------------
(* What the payloaders make.                                               *)

LEMMA BytesIs ==
    ASSUME NEW b \in Seq(Nat), NEW i \in 0..Len(b), NEW n \in Nat
    PROVE  LET m == IF i + n <= Len(b) THEN n ELSE Len(b) - i
           IN  /\ Bytes(b, i, n) \in Seq(Nat) /\ Len(Bytes(b, i, n)) = m /\ m \in 0..n
               /\ \A k \in 1..m : Bytes(b, i, n)[k] = b[i + k]
<1> DEFINE m == IF i + n <= Len(b) THEN n ELSE Len(b) - i
<1>1. Len(b) \in Nat /\ i \in Nat /\ i <= Len(b)
  OBVIOUS
<1>2. Min({i + n, Len(b)}) = i + m
  <2>1. i + n \in Int /\ Len(b) \in Int
    BY <1>1
  <2>2. Min({i + n, Len(b)}) = IF i + n <= Len(b) THEN i + n ELSE Len(b)
    BY <2>1, MinOfTwo
  <2> QED BY <1>1, <2>2
<1>3. m \in 0..n /\ i + 1 \in 1..Len(b) + 1 /\ i + m \in (i + 1) - 1..Len(b)
  BY <1>1
<1> HIDE DEF m
<1> DEFINE q == SubSeq(b, i + 1, i + m)
<1>4. /\ q \in Seq(Nat) /\ Len(q) = (i + m) - (i + 1) + 1
      /\ \A k \in 1..(i + m) - (i + 1) + 1 : q[k] = b[(i + 1) + k - 1]
  <2> DEFINE x == i + 1
             y == i + m
  <2>1. x \in Int /\ y \in Int /\ (\A j \in x..y : b[j] \in Nat) /\ (x <= y \/ y = x - 1)
    BY <1>1, <1>3
  <2> HIDE DEF x, y
  <2>2. /\ SubSeq(b, x, y) \in Seq(Nat) /\ Len(SubSeq(b, x, y)) = IF x <= y THEN y - x + 1 ELSE 0
        /\ \A k \in 1..y - x + 1 : SubSeq(b, x, y)[k] = b[x + k - 1]
    BY <2>1, SubSeqProperties
  <2>3. Len(SubSeq(b, x, y)) = y - x + 1
    BY <2>1, <2>2
  <2> QED BY <2>2, <2>3 DEF x, y
<1>5. (i + m) - (i + 1) + 1 = m /\ \A k \in 1..m : (i + 1) + k - 1 = i + k
  BY <1>1, <1>3
<1>6. Bytes(b, i, n) = q
  BY <1>2 DEF Bytes
<1> HIDE DEF q
<1> QED BY <1>3, <1>4, <1>5, <1>6 DEF m

(* A start code lies in the frame and ends in a byte 1.                    *)
LEMMA CodeLengthIs ==
    ASSUME NEW b \in Seq(Nat), NEW i \in 0..Len(b), CodeLength(b, i) # 0
    PROVE  LET c == CodeLength(b, i) IN c \in {3, 4} /\ i + c <= Len(b) /\ b[i + c] = 1
<1>1. ASSUME NEW c \in {3, 4}, Bytes(b, i, c) = StartCode(c) PROVE i + c <= Len(b) /\ b[i + c] = 1
  <2>1. Len(StartCode(c)) = c /\ StartCode(c)[c] = 1
    BY DEF StartCode
  <2>2. c \in Nat /\ Len(b) \in Nat
    OBVIOUS
  <2> DEFINE m == IF i + c <= Len(b) THEN c ELSE Len(b) - i
             q == Bytes(b, i, c)
  <2>3. Len(q) = m /\ m \in 0..c /\ \A k \in 1..m : q[k] = b[i + k]
    BY <2>2, BytesIs
  <2>4. Len(q) = c /\ q[c] = 1
    BY <1>1, <2>1
  <2> HIDE DEF q
  <2>5. i + c <= Len(b) /\ m = c
    BY <2>2, <2>3, <2>4
  <2> HIDE DEF m
  <2> QED BY <2>2, <2>3, <2>4, <2>5
<1> QED BY <1>1 DEF CodeLength

(* The scan for the end of a NALU: the function exists, from the end of    *)
(* the frame to its beginning, and does not lead back to the start code.   *)
Scanning(b, f, i) ==
    f[i] = CASE i >= Len(b) -> Len(b)
             [] i < Len(b) /\ ByteAt(b, i) = 0 -> f[i + 1]
             [] i < Len(b) /\ ByteAt(b, i) = 1 /\ Bytes(b, i - 2, 2) = <<0, 0>> ->
                   IF ByteAt(b, i - 3) = 0 THEN i - 3 ELSE i - 2
             [] OTHER -> f[i + 3]

LEMMA ScanExists ==
    ASSUME NEW b \in Seq(Nat)
    PROVE  \E f : f = [i \in Nat |-> f[i]] /\ \A i \in Nat : Scanning(b, f, i)
<1> DEFINE n == Len(b)
           P == {k \in 0..n : \E f : f = [i \in Nat |-> f[i]] /\ \A i \in Nat : i >= n - k => Scanning(b, f, i)}
<1>0. n \in Nat
  OBVIOUS
<1>1. 0 \in P
  <2> DEFINE f == [i \in Nat |-> n]
  <2>1. \A i \in Nat : f[i] = n
    OBVIOUS
  <2>2. f = [i \in Nat |-> f[i]]
    OBVIOUS
  <2> HIDE DEF f
  <2>3. \A i \in Nat : i >= n - 0 => Scanning(b, f, i)
    BY <2>1 DEF Scanning
  <2>4. 0 \in 0..n
    BY <1>0
  <2> QED BY <2>2, <2>3, <2>4
<1>2. ASSUME NEW k \in 1..n, k - 1 \in P PROVE k \in P
  <2>1. PICK f : f = [i \in Nat |-> f[i]] /\ \A i \in Nat : i >= n - (k - 1) => Scanning(b, f, i)
    BY <1>2
  <2> DEFINE j == n - k
             v == CASE j >= Len(b) -> Len(b)
                    [] j < Len(b) /\ ByteAt(b, j) = 0 -> f[j + 1]
                    [] j < Len(b) /\ ByteAt(b, j) = 1 /\ Bytes(b, j - 2, 2) = <<0, 0>> ->
                          IF ByteAt(b, j - 3) = 0 THEN j - 3 ELSE j - 2
                    [] OTHER -> f[j + 3]
             g == [i \in Nat |-> IF i = j THEN v ELSE f[i]]
  <2>2. j \in Nat /\ j < n
    BY <1>0
  <2>3. g[j] = v /\ \A i \in Nat : i # j => g[i] = f[i]
    <3> HIDE DEF j, v
    <3> QED BY <2>2
  <2>4. g = [i \in Nat |-> g[i]]
    <3> HIDE DEF v, j
    <3> QED OBVIOUS
  <2>5. g[j + 1] = f[j + 1] /\ g[j + 3] = f[j + 3]
    <3>1. j + 1 \in Nat /\ j + 1 # j /\ j + 3 \in Nat /\ j + 3 # j
      BY <2>2
    <3> HIDE DEF g, j
    <3> QED BY <2>3, <3>1
  <2>6. Scanning(b, g, j)
    <3> HIDE DEF g, j
    <3> QED BY <2>3, <2>5 DEF Scanning
  <2>7. ASSUME NEW i \in Nat, i >= n - k PROVE Scanning(b, g, i)
    <3>1. CASE i = j
      BY <2>6, <3>1
    <3>2. CASE i # j
      <4>1. i >= n - (k - 1) /\ i > j
        BY <1>0, <2>7, <3>2
      <4>2. Scanning(b, f, i)
        BY <2>1, <4>1
      <4>3. i + 1 \in Nat /\ i + 1 # j /\ i + 3 \in Nat /\ i + 3 # j
        BY <2>2, <4>1
      <4> HIDE DEF g, j
      <4>4. g[i] = f[i] /\ g[i + 1] = f[i + 1] /\ g[i + 3] = f[i + 3]
        BY <2>3, <3>2, <4>3
      <4> QED BY <4>2, <4>4 DEF Scanning
    <3> QED BY <3>1, <3>2
  <2> HIDE DEF g
  <2>8. k \in 0..n
    BY <1>0
  <2> QED BY <2>4, <2>7, <2>8
<1> HIDE DEF P
<1>3. n \in P
  BY <1>0, <1>1, <1>2, UpTo
<1>4. PICK f : f = [i \in Nat |-> f[i]] /\ \A i \in Nat : i >= n - n => Scanning(b, f, i)
  BY <1>3 DEF P
<1>5. \A i \in Nat : i >= n - n
  BY <1>0
<1> QED BY <1>4, <1>5

LEMMA NextStartCodeIs ==
    ASSUME NEW b \in Seq(Nat), NEW start \in 3..Len(b), b[start] = 1
    PROVE  NextStartCode(b, start) \in Nat /\ NextStartCode(b, start) >= start
<1> DEFINE n == Len(b)
           Is(f) == f = [i \in Nat |->
                CASE i >= Len(b) -> Len(b)
                  [] i < Len(b) /\ ByteAt(b, i) = 0 -> f[i + 1]
                  [] i < Len(b) /\ ByteAt(b, i) = 1 /\ Bytes(b, i - 2, 2) = <<0, 0>> ->
                        IF ByteAt(b, i - 3) = 0 THEN i - 3 ELSE i - 2
                  [] OTHER -> f[i + 3]]
           scan == CHOOSE f : Is(f)
<1>0. n \in Nat /\ start \in Nat /\ start >= 3 /\ start <= n
  OBVIOUS
<1>1. \E f : Is(f)
  <2>1. PICK f : f = [i \in Nat |-> f[i]] /\ \A i \in Nat : Scanning(b, f, i)
    BY ScanExists
  <2>2. Is(f)
    BY <2>1 DEF Scanning
  <2> QED BY <2>2
<1>2. Is(scan)
  <2> HIDE DEF Is
  <2> QED BY <1>1
<1>3. NextStartCode(b, start) = scan[start]
  BY DEF NextStartCode
<1> HIDE DEF scan
<1>4. \A i \in Nat : Scanning(b, scan, i)
  BY <1>2 DEF Scanning
<1> HIDE DEF Is
<1> DEFINE Ends(i) == scan[i] \in Nat /\ scan[i] >= start
           P == {k \in 0..n : \A i \in Nat : i >= start /\ i >= n - k => Ends(i)}
<1>5. ASSUME NEW i \in Nat, i >= start, i < n, \A m \in Nat : m > i => Ends(m) PROVE Ends(i)
  <2>1. i + 1 \in Nat /\ i + 1 > i /\ i + 3 \in Nat /\ i + 3 > i
    OBVIOUS
  <2>2. Ends(i + 1) /\ Ends(i + 3)
    <3> HIDE DEF Ends
    <3> QED BY <1>5, <2>1
  <2>3. ASSUME ByteAt(b, i) = 1, Bytes(b, i - 2, 2) = <<0, 0>>
        PROVE  i - 2 >= start /\ (ByteAt(b, i - 3) = 0 => i - 3 >= start)
    <3>1. i - 2 \in 0..Len(b) /\ (i - 2) + 2 <= Len(b)
      BY <1>0, <1>5
    <3>2. \A k \in 1..2 : Bytes(b, i - 2, 2)[k] = b[(i - 2) + k]
      BY <3>1, BytesIs
    <3>3. b[(i - 2) + 1] = 0 /\ b[(i - 2) + 2] = 0
      BY <2>3, <3>2
    <3>4. (i - 2) + 1 # start /\ (i - 2) + 2 # start
      BY <3>3
    <3>5. i - 2 >= start
      BY <1>0, <1>5, <3>4
    <3>6. ByteAt(b, i - 3) = b[(i - 3) + 1]
      BY DEF ByteAt
    <3>7. ByteAt(b, i - 3) = 0 => (i - 3) + 1 # start
      BY <3>6
    <3> QED BY <1>0, <1>5, <3>5, <3>7
  <2>4. Scanning(b, scan, i) /\ i < Len(b)
    BY <1>4, <1>5
  <2>5. \/ scan[i] = scan[i + 1] \/ scan[i] = scan[i + 3]
        \/ /\ ByteAt(b, i) = 1 /\ Bytes(b, i - 2, 2) = <<0, 0>>
           /\ scan[i] = IF ByteAt(b, i - 3) = 0 THEN i - 3 ELSE i - 2
    BY <2>4 DEF Scanning
  <2>6. \/ scan[i] = scan[i + 1] \/ scan[i] = scan[i + 3]
        \/ scan[i] \in Int /\ scan[i] >= start
    BY <2>3, <2>5
  <2> QED BY <1>0, <2>2, <2>6
<1>6. 0 \in P
  <2>1. \A i \in Nat : i >= start /\ i >= n - 0 => Ends(i)
    BY <1>0, <1>4 DEF Scanning
  <2>2. 0 \in 0..n
    BY <1>0
  <2> HIDE DEF Ends
  <2> QED BY <2>1, <2>2
<1>7. ASSUME NEW k \in 1..n, k - 1 \in P PROVE k \in P
  <2>1. \A m \in Nat : m >= start /\ m >= n - (k - 1) => Ends(m)
    BY <1>7
  <2> HIDE DEF Ends
  <2>2. ASSUME NEW i \in Nat, i >= start, i >= n - k PROVE Ends(i)
    <3>1. CASE i >= n - (k - 1)
      BY <2>1, <2>2, <3>1
    <3>2. CASE ~(i >= n - (k - 1))
      <4>1. i < n /\ \A m \in Nat : m > i => m >= start /\ m >= n - (k - 1)
        BY <1>0, <2>2, <3>2
      <4> QED BY <1>5, <2>1, <2>2, <4>1
    <3> QED BY <3>1, <3>2
  <2>3. k \in 0..n
    BY <1>0
  <2> QED BY <2>2, <2>3
<1> HIDE DEF P
<1>8. n \in P
  BY <1>0, <1>6, <1>7, UpTo
<1>9. Ends(start)
  <2>1. start >= n - n
    BY <1>0
  <2> HIDE DEF Ends
  <2> QED BY <1>0, <1>8, <2>1 DEF P
<1> QED BY <1>3, <1>9

LEMMA BytesType ==
    ASSUME NEW b \in Seq(Nat), NEW i \in Nat, NEW n \in Nat
    PROVE  Bytes(b, i, n) \in Seq(Nat) /\ (i >= Len(b) => Bytes(b, i, n) = <<>>)
<1> DEFINE x == i + 1
           y == IF i + n <= Len(b) THEN i + n ELSE Len(b)
<1>1. Min({i + n, Len(b)}) = y
  <2>1. i + n \in Int /\ Len(b) \in Int
    OBVIOUS
  <2> QED BY <2>1, MinOfTwo
<1>2. x \in Int /\ y \in Int /\ (\A j \in x..y : b[j] \in Nat) /\ (i >= Len(b) => y < x)
  OBVIOUS
<1>3. Bytes(b, i, n) = SubSeq(b, x, y)
  BY <1>1 DEF Bytes
<1> HIDE DEF x, y
<1>4. SubSeq(b, x, y) \in Seq(Nat) /\ (y < x => SubSeq(b, x, y) = <<>>)
  BY <1>2, SubSeqProperties, SubSeqEmpty
<1> QED BY <1>2, <1>3, <1>4

LEMMA LengthAtType ==
    ASSUME NEW b \in Seq(Nat), NEW i \in 0..Len(b), i + 4 <= Len(b), Radix \in Nat
    PROVE  LengthAt(b, i) \in Nat
<1> DEFINE q == Bytes(b, i, 4)
<1>1. q \in Seq(Nat) /\ Len(q) = 4
  <2>1. 4 \in Nat
    OBVIOUS
  <2>2. q \in Seq(Nat) /\ Len(q) = IF i + 4 <= Len(b) THEN 4 ELSE Len(b) - i
    BY <2>1, BytesIs
  <2> QED BY <2>2
<1> HIDE DEF q
<1>2. q \in [1..4 -> Nat] /\ 4 \in Nat
  BY <1>1, LenProperties
<1>3. FoldLeft(LAMBDA m, byte : m * Radix + byte, 0, q) \in Nat
  BY <1>2, BigEndianType
<1> QED BY <1>3 DEF LengthAt, q

(* A NALU that is found lies behind where it was looked for.               *)
LEMMA NextNaluIs ==
    ASSUME NEW b \in Seq(Nat), NEW i \in Nat, NEW a, Radix \in Nat
    PROVE  \/ NextNalu(b, i, a) = {}
           \/ \E n : /\ NextNalu(b, i, a) = {n}
                     /\ n.begin \in Nat /\ n.end \in Nat
                     /\ i < n.begin /\ n.begin <= Len(b) /\ n.begin <= n.end
<1>0. Len(b) \in Nat
  OBVIOUS
<1>1. ASSUME i > Len(b) PROVE CodeLength(b, i) = 0
  <2>1. i >= Len(b) /\ 3 \in Nat /\ 4 \in Nat
    BY <1>0, <1>1
  <2>2. Bytes(b, i, 3) = <<>> /\ Bytes(b, i, 4) = <<>>
    BY <2>1, BytesType
  <2>3. <<>> # StartCode(3) /\ <<>> # StartCode(4)
    <3>1. Len(StartCode(3)) = 3 /\ Len(StartCode(4)) = 4 /\ 3 # 0 /\ 4 # 0
      BY DEF StartCode
    <3>2. Len(<<>>) = 0
      BY EmptySeq, Zenon
    <3>3. \A q : q = <<>> => Len(q) = 0
      BY <3>2, Zenon
    <3>4. Len(StartCode(3)) # 0 /\ Len(StartCode(4)) # 0
      BY <3>1, Zenon
    <3> QED BY <3>3, <3>4, Zenon
  <2>4. Bytes(b, i, 3) # StartCode(3) /\ Bytes(b, i, 4) # StartCode(4)
    BY <2>2, <2>3, Zenon
  <2> QED BY <2>4 DEF CodeLength
<1>2. ASSUME a, CodeLength(b, i) # 0
      PROVE  \E n : /\ NextNalu(b, i, a) = {n}
                    /\ n.begin \in Nat /\ n.end \in Nat
                    /\ i < n.begin /\ n.begin <= Len(b) /\ n.begin <= n.end
  <2> DEFINE c == CodeLength(b, i)
             s == i + c
             n == [begin |-> s, end |-> NextStartCode(b, s)]
  <2>1. i \in 0..Len(b)
    BY <1>0, <1>1, <1>2
  <2>2. c \in {3, 4} /\ i + c <= Len(b) /\ b[i + c] = 1
    BY <1>2, <2>1, CodeLengthIs
  <2>3. NextNalu(b, i, a) = {n}
    BY <1>2 DEF NextNalu
  <2> HIDE DEF c
  <2>4. s \in 3..Len(b) /\ b[s] = 1 /\ s > i
    BY <1>0, <2>2
  <2> HIDE DEF s
  <2>5. NextStartCode(b, s) \in Nat /\ NextStartCode(b, s) >= s
    BY <2>4, NextStartCodeIs
  <2>6. n.begin = s /\ n.end = NextStartCode(b, s)
    OBVIOUS
  <2> HIDE DEF n
  <2> QED BY <1>0, <2>3, <2>4, <2>5, <2>6
<1>3. ASSUME ~a, Len(b) - i >= 4
      PROVE  \E n : /\ NextNalu(b, i, a) = {n}
                    /\ n.begin \in Nat /\ n.end \in Nat
                    /\ i < n.begin /\ n.begin <= Len(b) /\ n.begin <= n.end
  <2> DEFINE n == [begin |-> i + 4, end |-> i + 4 + LengthAt(b, i)]
  <2>1. NextNalu(b, i, a) = {n}
    BY <1>0, <1>3 DEF NextNalu
  <2>2. LengthAt(b, i) \in Nat
    BY <1>0, <1>3, LengthAtType
  <2>3. n.begin = i + 4 /\ n.end = i + 4 + LengthAt(b, i)
    OBVIOUS
  <2> HIDE DEF n
  <2> QED BY <1>0, <1>3, <2>1, <2>2, <2>3
<1>4. (a /\ CodeLength(b, i) = 0) \/ (~a /\ ~(Len(b) - i >= 4)) => NextNalu(b, i, a) = {}
  BY <1>0 DEF NextNalu
<1> QED BY <1>2, <1>3, <1>4

(* A list: its numbers are those of its elements.                          *)
IsList(q) == q \in Seq(Range(q))

LEMMA ListIs ==
    ASSUME NEW n \in Nat, NEW q, q = [k \in 1..n |-> q[k]]
    PROVE  IsList(q) /\ DOMAIN q = 1..n
<1>1. DOMAIN q = 1..n
  OBVIOUS
<1>2. \A k \in 1..n : q[k] \in Range(q)
  BY <1>1 DEF Range
<1>3. q \in [1..n -> Range(q)]
  BY <1>2
<1> QED BY <1>1, <1>3 DEF IsList

LEMMA JoinedIsList ==
    ASSUME NEW q, NEW r, IsList(q), IsList(r)
    PROVE  IsList(q \o r)
<1> DEFINE S == Range(q) \cup Range(r)
<1>1. q \in Seq(S) /\ r \in Seq(S)
  BY SeqMonotonic DEF IsList
<1> HIDE DEF S
<1> DEFINE p == q \o r
<1>2. p \in Seq(S)
  BY <1>1
<1> HIDE DEF p
<1>3. Len(p) \in Nat /\ p \in [1..Len(p) -> S]
  BY <1>2
<1>5. p = [k \in 1..Len(p) |-> p[k]]
  BY <1>3
<1>4. IsList(p)
  BY <1>3, <1>5, ListIs
<1> QED BY <1>4 DEF p

LEMMA PieceCountType ==
    ASSUME NEW data \in Seq(Nat), NEW room \in Nat \ {0}
    PROVE  PieceCount(data, room) \in Nat
<1> DEFINE a == Len(data) + room - 1
<1>1. a \in Nat
  OBVIOUS
<1> HIDE DEF a
<1>2. a \div room \in Nat
  BY <1>1
<1> QED BY <1>2 DEF PieceCount, a

LEMMA PayloadsOfNalu ==
    ASSUME NEW nalu \in Seq(Nat), NEW offset \in Nat
    PROVE  LET made == createPayloadFromNalu(nalu, offset)
           IN  /\ IsList(made)
               /\ \E n \in Nat : DOMAIN made = 1..n /\ \A k \in 1..n : made[k].refLength \in Nat
<1> DEFINE made == createPayloadFromNalu(nalu, offset)
<1>1. \A h, d, r : Payload(h, d, r).refLength = Len(d)
  BY DEF Payload
<1>2. CASE Len(nalu) <= Mtu
  <2> DEFINE p == Payload([type |-> "single"], nalu, offset)
  <2>1. made = <<p>>
    BY <1>2 DEF createPayloadFromNalu
  <2>2. p.refLength \in Nat
    <3>1. p.refLength = Len(nalu)
      BY <1>1
    <3> QED BY <3>1
  <2> HIDE DEF p
  <2>3. made = [k \in 1..1 |-> made[k]] /\ 1 \in Nat /\ DOMAIN made = 1..1 /\ made[1] = p
    BY <2>1
  <2> HIDE DEF made
  <2>4. \A k \in 1..1 : made[k].refLength \in Nat
    BY <2>2, <2>3
  <2>5. IsList(made)
    BY <2>3, ListIs
  <2> QED BY <2>3, <2>4, <2>5 DEF made
<1>3. CASE ~(Len(nalu) <= Mtu)
  <2> DEFINE room == Mtu - FuAHeaderSize
             data == Tail(nalu)
             n == PieceCount(data, room)
  <2>1. room \in Nat \ {0} /\ Mtu \in Nat
    BY MtuAssumption DEF FuAHeaderSize
  <2>2. data \in Seq(Nat)
    <3>1. nalu # <<>>
      BY <1>3, <2>1
    <3> QED BY <3>1
  <2>3. made = Fragments(nalu, offset)
    BY <1>3 DEF createPayloadFromNalu
  <2> DEFINE e(k) == Payload([type |-> "FU-A", refIdc |-> RefIdc(Head(nalu)), naluType |-> nalType(Head(nalu)),
                              start |-> k = 1, end |-> k = n],
                             Piece(data, room, k), offset + (k - 1) * room)
  <2>4. made = [k \in 1..n |-> e(k)]
    BY <2>3 DEF Fragments
  <2>5. ASSUME NEW k \in 1..n PROVE e(k).refLength \in Nat
    <3> DEFINE i == (k - 1) * room
    <3>1. n \in Nat
      BY <2>1, <2>2, PieceCountType
    <3> HIDE DEF n, data, room
    <3>2. k - 1 \in Nat
      BY <3>1
    <3>3. i \in Nat
      BY <2>1, <3>2
    <3> HIDE DEF i
    <3>4. Bytes(data, i, room) \in Seq(Nat)
      BY <2>1, <2>2, <3>3, BytesType
    <3>5. e(k).refLength = Len(Bytes(data, i, room))
      BY <1>1 DEF Piece, i
    <3> QED BY <3>4, <3>5
  <2>6. n \in Nat
    BY <2>1, <2>2, PieceCountType
  <2> HIDE DEF e, n, made
  <2>7. made = [k \in 1..n |-> made[k]] /\ \A k \in 1..n : made[k] = e(k)
    BY <2>4
  <2>8. IsList(made) /\ DOMAIN made = 1..n
    BY <2>6, <2>7, ListIs
  <2> QED BY <2>5, <2>6, <2>7, <2>8 DEF made
<1> QED BY <1>2, <1>3

(* What one round of createPayloadForH264 gives, when f is what the rounds *)
(* behind it give.                                                         *)
Round(b, f, i, o, n) ==
    LET offset == o + n.begin - i
        made == createPayloadFromNalu(Bytes(b, n.begin, n.end - n.begin), offset)
        next == FoldLeft(LAMBDA m, p : m + p.refLength, offset, made)
    IN  IF n.begin = Len(b) THEN {<<>>}
        ELSE CASE n.end = Len(b) -> {made}
               [] n.end > Len(b) -> Anything
               [] OTHER -> {made \o rest : rest \in f[n.end][next]}
PayloadsAt(b, f, i, o) == UNION {Round(b, f, i, o, n) : n \in NextNalu(b, i, NALU_isAnnexBFrame(b))}

(* Either a round asks for no further one, or for one behind it.           *)
Ends(b, i, o) == \E S : (\A f : PayloadsAt(b, f, i, o) = S) /\ (\A p \in S : IsList(p))
GoesOn(b, i, o) ==
    \E made, e, x : /\ IsList(made) /\ e \in Nat /\ x \in Nat /\ i < e /\ e < Len(b)
                    /\ \A f : PayloadsAt(b, f, i, o) = {made \o rest : rest \in f[e][x]}

LEMMA AnythingIsList ==
    ASSUME NEW p \in Anything
    PROVE  IsList(p)
<1>1. Len(p) \in Nat /\ DOMAIN p = 1..Len(p) /\ p = [k \in 1..Len(p) |-> p[k]]
  BY DEF Anything
<1> DEFINE n == Len(p)
<1> HIDE DEF n
<1>2. n \in Nat /\ p = [k \in 1..n |-> p[k]]
  BY <1>1 DEF n
<1> QED BY <1>2, ListIs

LEMMA PayloadsAtIs ==
    ASSUME NEW b \in Seq(Nat), NEW i \in Nat, NEW o \in Nat
    PROVE  Ends(b, i, o) \/ GoesOn(b, i, o)
<1> DEFINE a == NALU_isAnnexBFrame(b)
<1>0. Len(b) \in Nat /\ Radix \in Nat /\ a \in BOOLEAN
  BY NaluAssumption DEF NALU_isAnnexBFrame
<1>1. \/ NextNalu(b, i, a) = {}
      \/ \E n : /\ NextNalu(b, i, a) = {n}
                /\ n.begin \in Nat /\ n.end \in Nat
                /\ i < n.begin /\ n.begin <= Len(b) /\ n.begin <= n.end
  <2> HIDE DEF a
  <2> QED BY <1>0, NextNaluIs
<1>2. CASE NextNalu(b, i, a) = {}
  <2>1. \A f : PayloadsAt(b, f, i, o) = {}
    BY <1>2 DEF PayloadsAt
  <2> QED BY <2>1 DEF Ends
<1>3. ASSUME NEW n, NextNalu(b, i, a) = {n}, n.begin \in Nat, n.end \in Nat,
             i < n.begin, n.begin <= Len(b), n.begin <= n.end
      PROVE  Ends(b, i, o) \/ GoesOn(b, i, o)
  <2> DEFINE nalu == Bytes(b, n.begin, n.end - n.begin)
             offset == o + n.begin - i
             made == createPayloadFromNalu(nalu, offset)
             next == FoldLeft(LAMBDA m, p : m + p.refLength, offset, made)
             Joined(f) == {made \o rest : rest \in f[n.end][next]}
  <2>1. \A f : PayloadsAt(b, f, i, o) = Round(b, f, i, o, n)
    BY <1>3 DEF PayloadsAt
  <2>2. offset \in Nat /\ n.end - n.begin \in Nat
    BY <1>3
  <2>3. nalu \in Seq(Nat)
    BY <1>3, <2>2, BytesType
  <2>4. IsList(made) /\ next \in Nat
    <3> HIDE DEF nalu, offset
    <3>1. IsList(made)
      BY <2>2, <2>3, PayloadsOfNalu
    <3>2. PICK m \in Nat : DOMAIN made = 1..m /\ \A k \in 1..m : made[k].refLength \in Nat
      BY <2>2, <2>3, PayloadsOfNalu
    <3> HIDE DEF made
    <3>3. next \in Nat
      BY <2>2, <3>2, NextOffsetType
    <3> QED BY <3>1, <3>3
  <2>5. \A f : Round(b, f, i, o, n) = IF n.begin = Len(b) THEN {<<>>}
                                     ELSE CASE n.end = Len(b) -> {made}
                                            [] n.end > Len(b) -> Anything
                                            [] OTHER -> Joined(f)
    BY DEF Round
  <2> HIDE DEF made, next, Joined
  <2>6. CASE n.begin = Len(b)
    <3>1. \A f : PayloadsAt(b, f, i, o) = {<<>>}
      BY <2>1, <2>5, <2>6
    <3>2. IsList(<<>>)
      BY DEF IsList
    <3> QED BY <3>1, <3>2 DEF Ends
  <2>7. CASE n.begin # Len(b) /\ n.end = Len(b)
    <3>1. \A f : PayloadsAt(b, f, i, o) = {made}
      BY <1>0, <2>1, <2>5, <2>7
    <3> QED BY <2>4, <3>1 DEF Ends
  <2>8. CASE n.begin # Len(b) /\ n.end > Len(b)
    <3>1. \A f : PayloadsAt(b, f, i, o) = Anything
      BY <1>0, <1>3, <2>1, <2>5, <2>8
    <3>2. \A p \in Anything : IsList(p)
      BY AnythingIsList
    <3> QED BY <3>1, <3>2 DEF Ends
  <2>9. CASE n.begin # Len(b) /\ n.end < Len(b)
    <3>1. \A f : PayloadsAt(b, f, i, o) = Joined(f)
      BY <1>0, <1>3, <2>1, <2>5, <2>9
    <3>2. i < n.end
      BY <1>3
    <3> QED BY <1>3, <2>4, <2>9, <3>1, <3>2, Zenon DEF GoesOn, Joined
  <2> QED BY <1>0, <1>3, <2>6, <2>7, <2>8, <2>9
<1> QED BY <1>1, <1>2, <1>3

(* A round asks for nothing that is not behind it.                         *)
LEMMA SameBehind ==
    ASSUME NEW b \in Seq(Nat), NEW i \in Nat, NEW o \in Nat, NEW f, NEW g,
           \A e \in Nat : e > i => f[e] = g[e]
    PROVE  PayloadsAt(b, f, i, o) = PayloadsAt(b, g, i, o)
<1>1. CASE Ends(b, i, o)
  BY <1>1 DEF Ends
<1>2. CASE GoesOn(b, i, o)
  <2>1. PICK made, e, x : /\ e \in Nat /\ i < e
                          /\ \A h : PayloadsAt(b, h, i, o) = {made \o rest : rest \in h[e][x]}
    BY <1>2, Zenon DEF GoesOn
  <2>2. f[e][x] = g[e][x]
    BY <2>1
  <2> QED BY <2>1, <2>2, Zenon
<1> QED BY <1>1, <1>2, PayloadsAtIs

(* The function of createPayloadForH264 exists, from the end of the frame  *)
(* to its beginning.                                                       *)
LEMMA PayloadsExist ==
    ASSUME NEW b \in Seq(Nat)
    PROVE  \E f : f = [i \in Nat |-> [o \in Nat |-> PayloadsAt(b, f, i, o)]]
<1> DEFINE n == Len(b)
           Paid(f, i) == f[i] = [o \in Nat |-> PayloadsAt(b, f, i, o)]
           P == {k \in 0..n : \E f : f = [i \in Nat |-> f[i]] /\ \A i \in Nat : i >= n - k => Paid(f, i)}
<1>0. n \in Nat
  OBVIOUS
<1>1. 0 \in P
  <2> DEFINE f == [i \in Nat |-> [o \in Nat |-> PayloadsAt(b, {}, i, o)]]
  <2>1. \A i \in Nat : f[i] = [o \in Nat |-> PayloadsAt(b, {}, i, o)]
    OBVIOUS
  <2>2. f = [i \in Nat |-> f[i]]
    OBVIOUS
  <2> HIDE DEF f
  <2>3. ASSUME NEW i \in Nat, i >= n - 0 PROVE Paid(f, i)
    <3>1. ASSUME NEW o \in Nat PROVE PayloadsAt(b, f, i, o) = PayloadsAt(b, {}, i, o)
      <4>1. \A e \in Nat : i < e => ~(e < Len(b))
        BY <1>0, <2>3
      <4>2. Ends(b, i, o)
        BY <4>1, PayloadsAtIs DEF GoesOn
      <4> QED BY <4>2 DEF Ends
    <3> QED BY <2>1, <3>1
  <2>4. 0 \in 0..n
    BY <1>0
  <2> HIDE DEF Paid
  <2> QED BY <2>2, <2>3, <2>4
<1>2. ASSUME NEW k \in 1..n, k - 1 \in P PROVE k \in P
  <2>1. PICK f : f = [i \in Nat |-> f[i]] /\ \A i \in Nat : i >= n - (k - 1) => Paid(f, i)
    BY <1>2
  <2> DEFINE j == n - k
             v == [o \in Nat |-> PayloadsAt(b, f, j, o)]
             g == [i \in Nat |-> IF i = j THEN v ELSE f[i]]
  <2>2. j \in Nat
    BY <1>0
  <2>3. g[j] = v /\ \A i \in Nat : i # j => g[i] = f[i]
    <3> HIDE DEF j, v
    <3> QED BY <2>2
  <2>4. g = [i \in Nat |-> g[i]]
    <3> HIDE DEF v, j
    <3> QED OBVIOUS
  <2> HIDE DEF g
  <2>5. ASSUME NEW i \in Nat, i >= n - k PROVE Paid(g, i)
    <3>1. \A e \in Nat : e > i => f[e] = g[e]
      <4>1. \A e \in Nat : e > i => e # j
        BY <1>0, <2>5
      <4> HIDE DEF j
      <4> QED BY <2>3, <4>1
    <3>2. \A o \in Nat : PayloadsAt(b, g, i, o) = PayloadsAt(b, f, i, o)
      BY <3>1, SameBehind
    <3>3. g[i] = [o \in Nat |-> PayloadsAt(b, f, i, o)]
      <4>1. CASE i = j
        BY <2>3, <4>1
      <4>2. CASE i # j
        <5>1. i >= n - (k - 1)
          BY <1>0, <2>5, <4>2
        <5>2. Paid(f, i)
          BY <2>1, <5>1
        <5> HIDE DEF j
        <5> QED BY <2>3, <4>2, <5>2
      <4> QED BY <4>1, <4>2
    <3> QED BY <3>2, <3>3
  <2>6. k \in 0..n
    BY <1>0
  <2> HIDE DEF Paid
  <2> QED BY <2>4, <2>5, <2>6
<1> HIDE DEF P
<1>3. n \in P
  BY <1>0, <1>1, <1>2, UpTo
<1>4. PICK f : f = [i \in Nat |-> f[i]] /\ \A i \in Nat : i >= n - n => Paid(f, i)
  BY <1>3 DEF P
<1>5. \A i \in Nat : i >= n - n
  BY <1>0
<1>6. \A i \in Nat : f[i] = [o \in Nat |-> PayloadsAt(b, f, i, o)]
  BY <1>4, <1>5
<1>7. f = [i \in Nat |-> [o \in Nat |-> PayloadsAt(b, f, i, o)]]
  BY <1>4, <1>6
<1> QED BY <1>7

(* The pays of an H.264 frame are a list.                              *)
LEMMA H264PayloadsAreLists ==
    ASSUME NEW b \in Seq(Nat), NEW pays \in createPayloadForH264(b)
    PROVE  IsList(pays)
<1> DEFINE n == Len(b)
           Is(f) == f = [i \in Nat |-> [o \in Nat |-> PayloadsAt(b, f, i, o)]]
           made == CHOOSE f : Is(f)
<1>0. n \in Nat
  OBVIOUS
<1>1. Is(made)
  <2>1. \E f : Is(f)
    BY PayloadsExist
  <2> HIDE DEF Is
  <2> QED BY <2>1
<1>2. createPayloadForH264(b) = made[0][0]
  BY Zenon DEF createPayloadForH264, PayloadsAt, Round
<1> HIDE DEF made
<1>3. \A i, o \in Nat : made[i][o] = PayloadsAt(b, made, i, o)
  <2>1. \A i \in Nat : made[i] = [o \in Nat |-> PayloadsAt(b, made, i, o)]
    BY <1>1
  <2> QED BY <2>1
<1> HIDE DEF Is
<1> DEFINE Lists(i) == \A o \in Nat : \A p \in made[i][o] : IsList(p)
           P == {k \in 0..n : \A i \in Nat : i >= n - k => Lists(i)}
<1>4. ASSUME NEW i \in Nat, \A e \in Nat : i < e /\ e < n => Lists(e) PROVE Lists(i)
  <2> SUFFICES ASSUME NEW o \in Nat, NEW p \in made[i][o] PROVE IsList(p)
    OBVIOUS
  <2>1. p \in PayloadsAt(b, made, i, o)
    BY <1>3
  <2>2. CASE Ends(b, i, o)
    BY <2>1, <2>2 DEF Ends
  <2>3. CASE GoesOn(b, i, o)
    <3>1. PICK q, e, x : /\ IsList(q) /\ e \in Nat /\ x \in Nat /\ i < e /\ e < n
                         /\ \A f : PayloadsAt(b, f, i, o) = {q \o rest : rest \in f[e][x]}
      BY <2>3, Zenon DEF GoesOn
    <3>2. PICK rest \in made[e][x] : p = q \o rest
      BY <2>1, <3>1, Zenon
    <3>3. IsList(rest)
      BY <1>4, <3>1, <3>2
    <3> QED BY <3>1, <3>2, <3>3, JoinedIsList
  <2> QED BY <2>2, <2>3, PayloadsAtIs
<1>5. 0 \in P
  <2>1. ASSUME NEW i \in Nat, i >= n - 0 PROVE Lists(i)
    <3>1. \A e \in Nat : ~(i < e /\ e < n)
      BY <1>0, <2>1
    <3> HIDE DEF Lists
    <3> QED BY <1>4, <3>1
  <2>2. 0 \in 0..n
    BY <1>0
  <2> HIDE DEF Lists
  <2> QED BY <2>1, <2>2
<1>6. ASSUME NEW k \in 1..n, k - 1 \in P PROVE k \in P
  <2> HIDE DEF Lists
  <2>1. \A i \in Nat : i >= n - (k - 1) => Lists(i)
    BY <1>6
  <2>2. ASSUME NEW i \in Nat, i >= n - k PROVE Lists(i)
    <3>1. \A e \in Nat : i < e /\ e < n => e >= n - (k - 1)
      BY <1>0, <2>2
    <3> QED BY <1>4, <2>1, <3>1
  <2>3. k \in 0..n
    BY <1>0
  <2> QED BY <2>2, <2>3
<1> HIDE DEF P
<1>7. n \in P
  BY <1>0, <1>5, <1>6, UpTo
<1>8. Lists(0)
  <2>1. 0 \in Nat /\ 0 >= n - n
    BY <1>0
  <2> HIDE DEF Lists
  <2> QED BY <1>7, <2>1 DEF P
<1> QED BY <1>2, <1>8

(* The pays of a frame are a list, whatever the codec.                 *)
LEMMA PayloadsAreLists ==
    ASSUME NEW data \in FrameData, NEW pays \in rtpPayloadFunc(Codec, data)
    PROVE  pays \in Seq(Range(pays))
<1>1. Radix \in Nat /\ Mtu \in Nat \ {0} /\ Mtu - VP8DescriptorSize \in Nat \ {0}
  BY NaluAssumption, MtuAssumption DEF FuAHeaderSize, VP8DescriptorSize
<1>2. data \in Seq(Nat)
  <2>1. data \in Seq(0..Radix - 1) /\ 0..Radix - 1 \subseteq Nat
    BY <1>1, RtpAssumption
  <2> QED BY <2>1, SeqMonotonic
<1>3. CASE Codec = "H264"
  <2>1. pays \in createPayloadForH264(data)
    BY <1>3 DEF rtpPayloadFunc
  <2> QED BY <1>2, <2>1, H264PayloadsAreLists DEF IsList
<1>4. CASE Codec = "VP8"
  <2> DEFINE n == PieceCount(data, Mtu - VP8DescriptorSize)
  <2>1. pays = createPayloadForVP8(data)
    BY <1>4 DEF rtpPayloadFunc
  <2>2. pays = [k \in 1..n |-> pays[k]]
    BY <2>1 DEF createPayloadForVP8
  <2>3. n \in Nat
    BY <1>1, <1>2, PieceCountType
  <2> HIDE DEF n
  <2> QED BY <2>2, <2>3, ListIs DEF IsList
<1>5. CASE Codec = "G711"
  <2> DEFINE n == PieceCount(data, Mtu)
  <2>1. pays = createPayloadForG711(data)
    BY <1>5 DEF rtpPayloadFunc
  <2>2. pays = [k \in 1..n |-> pays[k]]
    BY <2>1 DEF createPayloadForG711
  <2>3. n \in Nat
    BY <1>1, <1>2, PieceCountType
  <2> HIDE DEF n
  <2> QED BY <2>2, <2>3, ListIs DEF IsList
<1>6. CASE Codec = "Opus"
  <2> DEFINE p == Payload([type |-> "Opus"], data, 0)
  <2>1. pays = <<p>>
    BY <1>6 DEF rtpPayloadFunc, createPayloadForOpus
  <2> HIDE DEF p
  <2>2. pays = [k \in 1..1 |-> pays[k]] /\ 1 \in Nat
    BY <2>1
  <2> QED BY <2>2, ListIs DEF IsList
<1> QED BY <1>3, <1>4, <1>5, <1>6, RtpAssumption

-----------------------------------------------------------------------------
(* The packets of a frame, and their numbers.                              *)
LEMMA NumberedProps ==
    ASSUME IInv, NEW data \in FrameData, NEW pays \in rtpPayloadFunc(Codec, data), NEW f \in Nat
    PROVE  /\ Numbered(pays, f) \in Seq(RtpPacket)
           /\ Len(Numbered(pays, f)) = Len(pays) /\ Len(pays) \in Nat
           /\ \A k \in 1..Len(pays) :
                Numbered(pays, f)[k].seq = GET_UINT16_SEQ_NUM(sequenceNumber + k - 1)
<1>1. pays \in Seq(Range(pays))
  BY PayloadsAreLists
<1>2. Len(pays) \in Nat /\ DOMAIN pays = 1..Len(pays)
  BY <1>1
<1>3. Range(pays) \subseteq Made
  BY DEF Made
<1>4. \A k \in 1..Len(pays) : pays[k] \in Made
  <2>1. \A k \in 1..Len(pays) : pays[k] \in Range(pays)
    BY <1>1, <1>2, ElementOfSeq
  <2> QED BY <1>3, <2>1
<1> DEFINE num(k) == GET_UINT16_SEQ_NUM(sequenceNumber + k - 1)
           pkt(k) == [seq |-> num(k), frame |-> f,
                      header |-> pays[k].header, data |-> pays[k].data,
                      refOffset |-> pays[k].refOffset, refLength |-> pays[k].refLength]
<1>5. \A k \in 1..Len(pays) : num(k) \in 0..SeqSize - 1
  <2> SUFFICES ASSUME NEW k \in 1..Len(pays) PROVE num(k) \in 0..SeqSize - 1
    OBVIOUS
  <2>1. SeqSize \in Nat \ {0} /\ sequenceNumber + k - 1 \in Int
    BY Known, <1>2
  <2> QED BY <2>1, SeqIs
<1> HIDE DEF num
<1>6. \A k \in 1..Len(pays) : pkt(k) \in RtpPacket /\ pkt(k).seq = num(k)
  BY <1>4, <1>5 DEF RtpPacket
<1>7. Numbered(pays, f) = [k \in 1..Len(pays) |-> pkt(k)]
  BY <1>2 DEF Numbered, num
<1> HIDE DEF pkt
<1> DEFINE q == [k \in 1..Len(pays) |-> pkt(k)]
<1>8. q \in [1..Len(pays) -> RtpPacket] /\ \A k \in 1..Len(pays) : q[k] = pkt(k)
  BY <1>6
<1> HIDE DEF q
<1>9. q \in Seq(RtpPacket) /\ Len(q) = Len(pays)
  BY <1>2, <1>8
<1> QED BY <1>2, <1>6, <1>7, <1>8, <1>9 DEF q, num

(* What FlattenSeq makes of sequences with at most one element each.       *)
LEMMA FlattenSeqProps ==
    ASSUME NEW S, NEW n \in Nat, NEW seqs \in [1..n -> Seq(S)],
           \A k \in 1..n : Len(seqs[k]) <= 1
    PROVE  FlattenSeq(seqs) \in Seq(S) /\ Len(FlattenSeq(seqs)) <= n
<1>1. PICK F \in [0..n -> Seq(S)] : Joins(F, n, seqs)
  BY JoinsExist
<1> DEFINE P == {k \in 0..n : Len(F[k]) <= k}
<1>2. 0 \in P
  BY <1>1 DEF Joins
<1>3. ASSUME NEW m \in 1..n, m - 1 \in P PROVE m \in P
  <2>1. F[m] = F[m - 1] \o seqs[m] /\ Len(F[m - 1]) <= m - 1
    BY <1>1, <1>3 DEF Joins
  <2>2. F[m - 1] \in Seq(S) /\ seqs[m] \in Seq(S) /\ m \in 0..n /\ m - 1 \in 0..n
    BY <1>1
  <2>3. Len(F[m]) = Len(F[m - 1]) + Len(seqs[m])
    BY <2>1, <2>2, ConcatProperties
  <2>4. Len(F[m - 1]) \in Nat /\ Len(seqs[m]) \in Nat /\ Len(seqs[m]) <= 1
    BY <2>2, LenProperties
  <2> DEFINE x == Len(F[m])
             y == Len(F[m - 1])
             z == Len(seqs[m])
  <2>5. x = y + z /\ y \in Nat /\ z \in Nat /\ z <= 1 /\ y <= m - 1
    BY <2>1, <2>3, <2>4
  <2> HIDE DEF x, y, z
  <2>6. x <= m
    BY <2>5
  <2> QED BY <2>2, <2>6 DEF x
<1> HIDE DEF P
<1>4. n \in P
  BY <1>2, <1>3, UpTo
<1>5. FlattenSeq(seqs) = F[n] /\ F[n] \in Seq(S)
  BY <1>1, FlattenIs
<1> QED BY <1>4, <1>5 DEF P

(* The indexes that were found, in a list no longer than there is room for.*)
LEMMA ListedProps ==
    ASSUME NEW n \in Nat, NEW S \in SUBSET Int, NEW found \in [1..n -> SUBSET S],
           \A k \in 1..n : found[k] = {} \/ \E x \in S : found[k] = {x}
    PROVE  /\ Listed(found) \in Seq(S)
           /\ Len(Listed(found)) <= n /\ Len(Listed(found)) <= ValidIndexes
<1> DEFINE parts == [k \in DOMAIN found |-> SetToSeq(found[k])]
           all == FlattenSeq(parts)
           len == IF Len(all) <= ValidIndexes THEN Len(all) ELSE ValidIndexes
<1>1. parts \in [1..n -> Seq(S)] /\ \A k \in 1..n : Len(parts[k]) <= 1
  <2>1. \A k \in 1..n : SetToSeq(found[k]) \in Seq(S) /\ Len(SetToSeq(found[k])) <= 1
    BY SetToSeqProps
  <2> QED BY <2>1
<1> HIDE DEF parts
<1>2. all \in Seq(S) /\ Len(all) <= n
  BY <1>1, FlattenSeqProps
<1>3. Listed(found) = SubSeq(all, 1, Min({Len(all), ValidIndexes}))
  BY DEF Listed, parts
<1> HIDE DEF all
<1>4. ValidIndexes \in Nat \ {0} /\ Len(all) \in Nat
  BY <1>2, RtpAssumption
<1>5. Min({Len(all), ValidIndexes}) = len
  BY <1>4, MinOfTwo
<1>6. len \in Nat /\ len <= n /\ len <= ValidIndexes /\ len <= Len(all)
  BY <1>2, <1>4
<1> HIDE DEF len
<1>7. \A k \in 1..len : all[k] \in S
  BY <1>2, <1>6, ElementOfSeq
<1>8. SubSeq(all, 1, len) \in Seq(S) /\ Len(SubSeq(all, 1, len)) = len
  BY <1>6, <1>7, SubSeqProperties
<1> QED BY <1>3, <1>5, <1>6, <1>8

-----------------------------------------------------------------------------
(* Looking for the packets a NACK asks for.                                *)

LEMMA ValidIndexIs ==
    ASSUME NEW seq \in Int, NEW start \in Int, NEW end \in Int, NEW read \in Int, size \in Int
    PROVE  ValidIndex(seq, start, end, read) = {} \/ \E x \in Int : ValidIndex(seq, start, end, read) = {x}
<1>1. read - size + 1 + seq - start \in Int /\ read - end + seq \in Int
  OBVIOUS
<1>2. \/ ValidIndex(seq, start, end, read) = {read - size + 1 + seq - start}
      \/ ValidIndex(seq, start, end, read) = {read - end + seq}
      \/ ValidIndex(seq, start, end, read) = {}
  BY DEF ValidIndex
<1> QED BY <1>1, <1>2

(* What is found when every read of lastIndex gives the same.              *)
Start == startSeq(lastIndex)
End == endSeq(lastIndex)
Cross == crossMaxSeq(Start, End)
IndexNow(seq) == ValidIndex(seq, Start, End, lastIndex)

(* The index of a number that was asked for is that of the packet which    *)
(* has the number, and there is one if there is such a packet: of fewer    *)
(* indexes than there are numbers, those before the wrap have the number   *)
(* startSeq or a larger one, the others endSeq or a smaller one.           *)
LEMMA ValidIsInBuffer ==
    ASSUME IInv, unbuffered = 0, size \notin {0, 1}, size = headIndex - tailIndex,
           lastIndex = headIndex - 1, NEW seq \in 0..SeqSize - 1
    PROVE  IndexNow(seq) = InBuffer(seq)
<1> DEFINE M == SeqSize
           r == GET_UINT16_SEQ_NUM(tailIndex)
           num(i) == IF r + (i - tailIndex) < M THEN r + (i - tailIndex) ELSE r + (i - tailIndex) - M
<1>1. /\ M \in Nat /\ tailIndex \in Nat /\ headIndex \in Nat
      /\ 2 <= headIndex - tailIndex /\ headIndex - tailIndex < M
      /\ headIndex = Len(packets) /\ Packet = 1..Len(packets)
  <2>1. M \in Nat /\ Capacity \in Nat /\ Capacity < M /\ tailIndex \in Nat /\ headIndex \in Nat
        /\ headIndex = Len(packets) /\ Packet = 1..Len(packets)
    BY Known
  <2>2. size \in 0..Capacity
    BY DEF IInv, TypeOK
  <2>3. 2 <= size /\ size < M
    BY <2>1, <2>2
  <2> QED BY <2>1, <2>3
<1>2. r \in 0..M - 1
  BY <1>1, Known, SeqIs
<1>3. \A i \in tailIndex..headIndex - 1 : GET_UINT16_SEQ_NUM(i) = num(i)
  <2> SUFFICES ASSUME NEW i \in tailIndex..headIndex - 1
               PROVE  GET_UINT16_SEQ_NUM(i) = num(i)
    OBVIOUS
  <2> DEFINE d == i - tailIndex
  <2>1. d \in 0..M - 1 /\ tailIndex + d = i /\ M \in Nat \ {0} /\ tailIndex \in Int
    BY <1>1
  <2> HIDE DEF d, M
  <2>2. (tailIndex + d) % M = IF (tailIndex % M) + d < M THEN (tailIndex % M) + d
                              ELSE (tailIndex % M) + d - M
    BY <2>1, ModAdd
  <2>3. (tailIndex + d) % M = IF r + d < M THEN r + d ELSE r + d - M
    BY <2>2 DEF GET_UINT16_SEQ_NUM, M
  <2> QED BY <2>1, <2>3 DEF GET_UINT16_SEQ_NUM, d, M
<1>0. IndexNow(seq) = CASE (Cross \/ seq <= End) /\ seq >= Start -> {lastIndex - size + 1 + seq - Start}
                     [] Cross /\ seq < Start /\ seq <= End -> {lastIndex - End + seq}
                     [] OTHER -> {}
  BY DEF IndexNow, ValidIndex, Cross
<1>4. Start = r /\ End = num(headIndex - 1)
  <2>1. lastIndex - size + 1 = tailIndex /\ lastIndex = headIndex - 1
        /\ headIndex - 1 \in tailIndex..headIndex - 1
    BY <1>1
  <2> QED BY <1>3, <2>1 DEF Start, End, startSeq, endSeq
<1>5. \A i \in tailIndex..headIndex - 1 : packets[i + 1].seq = num(i)
  <2> SUFFICES ASSUME NEW i \in tailIndex..headIndex - 1
               PROVE  packets[i + 1].seq = num(i)
    OBVIOUS
  <2>1. i + 1 \in Packet /\ (i + 1) - 1 = i
    BY <1>1
  <2>2. packets[i + 1].seq = GET_UINT16_SEQ_NUM((i + 1) - 1)
    BY <2>1 DEF IInv, Sequence, SequenceFollowsIndex
  <2> QED BY <1>3, <2>1, <2>2
<1>6. InBuffer(seq) = {i \in tailIndex..headIndex - 1 : num(i) = seq}
  BY <1>5 DEF InBuffer
<1>7. lastIndex - size + 1 + seq - Start = tailIndex + seq - r
      /\ lastIndex - End + seq = headIndex - 1 - num(headIndex - 1) + seq
  BY <1>1, <1>2, <1>4
<1> HIDE DEF r
<1>8. CASE r + (headIndex - 1 - tailIndex) < M
  <2>1. /\ num(headIndex - 1) = r + (headIndex - 1 - tailIndex) /\ ~Cross
        /\ \A i \in tailIndex..headIndex - 1 : num(i) = r + (i - tailIndex)
    BY <1>1, <1>2, <1>4, <1>8 DEF Cross, crossMaxSeq
  <2>2. CASE r <= seq /\ seq <= num(headIndex - 1)
    <3>1. IndexNow(seq) = {tailIndex + seq - r}
      BY <1>0, <1>4, <1>7, <2>1, <2>2
    <3>2. \A i \in Int : i \in tailIndex..headIndex - 1 /\ num(i) = seq <=> i = tailIndex + seq - r
      BY <1>1, <1>2, <2>1, <2>2
    <3>3. tailIndex + seq - r \in Int
      BY <1>1, <1>2
    <3> QED BY <1>6, <3>1, <3>2, <3>3
  <2>3. CASE ~(r <= seq /\ seq <= num(headIndex - 1))
    <3>1. IndexNow(seq) = {}
      BY <1>0, <1>1, <1>2, <1>4, <2>1, <2>3
    <3>2. \A i \in tailIndex..headIndex - 1 : num(i) # seq
      BY <1>1, <1>2, <2>1, <2>3
    <3> QED BY <1>6, <3>1, <3>2
  <2> QED BY <2>2, <2>3
<1>9. CASE r + (headIndex - 1 - tailIndex) >= M
  <2>1. num(headIndex - 1) = r + (headIndex - 1 - tailIndex) - M /\ num(headIndex - 1) < r /\ Cross
    BY <1>1, <1>2, <1>4, <1>9 DEF Cross, crossMaxSeq
  <2>2. CASE r <= seq
    <3>1. IndexNow(seq) = {tailIndex + seq - r}
      <4>1. (Cross \/ seq <= End) /\ seq >= Start /\ ~(seq < Start)
        BY <1>2, <1>4, <2>1, <2>2
      <4> QED BY <1>0, <1>7, <4>1
    <3>2. \A i \in Int : i \in tailIndex..headIndex - 1 /\ num(i) = seq <=> i = tailIndex + seq - r
      BY <1>1, <1>2, <1>9, <2>2
    <3>3. tailIndex + seq - r \in Int
      BY <1>1, <1>2
    <3> QED BY <1>6, <3>1, <3>2, <3>3
  <2>3. CASE seq < r /\ seq <= num(headIndex - 1)
    <3> DEFINE x == headIndex - 1 - num(headIndex - 1) + seq
    <3>1. IndexNow(seq) = {x}
      BY <1>0, <1>1, <1>2, <1>4, <1>7, <2>1, <2>3
    <3>2. x = tailIndex + M - r + seq /\ x \in tailIndex..headIndex - 1 /\ r + (x - tailIndex) >= M
      <4> DEFINE y == num(headIndex - 1)
      <4>1. y = r + (headIndex - 1 - tailIndex) - M /\ seq <= y
        BY <2>1, <2>3
      <4>2. x = headIndex - 1 - y + seq
        OBVIOUS
      <4> HIDE DEF x, y
      <4>3. x = tailIndex + M - r + seq
        BY <1>1, <1>2, <4>1, <4>2
      <4>4. x \in tailIndex..headIndex - 1 /\ r + (x - tailIndex) >= M
        BY <1>1, <1>2, <4>1, <4>3
      <4> QED BY <4>3, <4>4
    <3> HIDE DEF x
    <3>3. \A i \in Int : i \in tailIndex..headIndex - 1 /\ num(i) = seq <=> i = x
      <4>1. num(x) = seq
        BY <1>1, <1>2, <3>2
      <4>2. \A i \in tailIndex..headIndex - 1 : num(i) = seq => r + (i - tailIndex) - M = seq
        BY <1>1, <1>2, <2>3
      <4>3. \A i \in tailIndex..headIndex - 1 : num(i) = seq => i = x
        BY <1>1, <1>2, <3>2, <4>2
      <4> QED BY <3>2, <4>1, <4>3
    <3>4. x \in Int
      BY <1>1, <3>2
    <3> QED BY <1>6, <3>1, <3>3, <3>4
  <2>4. CASE seq < r /\ ~(seq <= num(headIndex - 1))
    <3>1. IndexNow(seq) = {}
      BY <1>0, <1>1, <1>2, <1>4, <2>1, <2>4
    <3>2. \A i \in tailIndex..headIndex - 1 : num(i) # seq
      BY <1>1, <1>2, <1>9, <2>1, <2>4
    <3> QED BY <1>6, <3>1, <3>2
  <2> QED BY <1>1, <1>2, <2>2, <2>3, <2>4
<1> QED BY <1>1, <1>2, <1>8, <1>9

-----------------------------------------------------------------------------
(* What a step does not touch.                                             *)

LEMMA SamePlaces ==
    ASSUME IInv, UNCHANGED <<slots, tailIndex, headIndex, item, freed, leaked, packets>>
    PROVE  Places'
BY DEF IInv, Places, Kept, InRange, Packet

LEMMA SameSequence ==
    ASSUME IInv, UNCHANGED <<headIndex, todo, unbuffered, sequenceNumber, packets>>
    PROVE  Sequence'
BY DEF IInv, Sequence, SequenceFollowsIndex, Packet

LEMMA SameWriter ==
    ASSUME IInv, UNCHANGED <<srtpReady, rtx, writer, sequenceNumber, todo, frames, unbuffered>>
    PROVE  /\ srtpReady' \in BOOLEAN /\ rtx' \in BOOLEAN
           /\ writer' \in {"idle", "append", "index", "send"}
           /\ sequenceNumber' \in 0..SeqSize - 1
           /\ writer' = "append" => todo' # <<>>
           /\ writer' = "idle" => todo' = <<>>
           /\ todo' \in Seq(RtpPacket) /\ frames' \in Seq(FrameData) /\ unbuffered' \in Nat
BY DEF IInv, TypeOK, Typed, Control

LEMMA SameBuffer ==
    ASSUME IInv, UNCHANGED <<slots, tailIndex, headIndex, packets>>
    PROVE  /\ slots' \in [0..Capacity - 1 -> {NoPacket} \union Packet']
           /\ tailIndex' \in 0..headIndex' /\ headIndex' - tailIndex' <= Capacity
           /\ packets' \in Seq(RtpPacket) /\ tailIndex' \in Nat /\ headIndex' = Len(packets')
           /\ Packet' = Packet
BY DEF IInv, TypeOK, Typed, Packet

LEMMA SameResender ==
    ASSUME IInv, UNCHANGED <<resender, sequenceNumberList, validIndexList, size, index, item>>,
           Packet \subseteq Packet'
    PROVE  /\ resender' \in {"idle", "list", "extract", "check", "resend", "putback"}
           /\ size' \in 0..Capacity
           /\ Len(validIndexList') <= Min({Len(sequenceNumberList'), ValidIndexes})
           /\ index' \in 1..Len(validIndexList') + 1
           /\ item' \in {NoPacket} \union Packet'
           /\ resender' \in {"resend", "putback"} => item' # NoPacket
           /\ sequenceNumberList' \in Seq(0..SeqSize - 1) /\ validIndexList' \in Seq(Int)
           /\ resender' \in {"idle", "list"} => index' = 1 /\ validIndexList' = <<>>
           /\ resender' \in {"idle", "list", "extract"} => item' = NoPacket
           /\ resender' \in {"check", "resend", "putback"} => index' <= Len(validIndexList')
<1>1. TypeOK /\ Typed /\ Control
  BY DEF IInv
<1>2. /\ resender' \in {"idle", "list", "extract", "check", "resend", "putback"}
      /\ size' \in 0..Capacity
      /\ Len(validIndexList') <= Min({Len(sequenceNumberList'), ValidIndexes})
      /\ index' \in 1..Len(validIndexList') + 1
      /\ resender' \in {"resend", "putback"} => item' # NoPacket
  BY <1>1 DEF TypeOK
<1>3. item' \in {NoPacket} \union Packet'
  BY <1>1 DEF TypeOK
<1>4. sequenceNumberList' \in Seq(0..SeqSize - 1) /\ validIndexList' \in Seq(Int)
  BY <1>1 DEF Typed
<1>5. /\ resender' \in {"idle", "list"} => index' = 1 /\ validIndexList' = <<>>
      /\ resender' \in {"idle", "list", "extract"} => item' = NoPacket
      /\ resender' \in {"check", "resend", "putback"} => index' <= Len(validIndexList')
  BY <1>1 DEF Control
<1> QED BY <1>2, <1>3, <1>4, <1>5

LEMMA SameFates ==
    ASSUME IInv, UNCHANGED <<freed, leaked>>, Packet \subseteq Packet'
    PROVE  freed' \subseteq Packet' /\ leaked' \subseteq Packet'
BY DEF IInv, Typed

-----------------------------------------------------------------------------
(* The start, and the writer.                                              *)

LEMMA InitIInv == Init => IInv
<1> SUFFICES ASSUME Init PROVE IInv
  OBVIOUS
<1>1. <<>> \in Seq(RtpPacket) /\ <<>> \in Seq(FrameData) /\ <<>> \in Seq(0..SeqSize - 1)
      /\ <<>> \in Seq(Int) /\ Len(<<>>) = 0 /\ DOMAIN <<>> = {}
  BY EmptySeq
<1>2. /\ Capacity \in Nat \ {0} /\ SeqSize \in Nat \ {0} /\ ValidIndexes \in Nat \ {0}
      /\ Rtx \subseteq BOOLEAN
  BY RtpAssumption
<1>3. Packet = {}
  BY <1>1 DEF Init, Packet
<1>4. GET_UINT16_SEQ_NUM(0) = 0
  <2>1. (SeqSize * 0 + 0) % SeqSize = 0
    BY <1>2, ModUnique
  <2> QED BY <1>2, <2>1 DEF GET_UINT16_SEQ_NUM
<1>5. TypeOK
  <2>1. Min({0, ValidIndexes}) = 0
    BY <1>2, MinOfTwo
  <2> QED BY <1>1, <1>2, <1>3, <2>1 DEF Init, TypeOK
<1>6. Typed
  BY <1>1, <1>3 DEF Init, Typed
<1>7. Control
  BY DEF Init, Control
<1>8. Places
  BY <1>3 DEF Init, Places, NoPacket
<1>9. Sequence
  BY <1>1, <1>3, <1>4 DEF Init, Sequence, SequenceFollowsIndex
<1> QED BY <1>5, <1>6, <1>7, <1>8, <1>9 DEF IInv

LEMMA UnchangedIInv ==
    ASSUME IInv, UNCHANGED vars
    PROVE  IInv'
<1>1. UNCHANGED <<srtpReady, rtx, writer, sequenceNumber, todo, frames, unbuffered, slots, tailIndex, headIndex,
                  lastIndex, resender, sequenceNumberList, validIndexList, size, index, item, packets, freed, leaked>>
  BY DEF vars, peerVars, writerVars, bufferVars, resenderVars
<1>2. Packet' = Packet
  BY <1>1 DEF Packet
<1>3. Places' /\ Sequence'
  BY <1>1, SamePlaces, SameSequence
<1>4. TypeOK' /\ Typed' /\ Control'
  BY <1>1, <1>2, SameWriter, SameBuffer, SameResender, SameFates DEF IInv, TypeOK, Typed, Control
<1> QED BY <1>3, <1>4 DEF IInv

LEMMA SrtpReadyIInv ==
    ASSUME IInv, SrtpReady
    PROVE  IInv'
<1>1. /\ UNCHANGED <<rtx, writer, sequenceNumber, todo, frames, unbuffered, slots, tailIndex, headIndex,
                    lastIndex, resender, sequenceNumberList, validIndexList, size, index, item, packets, freed, leaked>>
      /\ srtpReady' \in BOOLEAN
  BY DEF SrtpReady, writerVars, bufferVars, resenderVars
<1>2. Packet' = Packet
  BY <1>1 DEF Packet
<1>3. Places' /\ Sequence'
  BY <1>1, SamePlaces, SameSequence
<1>4. /\ rtx' \in BOOLEAN
      /\ writer' \in {"idle", "append", "index", "send"}
      /\ sequenceNumber' \in 0..SeqSize - 1
      /\ writer' = "append" => todo' # <<>>
      /\ writer' = "idle" => todo' = <<>>
      /\ todo' \in Seq(RtpPacket) /\ frames' \in Seq(FrameData) /\ unbuffered' \in Nat
  BY <1>1 DEF IInv, TypeOK, Typed, Control
<1>5. TypeOK' /\ Typed' /\ Control'
  BY <1>1, <1>2, <1>4, SameBuffer, SameResender, SameFates DEF IInv, TypeOK, Typed, Control
<1> QED BY <1>3, <1>5 DEF IInv

LEMMA WriteFrameIInv ==
    ASSUME IInv, WriteFrame
    PROVE  IInv'
<1>1. /\ writer = "idle" /\ writer' = IF todo' = <<>> THEN "idle" ELSE "append"
      /\ UNCHANGED <<srtpReady, rtx, unbuffered, slots, tailIndex, headIndex, lastIndex, resender,
                    sequenceNumberList, validIndexList, size, index, item, packets, freed, leaked>>
  BY DEF WriteFrame, peerVars, bufferVars, resenderVars
<1>0. PICK data \in FrameData : \E pays \in rtpPayloadFunc(Codec, data) :
        /\ frames' = Append(frames, data)
        /\ todo' = Numbered(pays, Len(frames'))
        /\ sequenceNumber' = GET_UINT16_SEQ_NUM(sequenceNumber + Len(pays))
  BY DEF WriteFrame
<1>2. PICK pays \in rtpPayloadFunc(Codec, data) :
        /\ frames' = Append(frames, data)
        /\ todo' = Numbered(pays, Len(frames'))
        /\ sequenceNumber' = GET_UINT16_SEQ_NUM(sequenceNumber + Len(pays))
  BY <1>0
<1>3. frames' \in Seq(FrameData) /\ Len(frames') \in Nat
  <2>1. frames \in Seq(FrameData)
    BY DEF IInv, Typed
  <2> QED BY <1>2, <2>1, AppendProperties
<1>4. /\ todo' \in Seq(RtpPacket) /\ Len(todo') = Len(pays) /\ Len(pays) \in Nat
      /\ \A k \in 1..Len(pays) : todo'[k].seq = GET_UINT16_SEQ_NUM(sequenceNumber + k - 1)
  BY <1>2, <1>3, NumberedProps
<1>5. Packet' = Packet
  BY <1>1 DEF Packet
<1>6. /\ SeqSize \in Nat \ {0} /\ headIndex \in Nat /\ unbuffered \in Nat
      /\ sequenceNumber \in 0..SeqSize - 1
  BY Known
<1>7. sequenceNumber' \in 0..SeqSize - 1
  BY <1>2, <1>4, <1>6, SeqIs
<1>8. TypeOK' /\ Typed' /\ Control'
  <2>1. /\ srtpReady' \in BOOLEAN /\ rtx' \in BOOLEAN
        /\ writer' \in {"idle", "append", "index", "send"}
        /\ writer' = "append" => todo' # <<>>
        /\ writer' = "idle" => todo' = <<>>
    BY <1>1 DEF IInv, TypeOK
  <2>2. lastIndex' \in Int /\ unbuffered' \in Nat
    BY <1>1 DEF IInv, Typed
  <2> QED BY <1>1, <1>3, <1>4, <1>5, <1>7, <2>1, <2>2, SameBuffer, SameResender, SameFates
          DEF TypeOK, Typed, Control
<1>9. Places'
  BY <1>1, SamePlaces
<1>10. Sequence'
  <2> DEFINE a == headIndex + unbuffered
  <2>1. sequenceNumber = a % SeqSize
    <3>1. todo = <<>> /\ Len(todo) = 0
      BY <1>1, Known DEF IInv, Control
    <3>2. GET_UINT16_SEQ_NUM(headIndex + Len(todo) + unbuffered) = sequenceNumber
      BY DEF IInv, Sequence, SequenceFollowsIndex
    <3> QED BY <1>6, <3>1, <3>2 DEF GET_UINT16_SEQ_NUM
  <2>2. a \in Int
    BY <1>6
  <2> HIDE DEF a
  <2>3. \A d \in Int : (sequenceNumber + d) % SeqSize = (a + d) % SeqSize
    BY <1>6, <2>1, <2>2, ModPlus
  <2>4. GET_UINT16_SEQ_NUM(headIndex + Len(todo') + unbuffered) = sequenceNumber'
    <3>1. headIndex + Len(todo') + unbuffered = a + Len(pays)
      BY <1>4, <1>6 DEF a
    <3> QED BY <1>2, <1>4, <2>3, <3>1 DEF GET_UINT16_SEQ_NUM
  <2>5. \A k \in DOMAIN todo' : todo'[k].seq = GET_UINT16_SEQ_NUM(headIndex + unbuffered + k - 1)
    <3> SUFFICES ASSUME NEW k \in 1..Len(pays)
                 PROVE  todo'[k].seq = GET_UINT16_SEQ_NUM(headIndex + unbuffered + k - 1)
      BY <1>4
    <3> DEFINE d == k - 1
    <3>1. d \in Int /\ sequenceNumber + k - 1 = sequenceNumber + d /\ headIndex + unbuffered + k - 1 = a + d
      BY <1>4, <1>6 DEF a
    <3>2. (sequenceNumber + d) % SeqSize = (a + d) % SeqSize
      BY <2>3, <3>1
    <3> QED BY <1>4, <3>1, <3>2 DEF GET_UINT16_SEQ_NUM
  <2>6. unbuffered = 0 => \A n \in Packet : packets[n].seq = GET_UINT16_SEQ_NUM(n - 1)
    BY DEF IInv, Sequence, SequenceFollowsIndex
  <2> QED BY <1>1, <1>5, <2>4, <2>5, <2>6 DEF Sequence, SequenceFollowsIndex
<1> QED BY <1>8, <1>9, <1>10 DEF IInv

(* A packet put into the buffer takes the slot of the one that leaves it,  *)
(* or one that is empty: no index of the buffer leads to it yet.           *)
LEMMA AddFrees ==
    ASSUME IInv, rtpRollingBufferAddRtpPacketWithRef
    PROVE  /\ freed' = freed \union ({slots[Slot(headIndex)]} \ {NoPacket})
           /\ tailIndex' \in Nat /\ tailIndex' <= headIndex /\ headIndex + 1 - tailIndex' <= Capacity
           /\ \A i \in Int : InRange(i) /\ Slot(i) # Slot(headIndex) => InRange(i)'
<1>1. /\ Capacity \in Nat \ {0} /\ tailIndex \in Nat /\ headIndex \in Nat /\ tailIndex <= headIndex
      /\ headIndex - tailIndex <= Capacity
  BY Known
<1>2. /\ freed' = freed \union Oldest
      /\ tailIndex' = IF headIndex - tailIndex = Capacity THEN tailIndex + 1 ELSE tailIndex
      /\ headIndex' = headIndex + 1
  BY DEF rtpRollingBufferAddRtpPacketWithRef
<1>3. CASE headIndex - tailIndex = Capacity
  <2>1. Slot(headIndex) = Slot(tailIndex)
    <3>1. headIndex = tailIndex + Capacity
      BY <1>1, <1>3
    <3>2. (tailIndex + Capacity) % Capacity = tailIndex % Capacity
      <4>1. tailIndex \in Int /\ Capacity \in Nat \ {0}
        BY <1>1
      <4> QED BY <4>1, ModAround
    <3> QED BY <3>1, <3>2 DEF Slot
  <2>2. freed' = freed \union ({slots[Slot(headIndex)]} \ {NoPacket})
    BY <1>2, <1>3, <2>1 DEF Oldest
  <2>3. \A i \in Int : InRange(i) /\ Slot(i) # Slot(headIndex) => InRange(i)'
    <3> SUFFICES ASSUME NEW i \in Int, InRange(i), Slot(i) # Slot(tailIndex) PROVE InRange(i)'
      BY <2>1
    <3>1. i # tailIndex
      OBVIOUS
    <3> QED BY <1>1, <1>2, <1>3, <3>1 DEF InRange
  <2> QED BY <1>1, <1>2, <1>3, <2>2, <2>3
<1>4. CASE headIndex - tailIndex # Capacity
  <2>1. slots[Slot(headIndex)] = NoPacket
    <3> SUFFICES ASSUME slots[Slot(headIndex)] # NoPacket PROVE FALSE
      OBVIOUS
    <3>1. Slot(headIndex) \in 0..Capacity - 1
      BY <1>1, SlotIs
    <3>2. PICK i \in Int : InRange(i) /\ Slot(i) = Slot(headIndex)
      BY <3>1 DEF IInv, Places, Kept
    <3>3. i - headIndex < Capacity /\ headIndex - i < Capacity /\ i < headIndex
      BY <1>1, <1>4, <3>2 DEF InRange
    <3>4. i = headIndex
      BY <1>1, <3>2, <3>3, ModWindow DEF Slot
    <3> QED BY <1>1, <3>3, <3>4
  <2>2. freed' = freed \union ({slots[Slot(headIndex)]} \ {NoPacket})
    BY <1>2, <1>4, <2>1 DEF Oldest
  <2>3. \A i \in Int : InRange(i) => InRange(i)'
    BY <1>1, <1>2, <1>4 DEF InRange
  <2> QED BY <1>1, <1>2, <1>4, <2>2, <2>3
<1> QED BY <1>3, <1>4

LEMMA AddIInv ==
    ASSUME IInv, rtpRollingBufferAddRtpPacketWithRef
    PROVE  IInv'
<1> DEFINE H == headIndex
           f == Slot(H)
<1>1. /\ writer = "append" /\ writer' = "index"
      /\ packets' = Append(packets, Head(todo))
      /\ slots' = [slots EXCEPT ![f] = Len(packets')]
      /\ headIndex' = H + 1
      /\ todo' = Tail(todo)
      /\ UNCHANGED <<srtpReady, rtx, sequenceNumber, frames, unbuffered, lastIndex, resender,
                    sequenceNumberList, validIndexList, size, index, item, leaked>>
  BY DEF rtpRollingBufferAddRtpPacketWithRef, peerVars, resenderVars
<1>2. /\ Capacity \in Nat \ {0} /\ SeqSize \in Nat \ {0} /\ H \in Nat /\ H = Len(packets)
      /\ Packet = 1..H /\ NoPacket \notin Packet /\ unbuffered \in Nat
      /\ \A s \in 0..Capacity - 1 : slots[s] = NoPacket \/ slots[s] \in Packet
  BY Known
<1>3. f \in 0..Capacity - 1
  BY <1>2, SlotIs
<1>4. /\ freed' = freed \union ({slots[f]} \ {NoPacket})
      /\ tailIndex' \in Nat /\ tailIndex' <= H /\ H + 1 - tailIndex' <= Capacity
      /\ \A i \in Int : InRange(i) /\ Slot(i) # f => InRange(i)'
  BY AddFrees
<1>5. /\ todo \in Seq(RtpPacket) /\ todo # <<>> /\ Len(todo) \in Nat \ {0}
      /\ todo' \in Seq(RtpPacket) /\ Len(todo') = Len(todo) - 1
      /\ \A k \in 1..Len(todo') : todo'[k] = todo[k + 1]
      /\ Head(todo) \in RtpPacket /\ Head(todo) = todo[1]
  <2>1. todo \in Seq(RtpPacket) /\ todo # <<>>
    BY <1>1 DEF IInv, TypeOK, Typed
  <2> QED BY <1>1, <2>1, HeadTailProperties, EmptySeq
<1>6. /\ packets' \in Seq(RtpPacket) /\ Len(packets') = H + 1
      /\ \A n \in 1..H : packets'[n] = packets[n]
      /\ packets'[H + 1] = todo[1]
  <2>1. packets \in Seq(RtpPacket)
    BY DEF IInv, Typed
  <2> QED BY <1>1, <1>2, <1>5, <2>1, AppendProperties
<1>7. Packet' = 1..H + 1 /\ Packet \subseteq Packet' /\ \A n \in Packet' : n \in Packet \/ n = H + 1
  <2>1. Packet' = 1..H + 1
    <3>1. DOMAIN packets' = 1..Len(packets')
      BY <1>6
    <3> QED BY <1>6, <3>1 DEF Packet
  <2> QED BY <1>2, <2>1
<1>8. H + 1 \notin Packet /\ H + 1 # NoPacket
  BY <1>2 DEF NoPacket
<1> HIDE DEF f
<1>9. /\ slots' \in [0..Capacity - 1 -> {NoPacket} \union Packet']
      /\ slots'[f] = H + 1
      /\ \A s \in 0..Capacity - 1 : s # f => slots'[s] = slots[s]
  <2>1. slots \in [0..Capacity - 1 -> {NoPacket} \union Packet]
    BY DEF IInv, TypeOK
  <2>2. H + 1 \in Packet'
    BY <1>2, <1>7
  <2> QED BY <1>1, <1>3, <1>6, <1>7, <2>1, <2>2
<1>10. /\ item \in {NoPacket} \union Packet /\ freed \subseteq Packet /\ leaked \subseteq Packet
  BY DEF IInv, TypeOK, Typed
<1>11. freed' \subseteq Packet'
  BY <1>2, <1>3, <1>4, <1>7, <1>10
<1>12. TypeOK' /\ Typed' /\ Control'
  <2>1. /\ srtpReady' \in BOOLEAN /\ rtx' \in BOOLEAN
        /\ sequenceNumber' \in 0..SeqSize - 1
        /\ frames' \in Seq(FrameData) /\ lastIndex' \in Int /\ unbuffered' \in Nat
    BY <1>1 DEF IInv, TypeOK, Typed
  <2>2. tailIndex' \in 0..headIndex' /\ headIndex' - tailIndex' <= Capacity
    BY <1>1, <1>2, <1>4
  <2>3. leaked' \subseteq Packet'
    BY <1>1, <1>7, <1>10
  <2>4. TypeOK'
    BY <1>1, <1>7, <1>9, <2>1, <2>2, SameResender DEF TypeOK
  <2>5. Typed'
    BY <1>1, <1>4, <1>5, <1>6, <1>7, <1>11, <2>1, <2>3, SameResender DEF Typed
  <2>6. Control'
    BY <1>1, <1>7, SameResender DEF Control
  <2> QED BY <2>4, <2>5, <2>6
<1>13. Places'
  <2>1. Places
    BY DEF IInv
  <2>2. ASSUME NEW s \in 0..Capacity - 1, slots'[s] # NoPacket
        PROVE  /\ slots'[s] # item /\ slots'[s] \notin freed' /\ slots'[s] \notin leaked
               /\ Kept(s)'
               /\ \A t \in 0..Capacity - 1 : slots'[t] = slots'[s] => t = s
    <3>1. CASE s = f
      <4>1. H \in Int /\ tailIndex' <= H /\ H < headIndex'
        BY <1>1, <1>2, <1>4
      <4>2. Kept(s)'
        BY <3>1, <4>1 DEF Kept, InRange, f, Slot
      <4>3. slots'[s] = H + 1
        BY <1>9, <3>1
      <4>4. H + 1 # item /\ H + 1 \notin freed' /\ H + 1 \notin leaked
        BY <1>2, <1>3, <1>4, <1>8, <1>10
      <4>5. \A t \in 0..Capacity - 1 : slots'[t] = slots'[s] => t = s
        BY <1>2, <1>8, <1>9, <3>1
      <4> QED BY <4>2, <4>3, <4>4, <4>5
    <3>2. CASE s # f
      <4>1. slots'[s] = slots[s] /\ slots[s] # NoPacket
        BY <1>9, <2>2, <3>2
      <4>2. PICK i \in Int : InRange(i) /\ Slot(i) = s
        BY <2>1, <4>1 DEF Places, Kept
      <4>3. InRange(i)' /\ (Slot(i) = s)'
        BY <1>4, <3>2, <4>2 DEF Slot
      <4>4. Kept(s)'
        BY <4>3 DEF Kept
      <4>5. slots[s] # item /\ slots[s] \notin freed /\ slots[s] \notin leaked
            /\ \A t \in 0..Capacity - 1 : slots[t] = slots[s] => t = s
        BY <2>1, <4>1 DEF Places
      <4>6. slots[s] \notin freed'
        BY <1>3, <1>4, <3>2, <4>5
      <4>7. slots[s] # H + 1
        BY <1>2, <1>8, <4>1
      <4> QED BY <1>9, <4>1, <4>4, <4>5, <4>6, <4>7
    <3> QED BY <3>1, <3>2
  <2>3. item \notin freed' /\ item \notin leaked /\ \A n \in freed' : n \notin leaked
    BY <1>3, <1>4, <2>1 DEF Places
  <2>4. ASSUME NEW n \in Packet'
        PROVE  n = item \/ n \in freed' \/ n \in leaked \/ \E s \in 0..Capacity - 1 : slots'[s] = n
    <3>1. CASE n = H + 1
      BY <1>3, <1>9, <3>1
    <3>2. CASE n \in Packet
      <4>1. n = item \/ n \in freed \/ n \in leaked \/ \E s \in 0..Capacity - 1 : slots[s] = n
        BY <2>1, <3>2 DEF Places
      <4>2. ASSUME NEW s \in 0..Capacity - 1, slots[s] = n
            PROVE  n \in freed' \/ \E t \in 0..Capacity - 1 : slots'[t] = n
        <5>1. CASE s = f
          BY <1>2, <1>4, <3>2, <4>2, <5>1
        <5>2. CASE s # f
          BY <1>9, <4>2, <5>2
        <5> QED BY <5>1, <5>2
      <4> QED BY <1>4, <4>1, <4>2
    <3> QED BY <1>7, <3>1, <3>2
  <2> QED BY <1>1, <2>2, <2>3, <2>4 DEF Places
<1>14. Sequence'
  <2>1. /\ GET_UINT16_SEQ_NUM(H + Len(todo) + unbuffered) = sequenceNumber
        /\ unbuffered = 0 => \A n \in Packet : packets[n].seq = GET_UINT16_SEQ_NUM(n - 1)
        /\ \A k \in DOMAIN todo : todo[k].seq = GET_UINT16_SEQ_NUM(H + unbuffered + k - 1)
    BY DEF IInv, Sequence, SequenceFollowsIndex
  <2>2. GET_UINT16_SEQ_NUM(headIndex' + Len(todo') + unbuffered) = sequenceNumber
    <3>1. headIndex' + Len(todo') + unbuffered = H + Len(todo) + unbuffered
      BY <1>1, <1>2, <1>5
    <3> QED BY <2>1, <3>1
  <2>3. DOMAIN todo = 1..Len(todo) /\ DOMAIN todo' = 1..Len(todo')
    BY <1>5
  <2>4. ASSUME NEW k \in DOMAIN todo'
        PROVE  todo'[k].seq = GET_UINT16_SEQ_NUM(headIndex' + unbuffered + k - 1)
    <3>1. k + 1 \in DOMAIN todo /\ todo'[k] = todo[k + 1]
          /\ H + unbuffered + (k + 1) - 1 = headIndex' + unbuffered + k - 1
      BY <1>1, <1>2, <1>5, <2>3
    <3>2. todo[k + 1].seq = GET_UINT16_SEQ_NUM(H + unbuffered + (k + 1) - 1)
      BY <2>1, <3>1
    <3> QED BY <3>1, <3>2
  <2>5. ASSUME unbuffered = 0, NEW n \in Packet'
        PROVE  packets'[n].seq = GET_UINT16_SEQ_NUM(n - 1)
    <3>1. CASE n \in Packet
      BY <1>2, <1>6, <2>1, <2>5, <3>1
    <3>2. CASE n = H + 1
      <4>1. 1 \in DOMAIN todo /\ H + unbuffered + 1 - 1 = n - 1
        BY <1>2, <1>5, <2>3, <2>5, <3>2
      <4>2. todo[1].seq = GET_UINT16_SEQ_NUM(H + unbuffered + 1 - 1)
        BY <2>1, <4>1
      <4> QED BY <1>6, <3>2, <4>1, <4>2
    <3> QED BY <1>7, <3>1, <3>2
  <2> QED BY <1>1, <2>2, <2>4, <2>5 DEF Sequence, SequenceFollowsIndex, GET_UINT16_SEQ_NUM
<1> QED BY <1>12, <1>13, <1>14 DEF IInv

LEMMA StoreLastIndexIInv ==
    ASSUME IInv, StoreLastIndex
    PROVE  IInv'
<1>1. /\ writer = "index" /\ writer' = "send" /\ lastIndex' = headIndex - 1
      /\ UNCHANGED <<srtpReady, rtx, sequenceNumber, todo, frames, unbuffered, slots, tailIndex, headIndex,
                    resender, sequenceNumberList, validIndexList, size, index, item, packets, freed, leaked>>
  BY DEF StoreLastIndex, peerVars, bufferVars, resenderVars
<1>2. Packet' = Packet
  BY <1>1 DEF Packet
<1>3. Places' /\ Sequence'
  BY <1>1, SamePlaces, SameSequence
<1>4. lastIndex' \in Int
  BY <1>1, Known
<1>5. /\ srtpReady' \in BOOLEAN /\ rtx' \in BOOLEAN /\ sequenceNumber' \in 0..SeqSize - 1
      /\ todo' \in Seq(RtpPacket) /\ frames' \in Seq(FrameData) /\ unbuffered' \in Nat
  BY <1>1 DEF IInv, TypeOK, Typed
<1>6. TypeOK' /\ Typed' /\ Control'
  BY <1>1, <1>2, <1>4, <1>5, SameBuffer, SameResender, SameFates DEF TypeOK, Typed, Control
<1> QED BY <1>3, <1>6 DEF IInv

LEMMA SendPacketIInv ==
    ASSUME IInv, SendPacket
    PROVE  IInv'
<1>1. UNCHANGED <<srtpReady, rtx, sequenceNumber, frames, slots, tailIndex, headIndex, lastIndex,
                 resender, sequenceNumberList, validIndexList, size, index, item, packets, freed, leaked>>
  BY DEF SendPacket, peerVars, bufferVars, resenderVars
<1>2. \/ writer' = "idle" /\ todo' = <<>> /\ unbuffered' = unbuffered + Len(todo)
      \/ writer' = "append" /\ todo # <<>> /\ todo' = todo /\ unbuffered' = unbuffered
  BY DEF SendPacket
<1>3. /\ Len(todo) \in Nat /\ unbuffered \in Nat /\ headIndex \in Nat
      /\ todo \in Seq(RtpPacket) /\ <<>> \in Seq(RtpPacket) /\ Len(<<>>) = 0 /\ DOMAIN <<>> = {}
  BY Known, EmptySeq DEF IInv, Typed
<1>4. Packet' = Packet
  BY <1>1 DEF Packet
<1>5. Places'
  BY <1>1, SamePlaces
<1>6. Sequence'
  <2>1. CASE UNCHANGED <<todo, unbuffered>>
    BY <1>1, <2>1, SameSequence
  <2>2. CASE todo' = <<>> /\ unbuffered' = unbuffered + Len(todo)
    <3>1. headIndex' + Len(todo') + unbuffered' = headIndex + Len(todo) + unbuffered
      BY <1>1, <1>3, <2>2
    <3>2. unbuffered' = 0 => unbuffered = 0
      BY <1>3, <2>2
    <3>3. SequenceFollowsIndex
      BY DEF IInv, Sequence
    <3>4. SequenceFollowsIndex'
      BY <1>1, <1>4, <3>1, <3>2, <3>3 DEF SequenceFollowsIndex, GET_UINT16_SEQ_NUM
    <3> QED BY <1>3, <2>2, <3>4 DEF Sequence
  <2> QED BY <1>2, <2>1, <2>2
<1>7. /\ srtpReady' \in BOOLEAN /\ rtx' \in BOOLEAN /\ sequenceNumber' \in 0..SeqSize - 1
      /\ frames' \in Seq(FrameData) /\ lastIndex' \in Int
  BY <1>1 DEF IInv, TypeOK, Typed
<1>8. /\ writer' \in {"idle", "append", "index", "send"}
      /\ writer' = "append" => todo' # <<>>
      /\ writer' = "idle" => todo' = <<>>
      /\ todo' \in Seq(RtpPacket) /\ unbuffered' \in Nat
  <2>1. CASE writer' = "idle" /\ todo' = <<>> /\ unbuffered' = unbuffered + Len(todo)
    BY <1>3, <2>1
  <2>2. CASE writer' = "append" /\ todo # <<>> /\ todo' = todo /\ unbuffered' = unbuffered
    BY <1>3, <2>2
  <2> QED BY <1>2, <2>1, <2>2
<1>9. TypeOK' /\ Typed' /\ Control'
  BY <1>1, <1>4, <1>7, <1>8, SameBuffer, SameResender, SameFates DEF TypeOK, Typed, Control
<1> QED BY <1>5, <1>6, <1>9 DEF IInv

-----------------------------------------------------------------------------
(* The retransmitter.                                                      *)

LEMMA ReceiveNackIInv ==
    ASSUME IInv, ReceiveNack
    PROVE  IInv'
<1>1. /\ resender = "idle" /\ resender' = "list" /\ size' = headIndex - tailIndex
      /\ UNCHANGED <<srtpReady, rtx, writer, sequenceNumber, todo, frames, unbuffered, slots, tailIndex, headIndex,
                    lastIndex, validIndexList, index, item, packets, freed, leaked>>
  BY DEF ReceiveNack, peerVars, writerVars, bufferVars
<1>2. PICK n \in 1..MaxNacked : sequenceNumberList' \in [1..n -> 0..SeqSize - 1]
  BY DEF ReceiveNack
<1>3. sequenceNumberList' \in Seq(0..SeqSize - 1) /\ Len(sequenceNumberList') \in Nat
  <2> DEFINE q == sequenceNumberList'
             T == 0..SeqSize - 1
  <2>1. q \in [1..n -> T]
    BY <1>2
  <2>2. n \in Nat
    OBVIOUS
  <2> HIDE DEF q, T
  <2>3. q \in Seq(T)
    BY <2>1, <2>2
  <2>4. Len(q) \in Nat
    BY <2>3
  <2> QED BY <2>3, <2>4 DEF q, T
<1>4. index = 1 /\ validIndexList = <<>> /\ item = NoPacket
  BY <1>1 DEF IInv, Control
<1>5. Len(validIndexList') <= Min({Len(sequenceNumberList'), ValidIndexes}) /\ Len(validIndexList') = 0
  <2>1. ValidIndexes \in Nat /\ Len(<<>>) = 0
    BY Known
  <2> QED BY <1>1, <1>3, <1>4, <2>1, MinOfTwo
<1>6. size' \in 0..Capacity
  <2>1. /\ Capacity \in Nat /\ tailIndex \in Nat /\ headIndex \in Nat /\ tailIndex <= headIndex
        /\ headIndex - tailIndex <= Capacity
    BY Known
  <2> QED BY <1>1, <2>1
<1>7. Packet' = Packet
  BY <1>1 DEF Packet
<1>8. Places' /\ Sequence'
  BY <1>1, SamePlaces, SameSequence
<1>9. lastIndex' \in Int /\ validIndexList' \in Seq(Int)
  BY <1>1 DEF IInv, Typed
<1>10. TypeOK' /\ Typed' /\ Control'
  BY <1>1, <1>3, <1>4, <1>5, <1>6, <1>7, <1>9, SameWriter, SameBuffer, SameFates DEF TypeOK, Typed, Control
<1> QED BY <1>8, <1>10 DEF IInv

LEMMA ListValidIs ==
    ASSUME IInv, ListValid
    PROVE  /\ validIndexList' \in Seq(Int)
           /\ Len(validIndexList') <= Len(sequenceNumberList) /\ Len(validIndexList') <= ValidIndexes
<1>1. /\ Len(sequenceNumberList) \in Nat /\ ValidIndexes \in Nat
      /\ DOMAIN sequenceNumberList = 1..Len(sequenceNumberList)
      /\ \A k \in DOMAIN sequenceNumberList : sequenceNumberList[k] \in 0..SeqSize - 1
  BY Known
<1>2. CASE size = 0
  <2>1. validIndexList' = <<>>
    BY <1>2 DEF ListValid
  <2> QED BY <1>1, <2>1, EmptySeq
<1>3. CASE size # 0
  <2>1. PICK reads \in ReadsOfLastIndex : validIndexList' = ListFrom(reads)
    BY <1>3 DEF ListValid
  <2> DEFINE n == Len(sequenceNumberList)
             Of(k) == ValidIndex(sequenceNumberList[k], startSeq(reads[1]), endSeq(reads[2]), reads[k + 2])
             found == [k \in DOMAIN sequenceNumberList |-> Of(k)]
  <2>2. reads \in [1..n + 2 -> Int]
    BY DEF ReadsOfLastIndex
  <2>3. size \in Int /\ SeqSize \in Nat \ {0}
    BY Known DEF IInv, TypeOK
  <2>4. startSeq(reads[1]) \in Int /\ endSeq(reads[2]) \in Int
    <3>1. reads[1] \in Int /\ reads[2] \in Int
      BY <1>1, <2>2
    <3>2. reads[1] - size + 1 \in Int
      BY <2>3, <3>1
    <3>3. startSeq(reads[1]) \in 0..SeqSize - 1 /\ endSeq(reads[2]) \in 0..SeqSize - 1
      BY <2>3, <3>1, <3>2, SeqIs DEF startSeq, endSeq
    <3> QED BY <2>3, <3>3
  <2>5. \A k \in 1..n : Of(k) = {} \/ \E x \in Int : Of(k) = {x}
    <3> SUFFICES ASSUME NEW k \in 1..n PROVE Of(k) = {} \/ \E x \in Int : Of(k) = {x}
      OBVIOUS
    <3>1. reads[k + 2] \in Int /\ sequenceNumberList[k] \in Int
      BY <1>1, <2>2, <2>3
    <3> QED BY <2>3, <2>4, <3>1, ValidIndexIs
  <2>6. found \in [1..n -> SUBSET Int] /\ \A k \in 1..n : found[k] = {} \/ \E x \in Int : found[k] = {x}
    <3> HIDE DEF Of
    <3>1. \A k \in 1..n : Of(k) \in SUBSET Int
      BY <2>5
    <3> QED BY <1>1, <2>5, <3>1
  <2>7. validIndexList' = Listed(found)
    BY <2>1 DEF ListFrom
  <2> HIDE DEF found
  <2>8. Int \in SUBSET Int
    OBVIOUS
  <2> QED BY <1>1, <2>6, <2>7, <2>8, ListedProps
<1> QED BY <1>2, <1>3

LEMMA ListValidIInv ==
    ASSUME IInv, ListValid
    PROVE  IInv'
<1>1. /\ resender = "list" /\ resender' = "extract" /\ size' = 0
      /\ UNCHANGED <<srtpReady, rtx, writer, sequenceNumber, todo, frames, unbuffered, slots, tailIndex, headIndex,
                    lastIndex, sequenceNumberList, index, item, packets, freed, leaked>>
  BY DEF ListValid, peerVars, writerVars, bufferVars
<1>2. /\ validIndexList' \in Seq(Int)
      /\ Len(validIndexList') <= Len(sequenceNumberList) /\ Len(validIndexList') <= ValidIndexes
  BY ListValidIs
<1>3. Len(validIndexList') <= Min({Len(sequenceNumberList'), ValidIndexes}) /\ Len(validIndexList') \in Nat
  <2>1. ValidIndexes \in Nat /\ Len(sequenceNumberList) \in Nat
    BY Known
  <2> QED BY <1>1, <1>2, <2>1, MinOfTwo
<1>4. index = 1 /\ item = NoPacket
  BY <1>1 DEF IInv, Control
<1>5. Packet' = Packet
  BY <1>1 DEF Packet
<1>6. Places' /\ Sequence'
  BY <1>1, SamePlaces, SameSequence
<1>7. lastIndex' \in Int /\ sequenceNumberList' \in Seq(0..SeqSize - 1) /\ size' \in 0..Capacity
  BY <1>1, Known DEF IInv, Typed
<1>8. index' \in 1..Len(validIndexList') + 1
  BY <1>1, <1>3, <1>4
<1>9. TypeOK' /\ Typed' /\ Control'
  BY <1>1, <1>2, <1>3, <1>4, <1>5, <1>7, <1>8, SameWriter, SameBuffer, SameFates DEF TypeOK, Typed, Control
<1> QED BY <1>6, <1>9 DEF IInv

LEMMA ExtractIInv ==
    ASSUME IInv, Extract
    PROVE  IInv'
<1> DEFINE e == Slot(validIndexList[index])
<1>1. /\ resender = "extract" /\ resender' = "check" /\ index <= Len(validIndexList)
      /\ item' = slots[e] /\ slots' = [slots EXCEPT ![e] = NoPacket]
      /\ UNCHANGED <<srtpReady, rtx, writer, sequenceNumber, todo, frames, unbuffered, tailIndex, headIndex,
                    lastIndex, sequenceNumberList, validIndexList, size, index, packets, freed, leaked>>
  BY DEF Extract, peerVars, writerVars
<1>2. e \in 0..Capacity - 1
  <2>1. index \in 1..Len(validIndexList)
    BY <1>1, Known DEF IInv, TypeOK
  <2> QED BY <2>1, Known, SlotIs
<1> HIDE DEF e
<1>3. Packet' = Packet
  BY <1>1 DEF Packet
<1>4. slots \in [0..Capacity - 1 -> {NoPacket} \union Packet] /\ NoPacket \notin Packet
  BY Known DEF IInv, TypeOK
<1>5. /\ slots' \in [0..Capacity - 1 -> {NoPacket} \union Packet]
      /\ slots'[e] = NoPacket /\ \A s \in 0..Capacity - 1 : s # e => slots'[s] = slots[s]
      /\ item' \in {NoPacket} \union Packet
  BY <1>1, <1>2, <1>4
<1>6. item = NoPacket /\ Places /\ freed \subseteq Packet /\ leaked \subseteq Packet
  BY <1>1 DEF IInv, Control, Typed
<1>7. TypeOK' /\ Typed' /\ Control'
  <2>1. /\ tailIndex' \in 0..headIndex' /\ headIndex' - tailIndex' <= Capacity
        /\ size' \in 0..Capacity
        /\ Len(validIndexList') <= Min({Len(sequenceNumberList'), ValidIndexes})
        /\ index' \in 1..Len(validIndexList') + 1
    BY <1>1 DEF IInv, TypeOK
  <2>2. /\ packets' \in Seq(RtpPacket) /\ tailIndex' \in Nat /\ headIndex' = Len(packets') /\ lastIndex' \in Int
        /\ sequenceNumberList' \in Seq(0..SeqSize - 1) /\ validIndexList' \in Seq(Int)
    BY <1>1 DEF IInv, Typed
  <2> QED BY <1>1, <1>3, <1>5, <2>1, <2>2, SameWriter, SameFates DEF TypeOK, Typed, Control
<1>8. Places'
  <2>1. ASSUME NEW s \in 0..Capacity - 1, slots'[s] # NoPacket
        PROVE  /\ slots'[s] # item' /\ slots'[s] \notin freed /\ slots'[s] \notin leaked
               /\ Kept(s)'
               /\ \A t \in 0..Capacity - 1 : slots'[t] = slots'[s] => t = s
    <3>1. s # e /\ slots'[s] = slots[s] /\ slots[s] # NoPacket
      BY <1>5, <2>1
    <3>2. /\ slots[s] \notin freed /\ slots[s] \notin leaked /\ Kept(s)
          /\ \A t \in 0..Capacity - 1 : slots[t] = slots[s] => t = s
      BY <1>6, <3>1 DEF Places
    <3>3. Kept(s)'
      BY <1>1, <3>2 DEF Kept, InRange
    <3>4. slots[s] # item'
      BY <1>1, <1>2, <3>1, <3>2
    <3> QED BY <1>5, <3>1, <3>2, <3>3, <3>4
  <2>2. item' \notin freed /\ item' \notin leaked
    BY <1>1, <1>2, <1>4, <1>6 DEF Places
  <2>3. ASSUME NEW n \in Packet
        PROVE  n = item' \/ n \in freed \/ n \in leaked \/ \E s \in 0..Capacity - 1 : slots'[s] = n
    <3>1. n # item
      BY <1>4, <1>6
    <3>2. n \in freed \/ n \in leaked \/ \E s \in 0..Capacity - 1 : slots[s] = n
      BY <1>6, <3>1 DEF Places
    <3> QED BY <1>1, <1>5, <3>2
  <2> QED BY <1>1, <1>3, <1>6, <2>1, <2>2, <2>3 DEF Places
<1>9. Sequence'
  BY <1>1, SameSequence
<1> QED BY <1>7, <1>8, <1>9 DEF IInv

(* A packet that was taken out and is freed or lost is nowhere else.       *)
LEMMA GivenUp ==
    ASSUME IInv, UNCHANGED <<slots, tailIndex, headIndex, packets>>, item' = NoPacket,
           \/ freed' = freed /\ leaked' = leaked \union ({item} \ {NoPacket})
           \/ leaked' = leaked /\ freed' = freed \union ({item} \ {NoPacket})
    PROVE  Places' /\ freed' \subseteq Packet' /\ leaked' \subseteq Packet'
<1>1. /\ Places /\ Packet' = Packet /\ NoPacket \notin Packet
      /\ item \in {NoPacket} \union Packet /\ freed \subseteq Packet /\ leaked \subseteq Packet
  BY Known DEF IInv, TypeOK, Typed, Packet
<1>2. freed' \subseteq Packet /\ leaked' \subseteq Packet
  BY <1>1
<1>3. ASSUME NEW s \in 0..Capacity - 1, slots[s] # NoPacket
      PROVE  /\ slots[s] # NoPacket /\ slots[s] \notin freed' /\ slots[s] \notin leaked'
             /\ Kept(s)'
             /\ \A t \in 0..Capacity - 1 : slots[t] = slots[s] => t = s
  <2>1. /\ slots[s] # item /\ slots[s] \notin freed /\ slots[s] \notin leaked /\ Kept(s)
        /\ \A t \in 0..Capacity - 1 : slots[t] = slots[s] => t = s
    BY <1>1, <1>3 DEF Places
  <2>2. Kept(s)'
    BY <2>1 DEF Kept, InRange
  <2> QED BY <1>3, <2>1, <2>2
<1>4. NoPacket \notin freed' /\ NoPacket \notin leaked' /\ \A n \in freed' : n \notin leaked'
  BY <1>1, <1>2 DEF Places
<1>5. ASSUME NEW n \in Packet
      PROVE  n \in freed' \/ n \in leaked' \/ \E s \in 0..Capacity - 1 : slots[s] = n
  <2>1. n = item \/ n \in freed \/ n \in leaked \/ \E s \in 0..Capacity - 1 : slots[s] = n
    BY <1>1 DEF Places
  <2> QED BY <1>1, <2>1
<1>6. Places'
  BY <1>1, <1>3, <1>4, <1>5 DEF Places
<1> QED BY <1>1, <1>2, <1>6

(* resendPacketOnNack returns.                                             *)
LEMMA ReturnProps ==
    ASSUME IInv, Return
    PROVE  /\ resender' = "idle" /\ size' \in 0..Capacity
           /\ Len(validIndexList') <= Min({Len(sequenceNumberList'), ValidIndexes})
           /\ index' = 1 /\ validIndexList' = <<>> /\ Len(validIndexList') = 0
           /\ sequenceNumberList' \in Seq(0..SeqSize - 1) /\ validIndexList' \in Seq(Int)
           /\ UNCHANGED <<srtpReady, rtx, writer, sequenceNumber, todo, frames, unbuffered, slots, tailIndex,
                         headIndex, lastIndex, packets, freed>>
<1>1. /\ resender' = "idle" /\ size' = size /\ index' = 1 /\ validIndexList' = <<>> /\ sequenceNumberList' = <<>>
      /\ UNCHANGED <<srtpReady, rtx, writer, sequenceNumber, todo, frames, unbuffered, slots, tailIndex,
                    headIndex, lastIndex, packets, freed>>
  BY DEF Return, peerVars, writerVars, bufferVars
<1>2. <<>> \in Seq(0..SeqSize - 1) /\ <<>> \in Seq(Int) /\ Len(<<>>) = 0
  BY EmptySeq
<1>3. size \in 0..Capacity /\ ValidIndexes \in Nat \ {0}
  BY RtpAssumption DEF IInv, TypeOK
<1>4. Min({0, ValidIndexes}) = 0
  BY <1>3, MinOfTwo
<1> QED BY <1>1, <1>2, <1>3, <1>4

LEMMA EndOfNackIInv ==
    ASSUME IInv, EndOfNack
    PROVE  IInv'
<1>1. Return /\ resender = "extract" /\ item' = item /\ leaked' = leaked
  BY DEF EndOfNack
<1>2. item = NoPacket
  BY <1>1 DEF IInv, Control
<1>3. UNCHANGED <<srtpReady, rtx, writer, sequenceNumber, todo, frames, unbuffered, slots, tailIndex,
                 headIndex, lastIndex, packets, freed>>
  BY <1>1, ReturnProps
<1>4. Packet' = Packet
  BY <1>3 DEF Packet
<1>5. Places' /\ Sequence'
  BY <1>1, <1>3, SamePlaces, SameSequence
<1>6. lastIndex' \in Int
  BY <1>3 DEF IInv, Typed
<1>7. TypeOK' /\ Typed' /\ Control'
  BY <1>1, <1>2, <1>3, <1>4, <1>6, ReturnProps, SameWriter, SameBuffer, SameFates DEF TypeOK, Typed, Control
<1> QED BY <1>5, <1>7 DEF IInv

LEMMA onRtpResendIInv ==
    ASSUME IInv, onRtpResend
    PROVE  IInv'
<1>1. /\ resender = "check"
      /\ UNCHANGED <<srtpReady, rtx, writer, sequenceNumber, todo, frames, unbuffered, slots, tailIndex,
                    headIndex, lastIndex, sequenceNumberList, validIndexList, size, packets, freed>>
  BY DEF onRtpResend, peerVars, writerVars, bufferVars
<1>2. \/ item # NoPacket /\ resender' = "resend" /\ UNCHANGED <<index, item, leaked>>
      \/ /\ leaked' = leaked \union ({item} \ {NoPacket}) /\ item' = NoPacket
         /\ index' = index + 1 /\ resender' = "extract"
  BY DEF onRtpResend, FrameFound, FrameNotFound
<1>3. Packet' = Packet
  BY <1>1 DEF Packet
<1>4. /\ index \in 1..Len(validIndexList) + 1 /\ index <= Len(validIndexList)
      /\ item \in {NoPacket} \union Packet
      /\ Len(validIndexList') <= Min({Len(sequenceNumberList'), ValidIndexes})
      /\ lastIndex' \in Int /\ sequenceNumberList' \in Seq(0..SeqSize - 1) /\ validIndexList' \in Seq(Int)
      /\ size' \in 0..Capacity
  BY <1>1 DEF IInv, TypeOK, Typed, Control
<1>5. Len(validIndexList) \in Nat /\ Len(validIndexList') = Len(validIndexList)
  BY <1>1, Known
<1>6. Sequence'
  BY <1>1, SameSequence
<1>7. CASE item # NoPacket /\ resender' = "resend" /\ UNCHANGED <<index, item, leaked>>
  <2>2. Places'
    BY <1>1, <1>7, SamePlaces
  <2>3. index' \in 1..Len(validIndexList') + 1 /\ index' <= Len(validIndexList')
    BY <1>4, <1>5, <1>7
  <2>4. TypeOK' /\ Typed' /\ Control'
    BY <1>1, <1>3, <1>4, <1>7, <2>3, SameWriter, SameBuffer, SameFates DEF TypeOK, Typed, Control
  <2> QED BY <1>6, <2>2, <2>4 DEF IInv
<1>8. CASE /\ leaked' = leaked \union ({item} \ {NoPacket}) /\ item' = NoPacket
           /\ index' = index + 1 /\ resender' = "extract"
  <2>1. Places' /\ freed' \subseteq Packet' /\ leaked' \subseteq Packet'
    BY <1>1, <1>8, GivenUp
  <2>2. index' \in 1..Len(validIndexList') + 1
    BY <1>4, <1>5, <1>8
  <2>3. TypeOK' /\ Typed' /\ Control'
    BY <1>1, <1>3, <1>4, <1>8, <2>1, <2>2, SameWriter, SameBuffer DEF TypeOK, Typed, Control
  <2> QED BY <1>6, <2>1, <2>3 DEF IInv
<1> QED BY <1>2, <1>7, <1>8

LEMMA ResendIInv ==
    ASSUME IInv, Resend
    PROVE  IInv'
<1>1. /\ resender = "resend" /\ resender' = "putback"
      /\ UNCHANGED <<srtpReady, rtx, writer, sequenceNumber, todo, frames, unbuffered, slots, tailIndex,
                    headIndex, lastIndex, sequenceNumberList, validIndexList, size, index, item, packets,
                    freed, leaked>>
  BY DEF Resend, peerVars, writerVars, bufferVars
<1>2. Packet' = Packet
  BY <1>1 DEF Packet
<1>3. Places' /\ Sequence'
  BY <1>1, SamePlaces, SameSequence
<1>4. /\ lastIndex' \in Int /\ size' \in 0..Capacity
      /\ Len(validIndexList') <= Min({Len(sequenceNumberList'), ValidIndexes})
      /\ index' \in 1..Len(validIndexList') + 1 /\ index' <= Len(validIndexList')
      /\ item' \in {NoPacket} \union Packet /\ item' # NoPacket
      /\ sequenceNumberList' \in Seq(0..SeqSize - 1) /\ validIndexList' \in Seq(Int)
  BY <1>1 DEF IInv, TypeOK, Typed, Control
<1>5. TypeOK' /\ Typed' /\ Control'
  BY <1>1, <1>2, <1>4, SameWriter, SameBuffer, SameFates DEF TypeOK, Typed, Control
<1> QED BY <1>3, <1>5 DEF IInv

LEMMA ResendFailsIInv ==
    ASSUME IInv, ResendFails
    PROVE  IInv'
<1>1. Return /\ resender = "resend" /\ item' = NoPacket /\ leaked' = leaked \union {item}
  BY DEF ResendFails
<1>2. item # NoPacket
  BY <1>1 DEF IInv, TypeOK
<1>3. UNCHANGED <<srtpReady, rtx, writer, sequenceNumber, todo, frames, unbuffered, slots, tailIndex,
                 headIndex, lastIndex, packets, freed>>
  BY <1>1, ReturnProps
<1>4. leaked' = leaked \union ({item} \ {NoPacket})
  BY <1>1, <1>2
<1>5. Places' /\ freed' \subseteq Packet' /\ leaked' \subseteq Packet'
  BY <1>1, <1>3, <1>4, GivenUp
<1>6. Sequence'
  BY <1>3, SameSequence
<1>7. lastIndex' \in Int
  BY <1>3 DEF IInv, Typed
<1>8. TypeOK' /\ Typed' /\ Control'
  BY <1>1, <1>3, <1>5, <1>7, ReturnProps, SameWriter, SameBuffer DEF TypeOK, Typed, Control
<1> QED BY <1>5, <1>6, <1>8 DEF IInv

LEMMA PutBackIInv ==
    ASSUME IInv, PutBack
    PROVE  IInv'
<1> DEFINE at == sequenceNumberList[index]
           e == Slot(at)
<1>1. /\ resender = "putback" /\ resender' = "extract" /\ item' = NoPacket /\ index' = index + 1
      /\ UNCHANGED <<srtpReady, rtx, writer, sequenceNumber, todo, frames, unbuffered, tailIndex,
                    headIndex, lastIndex, sequenceNumberList, validIndexList, size, packets, leaked>>
  BY DEF PutBack, peerVars, writerVars
<1>2. \/ /\ InRange(at) /\ slots' = [slots EXCEPT ![e] = item]
         /\ freed' = freed \union ({slots[e]} \ {NoPacket})
      \/ freed' = freed \union {item} /\ slots' = slots
  BY DEF PutBack
<1>3. Packet' = Packet /\ NoPacket \notin Packet
  BY <1>1, Known DEF Packet
<1>4. /\ index \in 1..Len(validIndexList) + 1 /\ index <= Len(validIndexList)
      /\ item \in {NoPacket} \union Packet /\ item # NoPacket /\ Places
      /\ freed \subseteq Packet /\ leaked \subseteq Packet
      /\ slots \in [0..Capacity - 1 -> {NoPacket} \union Packet]
      /\ Len(validIndexList') <= Min({Len(sequenceNumberList'), ValidIndexes})
      /\ lastIndex' \in Int /\ sequenceNumberList' \in Seq(0..SeqSize - 1) /\ validIndexList' \in Seq(Int)
      /\ size' \in 0..Capacity
      /\ tailIndex' \in 0..headIndex' /\ headIndex' - tailIndex' <= Capacity
      /\ packets' \in Seq(RtpPacket) /\ tailIndex' \in Nat /\ headIndex' = Len(packets')
  BY <1>1 DEF IInv, TypeOK, Typed, Control
<1>5. Len(validIndexList) \in Nat /\ Len(validIndexList) <= Len(sequenceNumberList)
      /\ Len(sequenceNumberList) \in Nat
  BY Known
<1>6. index' \in 1..Len(validIndexList') + 1
  BY <1>1, <1>4, <1>5
<1>7. Sequence'
  BY <1>1, SameSequence
<1>8. at \in Int
  <2>1. index \in DOMAIN sequenceNumberList
    BY <1>4, <1>5, Known
  <2>2. at \in 0..SeqSize - 1
    BY <2>1, Known
  <2> QED BY <2>2
<1>9. CASE freed' = freed \union {item} /\ slots' = slots
  <2>1. freed' = freed \union ({item} \ {NoPacket})
    BY <1>4, <1>9
  <2>2. Places' /\ freed' \subseteq Packet' /\ leaked' \subseteq Packet'
    BY <1>1, <1>9, <2>1, GivenUp
  <2>3. TypeOK' /\ Typed' /\ Control'
    BY <1>1, <1>3, <1>4, <1>6, <1>9, <2>2, SameWriter, SameBuffer DEF TypeOK, Typed, Control
  <2> QED BY <1>7, <2>2, <2>3 DEF IInv
<1>10. CASE /\ InRange(at) /\ slots' = [slots EXCEPT ![e] = item]
            /\ freed' = freed \union ({slots[e]} \ {NoPacket})
  <2>1. e \in 0..Capacity - 1
    BY <1>8, Known, SlotIs
  <2>2. \E i \in Int : tailIndex' <= i /\ i < headIndex' /\ Slot(i) = e
    BY <1>1, <1>8, <1>10 DEF InRange
  <2> HIDE DEF at, e
  <2>3. /\ slots' \in [0..Capacity - 1 -> {NoPacket} \union Packet]
        /\ slots'[e] = item /\ \A s \in 0..Capacity - 1 : s # e => slots'[s] = slots[s]
    BY <1>4, <1>10, <2>1
  <2>4. freed' \subseteq Packet
    BY <1>4, <1>10, <2>1
  <2>5. TypeOK' /\ Typed' /\ Control'
    BY <1>1, <1>3, <1>4, <1>6, <2>3, <2>4, SameWriter DEF TypeOK, Typed, Control
  <2>6. ASSUME NEW s \in 0..Capacity - 1, slots'[s] # NoPacket
        PROVE  /\ slots'[s] # NoPacket /\ slots'[s] \notin freed' /\ slots'[s] \notin leaked
               /\ Kept(s)'
               /\ \A t \in 0..Capacity - 1 : slots'[t] = slots'[s] => t = s
    <3>1. CASE s = e
      <4>1. \A t \in 0..Capacity - 1 : slots[t] # item
        BY <1>4 DEF Places
      <4>2. item \notin freed /\ item \notin leaked
        BY <1>4 DEF Places
      <4>3. slots'[s] = item /\ item # NoPacket
        BY <1>4, <2>3, <3>1
      <4>4. item \notin freed' /\ item \notin leaked
        BY <1>10, <2>1, <4>1, <4>2
      <4>5. Kept(s)'
        BY <2>2, <3>1 DEF Kept, InRange, Slot
      <4>6. \A t \in 0..Capacity - 1 : slots'[t] = item => t = s
        BY <2>3, <3>1, <4>1
      <4> QED BY <4>3, <4>4, <4>5, <4>6
    <3>2. CASE s # e
      <4>1. slots'[s] = slots[s] /\ slots[s] # NoPacket
        BY <2>3, <2>6, <3>2
      <4>2. /\ slots[s] # item /\ slots[s] \notin freed /\ slots[s] \notin leaked /\ Kept(s)
            /\ \A t \in 0..Capacity - 1 : slots[t] = slots[s] => t = s
        BY <1>4, <4>1 DEF Places
      <4>3. Kept(s)'
        BY <1>1, <4>2 DEF Kept, InRange
      <4>4. slots[s] \notin freed'
        BY <1>10, <2>1, <3>2, <4>2
      <4> QED BY <2>3, <2>6, <4>1, <4>2, <4>3, <4>4
    <3> QED BY <3>1, <3>2
  <2>7. NoPacket \notin freed' /\ NoPacket \notin leaked /\ \A n \in freed' : n \notin leaked
    BY <1>3, <1>4, <1>10, <2>1, <2>4 DEF Places
  <2>8. ASSUME NEW n \in Packet
        PROVE  n \in freed' \/ n \in leaked \/ \E s \in 0..Capacity - 1 : slots'[s] = n
    <3>1. CASE n = item
      BY <2>1, <2>3, <3>1
    <3>2. CASE n \in freed \/ n \in leaked
      BY <1>10, <3>2
    <3>3. ASSUME NEW s \in 0..Capacity - 1, slots[s] = n
          PROVE  n \in freed' \/ \E t \in 0..Capacity - 1 : slots'[t] = n
      <4>1. CASE s = e
        BY <1>3, <1>10, <3>3, <4>1
      <4>2. CASE s # e
        BY <2>3, <3>3, <4>2
      <4> QED BY <4>1, <4>2
    <3>4. n = item \/ n \in freed \/ n \in leaked \/ \E s \in 0..Capacity - 1 : slots[s] = n
      BY <1>4 DEF Places
    <3> QED BY <3>1, <3>2, <3>3, <3>4
  <2>9. Places'
    BY <1>1, <1>3, <2>6, <2>7, <2>8 DEF Places
  <2> QED BY <1>7, <2>5, <2>9 DEF IInv
<1> QED BY <1>2, <1>9, <1>10

LEMMA NextIInv ==
    ASSUME IInv, Next
    PROVE  IInv'
<1>1. CASE Writer
  <2>1. ASSUME DiscardFrame PROVE IInv'
    BY <2>1, UnchangedIInv DEF DiscardFrame
  <2> QED BY <1>1, <2>1, WriteFrameIInv, AddIInv, StoreLastIndexIInv, SendPacketIInv DEF Writer
<1>2. CASE Retransmitter
  BY <1>2, ReceiveNackIInv, ListValidIInv, ExtractIInv, EndOfNackIInv, onRtpResendIInv, ResendIInv,
     ResendFailsIInv, PutBackIInv DEF Retransmitter
<1> QED BY <1>1, <1>2, SrtpReadyIInv DEF Next

LEMMA Inductive == Spec => []IInv
<1>1. IInv /\ [Next]_vars => IInv'
  BY NextIInv, UnchangedIInv
<1> QED BY <1>1, InitIInv, PTL DEF Spec

-----------------------------------------------------------------------------
(* What the runs check, for every instance.                                *)

(* The variables have the values they are meant to have; a packet that is  *)
(* being resent has been taken out of the buffer, and the indexes and the  *)
(* numbers are read within their lists.                                    *)
THEOREM TypeCorrect == Spec => []TypeOK
<1>1. IInv => TypeOK
  BY DEF IInv
<1> QED BY <1>1, Inductive, PTL

LEMMA OnePlaceOf ==
    ASSUME IInv
    PROVE  PacketInOnePlace
<1> SUFFICES ASSUME NEW n \in Packet
             PROVE  Cardinality({s \in DOMAIN slots : slots[s] = n}) + Cardinality({item} \cap {n})
                        + Cardinality(freed \cap {n}) + Cardinality(leaked \cap {n}) = 1
  BY DEF PacketInOnePlace
<1> DEFINE in == {s \in DOMAIN slots : slots[s] = n}
           count(there) == IF there THEN 1 ELSE 0
<1>1. Cardinality({}) = 0 /\ \A x : Cardinality({x}) = 1
  BY FS_EmptySet, FS_Singleton
<1>2. Places /\ n # NoPacket /\ DOMAIN slots = 0..Capacity - 1
  BY Known DEF IInv, TypeOK
<1>3. Cardinality(in) = count(\E s \in 0..Capacity - 1 : slots[s] = n)
  <2>1. CASE \E s \in 0..Capacity - 1 : slots[s] = n
    <3>1. PICK s \in 0..Capacity - 1 : slots[s] = n
      BY <2>1
    <3>2. in = {s}
      BY <1>2, <3>1 DEF Places
    <3> QED BY <1>1, <2>1, <3>2
  <2>2. CASE ~\E s \in 0..Capacity - 1 : slots[s] = n
    <3>1. in = {}
      BY <1>2, <2>2
    <3> QED BY <1>1, <2>2, <3>1
  <2> QED BY <2>1, <2>2
<1>4. Cardinality({item} \cap {n}) = count(n = item)
  <2>1. n = item => {item} \cap {n} = {n}
    OBVIOUS
  <2>2. n # item => {item} \cap {n} = {}
    OBVIOUS
  <2> QED BY <1>1, <2>1, <2>2
<1>5. \A T : Cardinality(T \cap {n}) = count(n \in T)
  <2> SUFFICES ASSUME NEW T PROVE Cardinality(T \cap {n}) = count(n \in T)
    OBVIOUS
  <2>1. n \in T => T \cap {n} = {n}
    OBVIOUS
  <2>2. n \notin T => T \cap {n} = {}
    OBVIOUS
  <2> QED BY <1>1, <2>1, <2>2
<1>6. Cardinality(freed \cap {n}) = count(n \in freed) /\ Cardinality(leaked \cap {n}) = count(n \in leaked)
  BY <1>5
<1>7. /\ n = item \/ n \in freed \/ n \in leaked \/ \E s \in 0..Capacity - 1 : slots[s] = n
      /\ (\E s \in 0..Capacity - 1 : slots[s] = n) => n # item /\ n \notin freed /\ n \notin leaked
      /\ n = item => n \notin freed /\ n \notin leaked
      /\ n \in freed => n \notin leaked
  BY <1>2 DEF Places
<1> QED BY <1>3, <1>4, <1>6, <1>7

(* A packet that was put into the rolling buffer is there once, or was     *)
(* taken out by the retransmitter, or has been freed or lost, and never    *)
(* two of these.                                                           *)
THEOREM OnePlace == Spec => []PacketInOnePlace
<1>1. IInv => PacketInOnePlace
  BY OnePlaceOf
<1> QED BY <1>1, Inductive, PTL

(* The number of a packet gives its index in the rolling buffer, as far as *)
(* no numbers were given up, and the next packet's is known.               *)
THEOREM FollowsIndex == Spec => []SequenceFollowsIndex
<1>1. IInv => SequenceFollowsIndex
  BY DEF IInv, Sequence
<1> QED BY <1>1, Inductive, PTL

LEMMA NackedOf ==
    ASSUME IInv, ListValid, unbuffered = 0, size # 1, size = headIndex - tailIndex, lastIndexThen = lastIndex,
           lastIndex = headIndex - 1
    PROVE  validIndexList' = Listed([k \in DOMAIN sequenceNumberList |-> InBuffer(sequenceNumberList[k])])
<1>1. /\ DOMAIN sequenceNumberList = 1..Len(sequenceNumberList) /\ Len(sequenceNumberList) \in Nat
      /\ \A k \in DOMAIN sequenceNumberList : sequenceNumberList[k] \in 0..SeqSize - 1
      /\ tailIndex \in Nat /\ headIndex \in Nat
  BY Known
<1>2. CASE size = 0
  <2> DEFINE n == Len(sequenceNumberList)
             found == [k \in DOMAIN sequenceNumberList |-> InBuffer(sequenceNumberList[k])]
  <2>1. validIndexList' = <<>>
    BY <1>2 DEF ListValid
  <2>2. \A seq : InBuffer(seq) = {}
    BY <1>1, <1>2 DEF InBuffer
  <2>3. found \in [1..n -> SUBSET {}] /\ \A k \in 1..n : found[k] = {}
    BY <1>1, <2>2
  <2>4. {} \in SUBSET Int /\ n \in Nat
    BY <1>1
  <2> HIDE DEF found, n
  <2>5. Listed(found) \in Seq({})
    BY <2>3, <2>4, ListedProps
  <2>6. Listed(found) = <<>>
    BY <2>5
  <2> QED BY <2>1, <2>6 DEF found
<1>3. CASE size # 0
  <2>1. PICK reads \in ReadsOfLastIndex : validIndexList' = ListFrom(reads)
    BY <1>3 DEF ListValid
  <2>2. \A k \in 1..Len(sequenceNumberList) + 2 : reads[k] = lastIndex
    BY <1>1 DEF ReadsOfLastIndex
  <2>3. /\ reads[1] = lastIndex /\ reads[2] = lastIndex
        /\ \A k \in DOMAIN sequenceNumberList : reads[k + 2] = lastIndex
    BY <1>1, <2>2
  <2>4. \A k \in DOMAIN sequenceNumberList :
            ValidIndex(sequenceNumberList[k], startSeq(reads[1]), endSeq(reads[2]), reads[k + 2])
                = InBuffer(sequenceNumberList[k])
    <3> SUFFICES ASSUME NEW k \in DOMAIN sequenceNumberList
                 PROVE  ValidIndex(sequenceNumberList[k], startSeq(reads[1]), endSeq(reads[2]), reads[k + 2])
                            = InBuffer(sequenceNumberList[k])
      OBVIOUS
    <3>1. IndexNow(sequenceNumberList[k]) = InBuffer(sequenceNumberList[k])
      BY <1>1, <1>3, ValidIsInBuffer
    <3> QED BY <2>3, <3>1 DEF IndexNow, Start, End
  <2> QED BY <2>1, <2>4 DEF ListFrom
<1> QED BY <1>2, <1>3

(* Unless a packet was put into the rolling buffer since its size was      *)
(* read, or its index was stored, or numbers were given up, the            *)
(* retransmitter finds exactly the packets of the buffer that have a       *)
(* number asked for, in the order they were asked for, wherever the        *)
(* numbers wrap round, unless the buffer has just one packet.              *)
THEOREM Nacked == Spec => NackedFound
<1>1. IInv => [ListValid /\ unbuffered = 0 /\ size # 1 /\ size = headIndex - tailIndex /\ lastIndexThen = lastIndex
             /\ lastIndex = headIndex - 1
               => validIndexList' = Listed([k \in DOMAIN sequenceNumberList |-> InBuffer(sequenceNumberList[k])])]_vars
  BY NackedOf
<1> QED BY <1>1, Inductive, PTL DEF NackedFound

-----------------------------------------------------------------------------
(* Sequences of sequences.                                                 *)

(* One sequence behind the other: a name that keeps the provers from what  *)
(* they know of sequences.                                                 *)
Cat(s, t) == s \o t

LEMMA CatAssoc ==
    ASSUME NEW S, NEW s \in Seq(S), NEW t \in Seq(S), NEW u \in Seq(S)
    PROVE  Cat(Cat(s, t), u) = Cat(s, Cat(t, u))
BY ConcatAssociative DEF Cat

LEMMA SeqIsFunction ==
    ASSUME NEW S, NEW q \in Seq(S)
    PROVE  Len(q) \in Nat /\ DOMAIN q = 1..Len(q) /\ q \in [1..Len(q) -> S] /\ \A k \in 1..Len(q) : q[k] \in S
<1>1. Len(q) \in Nat /\ q \in [1..Len(q) -> S] /\ DOMAIN q = 1..Len(q)
  BY LenProperties
<1> DEFINE n == Len(q)
<1> HIDE DEF n
<1>2. q \in [1..n -> S]
  BY <1>1 DEF n
<1>3. \A k \in 1..n : q[k] \in S
  BY <1>2
<1> QED BY <1>1, <1>3 DEF n

LEMMA FlattenType ==
    ASSUME NEW S, NEW q \in Seq(Seq(S))
    PROVE  FlattenSeq(q) \in Seq(S)
<1> DEFINE n == Len(q)
<1>1. n \in Nat /\ q \in [1..n -> Seq(S)]
  BY SeqIsFunction
<1> HIDE DEF n
<1>2. PICK F \in [0..n -> Seq(S)] : Joins(F, n, q)
  BY <1>1, JoinsExist
<1> QED BY <1>1, <1>2, FlattenIs

LEMMA FlattenOne ==
    ASSUME NEW S, NEW s \in Seq(S)
    PROVE  FlattenSeq(<<s>>) = s
<1> DEFINE F == [k \in 0..1 |-> IF k = 0 THEN <<>> ELSE s]
           q == <<s>>
<1>1. q \in [1..1 -> Seq(S)] /\ q[1] = s
  OBVIOUS
<1>2. F[0] = <<>> /\ F[1] = s
  OBVIOUS
<1> HIDE DEF F, q
<1>3. <<>> \o s = s
  BY ConcatEmptySeq
<1>4. Joins(F, 1, q)
  BY <1>1, <1>2, <1>3 DEF Joins
<1>5. FlattenSeq(q) = F[1]
  BY <1>1, <1>4, FlattenIs
<1> QED BY <1>2, <1>5 DEF q

(* FlattenSeq of two lists joined is what it makes of each, joined.        *)
LEMMA FlattenConcat ==
    ASSUME NEW S, NEW p \in Seq(Seq(S)), NEW q \in Seq(Seq(S))
    PROVE  FlattenSeq(p \o q) = FlattenSeq(p) \o FlattenSeq(q)
<1> DEFINE m == Len(p)
           n == Len(q)
           r == p \o q
<1>1. m \in Nat /\ p \in [1..m -> Seq(S)] /\ n \in Nat /\ q \in [1..n -> Seq(S)]
  BY SeqIsFunction
<1>2. /\ r \in Seq(Seq(S)) /\ Len(r) = m + n
      /\ \A i \in 1..m + n : r[i] = IF i <= m THEN p[i] ELSE q[i - m]
  BY ConcatProperties
<1>3. r \in [1..m + n -> Seq(S)]
  BY <1>2, SeqIsFunction
<1> HIDE DEF m, n, r
<1>4. PICK F \in [0..m -> Seq(S)] : Joins(F, m, p)
  BY <1>1, JoinsExist
<1>5. PICK G \in [0..n -> Seq(S)] : Joins(G, n, q)
  BY <1>1, JoinsExist
<1> DEFINE H == [k \in 0..m + n |-> IF k <= m THEN F[k] ELSE F[m] \o G[k - m]]
<1>6. \A k \in 0..m + n : H[k] = IF k <= m THEN F[k] ELSE F[m] \o G[k - m]
  OBVIOUS
<1> HIDE DEF H
<1>7. F[m] \in Seq(S) /\ \A k \in 0..n : G[k] \in Seq(S)
  BY <1>1, <1>4, <1>5
<1>8. \A k \in 0..n : H[m + k] = F[m] \o G[k]
  <2> SUFFICES ASSUME NEW k \in 0..n PROVE H[m + k] = F[m] \o G[k]
    OBVIOUS
  <2>1. CASE k = 0
    <3>1. m + k \in 0..m + n /\ m + k <= m /\ m + k = m
      BY <1>1, <2>1
    <3>2. H[m + k] = F[m] /\ G[k] = <<>>
      BY <1>5, <1>6, <2>1, <3>1 DEF Joins
    <3> QED BY <1>7, <3>2, ConcatEmptySeq
  <2>2. CASE k # 0
    <3>1. m + k \in 0..m + n /\ ~(m + k <= m) /\ (m + k) - m = k
      BY <1>1, <2>2
    <3> QED BY <1>6, <3>1
  <2> QED BY <2>1, <2>2
<1>9. ASSUME NEW k \in 1..m + n PROVE H[k] = H[k - 1] \o r[k]
  <2>1. CASE k <= m
    <3>1. k \in 1..m /\ k - 1 \in 0..m + n /\ k \in 0..m + n /\ k - 1 <= m
      BY <1>1, <2>1
    <3>2. H[k] = F[k] /\ H[k - 1] = F[k - 1] /\ r[k] = p[k]
      BY <1>2, <1>6, <2>1, <3>1
    <3> QED BY <1>4, <3>1, <3>2 DEF Joins
  <2>2. CASE ~(k <= m)
    <3> DEFINE j == k - m
    <3>1. j \in 1..n /\ j \in 0..n /\ j - 1 \in 0..n /\ m + j = k /\ m + (j - 1) = k - 1
      BY <1>1, <2>2
    <3>2. r[k] = q[j]
      BY <1>2, <2>2
    <3> HIDE DEF j
    <3>3. H[k] = F[m] \o G[j] /\ H[k - 1] = F[m] \o G[j - 1]
      BY <1>8, <3>1
    <3>4. G[j] = G[j - 1] \o q[j]
      BY <1>5, <3>1 DEF Joins
    <3>5. q[j] \in Seq(S) /\ G[j - 1] \in Seq(S)
      BY <1>1, <1>7, <3>1
    <3>6. (F[m] \o G[j - 1]) \o q[j] = F[m] \o (G[j - 1] \o q[j])
      <4>1. F[m] \in Seq(S) /\ G[j - 1] \in Seq(S) /\ q[j] \in Seq(S)
        BY <1>7, <3>5
      <4>2. Cat(Cat(F[m], G[j - 1]), q[j]) = Cat(F[m], Cat(G[j - 1], q[j]))
        BY <4>1, CatAssoc
      <4> QED BY <4>2 DEF Cat
    <3> QED BY <3>2, <3>3, <3>4, <3>6
  <2> QED BY <2>1, <2>2
<1>10. Joins(H, m + n, r)
  <2>1. H[0] = <<>>
    <3>1. 0 \in 0..m + n /\ 0 <= m
      BY <1>1
    <3> QED BY <1>4, <1>6, <3>1 DEF Joins
  <2> QED BY <1>9, <2>1 DEF Joins
<1>11. FlattenSeq(r) = H[m + n]
  <2> DEFINE l == m + n
  <2>1. l \in Nat
    BY <1>1
  <2> HIDE DEF l
  <2>2. r \in [1..l -> Seq(S)] /\ Joins(H, l, r)
    BY <1>3, <1>10 DEF l
  <2> QED BY <2>1, <2>2, FlattenIs DEF l
<1>12. FlattenSeq(p) = F[m] /\ FlattenSeq(q) = G[n]
  BY <1>1, <1>4, <1>5, FlattenIs
<1>13. H[m + n] = F[m] \o G[n]
  BY <1>1, <1>8
<1> QED BY <1>11, <1>12, <1>13 DEF r

LEMMA FlattenCons ==
    ASSUME NEW S, NEW q \in Seq(Seq(S)), q # <<>>
    PROVE  FlattenSeq(q) = Head(q) \o FlattenSeq(Tail(q))
<1>1. Head(q) \in Seq(S) /\ Tail(q) \in Seq(Seq(S))
  BY HeadTailProperties
<1>2. <<Head(q)>> \in Seq(Seq(S))
  BY <1>1
<1>3. q = <<Head(q)>> \o Tail(q)
  <2> DEFINE h == Head(q)
             t == Tail(q)
             r == <<h>> \o t
  <2>1. /\ Len(t) = Len(q) - 1 /\ Len(q) \in Nat /\ Len(t) \in Nat /\ t \in Seq(Seq(S))
        /\ \A i \in 1..Len(t) : t[i] = q[i + 1]
    BY HeadTailProperties
  <2>2. h = q[1]
    OBVIOUS
  <2>3. <<h>> \in Seq(Seq(S)) /\ Len(<<h>>) = 1 /\ <<h>>[1] = h
    BY <1>2
  <2> HIDE DEF h, t
  <2>4. /\ r \in Seq(Seq(S)) /\ Len(r) = 1 + Len(t)
        /\ \A i \in 1..1 + Len(t) : r[i] = IF i <= 1 THEN <<h>>[i] ELSE t[i - 1]
    BY <2>1, <2>3, ConcatProperties
  <2> HIDE DEF r
  <2>5. Len(r) = Len(q)
    BY <2>1, <2>4
  <2>6. ASSUME NEW i \in 1..Len(q) PROVE q[i] = r[i]
    <3>0. i \in 1..1 + Len(t) /\ i \in Nat
      BY <2>1
    <3>1. CASE i = 1
      BY <2>2, <2>3, <2>4, <3>0, <3>1
    <3>2. CASE i # 1
      <4>1. i - 1 \in 1..Len(t) /\ ~(i <= 1) /\ (i - 1) + 1 = i
        BY <3>0, <3>2
      <4> QED BY <2>1, <2>4, <3>0, <4>1
    <3> QED BY <3>1, <3>2
  <2>7. q = r
    BY <2>4, <2>5, <2>6, SeqEqual
  <2> QED BY <2>7 DEF r, h, t
<1>4. FlattenSeq(<<Head(q)>> \o Tail(q)) = FlattenSeq(<<Head(q)>>) \o FlattenSeq(Tail(q))
  BY <1>1, <1>2, FlattenConcat
<1>5. FlattenSeq(<<Head(q)>>) = Head(q)
  BY <1>1, FlattenOne
<1> QED BY <1>3, <1>4, <1>5, Zenon

(* q is p, but for what its first sequence begins with.                    *)
Headed(q, h, p, n, S) ==
    /\ n \in Nat \ {0} /\ h \in Seq(S) /\ p \in [1..n -> Seq(S)] /\ q \in [1..n -> Seq(S)]
    /\ q[1] = h \o p[1] /\ \A k \in 2..n : q[k] = p[k]

(* A list that starts with h starts flat with h.                           *)
LEMMA FlattenFirst ==
    ASSUME NEW S, NEW n, NEW h, NEW p, NEW q, Headed(q, h, p, n, S)
    PROVE  FlattenSeq(q) = h \o FlattenSeq(p)
<1>1. /\ n \in Nat \ {0} /\ h \in Seq(S) /\ p \in [1..n -> Seq(S)] /\ q \in [1..n -> Seq(S)]
      /\ q[1] = h \o p[1] /\ \A k \in 2..n : q[k] = p[k]
  BY DEF Headed
<1>2. n \in Nat /\ 0 \in 0..n /\ \A k \in 1..n : k \in 0..n /\ k - 1 \in 0..n /\ k # 0
  BY <1>1
<1>3. PICK F \in [0..n -> Seq(S)] : Joins(F, n, p)
  BY <1>2, <1>1, JoinsExist
<1> DEFINE G == [k \in 0..n |-> IF k = 0 THEN <<>> ELSE h \o F[k]]
<1>4. G[0] = <<>> /\ \A k \in 1..n : G[k] = h \o F[k]
  BY <1>2
<1> HIDE DEF G
<1>5. ASSUME NEW k \in 1..n PROVE G[k] = G[k - 1] \o q[k]
  <2>1. F[k] = F[k - 1] \o p[k] /\ p[k] \in Seq(S) /\ F[k - 1] \in Seq(S)
    <3>1. F[k] = F[k - 1] \o p[k]
      BY <1>3 DEF Joins
    <3>2. k - 1 \in 0..n
      BY <1>2
    <3> QED BY <1>3, <1>1, <3>1, <3>2
  <2>2. CASE k = 1
    <3>1. F[k - 1] = <<>> /\ G[k - 1] = <<>> /\ q[k] = h \o p[k]
      <4>1. k - 1 = 0
        BY <2>2
      <4> QED BY <1>3, <1>4, <1>1, <2>2, <4>1 DEF Joins
    <3>2. F[k] = p[k] /\ q[k] \in Seq(S)
      BY <1>1, <2>1, <3>1, ConcatEmptySeq
    <3>3. <<>> \o q[k] = q[k]
      BY <3>2, ConcatEmptySeq
    <3> QED BY <1>4, <3>1, <3>2, <3>3
  <2>3. CASE k # 1
    <3>1. k - 1 \in 1..n /\ k \in 2..n
      BY <1>1, <2>3
    <3>2. G[k - 1] = h \o F[k - 1] /\ q[k] = p[k]
      BY <1>4, <1>1, <3>1
    <3>3. (h \o F[k - 1]) \o p[k] = h \o (F[k - 1] \o p[k])
      <4>1. h \in Seq(S) /\ F[k - 1] \in Seq(S) /\ p[k] \in Seq(S)
        BY <1>1, <2>1
      <4>2. Cat(Cat(h, F[k - 1]), p[k]) = Cat(h, Cat(F[k - 1], p[k]))
        BY <4>1, CatAssoc
      <4> QED BY <4>2 DEF Cat
    <3> QED BY <1>4, <2>1, <3>2, <3>3
  <2> QED BY <2>2, <2>3
<1>6. Joins(G, n, q)
  BY <1>4, <1>5 DEF Joins
<1>7. FlattenSeq(q) = G[n] /\ FlattenSeq(p) = F[n]
  <2>0. n \in Nat /\ p \in [1..n -> Seq(S)] /\ q \in [1..n -> Seq(S)]
    BY <1>2, <1>1
  <2>1. FlattenSeq(q) = G[n]
    BY <2>0, <1>6, FlattenIs
  <2>2. FlattenSeq(p) = F[n]
    BY <2>0, <1>3, FlattenIs
  <2> QED BY <2>1, <2>2
<1>8. n \in 1..n
  BY <1>1
<1> QED BY <1>4, <1>7, <1>8

-----------------------------------------------------------------------------
(* Lengths in four bytes.                                                  *)

LEMMA DivRange ==
    ASSUME NEW a \in Nat, NEW m \in Nat \ {0}
    PROVE  a \div m \in Nat /\ a % m \in Nat /\ a % m < m /\ a = m * (a \div m) + (a % m)
BY Z3

LEMMA DivUnique ==
    ASSUME NEW q \in Nat, NEW r \in Nat, NEW m \in Nat \ {0}, r < m
    PROVE  (m * q + r) \div m = q
BY Z3

(* Dividing twice is dividing once by the product.                         *)
LEMMA DivTwice ==
    ASSUME NEW a \in Nat, NEW l \in Nat \ {0}, NEW m \in Nat \ {0}
    PROVE  l * m \in Nat \ {0} /\ a \div (l * m) = (a \div l) \div m
<1> DEFINE b == a \div l
           r == a % l
           c == b \div m
           s == b % m
<1>1. b \in Nat /\ r \in Nat /\ r < l /\ a = l * b + r
  BY DivRange
<1> HIDE DEF b, r
<1>2. c \in Nat /\ s \in Nat /\ s < m /\ b = m * c + s
  BY <1>1, DivRange
<1> HIDE DEF c, s
<1> DEFINE d == l * m
           t == l * s + r
<1>3. d \in Nat \ {0}
  BY Z3
<1>4. t \in Nat /\ t < d
  <2>1. s + 1 <= m
    BY <1>2
  <2>2. l * (s + 1) <= l * m
    BY <1>2, <2>1, Z3
  <2>3. l * (s + 1) = l * s + l /\ l * s \in Nat
    BY <1>2, Z3
  <2> QED BY <1>1, <2>2, <2>3
<1>5. a = d * c + t
  <2>1. l * (m * c + s) = (l * m) * c + l * s
    BY <1>2, Z3
  <2>2. a = l * (m * c + s) + r
    BY <1>1, <1>2
  <2>3. (l * m) * c \in Nat /\ l * s \in Nat
    BY <1>2, Z3
  <2> DEFINE u == (l * m) * c
             v == l * s
             w == l * (m * c + s)
  <2>4. w = u + v /\ a = w + r /\ u \in Nat /\ v \in Nat /\ d * c = u /\ t = v + r
    BY <2>1, <2>2, <2>3, Zenon
  <2> DEFINE e == d * c
  <2>5. e = u
    BY <2>4
  <2> HIDE DEF d, t, u, v, w, e
  <2>6. a = e + t
    BY <1>1, <2>4, <2>5
  <2> QED BY <2>6 DEF e
<1> HIDE DEF d, t
<1>6. a \div d = c
  BY <1>2, <1>3, <1>4, <1>5, DivUnique
<1> QED BY <1>3, <1>6 DEF d, c, b

(* The four bytes of a length, and that they say it.                       *)
LEMMA LengthBytes ==
    ASSUME NEW n \in Nat, Radix \in Nat \ {0}, n < Radix * Radix * Radix * Radix
    PROVE  LET q == BigEndian(n)
           IN  /\ q \in Seq(0..Radix - 1) /\ Len(q) = 4
               /\ ((q[1] * Radix + q[2]) * Radix + q[3]) * Radix + q[4] = n
<1> DEFINE R == Radix
           q == BigEndian(n)
           n1 == n \div R
           n2 == n1 \div R
           n3 == n2 \div R
<1>0. R \in Nat \ {0}
  OBVIOUS
<1>1. n1 \in Nat /\ n % R \in 0..R - 1 /\ n = R * n1 + (n % R)
  BY DivRange
<1>2. n2 \in Nat /\ n1 % R \in 0..R - 1 /\ n1 = R * n2 + (n1 % R)
  <2> HIDE DEF n1
  <2> QED BY <1>1, DivRange
<1>3. n3 \in Nat /\ n2 % R \in 0..R - 1 /\ n2 = R * n3 + (n2 % R)
  <2>1. n2 \in Nat
    BY <1>2
  <2> HIDE DEF n2
  <2> QED BY <2>1, DivRange
<1>4. n \div (R * R) = n2 /\ R * R \in Nat \ {0}
  <2>1. \A l \in Nat \ {0}, m \in Nat \ {0} : l * m \in Nat \ {0} /\ n \div (l * m) = (n \div l) \div m
    BY DivTwice
  <2> QED BY <1>0, <2>1, Zenon
<1>5. n \div (R * R * R) = n3
  <2>1. R * R \in Nat \ {0}
    BY <1>4
  <2>2. n \div ((R * R) * R) = (n \div (R * R)) \div R
    BY <2>1, DivTwice
  <2> QED BY <1>4, <2>2
<1>6. q = <<n3, n2 % R, n1 % R, n % R>>
  BY <1>4, <1>5 DEF BigEndian
<1>7. n3 < R
  <2> SUFFICES ASSUME n3 >= R PROVE FALSE
    BY <1>3
  <2> HIDE DEF n1, n2, n3
  <2>1. n2 >= R * R
    BY <1>3, Z3
  <2>2. n1 >= R * (R * R)
    BY <1>2, <2>1, Z3
  <2>3. n >= R * (R * (R * R))
    BY <1>1, <1>4, <2>2, Z3
  <2>4. R * (R * (R * R)) = R * R * R * R
    BY Z3
  <2> QED BY <2>3, <2>4, Z3
<1> HIDE DEF n1, n2, n3, q
<1>8. /\ q \in Seq(0..R - 1) /\ Len(q) = 4
      /\ q[1] = n3 /\ q[2] = n2 % R /\ q[3] = n1 % R /\ q[4] = n % R
  <2>1. n3 \in 0..R - 1
    BY <1>3, <1>7
  <2> QED BY <1>1, <1>2, <1>3, <1>6, <2>1
<1>9. ((n3 * R + (n2 % R)) * R + (n1 % R)) * R + (n % R) = n
  <2>1. n3 * R + (n2 % R) = n2
    BY <1>3, Z3
  <2>2. n2 * R + (n1 % R) = n1
    BY <1>2, Z3
  <2>3. n1 * R + (n % R) = n
    BY <1>1, Z3
  <2> QED BY <2>1, <2>2, <2>3
<1> QED BY <1>8, <1>9 DEF q

(* What FoldLeft makes of four bytes.                                      *)
LEMMA FourBytes ==
    ASSUME NEW q \in [1..4 -> Nat], Radix \in Nat
    PROVE  FoldLeft(LAMBDA m, byte : m * Radix + byte, 0, q)
               = ((q[1] * Radix + q[2]) * Radix + q[3]) * Radix + q[4]
<1> DEFINE Is(f) == f = [s \in SUBSET (1..4) |->
                           IF s = {} THEN 0 ELSE LET x == Max(s) IN f[s \ {x}] * Radix + q[x]]
           iter == CHOOSE f : Is(f)
           F == [k \in 1..4 |-> [m \in Nat |-> m * Radix + q[k]]]
           n == 4
<1>0. n \in Nat
  OBVIOUS
<1>1. F \in [1..n -> [Nat -> Nat]]
  BY Z3
<1>2. \A k \in 1..n, m \in Nat : F[k][m] = m * Radix + q[k]
  OBVIOUS
<1> HIDE DEF F
<1>3. PICK f \in [SUBSET (1..n) -> Nat] : Folding(f, n, 0, F)
  <2> HIDE DEF n
  <2> QED BY <1>0, <1>1, FoldExists
<1>4. ASSUME NEW s \in SUBSET (1..n), s # {}
      PROVE  Max(s) \in 1..n /\ s \ {Max(s)} \in SUBSET (1..n)
  BY <1>4, MaxIn
<1>5. Is(f)
  <2>1. ASSUME NEW s \in SUBSET (1..n)
        PROVE  f[s] = IF s = {} THEN 0 ELSE LET x == Max(s) IN f[s \ {x}] * Radix + q[x]
    BY <1>2, <1>3, <1>4 DEF Folding
  <2>2. f = [s \in SUBSET (1..n) |-> f[s]]
    OBVIOUS
  <2> QED BY <2>1, <2>2
<1>6. Is(iter)
  <2> HIDE DEF Is
  <2> QED BY <1>5
<1>7. FoldLeft(LAMBDA m, byte : m * Radix + byte, 0, q) = iter[1..4]
  BY DEF FoldLeft, MapThenFoldSet
<1> HIDE DEF iter
<1>8. \A s \in SUBSET (1..4) : iter[s] = IF s = {} THEN 0 ELSE iter[s \ {Max(s)}] * Radix + q[Max(s)]
  BY <1>6
<1> HIDE DEF Is
<1>9. iter[1..0] = 0
  <2>1. 1..0 = {}
    OBVIOUS
  <2> QED BY <1>8, <2>1
<1>10. ASSUME NEW k \in 1..4 PROVE iter[1..k] = iter[1..(k - 1)] * Radix + q[k]
  <2>1. 1..k \in SUBSET (1..4) /\ 1..k # {} /\ Max(1..k) = k
    <3> HIDE DEF n
    <3>1. 1..k \in SUBSET (1..n) /\ 1..k # {} /\ Max(1..k) = k
      BY <1>0, PrefixIs DEF n
    <3> QED BY <3>1 DEF n
  <2>2. (1..k) \ {k} = 1..(k - 1)
    OBVIOUS
  <2> QED BY <1>8, <2>1, <2>2
<1>11. /\ iter[1..1] = iter[1..0] * Radix + q[1] /\ iter[1..2] = iter[1..1] * Radix + q[2]
       /\ iter[1..3] = iter[1..2] * Radix + q[3] /\ iter[1..4] = iter[1..3] * Radix + q[4]
  <2>1. 1 - 1 = 0 /\ 2 - 1 = 1 /\ 3 - 1 = 2 /\ 4 - 1 = 3 /\ 1 \in 1..4 /\ 2 \in 1..4 /\ 3 \in 1..4 /\ 4 \in 1..4
    OBVIOUS
  <2>2. iter[1..1] = iter[1..(1 - 1)] * Radix + q[1] /\ iter[1..2] = iter[1..(2 - 1)] * Radix + q[2]
    BY <1>10, <2>1, Zenon
  <2>3. iter[1..3] = iter[1..(3 - 1)] * Radix + q[3] /\ iter[1..4] = iter[1..(4 - 1)] * Radix + q[4]
    BY <1>10, <2>1, Zenon
  <2> QED BY <2>1, <2>2, <2>3, Zenon
<1>12. iter[1..0] * Radix + q[1] = q[1]
  <2>1. 0 * Radix + q[1] = q[1]
    BY Z3
  <2> QED BY <1>9, <2>1, Zenon
<1> QED BY <1>7, <1>11, <1>12, Zenon

-----------------------------------------------------------------------------
(* The pieces of a frame, and start codes in a buffer.                     *)

(* A recursive function each of whose values is known, or is got from one  *)
(* further on, exists: there is an end.                                    *)
Descends(f, Dom, Stop, V, G, next) ==
    \A i \in Dom : f[i] = IF i \in Stop THEN V[i] ELSE G[i][f[next[i]]]

(* A function that goes on at a later place until it stops exists.         *)
LEMMA DescendExists ==
    ASSUME NEW n \in Nat, NEW Dom \in SUBSET Nat, NEW D, NEW d \in D,
           NEW Stop, NEW V, NEW G, NEW next,
           \A i \in Dom : i \in Stop => V[i] \in D,
           \A i \in Dom : i \notin Stop =>
                i < n /\ next[i] \in Dom /\ next[i] > i /\ G[i] \in [D -> D]
    PROVE  \E f \in [Dom -> D] : Descends(f, Dom, Stop, V, G, next)
<1> DEFINE Rec(f, i) == f[i] = IF i \in Stop THEN V[i] ELSE G[i][f[next[i]]]
           P == {k \in 0..n : \E f \in [Dom -> D] : \A i \in Dom : i >= n - k => Rec(f, i)}
<1>0. \A i \in Dom : i \in Nat
  OBVIOUS
<1>1. 0 \in P
  <2> DEFINE f == [i \in Dom |-> IF i \in Stop THEN V[i] ELSE d]
  <2>1. f \in [Dom -> D] /\ \A i \in Dom : i \in Stop => f[i] = V[i]
    OBVIOUS
  <2> HIDE DEF f
  <2>2. \A i \in Dom : i >= n - 0 => i \in Stop
    BY <1>0
  <2>3. \A i \in Dom : i >= n - 0 => Rec(f, i)
    BY <2>1, <2>2
  <2>4. 0 \in 0..n
    OBVIOUS
  <2> HIDE DEF Rec
  <2> QED BY <2>1, <2>3, <2>4
<1>2. ASSUME NEW k \in 1..n, k - 1 \in P PROVE k \in P
  <2>1. PICK f \in [Dom -> D] : \A i \in Dom : i >= n - (k - 1) => Rec(f, i)
    BY <1>2
  <2> DEFINE j == n - k
             v == IF j \in Stop THEN V[j] ELSE G[j][f[next[j]]]
             g == [i \in Dom |-> IF i = j THEN v ELSE f[i]]
  <2>2. j \in Dom => v \in D
    <3>1. CASE j \in Stop
      BY <3>1
    <3>2. CASE j \notin Stop
      <4>1. j \in Dom => next[j] \in Dom /\ G[j] \in [D -> D]
        BY <3>2
      <4>2. j \in Dom => f[next[j]] \in D
        BY <4>1
      <4> HIDE DEF j
      <4> QED BY <3>2, <4>1, <4>2
    <3> QED BY <3>1, <3>2
  <2>3. g \in [Dom -> D] /\ \A i \in Dom : g[i] = IF i = j THEN v ELSE f[i]
    <3> HIDE DEF v, j
    <3> QED BY <2>2
  <2> HIDE DEF g
  <2>4. ASSUME NEW i \in Dom, i >= n - k PROVE Rec(g, i)
    <3>1. i \notin Stop => next[i] \in Dom /\ next[i] # j
      BY <1>0, <2>4
    <3>2. i \notin Stop => g[next[i]] = f[next[i]]
      <4> HIDE DEF j, v
      <4> QED BY <2>3, <3>1
    <3>3. CASE i = j
      BY <2>3, <3>2, <3>3
    <3>4. CASE i # j
      <4>1. i >= n - (k - 1)
        BY <1>0, <2>4, <3>4
      <4>2. Rec(f, i) /\ g[i] = f[i]
        BY <2>1, <2>3, <3>4, <4>1
      <4> QED BY <3>2, <4>2
    <3> QED BY <3>3, <3>4
  <2>5. k \in 0..n
    OBVIOUS
  <2> HIDE DEF Rec
  <2> QED BY <2>3, <2>4, <2>5
<1> HIDE DEF P
<1>3. n \in P
  BY <1>1, <1>2, UpTo
<1>4. PICK f \in [Dom -> D] : \A i \in Dom : i >= n - n => Rec(f, i)
  BY <1>3 DEF P
<1>5. \A i \in Dom : i >= n - n
  BY <1>0
<1> QED BY <1>4, <1>5 DEF Descends

(* A frame in pieces: they cover it, one behind the other.                 *)
LEMMA PieceCountIs ==
    ASSUME NEW l \in Nat, NEW room \in Nat \ {0}
    PROVE  LET n == (l + room - 1) \div room
           IN  /\ n \in Nat /\ n * room >= l /\ (l > 0 => n >= 1)
               /\ \A k \in 1..n : /\ (k - 1) * room \in Nat /\ (k - 1) * room < l
                                  /\ k * room = (k - 1) * room + room
<1> DEFINE a == l + room - 1
           n == a \div room
           r == a % room
<1>1. a \in Nat
  OBVIOUS
<1>2. n \in Nat /\ r \in Nat /\ r < room /\ a = room * n + r
  <2> HIDE DEF a
  <2> QED BY <1>1, DivRange
<1> HIDE DEF n, r
<1>3. n * room = room * n /\ n * room \in Nat
  BY <1>2, Z3
<1>4. n * room >= l
  BY <1>2, <1>3
<1>5. l > 0 => n >= 1
  <2> SUFFICES ASSUME n = 0, l > 0 PROVE FALSE
    BY <1>2
  <2>1. n * room = 0
    BY Z3
  <2> QED BY <1>4, <2>1
<1>6. ASSUME NEW k \in 1..n
      PROVE  /\ (k - 1) * room \in Nat /\ (k - 1) * room < l
             /\ k * room = (k - 1) * room + room
  <2>0. k \in Nat /\ k >= 1 /\ k <= n
    BY <1>2
  <2>1. (k - 1) * room \in Nat /\ k * room = (k - 1) * room + room
    BY <2>0, Z3
  <2>2. (k - 1) * room <= (n - 1) * room
    BY <1>2, <2>0, Z3
  <2>3. (n - 1) * room = n * room - room
    BY <1>2, Z3
  <2>4. (n - 1) * room < l
    BY <1>2, <1>3, <2>3
  <2>5. (n - 1) * room \in Int
    BY <1>3, <2>3
  <2> QED BY <2>1, <2>2, <2>4, <2>5
<1> QED BY <1>2, <1>4, <1>5, <1>6 DEF n

(* The pieces a frame is cut into are its bytes, in order, none too long.  *)
LEMMA PiecesAre ==
    ASSUME NEW data \in Seq(Nat), NEW room \in Nat \ {0}
    PROVE  LET n == PieceCount(data, room)
               p == [k \in 1..n |-> Piece(data, room, k)]
           IN  /\ n \in Nat /\ (Len(data) > 0 => n >= 1)
               /\ p \in [1..n -> Seq(Nat)]
               /\ FlattenSeq(p) = data
               /\ \A k \in 1..n : /\ (k - 1) * room \in Nat /\ Len(Piece(data, room, k)) <= room
                                  /\ (k - 1) * room + Len(Piece(data, room, k))
                                        = IF k * room <= Len(data) THEN k * room ELSE Len(data)
<1> DEFINE l == Len(data)
           n == PieceCount(data, room)
           p == [k \in 1..n |-> Piece(data, room, k)]
           c(k) == IF k * room <= l THEN k * room ELSE l
<1>0. l \in Nat
  OBVIOUS
<1>1. /\ n \in Nat /\ n * room >= l /\ (l > 0 => n >= 1)
      /\ \A k \in 1..n : /\ (k - 1) * room \in Nat /\ (k - 1) * room < l
                         /\ k * room = (k - 1) * room + room
  <2>1. n = (l + room - 1) \div room
    BY DEF PieceCount
  <2> HIDE DEF l, n
  <2> QED BY <1>0, <2>1, PieceCountIs
<1> HIDE DEF n
<1>2. ASSUME NEW k \in 1..n
      PROVE  /\ (k - 1) * room \in 0..l - 1 /\ c(k) \in (k - 1) * room..l /\ c(k - 1) = (k - 1) * room
             /\ Piece(data, room, k) = SubSeq(data, c(k - 1) + 1, c(k))
             /\ Piece(data, room, k) \in Seq(Nat) /\ Len(Piece(data, room, k)) = c(k) - c(k - 1)
             /\ c(k) - c(k - 1) <= room
  <2> DEFINE i == (k - 1) * room
             j == k * room
  <2>1. i \in Nat /\ i < l /\ j = i + room
    BY <1>1
  <2> HIDE DEF i, j, l
  <2>2. (IF i <= l THEN i ELSE l) = i /\ (IF j <= l THEN j ELSE l) \in i..l /\ i \in 0..l - 1 /\ i \in 0..l
        /\ (IF j <= l THEN j ELSE l) - i <= room
    BY <1>0, <2>1
  <2>3. Min({i + room, l}) = IF j <= l THEN j ELSE l
    <3>1. i + room \in Int /\ l \in Int
      BY <1>0, <2>1
    <3> QED BY <2>1, <3>1, MinOfTwo
  <2>4. Bytes(data, i, room) = SubSeq(data, i + 1, IF j <= l THEN j ELSE l)
    BY <2>3 DEF Bytes, l
  <2>5. Bytes(data, i, room) \in Seq(Nat) /\ Len(Bytes(data, i, room)) = IF i + room <= l THEN room ELSE l - i
    <3>1. i \in 0..Len(data) /\ room \in Nat
      BY <2>2 DEF l
    <3> QED BY <3>1, BytesIs DEF l
  <2>6. (IF i + room <= l THEN room ELSE l - i) = (IF j <= l THEN j ELSE l) - i
    BY <1>0, <2>1
  <2>7. Piece(data, room, k) = Bytes(data, i, room)
    BY DEF Piece, i
  <2>8. c(k) = (IF j <= l THEN j ELSE l) /\ c(k - 1) = i
    BY <2>2 DEF i, j
  <2> HIDE DEF c
  <2>9. i = (k - 1) * room
    BY DEF i
  <2> QED BY <2>2, <2>4, <2>5, <2>6, <2>7, <2>8, <2>9
<1>3. p \in [1..n -> Seq(Nat)] /\ \A k \in 1..n : p[k] = Piece(data, room, k)
  BY <1>2
<1> HIDE DEF p
<1>4. FlattenSeq(p) = data
  <2> DEFINE F == [k \in 0..n |-> SubSeq(data, 1, c(k))]
  <2>1. \A k \in 0..n : F[k] = SubSeq(data, 1, c(k))
    OBVIOUS
  <2> HIDE DEF F
  <2>2. F[0] = <<>>
    <3>1. 0 \in 0..n /\ 0 * room = 0 /\ 0 <= l
      BY <1>0, <1>1
    <3>2. c(0) = 0
      BY <3>1
    <3>3. SubSeq(data, 1, 0) = <<>>
      <4>1. 1 \in Int /\ 0 \in Int /\ 0 < 1
        OBVIOUS
      <4> QED BY <4>1, SubSeqEmpty
    <3> HIDE DEF c
    <3> QED BY <2>1, <3>1, <3>2, <3>3
  <2>3. ASSUME NEW k \in 1..n PROVE F[k] = F[k - 1] \o p[k]
    <3>1. c(k) \in c(k - 1)..Len(data) /\ c(k - 1) \in 0..Len(data)
      BY <1>2
    <3>2. k \in 0..n /\ k - 1 \in 0..n
      BY <1>1
    <3>3. p[k] = SubSeq(data, c(k - 1) + 1, c(k))
      BY <1>2, <1>3
    <3> DEFINE x == c(k - 1)
               y == c(k)
    <3>4. F[k] = SubSeq(data, 1, y) /\ F[k - 1] = SubSeq(data, 1, x) /\ p[k] = SubSeq(data, x + 1, y)
      BY <2>1, <3>2, <3>3, Zenon
    <3>5. x \in 0..Len(data) /\ y \in x..Len(data)
      BY <3>1
    <3> HIDE DEF x, y
    <3>6. SubSeq(data, 1, x) \o SubSeq(data, x + 1, y) = SubSeq(data, 1, y)
      <4>1. 1 \in 1..Len(data) + 1 /\ x \in 1 - 1..Len(data)
        BY <3>5
      <4> QED BY <3>5, <4>1, ConcatAdjacentSubSeq
    <3> QED BY <3>4, <3>6, Zenon
  <2>4. Joins(F, n, p)
    BY <2>2, <2>3 DEF Joins
  <2>5. FlattenSeq(p) = F[n]
    BY <1>1, <1>3, <2>4, FlattenIs
  <2>6. F[n] = data
    <3>1. n \in 0..n
      BY <1>1
    <3>2. c(n) = l
      <4> DEFINE m == n * room
      <4>1. m >= l /\ m \in Int
        BY <1>1, Z3
      <4> HIDE DEF m
      <4>2. (IF m <= l THEN m ELSE l) = l
        BY <1>0, <4>1
      <4> QED BY <4>2 DEF m
    <3>3. SubSeq(data, 1, l) = data
      BY SubSeqFull
    <3> HIDE DEF c, l
    <3> QED BY <2>1, <3>1, <3>2, <3>3
  <2> QED BY <2>5, <2>6
<1>5. \A k \in 1..n : /\ (k - 1) * room \in Nat /\ Len(Piece(data, room, k)) <= room
                      /\ (k - 1) * room + Len(Piece(data, room, k)) = c(k)
  <2> SUFFICES ASSUME NEW k \in 1..n
               PROVE  /\ (k - 1) * room \in Nat /\ Len(Piece(data, room, k)) <= room
                      /\ (k - 1) * room + Len(Piece(data, room, k)) = c(k)
    OBVIOUS
  <2> DEFINE i == (k - 1) * room
             x == c(k)
             y == c(k - 1)
  <2>1. i \in 0..l - 1 /\ x \in i..l /\ y = i /\ Len(Piece(data, room, k)) = x - y /\ x - y <= room
    BY <1>2
  <2> HIDE DEF i, x, y
  <2>2. i \in Nat /\ i + (x - y) = x
    BY <1>0, <2>1
  <2>3. i \in Nat /\ Len(Piece(data, room, k)) <= room /\ i + Len(Piece(data, room, k)) = x
    BY <2>1, <2>2
  <2> QED BY <2>3 DEF i, x
<1>6. p = [k \in 1..n |-> Piece(data, room, k)]
  BY DEF p
<1> QED BY <1>1, <1>3, <1>4, <1>5, <1>6 DEF n

(* Three or four bytes at an offset.                                       *)
LEMMA ThreeAre ==
    ASSUME NEW b \in Seq(Nat), NEW i \in 0..Len(b), NEW x \in Nat, NEW y \in Nat, NEW z \in Nat
    PROVE  Bytes(b, i, 3) = <<x, y, z>> <=>
                i + 3 <= Len(b) /\ b[i + 1] = x /\ b[i + 2] = y /\ b[i + 3] = z
<1>0. Len(b) \in Nat /\ i \in Nat /\ 3 \in Nat /\ 4 \in Nat
  OBVIOUS
<1> DEFINE q == Bytes(b, i, 3)
           r == <<x, y, z>>
           m == IF i + 3 <= Len(b) THEN 3 ELSE Len(b) - i
<1>1. q \in Seq(Nat) /\ Len(q) = m /\ \A k \in 1..m : q[k] = b[i + k]
  BY <1>0, BytesIs
<1>2. r \in Seq(Nat) /\ Len(r) = 3 /\ r[1] = x /\ r[2] = y /\ r[3] = z
  OBVIOUS
<1> HIDE DEF q, r
<1>3. CASE i + 3 <= Len(b)
  <2>1. m = 3 /\ Len(q) = 3 /\ q[1] = b[i + 1] /\ q[2] = b[i + 2] /\ q[3] = b[i + 3]
    BY <1>1, <1>3
  <2>2. q[1] = x /\ q[2] = y /\ q[3] = z => \A k \in 1..Len(q) : q[k] = r[k]
    BY <1>2, <2>1
  <2>3. q[1] = x /\ q[2] = y /\ q[3] = z => q = r
    BY <1>1, <1>2, <2>1, <2>2, SeqEqual
  <2>4. q = r => q[1] = x /\ q[2] = y /\ q[3] = z
    BY <1>2
  <2> QED BY <1>3, <2>1, <2>3, <2>4 DEF q, r
<1>4. CASE ~(i + 3 <= Len(b))
  <2>1. Len(q) # 3
    BY <1>0, <1>1, <1>4
  <2> QED BY <1>2, <1>4, <2>1 DEF q, r
<1> QED BY <1>3, <1>4

LEMMA FourAre ==
    ASSUME NEW b \in Seq(Nat), NEW i \in 0..Len(b), NEW x \in Nat, NEW y \in Nat, NEW z \in Nat, NEW t \in Nat
    PROVE  Bytes(b, i, 4) = <<x, y, z, t>> <=>
                i + 4 <= Len(b) /\ b[i + 1] = x /\ b[i + 2] = y /\ b[i + 3] = z /\ b[i + 4] = t
<1>0. Len(b) \in Nat /\ i \in Nat /\ 3 \in Nat /\ 4 \in Nat
  OBVIOUS
<1> DEFINE q == Bytes(b, i, 4)
           r == <<x, y, z, t>>
           m == IF i + 4 <= Len(b) THEN 4 ELSE Len(b) - i
<1>1. q \in Seq(Nat) /\ Len(q) = m /\ \A k \in 1..m : q[k] = b[i + k]
  BY <1>0, BytesIs
<1>2. r \in Seq(Nat) /\ Len(r) = 4 /\ r[1] = x /\ r[2] = y /\ r[3] = z /\ r[4] = t
  OBVIOUS
<1> HIDE DEF q, r
<1>3. CASE i + 4 <= Len(b)
  <2>1. m = 4 /\ Len(q) = 4 /\ q[1] = b[i + 1] /\ q[2] = b[i + 2] /\ q[3] = b[i + 3] /\ q[4] = b[i + 4]
    <3>1. m = 4
      BY <1>3
    <3>2. Len(q) = 4 /\ \A k \in 1..4 : q[k] = b[i + k]
      BY <1>1, <3>1
    <3>3. 1 \in 1..4 /\ 2 \in 1..4 /\ 3 \in 1..4 /\ 4 \in 1..4
      OBVIOUS
    <3> QED BY <3>1, <3>2, <3>3, Zenon
  <2>2. q[1] = x /\ q[2] = y /\ q[3] = z /\ q[4] = t => \A k \in 1..Len(q) : q[k] = r[k]
    <3>1. \A k \in 1..4 : k = 1 \/ k = 2 \/ k = 3 \/ k = 4
      OBVIOUS
    <3> QED BY ONLY <1>2, <2>1, <3>1, Zenon
  <2>3. q[1] = x /\ q[2] = y /\ q[3] = z /\ q[4] = t => q = r
    BY <1>1, <1>2, <2>1, <2>2, SeqEqual
  <2>4. q = r => q[1] = x /\ q[2] = y /\ q[3] = z /\ q[4] = t
    BY <1>2
  <2> QED BY <1>3, <2>1, <2>3, <2>4 DEF q, r
<1>4. CASE ~(i + 4 <= Len(b))
  <2>1. Len(q) # 4
    BY <1>0, <1>1, <1>4
  <2> QED BY <1>2, <1>4, <2>1 DEF q, r
<1> QED BY <1>3, <1>4

(* Where a start code of three or of four bytes lies.                      *)
LEMMA CodeAt ==
    ASSUME NEW b \in Seq(Nat), NEW i \in 0..Len(b)
    PROVE  CodeLength(b, i) = IF i + 3 <= Len(b) /\ b[i + 1] = 0 /\ b[i + 2] = 0 /\ b[i + 3] = 1 THEN 3
                              ELSE IF /\ i + 4 <= Len(b) /\ b[i + 1] = 0 /\ b[i + 2] = 0
                                      /\ b[i + 3] = 0 /\ b[i + 4] = 1 THEN 4
                              ELSE 0
<1>1. StartCode(3) = <<0, 0, 1>> /\ StartCode(4) = <<0, 0, 0, 1>>
  BY DEF StartCode
<1>2. Bytes(b, i, 3) = <<0, 0, 1>> <=> i + 3 <= Len(b) /\ b[i + 1] = 0 /\ b[i + 2] = 0 /\ b[i + 3] = 1
  <2>1. 0 \in Nat /\ 1 \in Nat
    OBVIOUS
  <2> QED BY <2>1, ThreeAre
<1>3. Bytes(b, i, 4) = <<0, 0, 0, 1>> <=>
        i + 4 <= Len(b) /\ b[i + 1] = 0 /\ b[i + 2] = 0 /\ b[i + 3] = 0 /\ b[i + 4] = 1
  <2>1. \A x, y, z, t \in Nat :
            Bytes(b, i, 4) = <<x, y, z, t>> <=>
                i + 4 <= Len(b) /\ b[i + 1] = x /\ b[i + 2] = y /\ b[i + 3] = z /\ b[i + 4] = t
    BY FourAre
  <2>2. 0 \in Nat /\ 1 \in Nat
    OBVIOUS
  <2> QED BY ONLY <2>1, <2>2, Zenon
<1> QED BY <1>1, <1>2, <1>3, Zenon DEF CodeLength

(* A NALU lies at an offset of a buffer.                                   *)
LiesAt(x, b, s) == s + Len(x) <= Len(b) /\ \A j \in 1..Len(x) : b[s + j] = x[j]

(* There is no start code within a NALU, and no four zeros; the scans do   *)
(* not pass its end.                                                       *)
LEMMA NoCodeIn ==
    ASSUME NEW b \in Seq(Nat), NEW s \in Nat, NEW x, Allowed(x), LiesAt(x, b, s),
           NEW i \in s..s + Len(x) - 1
    PROVE  /\ CodeLength(b, i) = 0 /\ Bytes(b, i, 4) # <<0, 0, 0, 0>>
           /\ Advance(b, i) \in 1..4 /\ i + Advance(b, i) <= s + Len(x)
<1> DEFINE l == Len(x)
           e == s + l
<1>1. l \in Nat /\ l >= 2 /\ Len(b) \in Nat /\ e <= Len(b) /\ s \in Nat /\ e = s + l
  <2>1. x \in Seq(0..Radix - 1) /\ Len(x) >= 2
    BY DEF Allowed
  <2> QED BY <2>1 DEF LiesAt
<1>2. x[l] # 0 /\ \A k \in 1..l - 2 : ~(x[k] = 0 /\ x[k + 1] = 0 /\ x[k + 2] \in {0, 1})
  BY DEF Allowed
<1>3. \A j \in 1..l : b[s + j] = x[j]
  BY DEF LiesAt
<1> HIDE DEF l
<1>4. b[e] # 0
  <2>1. l \in 1..l
    BY <1>1
  <2> QED BY <1>2, <1>3, <2>1
<1>5. i \in s..e - 1
  BY DEF l
<1> DEFINE j == i - s + 1
<1>6. j \in 1..l /\ s + j = i + 1
  BY <1>1, <1>5
<1>7. b[i + 1] # 0 \/ b[i + 2] # 0 \/ (b[i + 3] # 0 /\ b[i + 3] # 1)
  <2>1. CASE j = l
    BY <1>1, <1>4, <1>6, <2>1
  <2>2. CASE j = l - 1
    <3>1. i + 2 = e
      BY <1>1, <1>6, <2>2
    <3> QED BY <1>4, <3>1
  <2>3. CASE j < l - 1
    <3>1. j \in 1..l - 2 /\ j + 1 \in 1..l /\ j + 2 \in 1..l /\ s + (j + 1) = i + 2 /\ s + (j + 2) = i + 3
      BY <1>1, <1>6, <2>3
    <3>2. b[i + 1] = x[j] /\ b[i + 2] = x[j + 1] /\ b[i + 3] = x[j + 2]
      BY <1>3, <1>6, <3>1
    <3> HIDE DEF j
    <3> QED BY <1>2, <3>1, <3>2
  <2> QED BY <1>1, <1>6, <2>1, <2>2, <2>3
<1>8. b[i + 1] = 0 => i + 1 < e
  BY <1>1, <1>4, <1>5
<1>9. b[i + 1] = 0 /\ b[i + 2] = 0 => i + 2 < e
  <2> SUFFICES ASSUME b[i + 1] = 0, b[i + 2] = 0 PROVE i + 2 < e
    OBVIOUS
  <2>1. i + 1 < e /\ i + 2 # e
    BY <1>4, <1>8
  <2> QED BY <1>1, <1>5, <2>1
<1>10. i \in 0..Len(b) /\ i \in Nat
  BY <1>1, <1>5
<1> HIDE DEF e, j
<1>11. CodeLength(b, i) = 0
  BY <1>7, <1>10, CodeAt
<1>12. Bytes(b, i, 4) # <<0, 0, 0, 0>>
  <2>1. 0 \in Nat
    OBVIOUS
  <2>2. Bytes(b, i, 4) = <<0, 0, 0, 0>> => b[i + 1] = 0 /\ b[i + 2] = 0 /\ b[i + 3] = 0
    BY <1>10, <2>1, FourAre
  <2> QED BY <1>7, <2>2
<1>13. Advance(b, i) \in 1..4 /\ i + Advance(b, i) <= e
  <2> DEFINE z == IF b[i + 1] # 0 THEN 1 ELSE IF b[i + 2] # 0 THEN 2 ELSE 3
             Is(n) == /\ \A k \in 0..n - 2 : ByteAt(b, i + k) = 0
                      /\ n = 4 \/ ByteAt(b, i + n - 1) # 0
  <2>1. z \in 1..3 /\ i + z <= e /\ b[i + z] # 0 /\ \A k \in 1..z - 1 : b[i + k] = 0
    <3>1. CASE b[i + 1] # 0
      <4>1. z = 1
        BY <3>1
      <4> HIDE DEF z
      <4>2. i + 1 <= e
        BY <1>1, <1>5 DEF e
      <4> QED BY <3>1, <4>1, <4>2
    <3>2. CASE b[i + 1] = 0 /\ b[i + 2] # 0
      <4>1. z = 2 /\ \A k \in 1..2 - 1 : k = 1
        BY <3>2
      <4>2. i + 2 <= e
        BY <1>1, <1>8, <1>10, <3>2 DEF e
      <4> HIDE DEF z
      <4> QED BY <3>2, <4>1, <4>2
    <3>3. CASE b[i + 1] = 0 /\ b[i + 2] = 0
      <4>1. z = 3 /\ \A k \in 1..3 - 1 : k = 1 \/ k = 2
        BY <3>3
      <4>2. i + 3 <= e
        BY <1>1, <1>9, <1>10, <3>3 DEF e
      <4> HIDE DEF z
      <4> QED BY <1>7, <3>3, <4>1, <4>2
    <3> HIDE DEF z
    <3> QED BY <3>1, <3>2, <3>3
  <2> HIDE DEF z
  <2>2. \A k \in Int : ByteAt(b, i + k) = b[i + (k + 1)]
    <3> SUFFICES ASSUME NEW k \in Int PROVE ByteAt(b, i + k) = b[i + (k + 1)]
      OBVIOUS
    <3>1. (i + k) + 1 = i + (k + 1)
      BY <1>10
    <3> QED BY <3>1 DEF ByteAt
  <2>3. Is(z)
    <3>1. ASSUME NEW k \in 0..z - 2 PROVE ByteAt(b, i + k) = 0
      <4>1. k + 1 \in 1..z - 1 /\ k \in Int
        BY <2>1
      <4> QED BY <2>1, <2>2, <4>1
    <3>2. ByteAt(b, i + z - 1) # 0
      <4>1. i + z - 1 = i + (z - 1) /\ z - 1 \in Int /\ (z - 1) + 1 = z
        BY <1>10, <2>1
      <4> QED BY <2>1, <2>2, <4>1
    <3> QED BY <3>1, <3>2
  <2>4. ASSUME NEW n \in 1..4, Is(n) PROVE n = z
    <3>1. CASE n < z
      <4>1. n # 4 /\ i + n - 1 = i + (n - 1) /\ n - 1 \in Int /\ (n - 1) + 1 = n /\ n \in 1..z - 1
        BY <1>10, <2>1, <3>1
      <4> QED BY <2>1, <2>2, <2>4, <4>1
    <3>2. CASE n > z
      <4>1. z - 1 \in 0..n - 2 /\ z - 1 \in Int /\ (z - 1) + 1 = z
        BY <2>1, <3>2
      <4> QED BY <2>1, <2>2, <2>4, <4>1
    <3> QED BY <2>1, <3>1, <3>2
  <2> DEFINE c == CHOOSE n \in 1..4 : Is(n)
  <2>5. Advance(b, i) = c
    BY DEF Advance
  <2>6. z \in 1..4
    BY <2>1
  <2> HIDE DEF Is
  <2>7. c \in 1..4 /\ Is(c)
    BY <2>3, <2>6, Zenon
  <2> HIDE DEF c
  <2>8. c = z
    BY <2>4, <2>7
  <2> QED BY <2>1, <2>5, <2>6, <2>8
<1> QED BY <1>11, <1>12, <1>13 DEF e, l

(* From some number on, and down from there to every number.               *)
LEMMA DownFrom ==
    ASSUME NEW n \in Nat, NEW P, \A i \in Nat : i >= n => i \in P,
           \A i \in Nat : i < n /\ (\A m \in Nat : m > i => m \in P) => i \in P
    PROVE  \A i \in Nat : i \in P
<1> DEFINE Q == {k \in 0..n : \A i \in Nat : i >= n - k => i \in P}
<1>1. 0 \in Q
  <2>1. \A i \in Nat : i >= n - 0 => i >= n
    OBVIOUS
  <2>2. 0 \in 0..n
    OBVIOUS
  <2> QED BY <2>1, <2>2
<1>2. ASSUME NEW k \in 1..n, k - 1 \in Q PROVE k \in Q
  <2>1. \A i \in Nat : i >= n - (k - 1) => i \in P
    BY <1>2
  <2>2. ASSUME NEW i \in Nat, i >= n - k PROVE i \in P
    <3>1. CASE i >= n - (k - 1)
      BY <2>1, <3>1
    <3>2. CASE ~(i >= n - (k - 1))
      <4>1. i < n /\ \A m \in Nat : m > i => m >= n - (k - 1)
        BY <2>2, <3>2
      <4> QED BY <2>1, <4>1
    <3> QED BY <3>1, <3>2
  <2>3. k \in 0..n
    OBVIOUS
  <2> QED BY <2>2, <2>3
<1> HIDE DEF Q
<1>3. n \in Q
  BY <1>1, <1>2, UpTo
<1>4. \A i \in Nat : i >= n - n
  OBVIOUS
<1> QED BY <1>3, <1>4 DEF Q

(* A start code of c bytes at an offset.                                   *)
CodeLies(b, i, c) ==
    /\ c \in {3, 4} /\ i + c <= Len(b) /\ b[i + 1] = 0 /\ b[i + 2] = 0
    /\ c = 3 => b[i + 3] = 1
    /\ c = 4 => b[i + 3] = 0 /\ b[i + 4] = 1

(* The scan for the end of a NALU finds it, if there is the next start     *)
(* code or the end of the frame.                                           *)
LEMMA NextStartCodeAt ==
    ASSUME NEW b \in Seq(Nat), NEW s \in Nat, s >= 3, b[s] = 1, NEW x, Allowed(x), LiesAt(x, b, s),
           NEW c, s + Len(x) = Len(b) \/ CodeLies(b, s + Len(x), c)
    PROVE  NextStartCode(b, s) = s + Len(x)
<1> DEFINE l == Len(x)
           e == s + l
           n == Len(b)
           Is(f) == f = [i \in Nat |->
                CASE i >= Len(b) -> Len(b)
                  [] i < Len(b) /\ ByteAt(b, i) = 0 -> f[i + 1]
                  [] i < Len(b) /\ ByteAt(b, i) = 1 /\ Bytes(b, i - 2, 2) = <<0, 0>> ->
                        IF ByteAt(b, i - 3) = 0 THEN i - 3 ELSE i - 2
                  [] OTHER -> f[i + 3]]
           scan == CHOOSE f : Is(f)
<1>1. l \in Nat /\ l >= 2 /\ n \in Nat /\ e <= n /\ s \in Nat /\ e \in Nat
  <2>1. x \in Seq(0..Radix - 1) /\ Len(x) >= 2
    BY DEF Allowed
  <2> QED BY <2>1 DEF LiesAt
<1>2. \E f : Is(f)
  <2>1. PICK f : f = [i \in Nat |-> f[i]] /\ \A i \in Nat : Scanning(b, f, i)
    BY ScanExists
  <2>2. Is(f)
    BY <2>1 DEF Scanning
  <2> QED BY <2>2
<1>3. Is(scan)
  <2> HIDE DEF Is
  <2> QED BY <1>2
<1>4. NextStartCode(b, s) = scan[s]
  BY DEF NextStartCode
<1> HIDE DEF scan
<1>5. \A i \in Nat : Scanning(b, scan, i)
  BY <1>3 DEF Scanning
<1> HIDE DEF Is
<1>6. x[l] # 0 /\ \A k \in 1..l - 2 : ~(x[k] = 0 /\ x[k + 1] = 0 /\ x[k + 2] \in {0, 1})
  BY DEF Allowed
<1>7. \A j \in 1..l : b[s + j] = x[j]
  BY DEF LiesAt
<1>8. b[e] # 0
  <2>1. l \in 1..l
    BY <1>1
  <2> QED BY <1>6, <1>7, <2>1
<1>9. e = n \/ CodeLies(b, e, c)
  OBVIOUS
<1> DEFINE top == IF e = n THEN n ELSE e + c - 1
           Q(i) == i >= s /\ (i <= top \/ e = n) => scan[i] = e
           P == {i \in Nat : Q(i)}
<1>10. e # n => c \in {3, 4} /\ e + c <= n /\ top = e + c - 1
  BY <1>9 DEF CodeLies
<1> HIDE DEF l, n
(* Three bytes that are in the NALU *)
<1>11. ASSUME NEW i \in Nat, i >= s, i < e, b[i - 1] = 0, b[i] = 0 PROVE b[i + 1] # 1
  <2>1. i # s /\ i - 1 # s
    BY <1>1, <1>11
  <2> DEFINE k == i - 1 - s
  <2>2. k \in 1..l - 2 /\ k \in 1..l /\ k + 1 \in 1..l /\ k + 2 \in 1..l
        /\ s + k = i - 1 /\ s + (k + 1) = i /\ s + (k + 2) = i + 1
    BY <1>1, <1>11, <2>1
  <2> HIDE DEF k, e
  <2>3. b[i - 1] = x[k] /\ b[i] = x[k + 1] /\ b[i + 1] = x[k + 2]
    BY <1>7, <2>2
  <2> QED BY <1>6, <1>11, <2>2, <2>3
<1> HIDE DEF e
<1>12. ASSUME NEW i \in Nat, i >= e, i < top PROVE b[i + 1] = 0
  <2>1. e # n
    BY <1>1, <1>12
  <2>2. CodeLies(b, e, c) /\ c \in {3, 4}
    BY <1>9, <1>10, <2>1
  <2>3. i = e \/ i = e + 1 \/ (c = 4 /\ i = e + 2)
    BY <1>1, <1>10, <1>12, <2>1, <2>2
  <2>4. b[e + 1] = 0 /\ b[e + 2] = 0 /\ (c = 4 => b[e + 3] = 0) /\ (e + 1) + 1 = e + 2 /\ (e + 2) + 1 = e + 3
    BY <1>1, <2>2 DEF CodeLies
  <2> QED BY <2>3, <2>4
<1>13. ASSUME NEW i \in Nat, i >= 2, i <= n PROVE Bytes(b, i - 2, 2) = <<0, 0>> <=> b[i - 1] = 0 /\ b[i] = 0
  <2> DEFINE q == Bytes(b, i - 2, 2)
  <2>0. i - 2 \in 0..Len(b) /\ (i - 2) + 2 <= Len(b) /\ 2 \in Nat /\ (i - 2) + 1 = i - 1 /\ (i - 2) + 2 = i
    BY <1>1, <1>13 DEF n
  <2>1. q \in Seq(Nat) /\ Len(q) = 2 /\ \A k \in 1..2 : q[k] = b[(i - 2) + k]
    BY <2>0, BytesIs
  <2>2. q[1] = b[i - 1] /\ q[2] = b[i]
    BY <2>0, <2>1
  <2> HIDE DEF q
  <2>3. q = <<0, 0>> <=> q[1] = 0 /\ q[2] = 0
    BY <2>1
  <2> QED BY <2>2, <2>3 DEF q
<1>14. \A i \in Nat : ByteAt(b, i) = b[i + 1] /\ ByteAt(b, i - 3) = b[i - 2]
  <2> SUFFICES ASSUME NEW i \in Nat PROVE ByteAt(b, i) = b[i + 1] /\ ByteAt(b, i - 3) = b[i - 2]
    OBVIOUS
  <2>1. (i - 3) + 1 = i - 2
    OBVIOUS
  <2> QED BY <2>1 DEF ByteAt
<1>15. ASSUME NEW i \in Nat, i >= n PROVE Q(i)
  <2>1. Scanning(b, scan, i)
    BY <1>5
  <2>2. scan[i] = n
    BY <1>1, <1>15, <2>1 DEF Scanning, n
  <2>3. e # n => ~(i <= top)
    BY <1>1, <1>10, <1>15
  <2> HIDE DEF top
  <2> QED BY <2>2, <2>3
<1>16. ASSUME NEW i \in Nat, i < n, \A m \in Nat : m > i => Q(m) PROVE Q(i)
  <2> SUFFICES ASSUME i >= s, i <= top \/ e = n PROVE scan[i] = e
    OBVIOUS
  <2> HIDE DEF Q
  <2>0. i >= 2 /\ i <= n
    BY <1>1, <1>16
  <2>1. /\ ByteAt(b, i) = 0 => scan[i] = scan[i + 1]
        /\ b[i + 1] = 1 /\ b[i - 1] = 0 /\ b[i] = 0 => scan[i] = IF b[i - 2] = 0 THEN i - 3 ELSE i - 2
        /\ ~(b[i + 1] = 0) /\ ~(b[i + 1] = 1 /\ b[i - 1] = 0 /\ b[i] = 0) => scan[i] = scan[i + 3]
    <3>1. Scanning(b, scan, i) /\ i < Len(b)
      BY <1>5, <1>16 DEF n
    <3>2. ByteAt(b, i) = b[i + 1] /\ ByteAt(b, i - 3) = b[i - 2]
      BY <1>14
    <3>3. Bytes(b, i - 2, 2) = <<0, 0>> <=> b[i - 1] = 0 /\ b[i] = 0
      BY <1>13, <2>0
    <3>4. ~(i >= Len(b)) /\ Len(b) \in Nat
      BY <3>1
    <3> DEFINE z == Bytes(b, i - 2, 2) = <<0, 0>>
    <3>5. scan[i] = CASE i >= Len(b) -> Len(b)
                      [] i < Len(b) /\ ByteAt(b, i) = 0 -> scan[i + 1]
                      [] i < Len(b) /\ ByteAt(b, i) = 1 /\ z ->
                            IF ByteAt(b, i - 3) = 0 THEN i - 3 ELSE i - 2
                      [] OTHER -> scan[i + 3]
      BY <3>1 DEF Scanning
    <3>6. z <=> b[i - 1] = 0 /\ b[i] = 0
      BY <3>3
    <3> HIDE DEF z
    <3> DEFINE u == ByteAt(b, i)
               v == IF ByteAt(b, i - 3) = 0 THEN i - 3 ELSE i - 2
    <3>7. /\ u = 0 => scan[i] = scan[i + 1]
          /\ u = 1 /\ z => scan[i] = v
          /\ u # 0 /\ ~(u = 1 /\ z) => scan[i] = scan[i + 3]
      <4> HIDE DEF u, v
      <4>1. scan[i] = CASE i >= Len(b) -> Len(b)
                        [] i < Len(b) /\ u = 0 -> scan[i + 1]
                        [] i < Len(b) /\ u = 1 /\ z -> v
                        [] OTHER -> scan[i + 3]
        BY <3>5 DEF u, v
      <4> QED BY <3>1, <3>4, <4>1
    <3>8. u = b[i + 1] /\ v = IF b[i - 2] = 0 THEN i - 3 ELSE i - 2
      BY <3>2
    <3> HIDE DEF u, v
    <3>9. u = 0 <=> ByteAt(b, i) = 0
      BY DEF u
    <3> QED BY <3>6, <3>7, <3>8, <3>9
  <2>2. CASE i = top
    <3>1. e # n /\ CodeLies(b, e, c) /\ c \in {3, 4} /\ i + 1 = e + c
      BY <1>1, <1>9, <1>10, <1>16, <2>2
    <3>2. CASE c = 3
      <4>1. i + 1 = e + 3 /\ i - 1 = e + 1 /\ i = e + 2 /\ i - 2 = e
        BY <1>1, <3>1, <3>2
      <4>2. b[e + 1] = 0 /\ b[e + 2] = 0 /\ b[e + 3] = 1
        BY <3>1, <3>2 DEF CodeLies
      <4> QED BY <1>8, <2>1, <4>1, <4>2
    <3>3. CASE c = 4
      <4>1. i + 1 = e + 4 /\ i - 1 = e + 2 /\ i = e + 3 /\ i - 2 = e + 1 /\ i - 3 = e
        BY <1>1, <3>1, <3>3
      <4>2. b[e + 1] = 0 /\ b[e + 2] = 0 /\ b[e + 3] = 0 /\ b[e + 4] = 1
        BY <3>1, <3>3 DEF CodeLies
      <4> QED BY <2>1, <4>1, <4>2
    <3> QED BY <3>1, <3>2, <3>3
  <2>3. CASE i # top
    <3>0. i < top
      <4>1. CASE e = n
        BY <1>16, <2>3, <4>1
      <4>2. CASE e # n
        <5>1. i <= top /\ top \in Int /\ i # top
          BY <1>1, <1>10, <2>3, <4>2
        <5> HIDE DEF top
        <5> QED BY <5>1
      <4> QED BY <4>1, <4>2
    <3>1. CASE b[i + 1] = 0
      <4>1. i + 1 \in Nat /\ i + 1 > i /\ i + 1 >= s /\ (i + 1 <= top \/ e = n)
        BY <1>1, <1>10, <3>0
      <4> HIDE DEF top
      <4>2. scan[i + 1] = e
        BY <1>16, <4>1 DEF Q
      <4>3. ByteAt(b, i) = 0
        BY <1>14, <3>1
      <4> QED BY <2>1, <4>2, <4>3
    <3>2. CASE b[i + 1] # 0
      <4>1. i < e
        BY <1>1, <1>12, <3>0, <3>2
      <4>2. ~(b[i + 1] = 1 /\ b[i - 1] = 0 /\ b[i] = 0)
        BY <1>11, <4>1
      <4>3. i + 3 \in Nat /\ i + 3 > i /\ i + 3 >= s /\ (i + 3 <= top \/ e = n)
        BY <1>1, <1>10, <4>1
      <4> HIDE DEF top
      <4>4. scan[i + 3] = e
        BY <1>16, <4>3 DEF Q
      <4> QED BY <2>1, <3>2, <4>2, <4>4
    <3> QED BY <3>1, <3>2
  <2> QED BY <2>2, <2>3
<1>17. \A i \in Nat : i \in P
  <2> HIDE DEF Q
  <2>1. \A i \in Nat : i >= n => i \in P
    BY <1>15
  <2>2. \A i \in Nat : i < n /\ (\A m \in Nat : m > i => m \in P) => i \in P
    BY <1>16
  <2> HIDE DEF P
  <2> QED BY <1>1, <2>1, <2>2, DownFrom
<1>18. s <= top
  BY <1>1, <1>10 DEF e
<1>19. scan[s] = e
  BY <1>17, <1>18
<1> QED BY <1>4, <1>19 DEF e, l

-----------------------------------------------------------------------------
(* NALUs one behind the other, each behind a start code or its length.     *)

(* A buffer of n NALUs, each behind a head: head k begins at at[k - 1],    *)
(* NALU k at begin[k], and it ends at at[k].                               *)
LaidOut(b, n, head, nalu, at, begin) ==
    /\ b \in Seq(Nat) /\ n \in Nat
    /\ head \in [1..n -> Seq(Nat)] /\ nalu \in [1..n -> Seq(Nat)]
    /\ at \in [0..n -> Nat] /\ begin \in [1..n -> Nat]
    /\ at[0] = 0 /\ at[n] = Len(b)
    /\ \A i \in 0..n, k \in 0..n : i <= k => at[i] <= at[k]
    /\ \A k \in 1..n : begin[k] = at[k - 1] + Len(head[k]) /\ at[k] = begin[k] + Len(nalu[k])
    /\ \A k \in 1..n : LiesAt(head[k], b, at[k - 1]) /\ LiesAt(nalu[k], b, begin[k])

(* Heads and NALUs laid one behind the other have their places.            *)
LEMMA LaidOutIs ==
    ASSUME NEW S \in SUBSET Nat, NEW n \in Nat, NEW head \in [1..n -> Seq(S)], NEW nalu \in [1..n -> Seq(S)]
    PROVE  LET b == FlattenSeq([k \in 1..n |-> head[k] \o nalu[k]])
           IN  b \in Seq(S) /\ \E at, begin : LaidOut(b, n, head, nalu, at, begin)
<1> DEFINE q == [k \in 1..n |-> head[k] \o nalu[k]]
           b == FlattenSeq(q)
<1>1. ASSUME NEW k \in 1..n
      PROVE  /\ head[k] \in Seq(S) /\ nalu[k] \in Seq(S) /\ Len(head[k]) \in Nat /\ Len(nalu[k]) \in Nat
             /\ head[k] \o nalu[k] \in Seq(S)
             /\ Len(head[k] \o nalu[k]) = Len(head[k]) + Len(nalu[k])
             /\ \A j \in 1..Len(head[k]) : (head[k] \o nalu[k])[j] = head[k][j]
             /\ \A j \in 1..Len(nalu[k]) : (head[k] \o nalu[k])[Len(head[k]) + j] = nalu[k][j]
  <2> DEFINE h == head[k]
             u == nalu[k]
             r == h \o u
  <2>1. h \in Seq(S) /\ u \in Seq(S)
    OBVIOUS
  <2> HIDE DEF h, u
  <2>2. Len(h) \in Nat /\ Len(u) \in Nat
    BY <2>1
  <2>3. /\ r \in Seq(S) /\ Len(r) = Len(h) + Len(u)
        /\ \A i \in 1..Len(h) + Len(u) : r[i] = IF i <= Len(h) THEN h[i] ELSE u[i - Len(h)]
    BY <2>1, ConcatProperties
  <2> HIDE DEF r
  <2>4. \A j \in 1..Len(h) : r[j] = h[j]
    BY <2>2, <2>3
  <2>5. \A j \in 1..Len(u) : r[Len(h) + j] = u[j]
    <3> SUFFICES ASSUME NEW j \in 1..Len(u) PROVE r[Len(h) + j] = u[j]
      OBVIOUS
    <3>1. Len(h) + j \in 1..Len(h) + Len(u) /\ ~(Len(h) + j <= Len(h)) /\ (Len(h) + j) - Len(h) = j
      BY <2>2
    <3> QED BY <2>3, <3>1
  <2> QED BY <2>1, <2>2, <2>3, <2>4, <2>5 DEF r, h, u
<1>2. q \in [1..n -> Seq(S)] /\ \A k \in 1..n : q[k] = head[k] \o nalu[k]
  BY <1>1
<1> HIDE DEF q
<1>3. PICK F \in [0..n -> Seq(S)] : Joins(F, n, q)
  BY <1>2, JoinsExist
<1>4. b = F[n] /\ b \in Seq(S)
  BY <1>2, <1>3, FlattenIs
<1> HIDE DEF b
<1>5. /\ \A k \in 1..n : Len(F[k]) = Len(F[k - 1]) + Len(q[k])
      /\ \A i \in 0..n, k \in 0..n : i <= k => Len(F[i]) <= Len(F[k])
      /\ \A k \in 1..n : \A j \in 1..Len(q[k]) : F[n][Len(F[k - 1]) + j] = q[k][j]
  <2>1. n \in Nat /\ q \in [1..n -> Seq(S)] /\ F \in [0..n -> Seq(S)] /\ Joins(F, n, q)
    BY <1>2, <1>3
  <2>2. Laid(F, n, q)
    BY ONLY <2>1, JoinsLaid
  <2> QED BY <2>2 DEF Laid
<1> DEFINE at == [k \in 0..n |-> Len(F[k])]
           begin == [k \in 1..n |-> Len(F[k - 1]) + Len(head[k])]
<1>6. \A k \in 0..n : at[k] = Len(F[k]) /\ Len(F[k]) \in Nat
  BY <1>3
<1>7. \A k \in 1..n : begin[k] = at[k - 1] + Len(head[k])
  BY <1>6
<1> HIDE DEF at, begin
<1>8. at \in [0..n -> Nat] /\ begin \in [1..n -> Nat]
  <2>1. at \in [0..n -> Nat]
    BY <1>6 DEF at
  <2>2. \A k \in 1..n : Len(F[k - 1]) + Len(head[k]) \in Nat
    <3>1. \A k \in 1..n : k - 1 \in 0..n
      OBVIOUS
    <3> QED BY <1>1, <1>6, <3>1
  <2> QED BY <2>1, <2>2 DEF begin
<1>9. at[0] = 0 /\ at[n] = Len(b)
  <2>1. F[0] = <<>> /\ 0 \in 0..n /\ n \in 0..n
    BY <1>3 DEF Joins
  <2> QED BY <1>4, <1>6, <2>1
<1>10. \A i \in 0..n, k \in 0..n : i <= k => at[i] <= at[k]
  BY <1>5, <1>6
<1>11. ASSUME NEW k \in 1..n
       PROVE  /\ at[k] = begin[k] + Len(nalu[k])
              /\ LiesAt(head[k], b, at[k - 1]) /\ LiesAt(nalu[k], b, begin[k])
  <2> DEFINE h == head[k]
             u == nalu[k]
             i == at[k - 1]
  <2>1. k \in 0..n /\ k - 1 \in 0..n /\ n \in 0..n /\ k <= n
    OBVIOUS
  <2>2. at[k] = i + Len(q[k]) /\ \A j \in 1..Len(q[k]) : b[i + j] = q[k][j]
    BY <1>4, <1>5, <1>6, <2>1
  <2>3. i \in Nat /\ at[k] <= Len(b) /\ Len(b) \in Nat
    BY <1>8, <1>9, <1>10, <2>1
  <2>4. /\ Len(h) \in Nat /\ Len(u) \in Nat /\ Len(q[k]) = Len(h) + Len(u)
        /\ \A j \in 1..Len(h) : q[k][j] = h[j]
        /\ \A j \in 1..Len(u) : q[k][Len(h) + j] = u[j]
    BY <1>1, <1>2
  <2>5. begin[k] = i + Len(h)
    BY <1>7
  <2> HIDE DEF h, u, i
  <2>6. \A j \in 1..Len(h) : j \in 1..Len(q[k])
    BY <2>4
  <2>7. LiesAt(h, b, i)
    <3>1. \A j \in 1..Len(h) : b[i + j] = h[j]
      BY <2>2, <2>4, <2>6
    <3>2. i + Len(h) <= Len(b)
      BY <2>2, <2>3, <2>4
    <3> QED BY <3>1, <3>2 DEF LiesAt
  <2>8. ASSUME NEW j \in 1..Len(u) PROVE b[begin[k] + j] = u[j]
    <3> DEFINE x == Len(h)
               y == Len(u)
               z == Len(q[k])
               t == begin[k]
    <3>0. x \in Nat /\ y \in Nat /\ z = x + y /\ i \in Nat /\ t = i + x /\ j \in 1..y
      BY <2>3, <2>4, <2>5
    <3> HIDE DEF x, y, z, t
    <3>2. x + j \in 1..z /\ t + j = i + (x + j)
      BY ONLY <3>0
    <3>1. Len(h) + j \in 1..Len(q[k]) /\ begin[k] + j = i + (Len(h) + j)
      BY ONLY <3>2 DEF x, z, t
    <3> QED BY <2>2, <2>4, <3>1
  <2>9. LiesAt(u, b, begin[k])
    BY <2>2, <2>3, <2>4, <2>5, <2>8 DEF LiesAt
  <2>10. at[k] = begin[k] + Len(u)
    BY <2>2, <2>3, <2>4, <2>5
  <2> QED BY <2>7, <2>9, <2>10 DEF h, u, i
<1>12. b \in Seq(Nat) /\ head \in [1..n -> Seq(Nat)] /\ nalu \in [1..n -> Seq(Nat)]
  <2>1. \A s \in Seq(S) : s \in Seq(Nat)
    BY SeqMonotonic
  <2> QED BY <1>4, <2>1
<1>13. LaidOut(b, n, head, nalu, at, begin)
  BY <1>7, <1>8, <1>9, <1>10, <1>11, <1>12 DEF LaidOut
<1>14. b \in Seq(S) /\ \E at1, begin1 : LaidOut(b, n, head, nalu, at1, begin1)
  BY <1>4, <1>13, Zenon
<1> QED BY <1>14, Zenon DEF b, q

(* There is always a byte up to which the scan passes.                     *)
LEMMA AdvanceIs ==
    ASSUME NEW b, NEW i \in Nat
    PROVE  Advance(b, i) \in 1..4
<1> DEFINE Is(n) == /\ \A k \in 0..n - 2 : ByteAt(b, i + k) = 0
                    /\ n = 4 \/ ByteAt(b, i + n - 1) # 0
<1>1. \E n \in 1..4 : Is(n)
  <2>1. CASE ByteAt(b, i) # 0
    <3>1. i + 1 - 1 = i /\ 0..1 - 2 = {}
      OBVIOUS
    <3>2. Is(1) /\ 1 \in 1..4
      BY <2>1, <3>1
    <3> HIDE DEF Is
    <3> QED BY <3>2
  <2>2. CASE ByteAt(b, i) = 0 /\ ByteAt(b, i + 1) # 0
    <3>1. i + 2 - 1 = i + 1 /\ \A k \in 0..2 - 2 : k = 0 /\ i + k = i
      OBVIOUS
    <3>2. Is(2) /\ 2 \in 1..4
      BY <2>2, <3>1
    <3> HIDE DEF Is
    <3> QED BY <3>2
  <2>3. CASE ByteAt(b, i) = 0 /\ ByteAt(b, i + 1) = 0 /\ ByteAt(b, i + 2) # 0
    <3>1. i + 3 - 1 = i + 2 /\ \A k \in 0..3 - 2 : i + k = i \/ i + k = i + 1
      OBVIOUS
    <3>2. Is(3) /\ 3 \in 1..4
      BY <2>3, <3>1
    <3> HIDE DEF Is
    <3> QED BY <3>2
  <2>4. CASE ByteAt(b, i) = 0 /\ ByteAt(b, i + 1) = 0 /\ ByteAt(b, i + 2) = 0
    <3>1. \A k \in 0..4 - 2 : i + k = i \/ i + k = i + 1 \/ i + k = i + 2
      OBVIOUS
    <3>2. Is(4) /\ 4 \in 1..4
      BY <2>4, <3>1
    <3> HIDE DEF Is
    <3> QED BY <3>2
  <2> HIDE DEF Is
  <2> QED BY <2>1, <2>2, <2>3, <2>4
<1>2. Advance(b, i) = CHOOSE n \in 1..4 : Is(n)
  BY DEF Advance
<1> HIDE DEF Is
<1> QED BY <1>1, <1>2

(* The NALUs of a file are what H.264 allows.                              *)
AllowedFile(n, code, nalu) ==
    n \in Nat \ {0} /\ code \in [1..n -> {3, 4}] /\ \A k \in 1..n : Allowed(nalu[k])
Codes(n, code) == [k \in 1..n |-> StartCode(code[k])]
AnnexBLaid(b, n, code, nalu, at, begin) ==
    AllowedFile(n, code, nalu) /\ LaidOut(b, n, Codes(n, code), nalu, at, begin)

LEMMA AllowedLength ==
    ASSUME NEW x, Allowed(x)
    PROVE  x \in Seq(0..Radix - 1) /\ Len(x) \in Nat /\ Len(x) >= 2
<1>1. x \in Seq(0..Radix - 1) /\ Len(x) >= 2
  BY DEF Allowed
<1> QED BY <1>1

(* Where things lie in a buffer.                                           *)
LEMMA PlacesIn ==
    ASSUME NEW b, NEW n, NEW head, NEW nalu, NEW at, NEW begin, LaidOut(b, n, head, nalu, at, begin),
           NEW k \in 1..n, Allowed(nalu[k])
    PROVE  /\ n \in Nat /\ at[k - 1] \in Nat /\ at[k] \in Nat /\ begin[k] \in Nat /\ Len(b) \in Nat
           /\ Len(nalu[k]) \in Nat /\ Len(head[k]) \in Nat
           /\ at[k - 1] + Len(head[k]) = begin[k] /\ begin[k] + 2 <= at[k] /\ at[k] <= Len(b)
           /\ at[k] = begin[k] + Len(nalu[k])
<1>1. n \in Nat /\ at \in [0..n -> Nat] /\ begin \in [1..n -> Nat] /\ b \in Seq(Nat) /\ head[k] \in Seq(Nat)
  BY DEF LaidOut
<1>2. k \in 0..n /\ k - 1 \in 0..n /\ n \in 0..n /\ k <= n
  BY <1>1
<1>3. at[k - 1] \in Nat /\ at[k] \in Nat /\ begin[k] \in Nat /\ Len(b) \in Nat
  BY <1>1, <1>2
<1>4. at[k] <= at[n] /\ at[n] = Len(b)
  BY <1>2 DEF LaidOut
<1>5. begin[k] = at[k - 1] + Len(head[k]) /\ at[k] = begin[k] + Len(nalu[k])
  BY DEF LaidOut
<1>6. Len(nalu[k]) \in Nat /\ Len(nalu[k]) >= 2
  BY AllowedLength
<1>7. Len(head[k]) \in Nat
  BY <1>1
<1>8. begin[k] + 2 <= at[k] /\ at[k] <= Len(b)
  BY <1>3, <1>4, <1>5, <1>6
<1>9. at[k - 1] + Len(head[k]) = begin[k]
  BY <1>5
<1> QED BY <1>1, <1>3, <1>5, <1>6, <1>7, <1>8, <1>9, Zenon

LEMMA CodeLiesAt ==
    ASSUME NEW b, NEW n, NEW code, NEW nalu, NEW at, NEW begin, AnnexBLaid(b, n, code, nalu, at, begin),
           NEW k \in 1..n
    PROVE  /\ CodeLength(b, at[k - 1]) = code[k] /\ CodeLies(b, at[k - 1], code[k])
           /\ at[k - 1] + code[k] = begin[k] /\ code[k] \in {3, 4} /\ at[k - 1] < Len(b) - 4
           /\ begin[k] >= 3 /\ b[begin[k]] = 1
<1> DEFINE c == code[k]
           i == at[k - 1]
           head == Codes(n, code)
<1>1. c \in {3, 4} /\ Allowed(nalu[k]) /\ LaidOut(b, n, head, nalu, at, begin)
  BY DEF AnnexBLaid, AllowedFile
<1>2. head[k] = StartCode(c)
  BY DEF Codes
<1> HIDE DEF head
<1>3. /\ i \in Nat /\ at[k] \in Nat /\ begin[k] \in Nat /\ Len(b) \in Nat
      /\ i + Len(head[k]) = begin[k] /\ begin[k] + 2 <= at[k] /\ at[k] <= Len(b)
  BY <1>1, PlacesIn
<1>4. b \in Seq(Nat) /\ LiesAt(head[k], b, i)
  BY <1>1 DEF LaidOut
<1> HIDE DEF c, i
<1>5. Len(StartCode(c)) = c
  BY <1>1 DEF StartCode
<1>6. i + c = begin[k] /\ i + c <= Len(b) /\ i < Len(b) - 4 /\ begin[k] >= 3 /\ i \in 0..Len(b)
  BY <1>1, <1>2, <1>3, <1>5
<1>7. \A j \in 1..c : b[i + j] = StartCode(c)[j]
  BY <1>2, <1>4, <1>5 DEF LiesAt
<1>8. CodeLies(b, i, c) /\ b[i + c] = 1
  <2>1. CASE c = 3
    <3>1. b[i + 1] = StartCode(3)[1] /\ b[i + 2] = StartCode(3)[2] /\ b[i + 3] = StartCode(3)[3]
      BY <1>7, <2>1
    <3>2. StartCode(3)[1] = 0 /\ StartCode(3)[2] = 0 /\ StartCode(3)[3] = 1
      BY DEF StartCode
    <3> QED BY <1>1, <1>6, <2>1, <3>1, <3>2 DEF CodeLies
  <2>2. CASE c = 4
    <3>1. /\ b[i + 1] = StartCode(4)[1] /\ b[i + 2] = StartCode(4)[2]
          /\ b[i + 3] = StartCode(4)[3] /\ b[i + 4] = StartCode(4)[4]
      BY <1>7, <2>2
    <3>2. StartCode(4)[1] = 0 /\ StartCode(4)[2] = 0 /\ StartCode(4)[3] = 0 /\ StartCode(4)[4] = 1
      BY DEF StartCode
    <3> QED BY <1>1, <1>6, <2>2, <3>1, <3>2 DEF CodeLies
  <2> QED BY <1>1, <2>1, <2>2
<1>9. CodeLength(b, i) = c
  <2>1. CodeLength(b, i) = IF i + 3 <= Len(b) /\ b[i + 1] = 0 /\ b[i + 2] = 0 /\ b[i + 3] = 1 THEN 3
                           ELSE IF /\ i + 4 <= Len(b) /\ b[i + 1] = 0 /\ b[i + 2] = 0
                                   /\ b[i + 3] = 0 /\ b[i + 4] = 1 THEN 4
                           ELSE 0
    BY <1>4, <1>6, CodeAt
  <2>2. CASE c = 3
    BY <1>8, <2>1, <2>2 DEF CodeLies
  <2>3. CASE c = 4
    BY <1>8, <2>1, <2>3 DEF CodeLies
  <2> QED BY <1>1, <2>2, <2>3
<1> QED BY <1>1, <1>6, <1>8, <1>9 DEF c, i

(* The scan for the end of each NALU finds it.                             *)
LEMMA NextStartCodeIn ==
    ASSUME NEW b, NEW n, NEW code, NEW nalu, NEW at, NEW begin, AnnexBLaid(b, n, code, nalu, at, begin),
           NEW k \in 1..n
    PROVE  NextStartCode(b, begin[k]) = at[k]
<1>1. Allowed(nalu[k]) /\ LaidOut(b, n, Codes(n, code), nalu, at, begin) /\ n \in Nat
  BY DEF AnnexBLaid, AllowedFile
<1>2. LiesAt(nalu[k], b, begin[k]) /\ b \in Seq(Nat) /\ at[k] = begin[k] + Len(nalu[k]) /\ begin[k] \in Nat
      /\ at[n] = Len(b)
  BY <1>1 DEF LaidOut
<1>3. begin[k] >= 3 /\ b[begin[k]] = 1
  BY CodeLiesAt
<1>4. at[k] = Len(b) \/ \E c : CodeLies(b, at[k], c)
  <2>1. CASE k = n
    BY <1>2, <2>1
  <2>2. CASE k # n
    <3>1. k + 1 \in 1..n /\ (k + 1) - 1 = k
      BY <1>1, <2>2
    <3>2. CodeLies(b, at[(k + 1) - 1], code[k + 1])
      BY <3>1, CodeLiesAt
    <3> QED BY <3>1, <3>2
  <2> QED BY <2>1, <2>2
<1>5. PICK c : begin[k] + Len(nalu[k]) = Len(b) \/ CodeLies(b, begin[k] + Len(nalu[k]), c)
  BY <1>2, <1>4
<1>6. NextStartCode(b, begin[k]) = begin[k] + Len(nalu[k])
  BY <1>1, <1>2, <1>3, <1>5, NextStartCodeAt
<1> QED BY <1>2, <1>6

(* One step of the scan for start codes.                                   *)
CodesFrom(b, stops, f, i) ==
    CASE i >= Len(b) - 4 -> <<>>
      [] i < Len(b) - 4 /\ CodeLength(b, i) > 0 ->
            <<[at |-> i, begin |-> i + CodeLength(b, i)]>> \o f[i + CodeLength(b, i)]
      [] i < Len(b) - 4 /\ stops /\ Bytes(b, i, 4) = <<0, 0, 0, 0>> -> <<>>
      [] OTHER -> f[i + Advance(b, i)]

(* Four zero bytes are no start code: the search does not stop there.      *)
LEMMA NoZerosAtCode ==
    ASSUME NEW b \in Seq(Nat), NEW i \in 0..Len(b), CodeLength(b, i) > 0
    PROVE  Bytes(b, i, 4) # <<0, 0, 0, 0>>
<1>1. \/ b[i + 3] = 1
      \/ b[i + 4] = 1
  <2>1. CodeLength(b, i) = IF i + 3 <= Len(b) /\ b[i + 1] = 0 /\ b[i + 2] = 0 /\ b[i + 3] = 1 THEN 3
                           ELSE IF /\ i + 4 <= Len(b) /\ b[i + 1] = 0 /\ b[i + 2] = 0
                                   /\ b[i + 3] = 0 /\ b[i + 4] = 1 THEN 4
                           ELSE 0
    BY CodeAt
  <2> QED BY <2>1
<1>2. 0 \in Nat
  OBVIOUS
<1>3. Bytes(b, i, 4) = <<0, 0, 0, 0>> => b[i + 3] = 0 /\ b[i + 4] = 0
  BY <1>2, FourAre
<1> QED BY <1>1, <1>3

(* The function StartCodes is chosen among exists.                         *)
LEMMA CodesExist ==
    ASSUME NEW b \in Seq(Nat), NEW stops
    PROVE  \E f \in [0..Len(b) -> Seq([at : Nat, begin : Nat])] :
                \A i \in 0..Len(b) : f[i] = CodesFrom(b, stops, f, i)
<1> DEFINE n == Len(b)
           Dom == 0..n
           D == Seq([at : Nat, begin : Nat])
           c(i) == CodeLength(b, i)
           zeros(i) == stops /\ Bytes(b, i, 4) = <<0, 0, 0, 0>>
           Stop == {i \in Dom : i >= n - 4 \/ (c(i) = 0 /\ zeros(i))}
           V == [i \in Dom |-> <<>>]
           rec(i) == [at |-> i, begin |-> i + c(i)]
           g(i, d) == IF c(i) > 0 THEN <<rec(i)>> \o d ELSE d
           G == [i \in Dom |-> [d \in D |-> g(i, d)]]
           next == [i \in Dom |-> IF c(i) > 0 THEN i + c(i) ELSE i + Advance(b, i)]
<1>1. n \in Nat /\ \A i \in Dom : i \in Nat
  OBVIOUS
<1>2. \A i : c(i) \in {0, 3, 4}
  BY DEF CodeLength
<1>3. \A i \in Dom : Advance(b, i) \in 1..4
  BY <1>1, AdvanceIs
<1>4. \A i \in Dom : i \in Stop => V[i] \in D
  OBVIOUS
<1>5. ASSUME NEW i \in Dom, i \notin Stop
      PROVE  i < n /\ next[i] \in Dom /\ next[i] > i /\ G[i] \in [D -> D]
  <2>1. i < n - 4 /\ i \in Nat
    BY <1>1, <1>5
  <2>2. next[i] = IF c(i) > 0 THEN i + c(i) ELSE i + Advance(b, i)
    OBVIOUS
  <2> HIDE DEF next
  <2>3. next[i] \in Dom /\ next[i] > i
    <3> HIDE DEF c, n
    <3> QED BY <1>1, <1>2, <1>3, <2>1, <2>2
  <2>4. ASSUME NEW d \in D PROVE g(i, d) \in D
    <3> DEFINE S == [at : Nat, begin : Nat]
               r == rec(i)
    <3>1. r \in S
      <4>1. i + c(i) \in Nat
        <5> DEFINE k == c(i)
        <5>1. k \in {0, 3, 4}
          BY <1>2
        <5> HIDE DEF k
        <5>2. i + k \in Nat
          BY <2>1, <5>1
        <5> QED BY <5>2 DEF k
      <4> HIDE DEF c
      <4> QED BY <2>1, <4>1
    <3> HIDE DEF r, S
    <3>2. <<r>> \in Seq(S) /\ d \in Seq(S)
      <4>1. d \in Seq(S)
        BY DEF S
      <4> QED BY <3>1, <4>1
    <3>3. <<r>> \o d \in Seq(S)
      BY <3>2, ConcatProperties
    <3> HIDE DEF c
    <3>4. g(i, d) = IF c(i) > 0 THEN <<r>> \o d ELSE d
      BY DEF r
    <3> HIDE DEF g
    <3>5. g(i, d) \in Seq(S)
      BY <3>2, <3>3, <3>4
    <3> QED BY <3>5 DEF S
  <2> HIDE DEF g, D
  <2>5. G[i] = [d \in D |-> g(i, d)]
    OBVIOUS
  <2> HIDE DEF G
  <2>6. G[i] \in [D -> D]
    BY <2>4, <2>5
  <2> QED BY <1>1, <2>1, <2>3, <2>6
<1>6. <<>> \in D /\ Dom \in SUBSET Nat
  BY <1>1
<1>7. /\ \A i \in Dom : V[i] = <<>>
      /\ \A i \in Dom : \A d \in D : G[i][d] = g(i, d)
      /\ \A i \in Dom : next[i] = IF c(i) > 0 THEN i + c(i) ELSE i + Advance(b, i)
  OBVIOUS
<1>8. \A i \in Dom : i \in Stop <=> i >= n - 4 \/ (c(i) = 0 /\ zeros(i))
  OBVIOUS
<1>15. n = Len(b) /\ D = Seq([at : Nat, begin : Nat]) /\ Dom = 0..Len(b)
  OBVIOUS
<1> HIDE DEF V, G, next, Stop, D, Dom, n
<1>16. \A i \in Dom : c(i) > 0 => ~zeros(i)
  BY <1>15, NoZerosAtCode
<1>9. \A i \in Dom : i \notin Stop => i < n /\ next[i] \in Dom /\ next[i] > i /\ G[i] \in [D -> D]
  BY <1>5
<1>10. PICK f \in [Dom -> D] : Descends(f, Dom, Stop, V, G, next)
  BY <1>1, <1>4, <1>6, <1>9, DescendExists
<1>11. ASSUME NEW i \in Dom PROVE f[i] = CodesFrom(b, stops, f, i)
  <2>1. f[i] = IF i \in Stop THEN V[i] ELSE G[i][f[next[i]]]
    BY <1>10 DEF Descends
  <2>2. i \notin Stop => f[i] = g(i, f[next[i]])
    <3>1. i \notin Stop => f[next[i]] \in D
      BY <1>9, <1>10
    <3> HIDE DEF g, c
    <3> QED BY <1>7, <2>1, <3>1
  <2>3. i \in Stop => f[i] = <<>>
    BY <1>7, <2>1
  <2>4. CodesFrom(b, stops, f, i) =
            IF i >= n - 4 THEN <<>>
            ELSE IF c(i) > 0 THEN <<rec(i)>> \o f[i + c(i)]
            ELSE IF zeros(i) THEN <<>> ELSE f[i + Advance(b, i)]
    <3> DEFINE x == <<rec(i)>> \o f[i + c(i)]
               y == f[i + Advance(b, i)]
               z == zeros(i)
               k == c(i)
    <3>1. CodesFrom(b, stops, f, i) =
            CASE i >= n - 4 -> <<>>
              [] i < n - 4 /\ k > 0 -> x
              [] i < n - 4 /\ z -> <<>>
              [] OTHER -> y
      BY Zenon DEF CodesFrom, n
    <3>2. i \in Nat /\ k \in {0, 3, 4}
      BY <1>1, <1>2
    <3>4. k > 0 => ~z
      BY <1>16
    <3> HIDE DEF x, y, z, k
    <3>3. CodesFrom(b, stops, f, i) = IF i >= n - 4 THEN <<>> ELSE IF k > 0 THEN x ELSE IF z THEN <<>> ELSE y
      <4> DEFINE w == CodesFrom(b, stops, f, i)
      <4>1. w = CASE i >= n - 4 -> <<>> [] i < n - 4 /\ k > 0 -> x [] i < n - 4 /\ z -> <<>> [] OTHER -> y
        BY <3>1
      <4>2. i < n - 4 <=> ~(i >= n - 4)
        BY <1>1, <3>2
      <4> HIDE DEF w
      <4>3. i >= n - 4 => w = <<>>
        BY <4>1, <4>2, Zenon
      <4>4. ~(i >= n - 4) /\ k > 0 => w = x
        BY <3>4, <4>1, <4>2, Zenon
      <4>5. ~(i >= n - 4) /\ ~(k > 0) /\ z => w = <<>>
        BY <4>1, <4>2, Zenon
      <4>6. ~(i >= n - 4) /\ ~(k > 0) /\ ~z => w = y
        BY <4>1, <4>2, Zenon
      <4>7. w = IF i >= n - 4 THEN <<>> ELSE IF k > 0 THEN x ELSE IF z THEN <<>> ELSE y
        BY <4>3, <4>4, <4>5, <4>6, Zenon
      <4> QED BY <4>7 DEF w
    <3> QED BY <3>3, Zenon DEF x, y, z, k
  <2> DEFINE k == c(i)
             z == zeros(i)
             h == <<rec(i)>>
             x == h \o f[i + k]
             y == f[i + Advance(b, i)]
             p == next[i]
  <2>5. k \in {0, 3, 4} /\ p = IF k > 0 THEN i + k ELSE i + Advance(b, i)
    BY <1>2, <1>7
  <2>6. i \in Stop <=> i >= n - 4 \/ (k = 0 /\ z)
    BY <1>8
  <2>7. i \notin Stop => f[i] = IF k > 0 THEN h \o f[p] ELSE f[p]
    BY <2>2
  <2>8. CodesFrom(b, stops, f, i) =
            IF i >= n - 4 THEN <<>> ELSE IF k > 0 THEN x ELSE IF z THEN <<>> ELSE y
    BY <2>4
  <2>9. k > 0 => h \o f[p] = x
    BY <2>5
  <2>10. ~(k > 0) => f[p] = y
    BY <2>5
  <2> HIDE DEF k, z, h, x, y, p
  <2>11. k > 0 \/ k = 0
    BY <2>5
  <2>12. f[i] = IF i >= n - 4 THEN <<>> ELSE IF k > 0 THEN x ELSE IF z THEN <<>> ELSE y
    <3>1. k > 0 => k # 0
      BY <2>5
    <3> QED BY <2>3, <2>6, <2>7, <2>9, <2>10, <2>11, <3>1, Zenon
  <2> QED BY <2>8, <2>12
<1> QED BY <1>10, <1>11, <1>15, Zenon

LEMMA StartCodesIs ==
    ASSUME NEW b \in Seq(Nat), NEW stops
    PROVE  \E f : StartCodes(b, stops) = f[0] /\ \A i \in 0..Len(b) : f[i] = CodesFrom(b, stops, f, i)
<1> DEFINE Dom == 0..Len(b)
           D == Seq([at : Nat, begin : Nat])
           Is(f) == f = [i \in Dom |-> CodesFrom(b, stops, f, i)]
           found == CHOOSE f : Is(f)
<1>1. PICK g \in [Dom -> D] : \A i \in Dom : g[i] = CodesFrom(b, stops, g, i)
  BY CodesExist
<1>2. StartCodes(b, stops) = found[0]
  BY Zenon DEF StartCodes, CodesFrom
<1> HIDE DEF D, Dom
<1>3. Is(g)
  <2>1. g = [i \in Dom |-> g[i]]
    BY <1>1
  <2> QED BY <1>1, <2>1
<1>4. Is(found)
  <2> HIDE DEF Is
  <2> QED BY <1>3
<1> HIDE DEF found
<1>5. \A i \in Dom : found[i] = CodesFrom(b, stops, found, i)
  BY <1>4
<1> QED BY <1>2, <1>5, Zenon DEF Dom

(* The start codes found are those of the file, whether the scan stops at  *)
(* four zeros or not.                                                      *)
CodesOf(n, at, begin) == [k \in 1..n |-> [at |-> at[k - 1], begin |-> begin[k]]]
CodesBehind(n, at, begin, k) == [j \in 1..n - k |-> [at |-> at[k + j - 1], begin |-> begin[k + j]]]

LEMMA FunctionIsSeq ==
    ASSUME NEW S, NEW n \in Nat, NEW q \in [1..n -> S]
    PROVE  q \in Seq(S) /\ Len(q) = n
OBVIOUS

LEMMA CodesBehindIs ==
    ASSUME NEW n \in Nat, NEW at \in [0..n -> Nat], NEW begin \in [1..n -> Nat], NEW k \in 1..n
    PROVE  CodesBehind(n, at, begin, k - 1)
               = <<[at |-> at[k - 1], begin |-> begin[k]]>> \o CodesBehind(n, at, begin, k)
<1> DEFINE S == [at : Nat, begin : Nat]
           rec(j) == [at |-> at[j - 1], begin |-> begin[j]]
           s == CodesBehind(n, at, begin, k - 1)
           t == CodesBehind(n, at, begin, k)
           h == rec(k)
           r == <<h>> \o t
<1>1. \A j \in 1..n : rec(j) \in S
  <2> SUFFICES ASSUME NEW j \in 1..n PROVE rec(j) \in S
    OBVIOUS
  <2>1. j - 1 \in 0..n
    OBVIOUS
  <2>2. at[j - 1] \in Nat /\ begin[j] \in Nat
    BY <2>1
  <2> QED BY <2>2
<1>2. \A j \in 1..n - k : k + j \in 1..n /\ k + j - 1 = (k + j) - 1
  OBVIOUS
<1>3. \A j \in 1..n - (k - 1) : (k - 1) + j \in 1..n
  OBVIOUS
<1>4. t = [j \in 1..n - k |-> rec(k + j)]
  BY DEF CodesBehind
<1>5. s = [j \in 1..n - (k - 1) |-> rec((k - 1) + j)]
  BY DEF CodesBehind
<1> HIDE DEF s, t, rec, S
<1>6. t \in [1..n - k -> S] /\ \A j \in 1..n - k : t[j] = rec(k + j)
  BY <1>1, <1>2, <1>4
<1>7. s \in [1..n - (k - 1) -> S] /\ \A j \in 1..n - (k - 1) : s[j] = rec((k - 1) + j)
  BY <1>1, <1>3, <1>5
<1>8. t \in Seq(S) /\ Len(t) = n - k
  <2>1. n - k \in Nat
    OBVIOUS
  <2> DEFINE m == n - k
  <2> HIDE DEF m
  <2>2. m \in Nat /\ t \in [1..m -> S]
    BY <1>6, <2>1 DEF m
  <2>3. t \in Seq(S) /\ Len(t) = m
    BY <2>2, FunctionIsSeq
  <2> QED BY <2>3 DEF m
<1>9. s \in Seq(S) /\ Len(s) = n - (k - 1)
  <2>1. n - (k - 1) \in Nat
    OBVIOUS
  <2> DEFINE m == n - (k - 1)
  <2> HIDE DEF m
  <2>2. m \in Nat /\ s \in [1..m -> S]
    BY <1>7, <2>1 DEF m
  <2>3. s \in Seq(S) /\ Len(s) = m
    BY <2>2, FunctionIsSeq
  <2> QED BY <2>3 DEF m
<1>10. h \in S
  BY <1>1
<1> HIDE DEF h
<1>11. <<h>> \in Seq(S) /\ Len(<<h>>) = 1 /\ <<h>>[1] = h
  BY <1>10
<1>12. /\ r \in Seq(S) /\ Len(r) = 1 + (n - k)
       /\ \A i \in 1..1 + (n - k) : r[i] = IF i <= 1 THEN h ELSE t[i - 1]
  <2>1. /\ r \in Seq(S) /\ Len(r) = Len(<<h>>) + Len(t)
        /\ \A i \in 1..Len(<<h>>) + Len(t) : r[i] = IF i <= Len(<<h>>) THEN <<h>>[i] ELSE t[i - Len(<<h>>)]
    BY <1>8, <1>11, ConcatProperties
  <2> HIDE DEF r
  <2>2. \A i \in 1..1 + (n - k) : i <= 1 => i = 1
    OBVIOUS
  <2> QED BY <1>8, <1>11, <2>1, <2>2
<1> HIDE DEF r
<1>13. ASSUME NEW i \in 1..Len(s) PROVE s[i] = r[i]
  <2>1. i \in 1..n - (k - 1) /\ i \in 1..1 + (n - k)
    BY <1>9
  <2>2. CASE i = 1
    <3>1. (k - 1) + 1 = k
      OBVIOUS
    <3>2. s[i] = rec(k)
      BY <1>7, <2>1, <2>2, <3>1
    <3> QED BY <1>12, <2>1, <2>2, <3>2 DEF h
  <2>3. CASE i # 1
    <3>1. i - 1 \in 1..n - k /\ k + (i - 1) = (k - 1) + i /\ ~(i <= 1)
      BY <2>1, <2>3
    <3> QED BY <1>6, <1>7, <1>12, <2>1, <3>1
  <2> QED BY <2>2, <2>3
<1>14. Len(s) = Len(r)
  BY <1>9, <1>12
<1>15. s = r
  BY <1>9, <1>12, <1>13, <1>14, SeqEqual
<1> QED BY <1>15 DEF s, r, t, h, rec

(* The start codes found in an Annex B frame are those of its NALUs.       *)
LEMMA StartCodesAre ==
    ASSUME NEW b, NEW n, NEW code, NEW nalu, NEW at, NEW begin, AnnexBLaid(b, n, code, nalu, at, begin),
           NEW stops
    PROVE  StartCodes(b, stops) = CodesOf(n, at, begin)
<1>1. AllowedFile(n, code, nalu) /\ LaidOut(b, n, Codes(n, code), nalu, at, begin) /\ n \in Nat /\ n >= 1
  BY DEF AnnexBLaid, AllowedFile
<1>2. b \in Seq(Nat) /\ at \in [0..n -> Nat] /\ begin \in [1..n -> Nat] /\ at[0] = 0 /\ at[n] = Len(b)
  BY <1>1 DEF LaidOut
<1>3. PICK f : StartCodes(b, stops) = f[0] /\ \A i \in 0..Len(b) : f[i] = CodesFrom(b, stops, f, i)
  BY <1>2, StartCodesIs
<1> DEFINE C(k) == CodesBehind(n, at, begin, k)
           P == {i \in Nat : \A k \in 1..n : begin[k] <= i /\ i <= at[k] => f[i] = C(k)}
<1>4. ASSUME NEW k \in 1..n
      PROVE  /\ at[k - 1] \in Nat /\ at[k] \in Nat /\ begin[k] \in Nat /\ Len(b) \in Nat
             /\ begin[k] + 2 <= at[k] /\ at[k] <= Len(b) /\ at[k] = begin[k] + Len(nalu[k])
             /\ CodeLength(b, at[k - 1]) = code[k] /\ code[k] \in {3, 4}
             /\ at[k - 1] + code[k] = begin[k] /\ at[k - 1] < Len(b) - 4
             /\ Allowed(nalu[k]) /\ LiesAt(nalu[k], b, begin[k])
  <2>1. Allowed(nalu[k])
    BY <1>1 DEF AllowedFile
  <2>2. LiesAt(nalu[k], b, begin[k])
    BY <1>1 DEF LaidOut
  <2>3. /\ at[k - 1] \in Nat /\ at[k] \in Nat /\ begin[k] \in Nat /\ Len(b) \in Nat
        /\ begin[k] + 2 <= at[k] /\ at[k] <= Len(b) /\ at[k] = begin[k] + Len(nalu[k])
    BY <1>1, <2>1, PlacesIn
  <2>4. /\ CodeLength(b, at[k - 1]) = code[k] /\ code[k] \in {3, 4}
        /\ at[k - 1] + code[k] = begin[k] /\ at[k - 1] < Len(b) - 4
    BY CodeLiesAt
  <2> QED BY <2>1, <2>2, <2>3, <2>4
(* at a start code *)
<1>5. ASSUME NEW k \in 1..n, f[begin[k]] = C(k) PROVE f[at[k - 1]] = C(k - 1)
  <2> DEFINE i == at[k - 1]
             c == code[k]
  <2>1. i \in 0..Len(b) /\ i < Len(b) - 4 /\ ~(i >= Len(b) - 4) /\ CodeLength(b, i) = c /\ c > 0 /\ i + c = begin[k]
    BY <1>4
  <2> HIDE DEF i, c
  <2>2. f[i] = CodesFrom(b, stops, f, i) /\ Bytes(b, i, 4) # <<0, 0, 0, 0>>
    BY <1>2, <1>3, <2>1, NoZerosAtCode
  <2>3. f[i] = <<[at |-> i, begin |-> i + c]>> \o f[i + c]
    BY <2>1, <2>2, Zenon DEF CodesFrom
  <2>4. f[i] = <<[at |-> i, begin |-> begin[k]]>> \o C(k)
    BY <1>5, <2>1, <2>3, Zenon
  <2>5. C(k - 1) = <<[at |-> at[k - 1], begin |-> begin[k]]>> \o C(k)
    BY <1>1, <1>2, CodesBehindIs
  <2> QED BY <2>4, <2>5, Zenon DEF i
<1>6. ASSUME NEW i \in Nat, \A m \in Nat : m > i => m \in P, NEW k \in 1..n, begin[k] <= i, i <= at[k]
      PROVE  f[i] = C(k)
  <2>1. CASE i = at[k] /\ k = n
    <3>1. i = Len(b) /\ i \in 0..Len(b) /\ i >= Len(b) - 4
      BY <1>2, <1>4, <2>1
    <3>2. f[i] = <<>>
      <4>1. f[i] = CodesFrom(b, stops, f, i) /\ ~(i < Len(b) - 4)
        BY <1>3, <3>1
      <4> QED BY <3>1, <4>1, Zenon DEF CodesFrom
    <3>3. C(n) = <<>>
      <4>1. 1..n - n = {}
        BY <1>1
      <4> QED BY <4>1 DEF CodesBehind
    <3> QED BY <2>1, <3>2, <3>3
  <2>2. CASE i = at[k] /\ k # n
    <3> DEFINE j == k + 1
    <3>1. j \in 1..n /\ j - 1 = k
      BY <1>1, <2>2
    <3> HIDE DEF j
    <3>2. begin[j] \in Nat /\ begin[j] > i /\ begin[j] <= at[j]
      <4>1. /\ begin[j] \in Nat /\ begin[j] + 2 <= at[j] /\ code[j] \in {3, 4}
            /\ at[j - 1] + code[j] = begin[j] /\ at[j - 1] \in Nat /\ at[j] \in Nat
        BY <1>4, <3>1
      <4>2. at[j - 1] = i
        BY <2>2, <3>1, Zenon
      <4> HIDE DEF C, P
      <4> QED BY <4>1, <4>2
    <3>3. f[begin[j]] = C(j)
      BY <1>6, <3>1, <3>2
    <3>4. f[at[j - 1]] = C(j - 1)
      BY <1>5, <3>1, <3>3
    <3> QED BY <2>2, <3>1, <3>4
  <2>3. CASE i # at[k]
    <3> DEFINE s == begin[k]
               a == Advance(b, i)
               x == nalu[k]
    <3>1. s \in Nat /\ Allowed(x) /\ LiesAt(x, b, s) /\ at[k] = s + Len(x) /\ i \in s..s + Len(x) - 1
          /\ at[k] \in Nat /\ at[k] <= Len(b) /\ Len(b) \in Nat
      <4>1. s \in Nat /\ Allowed(x) /\ LiesAt(x, b, s) /\ at[k] = s + Len(x)
            /\ at[k] \in Nat /\ at[k] <= Len(b) /\ Len(b) \in Nat
        BY <1>4, Zenon
      <4>2. s <= i /\ i <= at[k] /\ i # at[k]
        BY <1>6, <2>3, Zenon
      <4> HIDE DEF s, x
      <4>3. i \in s..s + Len(x) - 1
        BY <4>1, <4>2
      <4> QED BY <4>1, <4>3
    <3>2. /\ CodeLength(b, i) = 0 /\ Bytes(b, i, 4) # <<0, 0, 0, 0>>
          /\ a \in 1..4 /\ i + a <= at[k]
      <4> HIDE DEF s, x
      <4>1. /\ CodeLength(b, i) = 0 /\ Bytes(b, i, 4) # <<0, 0, 0, 0>>
            /\ Advance(b, i) \in 1..4 /\ i + Advance(b, i) <= s + Len(x)
        BY <1>2, <3>1, NoCodeIn
      <4> QED BY <3>1, <4>1
    <3> HIDE DEF a, x, s
    <3>3. i + a \in Nat /\ i + a > i /\ begin[k] <= i + a /\ i \in 0..Len(b)
      BY <1>6, <3>1, <3>2 DEF s
    <3>4. f[i + a] = C(k)
      BY <1>6, <3>2, <3>3
    <3>5. f[i] = CodesFrom(b, stops, f, i) /\ ~(CodeLength(b, i) > 0)
      BY <1>3, <3>2, <3>3
    <3>6. CASE i >= Len(b) - 4
      <4>1. f[i] = <<>>
        <5>1. ~(i < Len(b) - 4)
          BY <3>1, <3>6
        <5> QED BY <3>5, <3>6, <5>1, Zenon DEF CodesFrom
      <4>2. k = n
        <5> SUFFICES ASSUME k # n PROVE FALSE
          OBVIOUS
        <5> DEFINE j == k + 1
        <5>1. j \in 1..n /\ j - 1 = k
          BY <1>1
        <5> HIDE DEF j
        <5>2. at[k] < Len(b) - 4
          BY <1>4, <5>1
        <5> QED BY <1>6, <3>1, <3>6, <5>2
      <4>3. C(n) = <<>>
        <5>1. 1..n - n = {}
          BY <1>1
        <5> QED BY <5>1 DEF CodesBehind
      <4> QED BY <4>1, <4>2, <4>3
    <3>7. CASE i < Len(b) - 4
      <4>1. ~(i >= Len(b) - 4)
        BY <3>1, <3>7
      <4>2. f[i] = f[i + a]
        BY <3>2, <3>5, <4>1, Zenon DEF CodesFrom, a
      <4> QED BY <3>4, <4>2
    <3> QED BY <3>1, <3>6, <3>7
  <2> QED BY <2>1, <2>2, <2>3
<1>7. \A i \in Nat : i \in P
  <2> HIDE DEF C
  <2>1. \A i \in Nat : i < Len(b) + 1 /\ (\A m \in Nat : m > i => m \in P) => i \in P
    BY <1>6
  <2>2. \A i \in Nat : i >= Len(b) + 1 => i \in P
    <3>1. \A k \in 1..n : at[k] \in Nat /\ at[k] <= Len(b) /\ Len(b) \in Nat
      BY <1>4
    <3>2. \A i \in Nat, k \in 1..n : i >= Len(b) + 1 => ~(i <= at[k])
      BY <3>1
    <3> QED BY <3>2
  <2> HIDE DEF P
  <2> DEFINE l == Len(b) + 1
  <2>3. l \in Nat /\ (\A i \in Nat : i >= l => i \in P)
        /\ \A i \in Nat : i < l /\ (\A m \in Nat : m > i => m \in P) => i \in P
    BY <1>2, <2>1, <2>2
  <2> HIDE DEF l
  <2> QED BY <2>3, DownFrom
<1>8. f[0] = C(0)
  <2>1. 1 \in 1..n /\ 1 - 1 = 0
    BY <1>1
  <2>2. begin[1] \in Nat /\ begin[1] <= at[1]
    BY <1>4, <2>1
  <2> HIDE DEF C
  <2>3. f[begin[1]] = C(1)
    BY <1>7, <2>1, <2>2
  <2>4. f[at[1 - 1]] = C(1 - 1)
    BY <1>5, <2>1, <2>3
  <2> QED BY <1>2, <2>1, <2>4
<1>9. C(0) = CodesOf(n, at, begin)
  <2>1. n - 0 = n /\ \A j \in 1..n : 0 + j - 1 = j - 1 /\ 0 + j = j
    BY <1>1
  <2> QED BY <2>1 DEF CodesBehind, CodesOf
<1> QED BY <1>3, <1>8, <1>9

-----------------------------------------------------------------------------
(* A search for a NALU, in either format.                                  *)

LEMMA BytesAt ==
    ASSUME NEW b \in Seq(Nat), NEW s \in Nat, NEW x \in Seq(Nat), LiesAt(x, b, s)
    PROVE  Bytes(b, s, Len(x)) = x
<1> DEFINE l == Len(x)
           q == Bytes(b, s, l)
<1>1. l \in Nat /\ s + l <= Len(b) /\ Len(b) \in Nat /\ s \in 0..Len(b) /\ \A j \in 1..l : b[s + j] = x[j]
  BY DEF LiesAt
<1> HIDE DEF l
<1>2. q \in Seq(Nat) /\ Len(q) = l /\ \A k \in 1..l : q[k] = b[s + k]
  BY <1>1, BytesIs
<1> HIDE DEF q
<1>3. Len(q) = Len(x) /\ \A k \in 1..Len(q) : q[k] = x[k]
  BY <1>1, <1>2 DEF l
<1>4. q = x
  BY <1>2, <1>3, SeqEqual
<1> QED BY <1>4 DEF q, l

(* The first byte of a NALU.                                               *)
LEMMA HeadLies ==
    ASSUME NEW b, NEW n, NEW head, NEW nalu, NEW at, NEW begin, LaidOut(b, n, head, nalu, at, begin),
           NEW k \in 1..n, Allowed(nalu[k])
    PROVE  ByteAt(b, begin[k]) = Head(nalu[k]) /\ Bytes(b, begin[k], Len(nalu[k])) = nalu[k]
<1>1. nalu[k] \in Seq(0..Radix - 1) /\ Len(nalu[k]) \in Nat /\ Len(nalu[k]) >= 2
  BY AllowedLength
<1>2. b \in Seq(Nat) /\ nalu[k] \in Seq(Nat) /\ begin[k] \in Nat /\ LiesAt(nalu[k], b, begin[k])
  BY DEF LaidOut
<1>3. 1 \in 1..Len(nalu[k]) /\ Head(nalu[k]) = nalu[k][1]
  BY <1>1
<1>4. b[begin[k] + 1] = nalu[k][1]
  BY <1>2, <1>3 DEF LiesAt
<1> QED BY <1>2, <1>3, <1>4, BytesAt DEF ByteAt

(* What a search for a type finds.                                         *)
OfType(n, nalu, type) == {k \in 1..n : IsOfType(Head(nalu[k]), type)}
FoundFirst(b, n, nalu, type) ==
    LET found == NALU_getNalu(b, type)
    IN  /\ found.res <=> OfType(n, nalu, type) # {}
        /\ found.res => Bytes(b, found.nalu, found.length) = nalu[Min(OfType(n, nalu, type))]

(* The search finds the first NALU of a type in an Annex B frame.          *)
LEMMA AnnexBSearch ==
    ASSUME NEW b, NEW n, NEW code, NEW nalu, NEW at, NEW begin, AnnexBLaid(b, n, code, nalu, at, begin),
           NEW type
    PROVE  NALU_isAnnexBFrame(b) /\ FoundFirst(b, n, nalu, type)
<1> DEFINE codes == CodesOf(n, at, begin)
           Of == {k \in DOMAIN codes : IsOfType(ByteAt(b, codes[k].begin), type)}
           H == OfType(n, nalu, type)
           m == Min(H)
           found == NALU_getNaluFromAnnexBNalus(b, type)
<1>1. AllowedFile(n, code, nalu) /\ LaidOut(b, n, Codes(n, code), nalu, at, begin) /\ n \in Nat /\ n >= 1
      /\ b \in Seq(Nat) /\ at[0] = 0 /\ at[n] = Len(b) /\ \A k \in 1..n : Allowed(nalu[k])
  <2>1. AllowedFile(n, code, nalu) /\ LaidOut(b, n, Codes(n, code), nalu, at, begin)
    BY DEF AnnexBLaid
  <2>2. n \in Nat /\ n >= 1 /\ \A k \in 1..n : Allowed(nalu[k])
    BY <2>1 DEF AllowedFile
  <2>3. b \in Seq(Nat) /\ at[0] = 0 /\ at[n] = Len(b)
    BY <2>1 DEF LaidOut
  <2> QED BY <2>1, <2>2, <2>3
<1>2. StartCodes(b, FALSE) = codes
  <2>1. \A stops : StartCodes(b, stops) = codes
    BY StartCodesAre
  <2> HIDE DEF codes
  <2> QED BY <2>1, Zenon
<1>3. DOMAIN codes = 1..n /\ Len(codes) = n
      /\ \A k \in 1..n : codes[k].begin = begin[k] /\ codes[k].at = at[k - 1]
  BY <1>1 DEF CodesOf
<1> HIDE DEF codes
<1>4. Of = H
  <2>1. \A k \in 1..n : ByteAt(b, codes[k].begin) = Head(nalu[k])
    <3> SUFFICES ASSUME NEW k \in 1..n PROVE ByteAt(b, codes[k].begin) = Head(nalu[k])
      OBVIOUS
    <3>1. ByteAt(b, begin[k]) = Head(nalu[k])
      BY <1>1, HeadLies
    <3> QED BY <1>3, <3>1
  <2> QED BY <1>3, <2>1 DEF OfType
<1>5. H # {} => m \in H /\ m \in 1..n
  <2>1. H \in SUBSET (1..n)
    BY DEF OfType
  <2> HIDE DEF H
  <2> QED BY <1>1, <2>1, MinIn
<1>6. 1 \in 1..n /\ Len(b) \in Nat /\ ~(Len(b) < 5) /\ CodeLength(b, 0) > 0
  <2>1. 1 \in 1..n /\ 1 - 1 = 0
    BY <1>1
  <2>2. CodeLength(b, at[1 - 1]) = code[1] /\ code[1] \in {3, 4}
        /\ at[1 - 1] < Len(b) - 4
    BY <2>1, CodeLiesAt
  <2>3. Len(b) \in Nat
    BY <1>1
  <2> QED BY <1>1, <2>1, <2>2, <2>3
<1>7. NALU_isAnnexBFrame(b) /\ NALU_getNalu(b, type) = found
  BY <1>6 DEF NALU_isAnnexBFrame, NALU_getNalu
<1>8. found = IF Of = {} THEN NotFound
              ELSE LET k == Min(Of)
                       x == codes[k].begin
                       end == IF k < Len(codes) /\ codes[k + 1].at > x THEN codes[k + 1].at ELSE Len(b)
                   IN  Found(x, end - x)
  BY <1>2, <1>6, Zenon DEF NALU_getNaluFromAnnexBNalus
<1> HIDE DEF found, Of, H, m
<1>9. CASE H = {}
  <2>1. found = NotFound
    BY <1>4, <1>8, <1>9
  <2>2. ~found.res
    BY <2>1 DEF NotFound
  <2> QED BY <1>7, <1>9, <2>2 DEF FoundFirst, H
<1>10. CASE H # {}
  <2> DEFINE end == IF m < Len(codes) /\ codes[m + 1].at > begin[m] THEN codes[m + 1].at ELSE Len(b)
  <2>1. m \in 1..n /\ Min(Of) = m /\ codes[m].begin = begin[m]
    BY <1>3, <1>4, <1>5, <1>10 DEF m
  <2>2. found = Found(begin[m], end - begin[m])
    BY <1>4, <1>8, <1>10, <2>1
  <2>3. begin[m] \in Nat /\ at[m] \in Nat /\ at[m] = begin[m] + Len(nalu[m]) /\ begin[m] + 2 <= at[m]
        /\ Len(nalu[m]) \in Nat
    BY <1>1, <2>1, PlacesIn
  <2>4. end = at[m]
    <3>1. CASE m = n
      BY <1>1, <1>3, <3>1
    <3>2. CASE m # n
      <4> DEFINE j == m + 1
      <4>1. j \in 1..n /\ j - 1 = m /\ m < n
        BY <1>1, <2>1, <3>2
      <4> HIDE DEF j
      <4>2. codes[j].at = at[m]
        BY <1>3, <4>1
      <4>3. at[m] > begin[m]
        BY <2>3
      <4> QED BY <1>3, <4>1, <4>2, <4>3 DEF j
    <3> QED BY <3>1, <3>2
  <2> HIDE DEF end
  <2>5. end - begin[m] = Len(nalu[m])
    BY <2>3, <2>4
  <2>6. found = Found(begin[m], Len(nalu[m]))
    BY <2>2, <2>5
  <2>7. found.res /\ found.nalu = begin[m] /\ found.length = Len(nalu[m])
    BY <2>6 DEF Found
  <2>8. Bytes(b, begin[m], Len(nalu[m])) = nalu[m]
    BY <1>1, <2>1, HeadLies
  <2>9. Bytes(b, found.nalu, found.length) = nalu[m]
    BY <2>7, <2>8, Zenon
  <2> QED BY <1>7, <1>10, <2>7, <2>9, Zenon DEF FoundFirst, H, m
<1> QED BY <1>9, <1>10

(* The lengths of a file; they do not look like the start code of three    *)
(* bytes, nor, as a NALU has two bytes, like that of four.                 *)
AvccFile(n, nalu) ==
    n \in Nat \ {0} /\ \A k \in 1..n : Allowed(nalu[k]) /\ Len(nalu[k]) \notin Radix..2 * Radix - 1
Lengths(n, nalu) == [k \in 1..n |-> BigEndian(Len(nalu[k]))]
AvccLaid(b, n, nalu, at, begin) ==
    AvccFile(n, nalu) /\ LaidOut(b, n, Lengths(n, nalu), nalu, at, begin)

LEMMA RadixIs == Radix \in Nat \ {0}
<1>1. 2 * TypeRadix <= Radix /\ TypeRadix \in Nat \ {0} /\ Radix \in Nat
  BY NaluAssumption
<1> QED BY <1>1

LEMMA AllowedLengthBytes ==
    ASSUME NEW x, Allowed(x)
    PROVE  LET q == BigEndian(Len(x))
           IN  /\ q \in Seq(0..Radix - 1) /\ Len(q) = 4
               /\ ((q[1] * Radix + q[2]) * Radix + q[3]) * Radix + q[4] = Len(x)
<1> DEFINE l == Len(x)
<1>1. l \in Nat
  BY AllowedLength
<1>2. l < Radix * Radix * Radix * Radix
  BY Zenon DEF Allowed
<1> HIDE DEF l
<1> QED BY <1>1, <1>2, RadixIs, LengthBytes, Zenon DEF l

LEMMA LengthLies ==
    ASSUME NEW b, NEW n, NEW nalu, NEW at, NEW begin, AvccLaid(b, n, nalu, at, begin),
           NEW k \in 1..n
    PROVE  /\ at[k - 1] + 4 = begin[k] /\ at[k - 1] \in Nat /\ at[k - 1] < Len(b) - 4 /\ Len(b) \in Nat
           /\ at[k] \in Nat /\ at[k] = begin[k] + Len(nalu[k])
           /\ LengthAt(b, at[k - 1]) = Len(nalu[k])
           /\ Bytes(b, at[k - 1], 4) = BigEndian(Len(nalu[k]))
<1> DEFINE i == at[k - 1]
           head == Lengths(n, nalu)
           q == BigEndian(Len(nalu[k]))
<1>1. Allowed(nalu[k]) /\ LaidOut(b, n, head, nalu, at, begin)
  BY DEF AvccLaid, AvccFile
<1>2. head[k] = q
  BY DEF Lengths
<1>3. /\ q \in Seq(0..Radix - 1) /\ Len(q) = 4
      /\ ((q[1] * Radix + q[2]) * Radix + q[3]) * Radix + q[4] = Len(nalu[k])
  BY <1>1, AllowedLengthBytes, Zenon
<1> HIDE DEF head, q
<1>4. /\ i \in Nat /\ at[k] \in Nat /\ begin[k] \in Nat /\ Len(b) \in Nat
      /\ i + Len(head[k]) = begin[k] /\ begin[k] + 2 <= at[k] /\ at[k] <= Len(b)
      /\ at[k] = begin[k] + Len(nalu[k])
  BY <1>1, PlacesIn
<1>5. b \in Seq(Nat) /\ head[k] \in Seq(Nat) /\ LiesAt(head[k], b, i)
  BY <1>1 DEF LaidOut
<1> HIDE DEF i
<1>6. i + 4 = begin[k] /\ i < Len(b) - 4
  BY <1>2, <1>3, <1>4
<1>7. Bytes(b, i, 4) = q
  <2>1. Bytes(b, i, Len(head[k])) = head[k]
    BY <1>4, <1>5, BytesAt
  <2> QED BY <1>2, <1>3, <2>1
<1>8. q \in [1..4 -> Nat]
  <2>1. q \in [1..4 -> 0..Radix - 1]
    <3>1. q \in [1..Len(q) -> 0..Radix - 1]
      BY <1>3, SeqIsFunction
    <3> QED BY <1>3, <3>1
  <2> QED BY <2>1
<1>9. LengthAt(b, i) = Len(nalu[k])
  <2>1. FoldLeft(LAMBDA m, byte : m * Radix + byte, 0, q)
               = ((q[1] * Radix + q[2]) * Radix + q[3]) * Radix + q[4]
    <3>1. Radix \in Nat
      BY RadixIs
    <3> QED BY <1>8, <3>1, FourBytes
  <2>2. LengthAt(b, i) = FoldLeft(LAMBDA m, byte : m * Radix + byte, 0, q)
    BY <1>7, Zenon DEF LengthAt
  <2> QED BY <1>3, <2>1, <2>2, Zenon
<1> QED BY <1>4, <1>6, <1>7, <1>9 DEF i, q

(* A frame with lengths has no start code at its head (nalu.c, NALU_isAnnexBFrame). *)
LEMMA AvccNoCode ==
    ASSUME NEW b, NEW n, NEW nalu, NEW at, NEW begin, AvccLaid(b, n, nalu, at, begin)
    PROVE  ~NALU_isAnnexBFrame(b)
<1> DEFINE l == Len(nalu[1])
           q == BigEndian(l)
           R == Radix
<1>1. 1 \in 1..n /\ 1 - 1 = 0 /\ Allowed(nalu[1]) /\ l \notin R..2 * R - 1
      /\ LaidOut(b, n, Lengths(n, nalu), nalu, at, begin)
  BY DEF AvccLaid, AvccFile
<1>2. b \in Seq(Nat) /\ at[0] = 0
  BY <1>1 DEF LaidOut
<1>3. 4 < Len(b) /\ Len(b) \in Nat /\ Bytes(b, 0, 4) = q
  <2>1. at[1 - 1] < Len(b) - 4 /\ Len(b) \in Nat /\ Bytes(b, at[1 - 1], 4) = BigEndian(Len(nalu[1]))
    BY <1>1, LengthLies
  <2> HIDE DEF q
  <2>2. Bytes(b, 0, 4) = q
    BY <1>1, <1>2, <2>1 DEF q
  <2> QED BY <1>1, <1>2, <2>1, <2>2
<1>4. q \in Seq(0..R - 1) /\ Len(q) = 4 /\ ((q[1] * R + q[2]) * R + q[3]) * R + q[4] = l
  BY <1>1, AllowedLengthBytes, Zenon
<1>5. l \in Nat /\ l >= 2 /\ R \in Nat \ {0}
  BY <1>1, AllowedLength, RadixIs
<1> HIDE DEF q, l, R
<1>6. q[1] = b[1] /\ q[2] = b[2] /\ q[3] = b[3] /\ q[4] = b[4]
  <2>1. 0 \in 0..Len(b) /\ 4 \in Nat /\ 0 + 4 <= Len(b)
    BY <1>3
  <2>2. \A k \in 1..4 : Bytes(b, 0, 4)[k] = b[0 + k]
    BY <1>2, <2>1, BytesIs
  <2> QED BY <1>3, <2>2
<1>7. q[4] \in 0..R - 1
  <2>1. \A k \in 1..Len(q) : q[k] \in 0..R - 1
    BY <1>4, SeqIsFunction
  <2>2. 4 \in 1..Len(q)
    BY <1>4
  <2> QED BY <2>1, <2>2
<1>8. ~(q[1] = 0 /\ q[2] = 0 /\ q[3] = 1)
  <2> SUFFICES ASSUME q[1] = 0, q[2] = 0, q[3] = 1 PROVE FALSE
    OBVIOUS
  <2>1. ((0 * R + 0) * R + 1) * R + q[4] = R + q[4]
    BY <1>5, <1>7, Z3
  <2>2. l = R + q[4]
    BY <1>4, <2>1
  <2> QED BY <1>1, <1>5, <1>7, <2>2
<1>9. ~(q[1] = 0 /\ q[2] = 0 /\ q[3] = 0 /\ q[4] = 1)
  <2> SUFFICES ASSUME q[1] = 0, q[2] = 0, q[3] = 0, q[4] = 1 PROVE FALSE
    OBVIOUS
  <2>1. ((0 * R + 0) * R + 0) * R + 1 = 1
    BY <1>5, Z3
  <2>2. l = 1
    BY <1>4, <2>1
  <2> QED BY <1>5, <2>2
<1>10. CodeLength(b, 0) = 0
  <2>1. 0 \in 0..Len(b) /\ 0 + 1 = 1 /\ 0 + 2 = 2 /\ 0 + 3 = 3 /\ 0 + 4 = 4
    BY <1>3
  <2>2. CodeLength(b, 0) = IF 0 + 3 <= Len(b) /\ b[0 + 1] = 0 /\ b[0 + 2] = 0 /\ b[0 + 3] = 1 THEN 3
                           ELSE IF /\ 0 + 4 <= Len(b) /\ b[0 + 1] = 0 /\ b[0 + 2] = 0
                                   /\ b[0 + 3] = 0 /\ b[0 + 4] = 1 THEN 4
                           ELSE 0
    BY <1>2, <2>1, CodeAt
  <2> QED BY <1>6, <1>8, <1>9, <2>1, <2>2
<1> QED BY <1>10 DEF NALU_isAnnexBFrame

(* The search through the lengths.                                         *)
SearchFrom(b, type, f, i) ==
    CASE i >= Len(b) -> NotFound
      [] i < Len(b) /\ i >= Len(b) - 4 -> Found(0, 0)
      [] i < Len(b) - 4 /\ IsOfType(ByteAt(b, i + 4), type) -> Found(i + 4, LengthAt(b, i))
      [] OTHER -> f[i + 4 + LengthAt(b, i)]

LEMMA SearchExists ==
    ASSUME NEW b \in Seq(Nat), NEW type
    PROVE  \E f : f = [i \in Nat |-> SearchFrom(b, type, f, i)]
<1> DEFINE n == Len(b)
           of(i) == IsOfType(ByteAt(b, i + 4), type)
           v(i) == IF i >= n THEN NotFound ELSE IF i >= n - 4 THEN Found(0, 0) ELSE Found(i + 4, LengthAt(b, i))
           V == [i \in Nat |-> v(i)]
           D == {V[i] : i \in Nat}
           Stop == {i \in Nat : i >= n - 4 \/ of(i)}
           G == [i \in Nat |-> [d \in D |-> d]]
           next == [i \in Nat |-> i + 4 + LengthAt(b, i)]
<1>1. n \in Nat /\ Radix \in Nat
  BY RadixIs
<1>2. \A i \in Nat : V[i] = v(i) /\ V[i] \in D /\ next[i] = i + 4 + LengthAt(b, i)
                    /\ (i \in Stop <=> i >= n - 4 \/ of(i))
             /\ (i \notin Stop => ~(i >= n - 4))
  OBVIOUS
<1>3. \A i \in Nat : G[i] \in [D -> D] /\ \A d \in D : G[i][d] = d
  <2> HIDE DEF D
  <2> QED OBVIOUS
<1> HIDE DEF V, D, Stop, G, next, v, of
<1>4. ASSUME NEW i \in Nat, i \notin Stop PROVE i < n /\ next[i] \in Nat /\ next[i] > i
  <2>0. ~(i >= n - 4) /\ next[i] = i + 4 + LengthAt(b, i)
    BY <1>2, <1>4, Zenon
  <2>1. i < n - 4 /\ i + 4 <= Len(b) /\ i \in 0..Len(b)
    BY <1>1, <2>0
  <2>2. LengthAt(b, i) \in Nat
    BY <1>1, <2>1, LengthAtType
  <2> QED BY <1>1, <2>0, <2>1, <2>2
<1>5. PICK f \in [Nat -> D] : Descends(f, Nat, Stop, V, G, next)
  <2>1. PICK d : d \in D
    <3>1. 0 \in Nat
      OBVIOUS
    <3> QED BY <1>2, <3>1
  <2>2. \A i \in Nat : i \notin Stop => i < n /\ next[i] \in Nat /\ next[i] > i /\ G[i] \in [D -> D]
    BY <1>3, <1>4
  <2>3. Nat \in SUBSET Nat /\ \A i \in Nat : i \in Stop => V[i] \in D
    BY <1>2
  <2> HIDE DEF n
  <2> QED BY <1>1, <2>1, <2>2, <2>3, DescendExists
<1>6. ASSUME NEW i \in Nat PROVE f[i] = SearchFrom(b, type, f, i)
  <2> DEFINE p == f[i + 4 + LengthAt(b, i)]
             x == Found(i + 4, LengthAt(b, i))
             y == Found(0, 0)
  <2>1. f[i] = IF i >= n - 4 \/ of(i) THEN v(i) ELSE p
    <3>1. f[i] = IF i \in Stop THEN V[i] ELSE G[i][f[next[i]]]
      BY <1>5 DEF Descends
    <3>2. i \notin Stop => f[next[i]] \in D /\ G[i][f[next[i]]] = p
      <4> SUFFICES ASSUME i \notin Stop PROVE f[next[i]] \in D /\ G[i][f[next[i]]] = p
        OBVIOUS
      <4>1. next[i] \in Nat /\ next[i] = i + 4 + LengthAt(b, i)
        BY <1>2, <1>4, Zenon
      <4>2. f[next[i]] \in D
        BY <1>5, <4>1
      <4> QED BY <1>3, <4>1, <4>2
    <3> QED BY <1>2, <3>1, <3>2
  <2>2. SearchFrom(b, type, f, i) = CASE i >= n -> NotFound
                                      [] i < n /\ i >= n - 4 -> y
                                      [] i < n - 4 /\ of(i) -> x
                                      [] OTHER -> p
    BY Zenon DEF SearchFrom, of
  <2>3. v(i) = IF i >= n THEN NotFound ELSE IF i >= n - 4 THEN y ELSE x
    BY DEF v
  <2> HIDE DEF p, x, y, n
  <2>4. (i < n <=> ~(i >= n)) /\ (i < n - 4 <=> ~(i >= n - 4)) /\ (i >= n => i >= n - 4)
    BY <1>1
  <2> DEFINE w == SearchFrom(b, type, f, i)
             o == of(i)
             u == v(i)
             nf == NotFound
  <2> HIDE DEF w, o, u, nf
  <2>5. w = CASE i >= n -> nf
              [] i < n /\ i >= n - 4 -> y
              [] i < n - 4 /\ o -> x
              [] OTHER -> p
    BY <2>2 DEF w, o, nf
  <2>6. i >= n => w = nf
    BY <2>4, <2>5, Zenon
  <2>7. i < n /\ i >= n - 4 => w = y
    BY <2>4, <2>5, Zenon
  <2>8. i < n - 4 /\ o => w = x
    BY <2>4, <2>5, Zenon
  <2>9. i < n - 4 /\ ~o => w = p
    BY <2>4, <2>5, Zenon
  <2>10. f[i] = w
    <3>1. f[i] = IF i >= n - 4 \/ o THEN u ELSE p
      BY <2>1, Zenon DEF o, u
    <3>2. u = IF i >= n THEN nf ELSE IF i >= n - 4 THEN y ELSE x
      BY <2>3, Zenon DEF u, nf
    <3>3. CASE i >= n
      BY <2>4, <2>6, <3>1, <3>2, <3>3, Zenon
    <3>4. CASE ~(i >= n) /\ i >= n - 4
      BY <2>4, <2>7, <3>1, <3>2, <3>4, Zenon
    <3>5. CASE ~(i >= n) /\ ~(i >= n - 4) /\ o
      BY <2>4, <2>8, <3>1, <3>2, <3>5, Zenon
    <3>6. CASE ~(i >= n) /\ ~(i >= n - 4) /\ ~o
      BY <2>4, <2>9, <3>1, <3>2, <3>6, Zenon
    <3> QED BY <3>3, <3>4, <3>5, <3>6, Zenon
  <2> QED BY <2>10 DEF w
<1>7. f = [i \in Nat |-> f[i]]
  BY <1>5
<1>8. f = [i \in Nat |-> SearchFrom(b, type, f, i)]
  BY <1>6, <1>7
<1> QED BY <1>8

(* The search finds the first NALU of a type in a frame with lengths.      *)
LEMMA AvccSearch ==
    ASSUME NEW b, NEW n, NEW nalu, NEW at, NEW begin, AvccLaid(b, n, nalu, at, begin),
           NEW type, type # 0
    PROVE  ~NALU_isAnnexBFrame(b) /\ FoundFirst(b, n, nalu, type)
<1> DEFINE H == OfType(n, nalu, type)
           Is(f) == f = [i \in Nat |-> SearchFrom(b, type, f, i)]
           search == CHOOSE f : Is(f)
           found == NALU_getNalu(b, type)
<1>1. AvccFile(n, nalu) /\ LaidOut(b, n, Lengths(n, nalu), nalu, at, begin)
  BY DEF AvccLaid
<1>2. n \in Nat /\ n >= 1 /\ \A k \in 1..n : Allowed(nalu[k])
  BY <1>1 DEF AvccFile
<1>3. b \in Seq(Nat) /\ at[0] = 0 /\ at[n] = Len(b) /\ at \in [0..n -> Nat]
  BY <1>1 DEF LaidOut
<1>4. ~NALU_isAnnexBFrame(b)
  BY AvccNoCode
<1>5. \A i \in Nat : search[i] = SearchFrom(b, type, search, i)
  <2>1. \E f : Is(f)
    BY <1>3, SearchExists
  <2>2. Is(search)
    <3> HIDE DEF Is
    <3> QED BY <2>1
  <2> HIDE DEF search
  <2> QED BY <2>2
<1>6. found = search[0]
  <2>1. 1 \in 1..n /\ 1 - 1 = 0
    BY <1>2
  <2>2. at[1 - 1] < Len(b) - 4 /\ Len(b) \in Nat
    BY <2>1, LengthLies
  <2>3. ~(Len(b) < 5 \/ type = 0)
    BY <1>3, <2>1, <2>2
  <2> HIDE DEF found
  <2>4. found = NALU_getNaluFromAvccNalus(b, type)
    BY <1>4 DEF NALU_getNalu, found
  <2>5. NALU_getNaluFromAvccNalus(b, type) = IF Len(b) < 5 \/ type = 0 THEN NotFound ELSE search[0]
    BY Zenon DEF NALU_getNaluFromAvccNalus, SearchFrom
  <2> HIDE DEF search
  <2> QED BY <2>3, <2>4, <2>5
<1> HIDE DEF search, Is, found
<1> DEFINE of(k) == IsOfType(Head(nalu[k]), type)
           r(k) == Found(begin[k], Len(nalu[k]))
           R(k) == /\ (\A j \in 1..n : j > k => ~of(j)) => search[at[k]] = NotFound
                   /\ \A m \in 1..n : m > k /\ of(m) /\ (\A j \in 1..n : j > k /\ of(j) => m <= j)
                        => search[at[k]] = r(m)
           P == {x \in 0..n : R(n - x)}
<1>7. R(n)
  <2>1. Len(b) \in Nat /\ search[Len(b)] = NotFound
    <3>1. Len(b) \in Nat /\ Len(b) >= Len(b)
      BY <1>3
    <3>2. search[Len(b)] = SearchFrom(b, type, search, Len(b))
      BY <1>5, <3>1
    <3>3. ~(Len(b) < Len(b)) /\ ~(Len(b) < Len(b) - 4)
      BY <3>1
    <3> QED BY <3>1, <3>2, <3>3, Zenon DEF SearchFrom
  <2>2. \A m \in 1..n : ~(m > n)
    BY <1>2
  <2> HIDE DEF of, r
  <2> QED BY <1>3, <2>1, <2>2
<1>8. ASSUME NEW k \in 1..n, R(k) PROVE R(k - 1)
  <2> DEFINE i == at[k - 1]
  <2>1. /\ i + 4 = begin[k] /\ i \in Nat /\ i < Len(b) - 4 /\ Len(b) \in Nat
        /\ at[k] \in Nat /\ at[k] = begin[k] + Len(nalu[k]) /\ LengthAt(b, i) = Len(nalu[k])
    BY LengthLies
  <2>2. ByteAt(b, begin[k]) = Head(nalu[k])
    BY <1>1, <1>2, HeadLies
  <2> HIDE DEF i
  <2>3. search[i] = SearchFrom(b, type, search, i)
    BY <1>5, <2>1
  <2>4. ~(i >= Len(b)) /\ ~(i >= Len(b) - 4)
    BY <2>1
  <2>5. IsOfType(ByteAt(b, i + 4), type) <=> of(k)
    BY <2>1, <2>2
  <2>6. of(k) => search[i] = r(k)
    <3>1. of(k) => search[i] = Found(i + 4, LengthAt(b, i))
      BY <2>1, <2>3, <2>4, <2>5, Zenon DEF SearchFrom
    <3> QED BY <2>1, <3>1
  <2>7. ~of(k) => search[i] = search[at[k]]
    <3>1. ~of(k) => search[i] = search[i + 4 + LengthAt(b, i)]
      BY <2>1, <2>3, <2>4, <2>5, Zenon DEF SearchFrom
    <3>2. i + 4 + LengthAt(b, i) = at[k]
      BY <2>1
    <3> QED BY <3>1, <3>2, Zenon
  <2>8. k \in Nat /\ \A j \in 1..n : j > k - 1 <=> j = k \/ j > k
    BY <1>2
  <2> HIDE DEF of, r
  <2>9. ASSUME \A j \in 1..n : j > k - 1 => ~of(j) PROVE search[i] = NotFound
    <3>1. ~of(k) /\ \A j \in 1..n : j > k => ~of(j)
      BY <2>8, <2>9, Zenon
    <3> QED BY <1>8, <2>7, <3>1, Zenon
  <2>10. ASSUME NEW m \in 1..n, m > k - 1, of(m), \A j \in 1..n : j > k - 1 /\ of(j) => m <= j
         PROVE  search[i] = r(m)
    <3>1. CASE m = k
      BY <2>6, <2>10, <3>1, Zenon
    <3>2. CASE m # k
      <4>1. m > k
        BY <2>8, <2>10, <3>2, Zenon
      <4>2. ~of(k)
        <5>1. of(k) => m <= k
          BY <2>8, <2>10, Zenon
        <5>2. ~(m <= k)
          BY <1>2, <4>1
        <5> QED BY <5>1, <5>2, Zenon
      <4>3. \A j \in 1..n : j > k /\ of(j) => m <= j
        BY <2>8, <2>10, Zenon
      <4> QED BY <1>8, <2>7, <4>1, <4>2, <4>3, <2>10, Zenon
    <3> QED BY <3>1, <3>2
  <2> QED BY <2>9, <2>10, Zenon DEF i
<1>9. R(0)
  <2> HIDE DEF R
  <2>1. 0 \in P
    <3>1. 0 \in 0..n /\ n - 0 = n
      BY <1>2
    <3> QED BY <1>7, <3>1
  <2>2. ASSUME NEW x \in 1..n, x - 1 \in P PROVE x \in P
    <3> DEFINE k == n - (x - 1)
    <3>1. k \in 1..n /\ k - 1 = n - x /\ x \in 0..n
      BY <1>2
    <3>2. R(k)
      BY <2>2
    <3> HIDE DEF k
    <3>3. R(k - 1)
      BY <1>8, <3>1, <3>2
    <3> QED BY <3>1, <3>3
  <2>3. n \in P
    <3> HIDE DEF P
    <3> QED BY <1>2, <2>1, <2>2, UpTo
  <2>4. n - n = 0
    BY <1>2
  <2> QED BY <2>3, <2>4
<1>10. \A j \in 1..n : j > 0
  BY <1>2
<1>11. H \in SUBSET (1..n) /\ \A k \in 1..n : k \in H <=> of(k)
  BY DEF OfType
<1> HIDE DEF H, of
<1>12. CASE H = {}
  <2>1. found = NotFound
    BY <1>3, <1>6, <1>9, <1>11, <1>12, Zenon
  <2>2. ~found.res
    BY <2>1 DEF NotFound
  <2> QED BY <1>4, <1>12, <2>2 DEF FoundFirst, H, found
<1>13. CASE H # {}
  <2>1. PICK m \in H : \A j \in H : m <= j
    <3>1. H \subseteq Nat
      BY <1>2, <1>11
    <3> QED BY <1>13, <3>1, LeastNat
  <2>2. Min(H) = m
    <3>1. H \in SUBSET Nat
      BY <1>2, <1>11
    <3> QED BY <2>1, <3>1, MinIs
  <2>3. m \in 1..n /\ of(m) /\ \A j \in 1..n : of(j) => m <= j
    BY <1>11, <2>1, Zenon
  <2> HIDE DEF r
  <2>4. found = r(m)
    BY <1>3, <1>6, <1>9, <1>10, <2>3, Zenon
  <2>5. found.res /\ found.nalu = begin[m] /\ found.length = Len(nalu[m])
    BY <2>4 DEF Found, r
  <2>6. Bytes(b, begin[m], Len(nalu[m])) = nalu[m]
    BY <1>1, <1>2, <2>3, HeadLies
  <2>7. Bytes(b, found.nalu, found.length) = nalu[m]
    BY <2>5, <2>6, Zenon
  <2> QED BY <1>4, <1>13, <2>2, <2>5, <2>7, Zenon DEF FoundFirst, H, found
<1> QED BY <1>12, <1>13

-----------------------------------------------------------------------------
(* The conversion in place.                                                *)

(* What lengths added one after the other make.                            *)
LengthsSum(offset, q) == FoldLeft(LAMBDA m, nal : m + nal.length, offset, q)
RefLengthsSum(offset, q) == FoldLeft(LAMBDA m, p : m + p.refLength, offset, q)

LengthsUpTo(T, n, offset, q) ==
    /\ DOMAIN q = 1..n /\ \A k \in 1..n : q[k].length \in Nat
    /\ T[0] = offset /\ \A k \in 1..n : T[k] = T[k - 1] + q[k].length
RefLengthsUpTo(T, n, offset, q) ==
    /\ DOMAIN q = 1..n /\ \A k \in 1..n : q[k].refLength \in Nat
    /\ T[0] = offset /\ \A k \in 1..n : T[k] = T[k - 1] + q[k].refLength

LEMMA LengthsAdded ==
    ASSUME NEW n \in Nat, NEW offset \in Nat, NEW q, NEW T, LengthsUpTo(T, n, offset, q)
    PROVE  LengthsSum(offset, q) = T[n]
<1>0. /\ DOMAIN q = 1..n /\ \A k \in 1..n : q[k].length \in Nat
      /\ T[0] = offset /\ \A k \in 1..n : T[k] = T[k - 1] + q[k].length
  BY DEF LengthsUpTo
<1> DEFINE Is(f) == f = [s \in SUBSET (1..n) |->
                           IF s = {} THEN offset ELSE LET x == Max(s) IN f[s \ {x}] + q[x].length]
           iter == CHOOSE f : Is(f)
           F == [k \in 1..n |-> [m \in Nat |-> m + q[k].length]]
<1>1. F \in [1..n -> [Nat -> Nat]]
  BY <1>0, Z3
<1>2. \A k \in 1..n, m \in Nat : F[k][m] = m + q[k].length
  OBVIOUS
<1> HIDE DEF F
<1>3. PICK f \in [SUBSET (1..n) -> Nat] : Folding(f, n, offset, F)
  BY <1>1, FoldExists
<1>4. ASSUME NEW s \in SUBSET (1..n), s # {}
      PROVE  Max(s) \in 1..n /\ s \ {Max(s)} \in SUBSET (1..n)
  BY <1>4, MaxIn
<1>5. Is(f)
  <2>1. ASSUME NEW s \in SUBSET (1..n)
        PROVE  f[s] = IF s = {} THEN offset ELSE LET x == Max(s) IN f[s \ {x}] + q[x].length
    BY <1>0, <1>2, <1>3, <1>4 DEF Folding
  <2>2. f = [s \in SUBSET (1..n) |-> f[s]]
    OBVIOUS
  <2> QED BY <2>1, <2>2
<1>6. Is(iter)
  <2> HIDE DEF Is
  <2> QED BY <1>5
<1>7. LengthsSum(offset, q) = iter[1..n]
  BY <1>0 DEF LengthsSum, FoldLeft, MapThenFoldSet
<1> HIDE DEF iter
<1>8. \A s \in SUBSET (1..n) : iter[s] = IF s = {} THEN offset ELSE iter[s \ {Max(s)}] + q[Max(s)].length
  BY <1>6
<1> HIDE DEF Is
<1> DEFINE P == {k \in 0..n : iter[1..k] = T[k]}
<1>9. 0 \in P
  <2>1. 1..0 = {} /\ 0 \in 0..n
    OBVIOUS
  <2> QED BY <1>0, <1>8, <2>1
<1>10. ASSUME NEW k \in 1..n, k - 1 \in P PROVE k \in P
  <2>1. 1..k \in SUBSET (1..n) /\ 1..k # {} /\ Max(1..k) = k
    BY PrefixIs
  <2>2. (1..k) \ {k} = 1..(k - 1) /\ k \in 0..n
    OBVIOUS
  <2>3. iter[1..k] = iter[1..(k - 1)] + q[k].length
    BY <1>8, <2>1, <2>2
  <2>4. iter[1..(k - 1)] = T[k - 1]
    BY <1>10
  <2> QED BY <1>0, <2>2, <2>3, <2>4
<1> HIDE DEF P
<1>11. n \in P
  BY <1>9, <1>10, UpTo
<1> QED BY <1>7, <1>11 DEF P

LEMMA RefLengthsAdded ==
    ASSUME NEW n \in Nat, NEW offset \in Nat, NEW q, NEW T, RefLengthsUpTo(T, n, offset, q)
    PROVE  RefLengthsSum(offset, q) = T[n]
<1>0. /\ DOMAIN q = 1..n /\ \A k \in 1..n : q[k].refLength \in Nat
      /\ T[0] = offset /\ \A k \in 1..n : T[k] = T[k - 1] + q[k].refLength
  BY DEF RefLengthsUpTo
<1> DEFINE Is(f) == f = [s \in SUBSET (1..n) |->
                           IF s = {} THEN offset ELSE LET x == Max(s) IN f[s \ {x}] + q[x].refLength]
           iter == CHOOSE f : Is(f)
           F == [k \in 1..n |-> [m \in Nat |-> m + q[k].refLength]]
<1>1. F \in [1..n -> [Nat -> Nat]]
  BY <1>0, Z3
<1>2. \A k \in 1..n, m \in Nat : F[k][m] = m + q[k].refLength
  OBVIOUS
<1> HIDE DEF F
<1>3. PICK f \in [SUBSET (1..n) -> Nat] : Folding(f, n, offset, F)
  BY <1>1, FoldExists
<1>4. ASSUME NEW s \in SUBSET (1..n), s # {}
      PROVE  Max(s) \in 1..n /\ s \ {Max(s)} \in SUBSET (1..n)
  BY <1>4, MaxIn
<1>5. Is(f)
  <2>1. ASSUME NEW s \in SUBSET (1..n)
        PROVE  f[s] = IF s = {} THEN offset ELSE LET x == Max(s) IN f[s \ {x}] + q[x].refLength
    BY <1>0, <1>2, <1>3, <1>4 DEF Folding
  <2>2. f = [s \in SUBSET (1..n) |-> f[s]]
    OBVIOUS
  <2> QED BY <2>1, <2>2
<1>6. Is(iter)
  <2> HIDE DEF Is
  <2> QED BY <1>5
<1>7. RefLengthsSum(offset, q) = iter[1..n]
  BY <1>0 DEF RefLengthsSum, FoldLeft, MapThenFoldSet
<1> HIDE DEF iter
<1>8. \A s \in SUBSET (1..n) : iter[s] = IF s = {} THEN offset ELSE iter[s \ {Max(s)}] + q[Max(s)].refLength
  BY <1>6
<1> HIDE DEF Is
<1> DEFINE P == {k \in 0..n : iter[1..k] = T[k]}
<1>9. 0 \in P
  <2>1. 1..0 = {} /\ 0 \in 0..n
    OBVIOUS
  <2> QED BY <1>0, <1>8, <2>1
<1>10. ASSUME NEW k \in 1..n, k - 1 \in P PROVE k \in P
  <2>1. 1..k \in SUBSET (1..n) /\ 1..k # {} /\ Max(1..k) = k
    BY PrefixIs
  <2>2. (1..k) \ {k} = 1..(k - 1) /\ k \in 0..n
    OBVIOUS
  <2>3. iter[1..k] = iter[1..(k - 1)] + q[k].refLength
    BY <1>8, <2>1, <2>2
  <2>4. iter[1..(k - 1)] = T[k - 1]
    BY <1>10
  <2> QED BY <1>0, <2>2, <2>3, <2>4
<1> HIDE DEF P
<1>11. n \in P
  BY <1>9, <1>10, UpTo
<1> QED BY <1>7, <1>11 DEF P

LEMMA BytesOf ==
    ASSUME NEW S, NEW b \in Seq(S), NEW i \in Nat, NEW n \in Nat
    PROVE  Bytes(b, i, n) \in Seq(S)
<1> DEFINE x == i + 1
           y == IF i + n <= Len(b) THEN i + n ELSE Len(b)
<1>1. Min({i + n, Len(b)}) = y
  <2>1. i + n \in Int /\ Len(b) \in Int
    OBVIOUS
  <2> QED BY <2>1, MinOfTwo
<1>2. x \in Int /\ y \in Int /\ \A j \in x..y : b[j] \in S
  OBVIOUS
<1>3. Bytes(b, i, n) = SubSeq(b, x, y)
  BY <1>1 DEF Bytes
<1> HIDE DEF x, y
<1> QED BY <1>2, <1>3, SubSeqProperties

(* What is written over a buffer.                                          *)
Overwritten(o, S, l, b, i, q) ==
    /\ o \in [1..l -> S]
    /\ \A k \in 1..l : o[k] = IF i < k /\ k <= i + Len(q) THEN q[k - i] ELSE b[k]

(* What a write into the buffer changes, and what it leaves.               *)
LEMMA OverwriteIs ==
    ASSUME NEW S, NEW l \in Nat, NEW b \in [1..l -> S], NEW i \in Int, NEW q \in Seq(S)
    PROVE  Overwritten(Overwrite(b, i, q), S, l, b, i, q)
<1> DEFINE o == Overwrite(b, i, q)
           m == Len(q)
<1>1. m \in Nat /\ DOMAIN q = 1..m /\ \A k \in 1..m : q[k] \in S
  BY SeqIsFunction
<1>2. o = [k \in 1..l |-> IF k - i \in 1..m THEN q[k - i] ELSE b[k]]
  BY <1>1 DEF Overwrite
<1> HIDE DEF o, m
<1>3. \A k \in 1..l : k - i \in 1..m <=> i < k /\ k <= i + m
  BY <1>1
<1>4. o \in [1..l -> S]
  BY <1>1, <1>2
<1>5. \A k \in 1..l : o[k] = IF i < k /\ k <= i + m THEN q[k - i] ELSE b[k]
  BY <1>2, <1>3
<1> QED BY <1>4, <1>5 DEF o, m, Overwritten

(* The conversion never needs more room before a NALU than it has.         *)
LEMMA AvccBehind ==
    ASSUME NEW a, NEW n, NEW code, NEW nalu, NEW at, NEW begin, AnnexBLaid(a, n, code, nalu, at, begin),
           NEW c, NEW to, NEW start, LaidOut(c, n, Lengths(n, nalu), nalu, to, start)
    PROVE  /\ \A k \in 0..n : at[k] <= to[k] /\ to[k] <= at[k] + k
           /\ \A k \in 1..n : to[k] = to[k - 1] + 4 + Len(nalu[k]) /\ start[k] = to[k - 1] + 4
<1>1. n \in Nat /\ AllowedFile(n, code, nalu) /\ LaidOut(a, n, Codes(n, code), nalu, at, begin)
  BY DEF AnnexBLaid, AllowedFile
<1>2. at \in [0..n -> Nat] /\ at[0] = 0
  BY <1>1 DEF LaidOut
<1>3. to \in [0..n -> Nat] /\ to[0] = 0
  BY DEF LaidOut
<1>4. ASSUME NEW k \in 1..n
      PROVE  /\ to[k] = to[k - 1] + 4 + Len(nalu[k]) /\ start[k] = to[k - 1] + 4
             /\ at[k] = at[k - 1] + code[k] + Len(nalu[k]) /\ code[k] \in {3, 4} /\ Len(nalu[k]) \in Nat
  <2>1. Allowed(nalu[k])
    BY <1>1 DEF AllowedFile
  <2>2. Len(Lengths(n, nalu)[k]) = 4
    <3>1. Len(BigEndian(Len(nalu[k]))) = 4
      BY <2>1, AllowedLengthBytes
    <3> QED BY <3>1 DEF Lengths
  <2>3. /\ to[k - 1] \in Nat /\ start[k] \in Nat /\ to[k - 1] + Len(Lengths(n, nalu)[k]) = start[k]
        /\ to[k] = start[k] + Len(nalu[k]) /\ Len(nalu[k]) \in Nat
    BY <2>1, PlacesIn
  <2>4. at[k - 1] + code[k] = begin[k] /\ code[k] \in {3, 4}
    BY CodeLiesAt
  <2>5. at[k] = begin[k] + Len(nalu[k]) /\ at[k - 1] \in Nat
    BY <1>1, <2>1, PlacesIn
  <2> QED BY <2>2, <2>3, <2>4, <2>5
<1> DEFINE P == {k \in 0..n : at[k] <= to[k] /\ to[k] <= at[k] + k}
<1>5. 0 \in P
  BY <1>1, <1>2, <1>3
<1>6. ASSUME NEW k \in 1..n, k - 1 \in P PROVE k \in P
  <2>1. k - 1 \in 0..n /\ k \in 0..n
    BY <1>1
  <2>2. at[k - 1] \in Nat /\ to[k - 1] \in Nat
    BY <1>2, <1>3, <2>1
  <2>3. at[k - 1] <= to[k - 1] /\ to[k - 1] <= at[k - 1] + (k - 1)
    BY <1>6
  <2> DEFINE a1 == at[k - 1]
             t1 == to[k - 1]
             z == Len(nalu[k])
             j == k - 1
  <2>4. /\ a1 \in Nat /\ t1 \in Nat /\ z \in Nat /\ a1 <= t1 /\ t1 <= a1 + j /\ j + 1 = k /\ j \in Nat
        /\ to[k] = t1 + 4 + z /\ at[k] = a1 + code[k] + z /\ code[k] \in {3, 4}
    BY <1>1, <1>4, <2>1, <2>2, <2>3
  <2> HIDE DEF a1, t1, z, j, P
  <2>5. at[k] <= to[k] /\ to[k] <= at[k] + k
    BY <2>4
  <2> QED BY <2>1, <2>5 DEF P
<1>7. ASSUME NEW k \in 0..n PROVE k \in P
  <2> HIDE DEF P
  <2>1. k \in Nat /\ \A j \in 1..k : j \in 1..n
    BY <1>1
  <2> QED BY <1>5, <1>6, <2>1, UpTo
<1> QED BY <1>4, <1>7

(* One NALU moved, behind its length.                                      *)
MoveOne(nal, m) ==
    LET to == m.i - nal.length
        moved == Overwrite(m.b, to, Bytes(m.b, nal.begin, nal.length))
    IN  [b |-> Overwrite(moved, to - 4, BigEndian(nal.length)), i |-> to - 4]

Buffers(l) == [b : [1..l -> 0..Radix - 1], i : Int]

LEMMA MoveOneType ==
    ASSUME NEW l \in Nat, NEW m \in Buffers(l), NEW x, Allowed(x), NEW begin \in Nat
    PROVE  MoveOne([begin |-> begin, length |-> Len(x)], m) \in Buffers(l)
<1> DEFINE S == 0..Radix - 1
           nal == [begin |-> begin, length |-> Len(x)]
           q == Bytes(m.b, nal.begin, nal.length)
           to == m.i - nal.length
           moved == Overwrite(m.b, to, q)
           r == BigEndian(nal.length)
<1>1. nal.begin = begin /\ nal.length = Len(x) /\ Len(x) \in Nat
  BY AllowedLength
<1>2. m.b \in [1..l -> S] /\ m.i \in Int
  BY DEF Buffers
<1>3. m.b \in Seq(S)
  BY <1>2, FunctionIsSeq
<1>4. r \in Seq(S)
  BY <1>1, AllowedLengthBytes
<1> HIDE DEF S, nal, r
<1>5. q \in Seq(S) /\ to \in Int /\ to - 4 \in Int
  <2>1. q \in Seq(S)
    BY <1>1, <1>3, BytesOf
  <2> HIDE DEF q
  <2> QED BY <1>1, <1>2, <2>1
<1> HIDE DEF q, to
<1>6. moved \in [1..l -> S]
  <2> HIDE DEF moved
  <2>1. Overwritten(moved, S, l, m.b, to, q)
    BY <1>2, <1>5, OverwriteIs DEF moved
  <2> QED BY <2>1 DEF Overwritten
<1> HIDE DEF moved
<1>7. Overwrite(moved, to - 4, r) \in [1..l -> S]
  <2> DEFINE t == to - 4
  <2>1. t \in Int
    BY <1>5
  <2> HIDE DEF t
  <2>2. Overwritten(Overwrite(moved, t, r), S, l, moved, t, r)
    BY <1>4, <1>6, <2>1, OverwriteIs
  <2>3. Overwrite(moved, t, r) \in [1..l -> S]
    BY <2>2 DEF Overwritten
  <2> QED BY <2>3 DEF t
<1>8. MoveOne(nal, m) = [b |-> Overwrite(moved, to - 4, r), i |-> to - 4]
  BY DEF MoveOne, moved, to, q, r
<1>9. [b |-> Overwrite(moved, to - 4, r), i |-> to - 4] \in [b : [1..l -> S], i : Int]
  BY <1>5, <1>7
<1> QED BY <1>8, <1>9 DEF Buffers, S, nal

(* What is done when the NALUs behind the first k are moved.               *)
MovedTo(m, l, b, c, n, to, k) ==
    /\ m \in Buffers(l) /\ m.i = to[k]
    /\ \A p \in 1..l : /\ p <= to[k] => m.b[p] = b[p]
                       /\ to[k] < p /\ p <= to[n] => m.b[p] = c[p]

(* One move of the conversion puts one more NALU behind its length.        *)
LEMMA MoveOneMoves ==
    ASSUME NEW a, NEW n, NEW code, NEW nalu, NEW at, NEW begin, AnnexBLaid(a, n, code, nalu, at, begin),
           NEW c, NEW to, NEW start, LaidOut(c, n, Lengths(n, nalu), nalu, to, start),
           NEW l \in Nat, NEW b \in [1..l -> 0..Radix - 1], Len(a) <= l, Len(c) <= l,
           \A p \in 1..Len(a) : b[p] = a[p],
           NEW k \in 1..n, NEW m, MovedTo(m, l, b, c, n, to, k)
    PROVE  MovedTo(MoveOne([begin |-> begin[k], length |-> Len(nalu[k])], m), l, b, c, n, to, k - 1)
<1> DEFINE S == 0..Radix - 1
           x == nalu[k]
           z == Len(x)
           g == begin[k]
           s == start[k]
           tk == to[k]
           tp == to[k - 1]
           nal == [begin |-> g, length |-> Len(x)]
           q == Bytes(m.b, nal.begin, nal.length)
           t == m.i - nal.length
           moved == Overwrite(m.b, t, q)
           r == BigEndian(nal.length)
           t4 == t - 4
           o == Overwrite(moved, t4, r)
<1>1. n \in Nat /\ LaidOut(a, n, Codes(n, code), nalu, at, begin) /\ Allowed(x)
  BY DEF AnnexBLaid, AllowedFile
<1>2. /\ z \in Nat /\ g \in Nat /\ at[k] \in Nat /\ at[k] = g + z /\ at[k] <= Len(a) /\ Len(a) \in Nat
      /\ x \in Seq(S)
  BY <1>1, PlacesIn, AllowedLength
<1>3. /\ at[k] <= tk /\ tk = tp + 4 + z /\ s = tp + 4
      /\ tp \in Nat /\ tk \in Nat /\ tk <= to[n] /\ to[n] = Len(c) /\ Len(c) \in Nat
  <2>1. k \in 0..n
    BY <1>1
  <2>2. at[k] <= tk /\ tk = tp + 4 + z /\ s = tp + 4
    BY <2>1, AvccBehind
  <2>3. /\ tp \in Nat /\ tk \in Nat /\ tk <= Len(c) /\ Len(c) \in Nat
    BY <1>1, PlacesIn
  <2>4. to[n] = Len(c)
    BY DEF LaidOut
  <2> QED BY <2>2, <2>3, <2>4
<1>4. m.b \in [1..l -> S] /\ m.i = tk /\ m \in Buffers(l)
      /\ \A p \in 1..l : /\ p <= tk => m.b[p] = b[p]
                         /\ tk < p /\ p <= to[n] => m.b[p] = c[p]
  BY DEF MovedTo, Buffers
<1>5. /\ r \in Seq(S) /\ Len(r) = 4 /\ nal.begin = g /\ nal.length = z
      /\ Lengths(n, nalu)[k] = r
  BY <1>1, AllowedLengthBytes DEF Lengths
<1>6. \A p \in 1..z : a[g + p] = x[p] /\ c[s + p] = x[p]
  BY <1>1 DEF LaidOut, LiesAt
<1>7. \A p \in 1..4 : c[tp + p] = r[p]
  <2>1. LiesAt(Lengths(n, nalu)[k], c, tp)
    BY DEF LaidOut
  <2> QED BY <1>5, <2>1 DEF LiesAt
<1>8. t = tk - z /\ MoveOne(nal, m) = [b |-> o, i |-> t4]
  BY <1>4, <1>5 DEF MoveOne
<1> HIDE DEF nal, z, x, S, g, s, tk, tp, t
<1>9. t = s /\ t \in Nat /\ t4 = tp /\ t + z = tk /\ tp + 4 = t /\ g + z <= tk
  BY <1>2, <1>3, <1>8
<1> HIDE DEF r, q, t4, moved, o
<1>10. q = x
  <2>1. LiesAt(x, m.b, g)
    <3>1. m.b \in Seq(S) /\ Len(m.b) = l
      BY <1>4, FunctionIsSeq
    <3>2. g + z <= l
      BY <1>2
    <3>3. ASSUME NEW p \in 1..z PROVE m.b[g + p] = x[p]
      <4> DEFINE y == g + p
      <4>1. y \in 1..l /\ y <= tk /\ y \in 1..Len(a)
        <5>1. y \in Nat /\ y >= 1 /\ y <= g + z
          BY <1>2
        <5> HIDE DEF y
        <5> QED BY <1>2, <1>3, <1>9, <5>1
      <4>2. a[y] = x[p]
        BY <1>6
      <4> HIDE DEF y
      <4>3. m.b[y] = b[y] /\ b[y] = a[y]
        BY <1>4, <4>1
      <4> QED BY <4>2, <4>3 DEF y
    <3> QED BY <3>1, <3>2, <3>3 DEF LiesAt, z
  <2>2. m.b \in Seq(Nat) /\ x \in Seq(Nat)
    <3>1. m.b \in Seq(S)
      BY <1>4, FunctionIsSeq
    <3>2. S \subseteq Nat
      BY RadixIs DEF S
    <3> QED BY <1>2, <3>1, <3>2, SeqMonotonic
  <2>3. Bytes(m.b, g, Len(x)) = x
    BY <1>2, <2>1, <2>2, BytesAt
  <2> QED BY <1>5, <2>3 DEF z, q
<1>11. Overwritten(moved, S, l, m.b, t, x)
  <2>1. x \in Seq(S) /\ t \in Int /\ m.b \in [1..l -> S]
    BY <1>2, <1>4, <1>9
  <2>2. moved = Overwrite(m.b, t, x)
    BY <1>10 DEF moved
  <2> QED BY <2>1, <2>2, OverwriteIs
<1>12. Overwritten(o, S, l, moved, tp, r)
  <2>1. moved \in [1..l -> S] /\ tp \in Int
    BY <1>3, <1>11 DEF Overwritten
  <2>2. o = Overwrite(moved, tp, r)
    BY <1>9 DEF o
  <2> QED BY <1>5, <2>1, <2>2, OverwriteIs
<1>13. /\ \A p \in 1..l : moved[p] = IF t < p /\ p <= t + z THEN x[p - t] ELSE m.b[p]
       /\ \A p \in 1..l : o[p] = IF tp < p /\ p <= tp + 4 THEN r[p - tp] ELSE moved[p]
  BY <1>5, <1>11, <1>12 DEF Overwritten, z
<1>14. ASSUME NEW p \in 1..l
       PROVE  /\ p <= tp => o[p] = b[p]
              /\ tp < p /\ p <= to[n] => o[p] = c[p]
  <2>0. /\ moved[p] = IF t < p /\ p <= t + z THEN x[p - t] ELSE m.b[p]
        /\ o[p] = IF tp < p /\ p <= tp + 4 THEN r[p - tp] ELSE moved[p]
        /\ p <= tk => m.b[p] = b[p]
        /\ tk < p /\ p <= to[n] => m.b[p] = c[p]
    BY <1>4, <1>13
  <2>1. CASE p <= tp
    <3>1. ~(tp < p) /\ ~(t < p) /\ p <= tk
      BY <1>2, <1>3, <1>9, <2>1
    <3> QED BY <2>0, <3>1
  <2>2. CASE tp < p /\ p <= tp + 4
    <3> DEFINE j == p - tp
    <3>1. j \in 1..4 /\ tp + j = p /\ ~(p <= tp)
      BY <1>3, <2>2
    <3>2. o[p] = r[j]
      BY <2>0, <2>2
    <3> HIDE DEF j
    <3>3. c[p] = r[j]
      BY <1>7, <3>1
    <3> QED BY <3>1, <3>2, <3>3
  <2>3. CASE t < p /\ p <= t + z
    <3> DEFINE j == p - t
    <3>1. j \in 1..z /\ s + j = p /\ ~(p <= tp) /\ ~(p <= tp + 4)
      BY <1>2, <1>3, <1>9, <2>3
    <3>2. o[p] = x[j]
      BY <2>0, <2>3, <3>1
    <3> HIDE DEF j
    <3>3. c[p] = x[j]
      BY <1>6, <3>1
    <3> QED BY <3>1, <3>2, <3>3
  <2>4. CASE p > tk
    <3>1. ~(p <= tp + 4) /\ ~(p <= t + z) /\ ~(p <= tp) /\ tk < p
      BY <1>2, <1>3, <1>9, <2>4
    <3> QED BY <2>0, <3>1
  <2> QED BY <1>2, <1>3, <1>9, <2>1, <2>2, <2>3, <2>4
<1>15. MoveOne(nal, m) \in Buffers(l)
  <2>1. Allowed(nalu[k])
    BY <1>1 DEF x
  <2> QED BY <1>2, <1>4, <2>1, MoveOneType DEF nal, x
<1> DEFINE w == MoveOne(nal, m)
<1>16. w.b = o /\ w.i = to[k - 1] /\ w \in Buffers(l)
  BY <1>8, <1>9, <1>15 DEF tp
<1> HIDE DEF w
<1>17. MovedTo(w, l, b, c, n, to, k - 1)
  BY <1>14, <1>16 DEF MovedTo, tp
<1> QED BY <1>17 DEF w, nal, x, g

(* The buffer when all NALUs are moved: from its beginning the frame as    *)
(* AVCC has it.                                                            *)
Converted(r, l, c) == r \in [1..l -> 0..Radix - 1] /\ \A p \in 1..Len(c) : r[p] = c[p]

NalsOf(n, begin, nalu) == [k \in 1..n |-> [begin |-> begin[k], length |-> Len(nalu[k])]]

(* All moves, from the last NALU to the first, leave the frame with lengths. *)
LEMMA MovedIs ==
    ASSUME NEW a, NEW n, NEW code, NEW nalu, NEW at, NEW begin, AnnexBLaid(a, n, code, nalu, at, begin),
           NEW c, NEW to, NEW start, LaidOut(c, n, Lengths(n, nalu), nalu, to, start),
           NEW l \in Nat, NEW b \in [1..l -> 0..Radix - 1], Len(a) <= l, Len(c) <= l,
           \A p \in 1..Len(a) : b[p] = a[p]
    PROVE  Converted(Moved(b, NalsOf(n, begin, nalu), Len(c)), l, c)
<1> DEFINE nals == NalsOf(n, begin, nalu)
           base == [b |-> b, i |-> Len(c)]
           D == Buffers(l)
           Is(f) == f = [s \in SUBSET (1..n) |->
                           IF s = {} THEN base ELSE MoveOne(nals[Min(s)], f[s \ {Min(s)}])]
           iter == CHOOSE f : Is(f)
           F == [k \in 1..n |-> [m \in D |-> MoveOne(nals[k], m)]]
           pick == [s \in SUBSET (1..n) |-> Min(s)]
<1>1. n \in Nat /\ \A k \in 1..n : Allowed(nalu[k]) /\ begin[k] \in Nat
      /\ nals[k] = [begin |-> begin[k], length |-> Len(nalu[k])]
  <2>1. n \in Nat /\ LaidOut(a, n, Codes(n, code), nalu, at, begin) /\ \A k \in 1..n : Allowed(nalu[k])
    BY DEF AnnexBLaid, AllowedFile
  <2>2. \A k \in 1..n : begin[k] \in Nat
    <3> SUFFICES ASSUME NEW k \in 1..n PROVE begin[k] \in Nat
      OBVIOUS
    <3>1. Allowed(nalu[k])
      BY <2>1
    <3> QED BY <2>1, <3>1, PlacesIn
  <2> QED BY <2>1, <2>2 DEF NalsOf
<1>2. Len(c) \in Nat /\ to[n] = Len(c) /\ c \in Seq(Nat)
  <2>1. c \in Seq(Nat) /\ to[n] = Len(c)
    BY DEF LaidOut
  <2> QED BY <2>1
<1>3. base \in D
  BY <1>2 DEF Buffers
<1>4. \A k \in 1..n, m \in D : MoveOne(nals[k], m) \in D
  <2> SUFFICES ASSUME NEW k \in 1..n, NEW m \in D PROVE MoveOne(nals[k], m) \in D
    OBVIOUS
  <2>1. Allowed(nalu[k]) /\ begin[k] \in Nat /\ nals[k] = [begin |-> begin[k], length |-> Len(nalu[k])]
    BY <1>1
  <2>2. MoveOne([begin |-> begin[k], length |-> Len(nalu[k])], m) \in D
    BY <2>1, MoveOneType
  <2> QED BY <2>1, <2>2
<1>5. F \in [1..n -> [D -> D]]
  <2> HIDE DEF D, nals
  <2> QED BY <1>4
<1>6. \A k \in 1..n, m \in D : F[k][m] = MoveOne(nals[k], m)
  <2> HIDE DEF D, nals
  <2> QED BY Zenon
<1>7. \A s \in SUBSET (1..n) : s # {} => pick[s] \in s /\ pick[s] = Min(s)
  <2> SUFFICES ASSUME NEW s \in SUBSET (1..n), s # {} PROVE pick[s] \in s /\ pick[s] = Min(s)
    BY Zenon
  <2>1. Min(s) \in s
    BY <1>1, MinIn
  <2>2. pick[s] = Min(s)
    BY Zenon
  <2> QED BY <2>1, <2>2, Zenon
<1> HIDE DEF F, pick, D, base, nals
<1>8. PICK f \in [SUBSET (1..n) -> D] : FoldingBy(pick, f, n, base, F)
  <2>1. \A s \in SUBSET (1..n) : s # {} => pick[s] \in s
    BY <1>7, Zenon
  <2> QED BY ONLY <1>1, <1>3, <1>5, <2>1, FoldByExists
<1>9. Is(f)
  <2>1. ASSUME NEW s \in SUBSET (1..n)
        PROVE  f[s] = IF s = {} THEN base ELSE MoveOne(nals[Min(s)], f[s \ {Min(s)}])
    <3>1. f[s] = IF s = {} THEN base ELSE F[pick[s]][f[s \ {pick[s]}]]
      BY <1>8, Zenon DEF FoldingBy
    <3>2. CASE s = {}
      BY <3>1, <3>2, Zenon
    <3>3. CASE s # {}
      <4> DEFINE k == pick[s]
                 rest == s \ {k}
      <4>1. k \in 1..n /\ k = Min(s) /\ rest \in SUBSET (1..n)
        <5>1. k \in s /\ k = Min(s)
          BY <1>7, <3>3, Zenon
        <5> HIDE DEF k
        <5> QED BY <5>1
      <4> HIDE DEF k, rest
      <4>2. f[rest] \in D
        BY <4>1
      <4>3. F[k][f[rest]] = MoveOne(nals[k], f[rest])
        BY <1>6, <4>1, <4>2, Zenon
      <4>4. f[s] = F[k][f[rest]]
        BY <3>1, <3>3, Zenon DEF k, rest
      <4>5. f[s] = MoveOne(nals[Min(s)], f[s \ {Min(s)}])
        BY <4>1, <4>3, <4>4, Zenon DEF rest
      <4> QED BY <3>3, <4>5, Zenon
    <3> QED BY <3>2, <3>3, Zenon
  <2>2. f = [s \in SUBSET (1..n) |-> f[s]]
    OBVIOUS
  <2> QED BY <2>1, <2>2, Zenon
<1>10. Is(iter)
  <2> HIDE DEF Is
  <2> QED BY <1>9, Zenon
<1>11. Moved(b, nals, Len(c)) = iter[1..n].b
  <2>1. DOMAIN nals = 1..n
    BY DEF nals, NalsOf
  <2> QED BY <2>1 DEF Moved, MoveOne, FoldRight, MapThenFoldSet, base
<1> HIDE DEF iter
<1>12. \A s \in SUBSET (1..n) : iter[s] = IF s = {} THEN base ELSE MoveOne(nals[Min(s)], iter[s \ {Min(s)}])
  BY <1>10, Zenon
<1> HIDE DEF Is
<1> DEFINE P == {j \in 0..n : MovedTo(iter[(n - j + 1)..n], l, b, c, n, to, n - j)}
<1>13. 0 \in P
  <2>1. (n - 0 + 1)..n = {} /\ n - 0 = n /\ 0 \in 0..n
    BY <1>1
  <2>2. iter[{}] = base
    BY <1>12
  <2>3. MovedTo(base, l, b, c, n, to, n)
    <3>1. base.b = b /\ base.i = to[n]
      BY <1>2 DEF base
    <3> QED BY <1>2, <1>3, <3>1 DEF MovedTo, D
  <2> QED BY <2>1, <2>2, <2>3
<1>14. ASSUME NEW j \in 1..n, j - 1 \in P PROVE j \in P
  <2> DEFINE k == n - j + 1
             s == k..n
             rest == (k + 1)..n
  <2>1. k \in 1..n /\ n - j = k - 1 /\ n - (j - 1) = k /\ j \in 0..n
    BY <1>1
  <2>2. s \in SUBSET (1..n) /\ s # {} /\ s \ {k} = rest /\ k \in s /\ \A x \in s : k <= x
    <3>1. k \in 1..n /\ n \in Nat
      BY <1>1, <2>1
    <3> HIDE DEF k
    <3>2. s \in SUBSET (1..n) /\ k \in s /\ \A x \in s : k <= x
      <4>1. s \subseteq 1..n /\ k \in s
        BY <3>1
      <4>2. \A x \in s : k <= x
        BY <3>1
      <4> QED BY <4>1, <4>2
    <3>3. s \ {k} = rest
      BY <3>1
    <3> HIDE DEF s
    <3> QED BY <3>2, <3>3
  <2>3. MovedTo(iter[rest], l, b, c, n, to, k)
    <3>1. MovedTo(iter[(n - (j - 1) + 1)..n], l, b, c, n, to, n - (j - 1))
      BY <1>14
    <3> HIDE DEF k
    <3> QED BY <2>1, <3>1
  <2> HIDE DEF k, s, rest
  <2>4. Min(s) = k
    <3>1. s \in SUBSET Nat
      BY <1>1, <2>2
    <3> QED BY <2>2, <3>1, MinIs
  <2>5. iter[s] = MoveOne(nals[k], iter[rest])
    BY <1>12, <2>2, <2>4
  <2>6. MovedTo(MoveOne([begin |-> begin[k], length |-> Len(nalu[k])], iter[rest]), l, b, c, n, to, k - 1)
    BY <2>1, <2>3, MoveOneMoves
  <2>7. MovedTo(iter[s], l, b, c, n, to, k - 1)
    BY <1>1, <2>1, <2>5, <2>6, Zenon
  <2>8. MovedTo(iter[(n - j + 1)..n], l, b, c, n, to, n - j)
    BY <2>1, <2>7, Zenon DEF s, k
  <2> QED BY <2>1, <2>8
<1> HIDE DEF P
<1>15. n \in P
  BY <1>1, <1>13, <1>14, UpTo
<1>16. MovedTo(iter[1..n], l, b, c, n, to, 0)
  <2>1. MovedTo(iter[(n - n + 1)..n], l, b, c, n, to, n - n)
    BY <1>15 DEF P
  <2>2. n - n + 1 = 1 /\ n - n = 0
    BY <1>1
  <2> QED BY <2>1, <2>2, Zenon
<1> DEFINE r == iter[1..n].b
<1>17. r \in [1..l -> 0..Radix - 1]
  BY <1>16 DEF MovedTo, Buffers
<1>18. ASSUME NEW p \in 1..Len(c) PROVE r[p] = c[p]
  <2>1. to[0] = 0 /\ p \in 1..l /\ 0 < p /\ p <= to[n]
    BY <1>2 DEF LaidOut
  <2> QED BY <1>16, <2>1 DEF MovedTo
<1> HIDE DEF r
<1> QED BY <1>11, <1>17, <1>18 DEF Converted, r, nals

ConvertedTo(r, l, c) == Converted(r.b, l, c) /\ r.uLen = Len(c) /\ Len(c) \in Nat /\ Len(c) <= l

(* The lengths of the NALUs and of what stands before them.                *)
LEMMA TotalIs ==
    ASSUME NEW n \in Nat, NEW begin, NEW nalu, \A k \in 1..n : Len(nalu[k]) \in Nat,
           NEW to \in [0..n -> Nat], to[0] = 0, \A k \in 1..n : to[k] = to[k - 1] + 4 + Len(nalu[k])
    PROVE  LET nals == NalsOf(n, begin, nalu)
           IN  4 * Len(nals) + FoldLeft(LAMBDA m, nal : m + nal.length, 0, nals) = to[n]
<1> DEFINE nals == NalsOf(n, begin, nalu)
           T == [k \in 0..n |-> to[k] - 4 * k]
<1>1. DOMAIN nals = 1..n /\ \A k \in 1..n : nals[k].length = Len(nalu[k])
  BY DEF NalsOf
<1>2. Len(nals) = n
  BY DEF NalsOf
<1>3. T[0] = 0
  OBVIOUS
<1>4. \A k \in 1..n : T[k] = T[k - 1] + nals[k].length
  <2> SUFFICES ASSUME NEW k \in 1..n PROVE T[k] = T[k - 1] + nals[k].length
    OBVIOUS
  <2> DEFINE j == k - 1
             x == to[k]
             y == to[j]
             z == nals[k].length
  <2>1. k \in 0..n /\ j \in 0..n /\ j + 1 = k /\ j \in Int
    OBVIOUS
  <2>2. T[k] = x - 4 * k /\ T[j] = y - 4 * j
    BY <2>1
  <2>3. x \in Nat /\ y \in Nat /\ z \in Nat /\ x = y + 4 + z
    BY <1>1, <2>1
  <2> HIDE DEF j, x, y, z, nals, T
  <2>4. T[k] = T[j] + z
    BY <2>1, <2>2, <2>3
  <2> QED BY <2>4 DEF j, z
<1>5. T[n] = to[n] - 4 * n
  OBVIOUS
<1> HIDE DEF T, nals
<1>6. \A k \in 1..n : nals[k].length \in Nat
  BY <1>1
<1>7. FoldLeft(LAMBDA m, nal : m + nal.length, 0, nals) = T[n]
  <2>1. LengthsUpTo(T, n, 0, nals)
    BY <1>1, <1>3, <1>4, <1>6 DEF LengthsUpTo
  <2>2. \A offset \in Nat : LengthsUpTo(T, n, offset, nals) => LengthsSum(offset, nals) = T[n]
    BY LengthsAdded
  <2>3. LengthsSum(0, nals) = T[n]
    <3>1. 0 \in Nat
      OBVIOUS
    <3> QED BY ONLY <2>1, <2>2, <3>1, Zenon
  <2> QED BY <2>3, Zenon DEF LengthsSum
<1>8. n \in Nat /\ to[n] \in Nat
  OBVIOUS
<1>9. 4 * Len(nals) + T[n] = to[n]
  BY <1>2, <1>5, <1>8
<1> QED BY <1>7, <1>9, Zenon DEF nals

(* The NALUs the conversion makes of the start codes.                      *)
NalsBetween(codes, a, n, begin, nalu) ==
    /\ Len(codes) = n
    /\ NalsOf(n, begin, nalu)
            = [k \in DOMAIN codes |->
                [begin |-> codes[k].begin,
                 length |-> (IF k < Len(codes) THEN codes[k + 1].at ELSE Len(a)) - codes[k].begin]]

LEMMA NalsAre ==
    ASSUME NEW a, NEW n, NEW code, NEW nalu, NEW at, NEW begin, AnnexBLaid(a, n, code, nalu, at, begin)
    PROVE  NalsBetween(CodesOf(n, at, begin), a, n, begin, nalu)
<1> DEFINE codes == CodesOf(n, at, begin)
<1>1. n \in Nat /\ LaidOut(a, n, Codes(n, code), nalu, at, begin) /\ \A k \in 1..n : Allowed(nalu[k])
  BY DEF AnnexBLaid, AllowedFile
<1>2. DOMAIN codes = 1..n /\ Len(codes) = n
  BY <1>1 DEF CodesOf
<1>3. at[n] = Len(a)
  BY <1>1 DEF LaidOut
<1>4. \A k \in 1..n : codes[k].begin = begin[k] /\ codes[k].at = at[k - 1]
  BY DEF CodesOf
<1> HIDE DEF codes
<1>5. ASSUME NEW k \in 1..n
      PROVE  (IF k < Len(codes) THEN codes[k + 1].at ELSE Len(a)) - codes[k].begin = Len(nalu[k])
  <2>1. Allowed(nalu[k])
    BY <1>1
  <2>2. at[k] = begin[k] + Len(nalu[k]) /\ begin[k] \in Nat /\ Len(nalu[k]) \in Nat
    BY <1>1, <2>1, PlacesIn
  <2>3. k < n => codes[k + 1].at = at[k]
    <3> SUFFICES ASSUME k < n PROVE codes[k + 1].at = at[k]
      OBVIOUS
    <3> DEFINE j == k + 1
    <3>1. j \in 1..n /\ j - 1 = k
      BY <1>1
    <3> HIDE DEF j
    <3>2. codes[j].at = at[k]
      BY <1>4, <3>1
    <3> QED BY <3>2 DEF j
  <2>4. k >= n => k = n
    BY <1>1
  <2>5. (IF k < Len(codes) THEN codes[k + 1].at ELSE Len(a)) = at[k]
    BY <1>1, <1>2, <1>3, <2>3, <2>4
  <2>6. codes[k].begin = begin[k]
    BY <1>4
  <2> QED BY <2>2, <2>5, <2>6
<1>6. NalsOf(n, begin, nalu)
        = [k \in DOMAIN codes |->
              [begin |-> codes[k].begin,
               length |-> (IF k < Len(codes) THEN codes[k + 1].at ELSE Len(a)) - codes[k].begin]]
  <2> DEFINE len(k) == (IF k < Len(codes) THEN codes[k + 1].at ELSE Len(a)) - codes[k].begin
  <2>1. \A k \in 1..n : len(k) = Len(nalu[k]) /\ codes[k].begin = begin[k]
    BY <1>4, <1>5
  <2> HIDE DEF len
  <2>2. NalsOf(n, begin, nalu) = [k \in DOMAIN codes |-> [begin |-> codes[k].begin, length |-> len(k)]]
    BY <1>2, <2>1 DEF NalsOf
  <2> QED BY <2>2 DEF len
<1> QED BY <1>2, <1>6, Zenon DEF codes, NalsBetween

(* The conversion in place gives the frame with lengths, whatever lies behind. *)
LEMMA ConversionIs ==
    ASSUME NEW a, NEW n, NEW code, NEW nalu, NEW at, NEW begin, AnnexBLaid(a, n, code, nalu, at, begin),
           NEW c, NEW to, NEW start, LaidOut(c, n, Lengths(n, nalu), nalu, to, start),
           n <= MaxNalus, NEW l \in Nat, NEW b \in [1..l -> 0..Radix - 1], Len(a) + n <= l,
           SubSeq(b, 1, Len(a)) = a
    PROVE  ConvertedTo(NALU_convertAnnexBToAvccInPlace(b, Len(a)), l, c)
<1> DEFINE codes == StartCodes(a, TRUE)
           nals == NalsOf(n, begin, nalu)
           total == 4 * Len(nals) + FoldLeft(LAMBDA m, nal : m + nal.length, 0, nals)
           r == NALU_convertAnnexBToAvccInPlace(b, Len(a))
<1>1. n \in Nat \ {0} /\ LaidOut(a, n, Codes(n, code), nalu, at, begin) /\ \A k \in 1..n : Allowed(nalu[k])
  BY DEF AnnexBLaid, AllowedFile
<1>2. codes = CodesOf(n, at, begin)
  <2>1. \A stops : StartCodes(a, stops) = CodesOf(n, at, begin)
    BY StartCodesAre
  <2> QED BY <2>1, Zenon
<1>3. /\ Len(codes) = n /\ codes # <<>>
      /\ nals = [k \in DOMAIN codes |->
                    [begin |-> codes[k].begin,
                     length |-> (IF k < Len(codes) THEN codes[k + 1].at ELSE Len(a)) - codes[k].begin]]
  <2>1. NalsBetween(codes, a, n, begin, nalu)
    BY <1>2, NalsAre, Zenon
  <2> HIDE DEF codes, nals
  <2>2. Len(codes) = n
    BY <2>1, Zenon DEF NalsBetween
  <2>3. codes # <<>>
    BY <1>1, <2>2
  <2> QED BY <2>1, <2>2, <2>3, Zenon DEF NalsBetween, nals
<1>4. NALU_isAnnexBFrame(a)
  BY AnnexBSearch
<1>5. Len(a) \in Nat /\ Len(a) > 4
  <2>1. 1 \in 1..n /\ at[0] = 0 /\ at[1 - 1] = at[0]
    BY <1>1 DEF LaidOut
  <2>2. at[1 - 1] < Len(a) - 4
    BY <2>1, CodeLiesAt
  <2>3. a \in Seq(Nat)
    BY <1>1 DEF LaidOut
  <2> QED BY <2>1, <2>2, <2>3
<1>6. /\ to \in [0..n -> Nat] /\ to[0] = 0 /\ to[n] = Len(c) /\ at[n] = Len(a)
      /\ \A k \in 1..n : to[k] = to[k - 1] + 4 + Len(nalu[k])
      /\ to[n] <= at[n] + n
  <2>1. to \in [0..n -> Nat] /\ to[0] = 0 /\ to[n] = Len(c)
    BY DEF LaidOut
  <2>2. at[n] = Len(a)
    BY <1>1 DEF LaidOut
  <2>3. n \in 0..n
    BY <1>1
  <2>4. \A k \in 0..n : to[k] <= at[k] + k
    BY AvccBehind
  <2>5. \A k \in 1..n : to[k] = to[k - 1] + 4 + Len(nalu[k])
    BY AvccBehind
  <2>6. to[n] <= at[n] + n
    BY <2>3, <2>4
  <2> QED BY <2>1, <2>2, <2>5, <2>6
<1>7. total = Len(c)
  <2>1. \A k \in 1..n : Len(nalu[k]) \in Nat
    BY <1>1, AllowedLength
  <2>2. total = to[n]
    <3>1. /\ n \in Nat /\ to \in [0..n -> Nat] /\ to[0] = 0
          /\ \A k \in 1..n : to[k] = to[k - 1] + 4 + Len(nalu[k])
      BY <1>1, <1>6
    <3> HIDE DEF total
    <3>2. 4 * Len(NalsOf(n, begin, nalu))
            + FoldLeft(LAMBDA m, nal : m + nal.length, 0, NalsOf(n, begin, nalu)) = to[n]
      BY ONLY <2>1, <3>1, TotalIs, ZenonT(30)
    <3> QED BY <3>2, Zenon DEF total, nals
  <2> QED BY <1>6, <2>2
<1>8. Len(c) \in Nat /\ Len(c) <= l /\ Len(a) <= l
  <2>1. to[n] \in Nat /\ n \in Nat
    BY <1>1, <1>6
  <2> QED BY <1>5, <1>6, <2>1
<1>9. DOMAIN b = 1..l /\ Len(b) = l
  BY FunctionIsSeq
<1>10. MaxNalus \in Nat
  BY NaluAssumption
<1> HIDE DEF codes, nals, total
<1>11. r = [res |-> ~StopsAtZeros(a), b |-> Moved(b, nals, Len(c)), uLen |-> Len(c)]
  <2> DEFINE frame == SubSeq(b, 1, Len(a))
             cs == StartCodes(frame, TRUE)
             ns == [k \in DOMAIN cs |->
                      [begin |-> cs[k].begin,
                       length |-> (IF k < Len(cs) THEN cs[k + 1].at ELSE Len(a)) - cs[k].begin]]
             tot == 4 * Len(ns) + FoldLeft(LAMBDA m, nal : m + nal.length, 0, ns)
  <2>1. frame = a
    OBVIOUS
  <2>2. cs = codes
    BY <2>1 DEF codes
  <2>3. ns = nals
    BY <1>3, <2>2
  <2>4. tot = Len(c)
    BY <1>7, <2>3 DEF total
  <2> DEFINE full == [res |-> ~StopsAtZeros(frame), b |-> Moved(b, ns, tot), uLen |-> tot]
  <2>5. r = CASE Len(a) <= 4 -> [res |-> FALSE, b |-> b, uLen |-> Len(a)]
              [] Len(a) > 4 /\ ~NALU_isAnnexBFrame(frame) -> [res |-> TRUE, b |-> b, uLen |-> Len(a)]
              [] Len(a) > 4 /\ NALU_isAnnexBFrame(frame) ->
                    CASE cs = <<>> \/ Len(cs) > MaxNalus -> [res |-> FALSE, b |-> b, uLen |-> Len(a)]
                      [] cs # <<>> /\ tot > Len(b) -> [res |-> FALSE, b |-> b, uLen |-> 0]
                      [] OTHER -> full
    BY Zenon DEF NALU_convertAnnexBToAvccInPlace
  <2>6. full = [res |-> ~StopsAtZeros(a), b |-> Moved(b, nals, Len(c)), uLen |-> Len(c)]
    BY <2>1, <2>3, <2>4, Zenon
  <2> HIDE DEF frame, cs, ns, tot, r
  <2>7. /\ ~(Len(a) <= 4) /\ Len(a) > 4 /\ NALU_isAnnexBFrame(frame)
        /\ ~(cs = <<>> \/ Len(cs) > MaxNalus) /\ ~(cs # <<>> /\ tot > Len(b))
    BY <1>1, <1>3, <1>4, <1>5, <1>8, <1>9, <1>10, <2>1, <2>2, <2>4
  <2> HIDE DEF full
  <2> QED BY <2>5, <2>6, <2>7, Zenon
<1> HIDE DEF r
<1>12. Converted(Moved(b, nals, Len(c)), l, c)
  <2>1. \A p \in 1..Len(a) : b[p] = a[p]
    <3> SUFFICES ASSUME NEW p \in 1..Len(a) PROVE b[p] = a[p]
      OBVIOUS
    <3>1. SubSeq(b, 1, Len(a))[p] = b[1 + p - 1]
      <4>1. b \in Seq(0..Radix - 1)
        BY FunctionIsSeq
      <4> QED BY <1>5, <1>8, <1>9, <4>1
    <3> QED BY <1>5, <3>1
  <2>2. Converted(Moved(b, NalsOf(n, begin, nalu), Len(c)), l, c)
    BY <1>8, <2>1, MovedIs
  <2> QED BY <2>2 DEF nals
<1>13. r.b = Moved(b, nals, Len(c)) /\ r.uLen = Len(c)
  BY <1>11
<1> QED BY <1>8, <1>12, <1>13 DEF ConvertedTo, r

-----------------------------------------------------------------------------
(* Payloads, and what the far side makes of them.                          *)

(* What a list of payloads of a frame of length u makes on the far side,   *)
(* when each has room in a packet and lies in the frame.                   *)
Arrived(c, p) == [k \in DOMAIN p |-> depay(c, p[k])]
Fits(p, u) ==
    Cut(p) => /\ HeaderSize(p.header.type) + Len(p.data) <= Mtu
              /\ p.refOffset + p.refLength \in Nat /\ p.refOffset + p.refLength <= u
Delivers(c, p, u, t) ==
    /\ IsList(p) /\ Arrived(c, p) \in Seq(Seq(Nat)) /\ FlattenSeq(Arrived(c, p)) = t
    /\ \A k \in DOMAIN p : Fits(p[k], u)

LEMMA DeliversIs ==
    ASSUME NEW c, NEW u, NEW t, NEW n \in Nat, NEW p, p = [k \in 1..n |-> p[k]],
           NEW d \in [1..n -> Seq(Nat)], FlattenSeq(d) = t,
           \A k \in 1..n : depay(c, p[k]) = d[k] /\ Fits(p[k], u)
    PROVE  Delivers(c, p, u, t)
<1>1. IsList(p) /\ DOMAIN p = 1..n
  BY ListIs
<1>2. Arrived(c, p) = d
  BY <1>1 DEF Arrived
<1>3. d \in Seq(Seq(Nat))
  BY FunctionIsSeq
<1> QED BY <1>1, <1>2, <1>3 DEF Delivers

(* Payloads of one frame before those of the rest deliver both.            *)
LEMMA DeliversJoined ==
    ASSUME NEW c, NEW u, NEW p, NEW t, Delivers(c, p, u, t), NEW q, NEW s, Delivers(c, q, u, s)
    PROVE  Delivers(c, p \o q, u, t \o s)
<1> DEFINE r == p \o q
           S == Range(p) \cup Range(q)
<1>1. p \in Seq(S) /\ q \in Seq(S)
  BY SeqMonotonic DEF Delivers, IsList
<1>2. IsList(r)
  BY JoinedIsList DEF Delivers
<1> HIDE DEF S
<1> DEFINE l == Len(p)
           m == Len(q)
<1>3. /\ l \in Nat /\ m \in Nat /\ DOMAIN p = 1..l /\ DOMAIN q = 1..m
      /\ DOMAIN r = 1..l + m
      /\ \A k \in 1..l : r[k] = p[k]
      /\ \A k \in l + 1..l + m : r[k] = q[k - l] /\ k - l \in 1..m
  BY <1>1
<1>4. ASSUME NEW k \in DOMAIN r PROVE Fits(r[k], u)
  <2> HIDE DEF r, l, m
  <2>1. CASE k <= l
    <3>1. k \in 1..l
      BY <1>3, <2>1
    <3> QED BY <1>3, <3>1 DEF Delivers
  <2>2. CASE k > l
    <3>1. k \in l + 1..l + m
      BY <1>3, <2>2
    <3> QED BY <1>3, <3>1 DEF Delivers
  <2> QED BY <1>3, <2>1, <2>2
<1> DEFINE x == Arrived(c, p)
           y == Arrived(c, q)
<1>5. x \in Seq(Seq(Nat)) /\ y \in Seq(Seq(Nat)) /\ FlattenSeq(x) = t /\ FlattenSeq(y) = s
  BY DEF Delivers
<1>6. /\ DOMAIN x = 1..l /\ DOMAIN y = 1..m
      /\ \A k \in 1..l : x[k] = depay(c, p[k])
      /\ \A k \in 1..m : y[k] = depay(c, q[k])
  BY <1>3 DEF Arrived
<1> HIDE DEF x, y, r
<1>7. Len(x) = l /\ Len(y) = m
  BY <1>3, <1>5, <1>6
<1>8. Arrived(c, r) = x \o y
  <2> HIDE DEF l, m
  <2>1. Arrived(c, r) = [k \in 1..l + m |-> depay(c, r[k])]
    BY <1>3 DEF Arrived
  <2> DEFINE z == x \o y
  <2>2. z = [k \in 1..l + m |-> IF k <= l THEN x[k] ELSE y[k - l]]
    <3>1. /\ z \in Seq(Seq(Nat)) /\ Len(z) = l + m
          /\ \A k \in 1..l + m : z[k] = IF k <= l THEN x[k] ELSE y[k - l]
      BY <1>5, <1>7, ConcatProperties
    <3> HIDE DEF z
    <3>2. DOMAIN z = 1..l + m /\ z = [k \in 1..l + m |-> z[k]]
      BY <3>1
    <3> QED BY <3>1, <3>2
  <2>3. ASSUME NEW k \in 1..l + m PROVE depay(c, r[k]) = IF k <= l THEN x[k] ELSE y[k - l]
    <3>1. CASE k <= l
      <4>1. k \in 1..l
        BY <1>3, <3>1
      <4> QED BY <1>3, <1>6, <3>1, <4>1
    <3>2. CASE k > l
      <4>1. k \in l + 1..l + m /\ ~(k <= l)
        BY <1>3, <3>2
      <4> QED BY <1>3, <1>6, <3>2, <4>1
    <3> QED BY <1>3, <3>1, <3>2
  <2> QED BY <2>1, <2>2, <2>3, Zenon
<1>9. x \o y \in Seq(Seq(Nat)) /\ FlattenSeq(x \o y) = t \o s
  <2>1. FlattenSeq(x \o y) = FlattenSeq(x) \o FlattenSeq(y)
    BY <1>5, FlattenConcat
  <2>2. x \o y \in Seq(Seq(Nat))
    BY <1>5, ConcatProperties
  <2> QED BY <1>5, <2>1, <2>2
<1> QED BY <1>2, <1>4, <1>8, <1>9 DEF Delivers, r

(* The far side takes the first payload.                                   *)
LEMMA DeliversTail ==
    ASSUME NEW c, NEW u, NEW p, NEW t, Delivers(c, p, u, t), p # <<>>
    PROVE  \E s \in Seq(Nat) : /\ Delivers(c, Tail(p), u, s) /\ t = depay(c, Head(p)) \o s
                               /\ depay(c, Head(p)) \in Seq(Nat)
<1> DEFINE r == Tail(p)
           n == Len(p)
           S == Range(p)
           x == Arrived(c, p)
           y == Arrived(c, r)
<1>1. p \in Seq(S)
  BY DEF Delivers, IsList
<1> HIDE DEF S
<1>2. n \in Nat \ {0} /\ DOMAIN p = 1..n /\ r \in Seq(S) /\ Len(r) = n - 1 /\ Head(p) = p[1]
      /\ DOMAIN r = 1..n - 1 /\ \A k \in 1..n - 1 : r[k] = p[k + 1] /\ k + 1 \in 1..n
  BY <1>1
<1>3. x \in Seq(Seq(Nat)) /\ FlattenSeq(x) = t
  BY DEF Delivers
<1>4. DOMAIN x = 1..n /\ \A k \in 1..n : x[k] = depay(c, p[k])
  BY <1>2 DEF Arrived
<1>5. y = [k \in 1..n - 1 |-> depay(c, r[k])]
  BY <1>2 DEF Arrived
<1>6. IsList(r)
  <2> HIDE DEF r, n
  <2>1. r = [k \in 1..n - 1 |-> r[k]] /\ n - 1 \in Nat
    BY <1>2
  <2> QED BY <2>1, ListIs
<1> HIDE DEF x, y, r
<1>7. Len(x) = n /\ x # <<>>
  BY <1>2, <1>3, <1>4
<1>8. Tail(x) = y /\ Head(x) = depay(c, Head(p))
  <2> HIDE DEF n
  <2> DEFINE z == Tail(x)
  <2>1. z = [k \in 1..n - 1 |-> x[k + 1]]
    <3>1. z \in Seq(Seq(Nat)) /\ Len(z) = n - 1 /\ \A k \in 1..n - 1 : z[k] = x[k + 1]
      BY <1>3, <1>7, HeadTailProperties
    <3> HIDE DEF z
    <3>2. DOMAIN z = 1..n - 1 /\ z = [k \in 1..n - 1 |-> z[k]]
      BY <1>2, <3>1
    <3> QED BY <3>1, <3>2
  <2>2. \A k \in 1..n - 1 : x[k + 1] = depay(c, r[k])
    BY <1>2, <1>4
  <2>3. Head(x) = x[1] /\ 1 \in 1..n
    BY <1>2, <1>3, <1>7
  <2> QED BY <1>2, <1>4, <1>5, <2>1, <2>2, <2>3
<1>9. y \in Seq(Seq(Nat)) /\ Head(x) \in Seq(Nat)
  BY <1>3, <1>7, <1>8, HeadTailProperties
<1>10. t = Head(x) \o FlattenSeq(y)
  <2>1. FlattenSeq(x) = Head(x) \o FlattenSeq(Tail(x))
    BY <1>3, <1>7, FlattenCons
  <2> QED BY <1>3, <1>8, <2>1
<1>11. FlattenSeq(y) \in Seq(Nat)
  BY <1>9, FlattenType
<1>12. ASSUME NEW k \in DOMAIN r PROVE Fits(r[k], u)
  <2> HIDE DEF n
  <2>1. k \in 1..n - 1
    BY <1>2
  <2>2. r[k] = p[k + 1] /\ k + 1 \in 1..n
    BY <1>2, <2>1
  <2> QED BY <1>2, <2>2 DEF Delivers
<1>13. Delivers(c, r, u, FlattenSeq(y))
  BY <1>6, <1>9, <1>12 DEF Delivers, y
<1> QED BY <1>8, <1>9, <1>10, <1>11, <1>13, Zenon DEF r

-----------------------------------------------------------------------------
(* The payloads of H.264.                                                  *)

LEMMA StartCodeType == StartCode(4) \in Seq(Nat) /\ StartCode(3) \in Seq(Nat)
BY DEF StartCode

(* The header of a fragment and its first byte say what the first byte of  *)
(* the NALU is.                                                            *)
LEMMA FirstByteIs ==
    ASSUME NEW h \in Nat, h < Radix \div 2
    PROVE  RefIdc(h) + nalType(h) = h
<1>1. Radix \in Nat /\ TypeRadix \in Nat \ {0}
  BY NaluAssumption
<1> DEFINE m == Radix \div 2
           t == h % TypeRadix
<1>2. m \in Nat
  BY <1>1
<1>3. t \in Int
  BY <1>1
<1> HIDE DEF m, t
<1>4. m \in Nat \ {0} /\ h < m
  BY <1>2 DEF m
<1>5. h % m = h
  <2>1. 0 \in Int
    OBVIOUS
  <2>2. \A q \in Int : (m * q + h) % m = h
    BY <1>4, ModUnique
  <2>3. (m * 0 + h) % m = h
    BY <2>1, <2>2, Zenon
  <2>4. m * 0 + h = h
    BY <1>4
  <2> QED BY <2>3, <2>4
<1>6. RefIdc(h) = h - t /\ nalType(h) = t
  BY <1>5 DEF RefIdc, nalType, m, t
<1> QED BY <1>3, <1>6

LEMMA AllowedHead ==
    ASSUME NEW x, Allowed(x)
    PROVE  x \in Seq(Nat) /\ x # <<>> /\ Head(x) \in Nat /\ Head(x) < Radix \div 2
<1>1. Radix \in Nat
  BY NaluAssumption
<1>2. x \in Seq(0..Radix - 1) /\ Len(x) >= 2 /\ Head(x) < Radix \div 2
  BY DEF Allowed
<1>3. x # <<>>
  BY <1>2
<1>4. Head(x) \in 0..Radix - 1
  BY <1>2, <1>3, HeadTailProperties
<1>5. 0..Radix - 1 \subseteq Nat
  BY <1>1
<1>6. x \in Seq(Nat)
  BY <1>2, <1>5, SeqMonotonic
<1> QED BY <1>2, <1>3, <1>4, <1>5, <1>6

(* Of what the payloads of a NALU are made: the whole of it, behind a start*)
(* code; and the next offset is no farther than the NALU.                  *)
PaysFor(p, x, offset, u) ==
    /\ Delivers("H264", p, u, StartCode(4) \o x)
    /\ RefLengthsSum(offset, p) \in Nat /\ RefLengthsSum(offset, p) <= offset + Len(x)

(* A NALU that fits is one payload (Rtp payloader, single NALU).           *)
LEMMA SinglePays ==
    ASSUME NEW x, Allowed(x), NEW offset \in Nat, NEW u \in Nat, offset + Len(x) <= u, Len(x) <= Mtu
    PROVE  PaysFor(createPayloadFromNalu(x, offset), x, offset, u)
<1> DEFINE p == Payload([type |-> "single"], x, offset)
           q == <<p>>
           d == <<StartCode(4) \o x>>
<1>1. createPayloadFromNalu(x, offset) = q
  BY DEF createPayloadFromNalu
<1>2. x \in Seq(Nat) /\ Len(x) \in Nat
  BY AllowedHead
<1>3. p.header = [type |-> "single"] /\ p.header.type = "single" /\ p.data = x
      /\ p.refOffset = offset /\ p.refLength = Len(x)
  BY DEF Payload
<1> HIDE DEF p
<1>4. depay("H264", p) = StartCode(4) \o x
  BY <1>3 DEF depay, depayH264FromRtpPayload
<1>5. Fits(p, u)
  BY <1>2, <1>3 DEF Fits, HeaderSize
<1>6. StartCode(4) \o x \in Seq(Nat)
  BY <1>2, StartCodeType, ConcatProperties
<1>7. Delivers("H264", q, u, StartCode(4) \o x)
  <2> DEFINE s == StartCode(4) \o x
  <2>1. FlattenSeq(<<s>>) = s
    BY <1>6, FlattenOne
  <2>2. s \in Seq(Nat)
    BY <1>6
  <2> HIDE DEF s
  <2>3. <<s>> \in [1..1 -> Seq(Nat)] /\ <<s>>[1] = s /\ q = [k \in 1..1 |-> q[k]] /\ q[1] = p
    BY <2>2
  <2>4. \A k \in 1..1 : depay("H264", q[k]) = <<s>>[k] /\ Fits(q[k], u)
    <3>1. depay("H264", p) = s
      BY <1>4 DEF s
    <3>2. \A k \in 1..1 : k = 1
      OBVIOUS
    <3> HIDE DEF q
    <3> QED BY <1>5, <2>3, <3>1, <3>2, Zenon
  <2> HIDE DEF q
  <2>5. 1 \in Nat
    OBVIOUS
  <2>6. Delivers("H264", q, u, s)
    BY ONLY <2>1, <2>3, <2>4, <2>5, DeliversIs, Zenon
  <2> QED BY <2>6 DEF s
<1>8. RefLengthsSum(offset, q) = offset + Len(x)
  <2> DEFINE T == [k \in 0..1 |-> IF k = 0 THEN offset ELSE offset + Len(x)]
  <2>1. DOMAIN q = 1..1 /\ q[1] = p
    OBVIOUS
  <2>2. T[0] = offset /\ T[1] = offset + Len(x)
    OBVIOUS
  <2> HIDE DEF q, T
  <2>3. RefLengthsUpTo(T, 1, offset, q)
    BY <1>2, <1>3, <2>1, <2>2 DEF RefLengthsUpTo
  <2>4. \A n \in Nat : RefLengthsUpTo(T, n, offset, q) => RefLengthsSum(offset, q) = T[n]
    BY RefLengthsAdded
  <2>5. 1 \in Nat
    OBVIOUS
  <2> QED BY <2>2, <2>3, <2>4, <2>5, Zenon
<1>9. offset + Len(x) \in Nat /\ offset + Len(x) <= offset + Len(x)
  BY <1>2
<1> HIDE DEF q
<1> QED BY <1>1, <1>7, <1>8, <1>9 DEF PaysFor

(* A NALU that does not fit is sent as fragments that join to it.          *)
LEMMA FragmentsPay ==
    ASSUME NEW x, Allowed(x), NEW offset \in Nat, NEW u \in Nat, offset + Len(x) <= u, ~(Len(x) <= Mtu)
    PROVE  PaysFor(createPayloadFromNalu(x, offset), x, offset, u)
<1> DEFINE room == Mtu - FuAHeaderSize
           data == Tail(x)
           l == Len(data)
           n == PieceCount(data, room)
           piece == [k \in 1..n |-> Piece(data, room, k)]
           h == StartCode(4) \o <<RefIdc(Head(x)) + nalType(Head(x))>>
           e(k) == Payload([type |-> "FU-A", refIdc |-> RefIdc(Head(x)), naluType |-> nalType(Head(x)),
                            start |-> k = 1, end |-> k = n],
                           Piece(data, room, k), offset + (k - 1) * room)
           q == [k \in 1..n |-> e(k)]
           d == [k \in 1..n |-> IF k = 1 THEN h \o piece[1] ELSE piece[k]]
<1>1. createPayloadFromNalu(x, offset) = q
  BY DEF createPayloadFromNalu, Fragments
<1>2. room \in Nat \ {0} /\ Mtu \in Nat /\ room + FuAHeaderSize = Mtu /\ FuAHeaderSize = 2
  BY MtuAssumption DEF FuAHeaderSize
<1>3. x \in Seq(Nat) /\ x # <<>> /\ Head(x) \in Nat /\ Len(x) \in Nat /\ Len(x) >= 2
  BY AllowedHead, AllowedLength
<1>4. data \in Seq(Nat) /\ l \in Nat /\ l + 1 = Len(x) /\ l > 0
  BY <1>3
<1>5. RefIdc(Head(x)) + nalType(Head(x)) = Head(x)
  BY AllowedHead, FirstByteIs
<1>6. h \in Seq(Nat) /\ h = StartCode(4) \o <<Head(x)>>
  <2>1. <<Head(x)>> \in Seq(Nat)
    BY <1>3
  <2> QED BY <1>5, <2>1, StartCodeType, ConcatProperties
<1> HIDE DEF room, data
<1>7. /\ n \in Nat /\ n >= 1 /\ piece \in [1..n -> Seq(Nat)] /\ FlattenSeq(piece) = data
      /\ \A k \in 1..n : /\ (k - 1) * room \in Nat /\ Len(Piece(data, room, k)) <= room
                         /\ (k - 1) * room + Len(Piece(data, room, k)) = IF k * room <= l THEN k * room ELSE l
  BY <1>2, <1>4, PiecesAre
<1>8. /\ n * room >= l
      /\ \A k \in 1..n : (k - 1) * room < l /\ k * room = (k - 1) * room + room
  BY <1>2, <1>4, PieceCountIs DEF PieceCount
<1> HIDE DEF h, n, l
<1>9. \A k \in 1..n : piece[k] = Piece(data, room, k) /\ Len(piece[k]) \in Nat
  BY <1>7
<1>10. ASSUME NEW k \in 1..n
       PROVE  /\ e(k).header.type = "FU-A" /\ (e(k).header.start <=> k = 1)
              /\ e(k).header.refIdc + e(k).header.naluType = RefIdc(Head(x)) + nalType(Head(x))
              /\ e(k).data = piece[k] /\ e(k).refLength = Len(piece[k])
              /\ e(k).refOffset = offset + (k - 1) * room
  BY <1>9 DEF Payload
<1> HIDE DEF e, piece
<1>11. ASSUME NEW k \in 1..n PROVE depay("H264", e(k)) = d[k]
  <2>1. d[k] = IF k = 1 THEN h \o piece[1] ELSE piece[k]
    OBVIOUS
  <2> DEFINE y == e(k)
  <2>2. /\ y.header.type = "FU-A" /\ (y.header.start <=> k = 1)
        /\ y.header.refIdc + y.header.naluType = RefIdc(Head(x)) + nalType(Head(x))
        /\ y.data = piece[k]
    BY <1>10
  <2> HIDE DEF y, d
  <2>3. depay("H264", y) = IF k = 1
                           THEN StartCode(4) \o <<RefIdc(Head(x)) + nalType(Head(x))>> \o piece[k]
                           ELSE piece[k]
    BY <2>2 DEF depay, depayH264FromRtpPayload
  <2>4. CASE k = 1
    BY <2>1, <2>3, <2>4 DEF h, y
  <2>5. CASE k # 1
    BY <2>1, <2>3, <2>5 DEF y
  <2> QED BY <2>4, <2>5
<1>12. ASSUME NEW k \in 1..n PROVE Fits(e(k), u)
  <2> DEFINE i == (k - 1) * room
             z == Len(piece[k])
             y == e(k)
  <2>1. i \in Nat /\ z \in Nat /\ z <= room /\ i + z <= l
    <3> DEFINE w == k * room
    <3>1. i \in Nat /\ z \in Nat /\ z <= room /\ i + z = IF w <= l THEN w ELSE l
      BY <1>7, <1>9
    <3> HIDE DEF i, z, w
    <3>2. i + z \in Nat
      BY <3>1
    <3> QED BY <1>4, <3>1, <3>2
  <2>2. y.header.type = "FU-A" /\ y.data = piece[k] /\ y.refLength = z /\ y.refOffset = offset + i
    BY <1>10
  <2> HIDE DEF i, z, y
  <2>3. FuAHeaderSize + z <= Mtu /\ offset + i + z <= u /\ offset + i + z \in Nat
    BY <1>2, <1>4, <2>1
  <2>4. HeaderSize(y.header.type) = FuAHeaderSize
    BY <2>2 DEF HeaderSize
  <2>5. Len(y.data) = z
    BY <2>2 DEF z
  <2>6. Fits(y, u)
    BY <2>2, <2>3, <2>4, <2>5 DEF Fits
  <2> QED BY <2>6 DEF y
<1>13. d \in [1..n -> Seq(Nat)] /\ Headed(d, h, piece, n, Nat)
  <2>1. 1 \in 1..n
    BY <1>7
  <2>2. h \o piece[1] \in Seq(Nat) /\ \A k \in 1..n : piece[k] \in Seq(Nat)
    <3>1. \A k \in 1..n : piece[k] \in Seq(Nat)
      BY <1>7
    <3>2. piece[1] \in Seq(Nat)
      BY <2>1, <3>1
    <3> QED BY <1>6, <3>1, <3>2, ConcatProperties
  <2>3. d \in [1..n -> Seq(Nat)]
    BY <2>2
  <2>4. d[1] = h \o piece[1] /\ \A k \in 2..n : d[k] = piece[k]
    BY <2>1
  <2>5. n \in Nat \ {0} /\ h \in Seq(Nat) /\ piece \in [1..n -> Seq(Nat)]
    <3>1. n \in Nat /\ n >= 1
      BY <1>7, Zenon
    <3>2. \A w : w \in Nat /\ w >= 1 => w \in Nat \ {0}
      OBVIOUS
    <3> QED BY <1>6, <1>7, <3>1, <3>2, Zenon
  <2> QED BY <2>3, <2>4, <2>5 DEF Headed
<1> HIDE DEF d
<1>14. FlattenSeq(d) = StartCode(4) \o x
  <2>1. n \in Nat \ {0}
    BY <1>7
  <2>2. FlattenSeq(d) = h \o data
    <3>1. FlattenSeq(d) = h \o FlattenSeq(piece)
      BY <1>13, FlattenFirst
    <3> QED BY <1>7, <3>1
  <2>3. <<Head(x)>> \in Seq(Nat) /\ x = <<Head(x)>> \o data
    BY <1>3 DEF data
  <2>4. Cat(Cat(StartCode(4), <<Head(x)>>), data) = Cat(StartCode(4), Cat(<<Head(x)>>, data))
    <3> DEFINE s == StartCode(4)
               t == <<Head(x)>>
    <3>1. s \in Seq(Nat) /\ t \in Seq(Nat) /\ data \in Seq(Nat)
      BY <1>4, <2>3, StartCodeType
    <3> HIDE DEF s, t
    <3>2. Cat(Cat(s, t), data) = Cat(s, Cat(t, data))
      BY ONLY <3>1, CatAssoc
    <3> QED BY <3>2, Zenon DEF s, t
  <2>5. (StartCode(4) \o <<Head(x)>>) \o data = StartCode(4) \o (<<Head(x)>> \o data)
    BY <2>4, Zenon DEF Cat
  <2> QED BY <1>6, <2>2, <2>3, <2>5, Zenon
<1>15. Delivers("H264", q, u, StartCode(4) \o x)
  <2>1. q = [k \in 1..n |-> q[k]] /\ \A k \in 1..n : q[k] = e(k)
    OBVIOUS
  <2> HIDE DEF q
  <2>2. \A k \in 1..n : depay("H264", q[k]) = d[k] /\ Fits(q[k], u)
    BY <1>11, <1>12, <2>1
  <2>3. n \in Nat /\ d \in [1..n -> Seq(Nat)]
    BY <1>7, <1>13
  <2> QED BY ONLY <1>14, <2>1, <2>2, <2>3, DeliversIs, Zenon
<1>16. RefLengthsSum(offset, q) = offset + l
  <2> DEFINE t(k) == IF k * room <= l THEN k * room ELSE l
             T == [k \in 0..n |-> offset + t(k)]
  <2>1. DOMAIN q = 1..n /\ \A k \in 1..n : q[k].refLength = Len(piece[k])
    BY <1>10
  <2>2. T[0] = offset /\ T[n] = offset + l
    <3>1. 0 * room = 0 /\ t(0) = 0
      BY <1>2, <1>4
    <3>2. t(n) = l
      <4> DEFINE w == n * room
      <4>1. w \in Nat
        BY <1>2, <1>7
      <4>2. w >= l
        BY <1>8
      <4> HIDE DEF w
      <4>3. (IF w <= l THEN w ELSE l) = l
        BY <1>4, <4>1, <4>2
      <4> QED BY <4>3 DEF w
    <3>3. 0 \in 0..n /\ n \in 0..n
      BY <1>7
    <3> HIDE DEF t
    <3> QED BY <3>1, <3>2, <3>3
  <2>3. ASSUME NEW k \in 1..n PROVE T[k] = T[k - 1] + Len(piece[k])
    <3> DEFINE j == k - 1
               i == j * room
               z == Len(piece[k])
    <3>1. k \in 0..n /\ j \in 0..n
      BY <1>7
    <3>2. T[k] = offset + t(k) /\ T[j] = offset + t(j)
      BY <3>1
    <3>3. i \in Nat /\ i < l /\ z \in Nat /\ i + z = t(k)
      BY <1>7, <1>8, <1>9
    <3>4. t(j) = i
      <4>1. t(j) = IF i <= l THEN i ELSE l
        OBVIOUS
      <4> HIDE DEF i, t
      <4> QED BY <1>4, <3>3, <4>1
    <3> HIDE DEF i, z, t, T, j
    <3>5. T[k] = T[j] + z
      BY <3>2, <3>3, <3>4
    <3> QED BY <3>5 DEF j, z
  <2> HIDE DEF q, T, t
  <2>4. RefLengthsUpTo(T, n, offset, q)
    BY <1>9, <2>1, <2>2, <2>3 DEF RefLengthsUpTo
  <2>5. RefLengthsSum(offset, q) = T[n]
    BY <1>7, <2>4, RefLengthsAdded
  <2> QED BY <2>2, <2>5
<1> HIDE DEF q
<1>17. offset + l \in Nat /\ offset + l <= offset + Len(x)
  BY <1>3, <1>4
<1> QED BY <1>1, <1>15, <1>16, <1>17 DEF PaysFor

LEMMA NaluPays ==
    ASSUME NEW x, Allowed(x), NEW offset \in Nat, NEW u \in Nat, offset + Len(x) <= u
    PROVE  PaysFor(createPayloadFromNalu(x, offset), x, offset, u)
BY SinglePays, FragmentsPay

(* A frame in which the payloader finds the NALUs one after the other.     *)
Cutting(b, n, nalu, at, begin) ==
    /\ b \in Seq(Nat) /\ n \in Nat \ {0} /\ at \in [0..n -> Nat] /\ at[0] = 0 /\ at[n] = Len(b)
    /\ \A k \in 1..n :
        /\ Allowed(nalu[k]) /\ begin[k] \in Nat
        /\ at[k - 1] <= begin[k] /\ begin[k] + Len(nalu[k]) = at[k] /\ at[k] <= Len(b)
        /\ k < n => at[k] < Len(b)
        /\ NextNalu(b, at[k - 1], NALU_isAnnexBFrame(b)) = {[begin |-> begin[k], end |-> at[k]]}
        /\ Bytes(b, begin[k], Len(nalu[k])) = nalu[k]

(* A layout whose every NALU is cut out at its place is cut as a whole.    *)
LEMMA LaidOutCut ==
    ASSUME NEW b, NEW n \in Nat \ {0}, NEW head, NEW nalu, NEW at, NEW begin, LaidOut(b, n, head, nalu, at, begin),
           \A k \in 1..n : Allowed(nalu[k]),
           \A k \in 1..n :
                NextNalu(b, at[k - 1], NALU_isAnnexBFrame(b)) = {[begin |-> begin[k], end |-> at[k]]}
    PROVE  Cutting(b, n, nalu, at, begin)
<1>1. b \in Seq(Nat) /\ at \in [0..n -> Nat] /\ at[0] = 0 /\ at[n] = Len(b)
  BY DEF LaidOut
<1>2. ASSUME NEW k \in 1..n
      PROVE  /\ begin[k] \in Nat /\ at[k - 1] \in Nat /\ at[k - 1] <= begin[k] /\ at[k - 1] + 2 <= Len(b)
             /\ begin[k] + Len(nalu[k]) = at[k] /\ at[k] <= Len(b)
             /\ Bytes(b, begin[k], Len(nalu[k])) = nalu[k]
  <2>1. Allowed(nalu[k])
    OBVIOUS
  <2>2. /\ at[k - 1] \in Nat /\ at[k] \in Nat /\ begin[k] \in Nat /\ Len(b) \in Nat
        /\ Len(nalu[k]) \in Nat /\ Len(head[k]) \in Nat
        /\ at[k - 1] + Len(head[k]) = begin[k] /\ begin[k] + 2 <= at[k] /\ at[k] <= Len(b)
        /\ at[k] = begin[k] + Len(nalu[k])
    BY <2>1, PlacesIn
  <2>3. Bytes(b, begin[k], Len(nalu[k])) = nalu[k]
    BY <2>1, HeadLies
  <2> DEFINE y == at[k - 1]
             z == Len(head[k])
             x == begin[k]
             w == at[k]
             l == Len(b)
  <2>4. y \in Nat /\ z \in Nat /\ y + z = x /\ x + 2 <= w /\ w <= l /\ x \in Nat /\ w \in Nat /\ l \in Nat
    BY <2>2
  <2> HIDE DEF y, z, x, w, l
  <2>5. y <= x /\ y + 2 <= l
    BY <2>4
  <2> QED BY <2>2, <2>3, <2>5 DEF y, x, l
<1>3. ASSUME NEW k \in 1..n, k < n PROVE at[k] < Len(b)
  <2> DEFINE j == k + 1
  <2>1. j \in 1..n /\ j - 1 = k
    BY <1>3
  <2> HIDE DEF j
  <2>2. at[j - 1] \in Nat /\ at[j - 1] + 2 <= Len(b)
    BY <1>2, <2>1
  <2>3. at[k] \in Nat /\ at[k] + 2 <= Len(b) /\ Len(b) \in Nat
    BY <1>1, <2>1, <2>2
  <2> QED BY <2>3
<1> QED BY <1>1, <1>2, <1>3 DEF Cutting

LEMMA AnnexBCut ==
    ASSUME NEW b, NEW n, NEW code, NEW nalu, NEW at, NEW begin, AnnexBLaid(b, n, code, nalu, at, begin)
    PROVE  Cutting(b, n, nalu, at, begin)
<1>1. /\ n \in Nat \ {0} /\ LaidOut(b, n, Codes(n, code), nalu, at, begin)
      /\ \A k \in 1..n : Allowed(nalu[k])
  BY DEF AnnexBLaid, AllowedFile
<1>2. NALU_isAnnexBFrame(b)
  BY AnnexBSearch
<1>3. ASSUME NEW k \in 1..n
      PROVE  NextNalu(b, at[k - 1], NALU_isAnnexBFrame(b)) = {[begin |-> begin[k], end |-> at[k]]}
  <2>1. CodeLength(b, at[k - 1]) = code[k] /\ at[k - 1] + code[k] = begin[k] /\ code[k] \in {3, 4}
    BY CodeLiesAt
  <2>2. NextStartCode(b, begin[k]) = at[k]
    BY NextStartCodeIn
  <2> QED BY <1>2, <2>1, <2>2 DEF NextNalu
<1> QED BY <1>1, <1>3, LaidOutCut

LEMMA AvccCut ==
    ASSUME NEW b, NEW n, NEW nalu, NEW at, NEW begin, AvccLaid(b, n, nalu, at, begin)
    PROVE  Cutting(b, n, nalu, at, begin)
<1>1. /\ n \in Nat \ {0} /\ LaidOut(b, n, Lengths(n, nalu), nalu, at, begin)
      /\ \A k \in 1..n : Allowed(nalu[k])
  BY DEF AvccLaid, AvccFile
<1>2. ~NALU_isAnnexBFrame(b)
  BY AvccNoCode
<1>3. ASSUME NEW k \in 1..n
      PROVE  NextNalu(b, at[k - 1], NALU_isAnnexBFrame(b)) = {[begin |-> begin[k], end |-> at[k]]}
  <2> DEFINE i == at[k - 1]
  <2>1. /\ i + 4 = begin[k] /\ i \in Nat /\ i < Len(b) - 4 /\ Len(b) \in Nat
        /\ at[k] = begin[k] + Len(nalu[k]) /\ LengthAt(b, i) = Len(nalu[k])
    BY LengthLies
  <2> HIDE DEF i
  <2>2. ~(Len(b) - i < 4)
    BY <2>1
  <2>3. NextNalu(b, i, FALSE) = {[begin |-> i + 4, end |-> i + 4 + LengthAt(b, i)]}
    BY <2>2 DEF NextNalu
  <2>4. NALU_isAnnexBFrame(b) = FALSE
    BY <1>2 DEF NALU_isAnnexBFrame
  <2>5. [begin |-> i + 4, end |-> i + 4 + LengthAt(b, i)] = [begin |-> begin[k], end |-> at[k]]
    BY <2>1
  <2> QED BY <2>3, <2>4, <2>5 DEF i
<1> QED BY <1>1, <1>3, LaidOutCut

(* A round cuts one NALU, and asks for those behind it.                    *)
RoundCuts(b, f, n, nalu, at, k, o) ==
    \E p, next :
        /\ Delivers("H264", p, Len(b), StartCode(4) \o nalu[k]) /\ next \in 0..at[k]
        /\ k = n => PayloadsAt(b, f, at[k - 1], o) = {p}
        /\ k < n => PayloadsAt(b, f, at[k - 1], o) = {p \o rest : rest \in f[at[k]][next]}

(* One round of the payloader sends one NALU and goes on at the next.      *)
LEMMA RoundIs ==
    ASSUME NEW b, NEW n, NEW nalu, NEW at, NEW begin, Cutting(b, n, nalu, at, begin),
           NEW k \in 1..n, NEW o \in 0..at[k - 1], NEW f
    PROVE  RoundCuts(b, f, n, nalu, at, k, o)
<1> DEFINE i == at[k - 1]
           x == nalu[k]
           offset == o + begin[k] - i
           made == createPayloadFromNalu(x, offset)
           next == RefLengthsSum(offset, made)
           r == [begin |-> begin[k], end |-> at[k]]
<1>1. /\ b \in Seq(Nat) /\ n \in Nat \ {0} /\ Len(b) \in Nat
      /\ Allowed(x) /\ begin[k] \in Nat /\ i <= begin[k] /\ begin[k] + Len(x) = at[k] /\ at[k] <= Len(b)
      /\ k < n => at[k] < Len(b)
      /\ k = n => at[k] = Len(b)
      /\ NextNalu(b, i, NALU_isAnnexBFrame(b)) = {r}
      /\ Bytes(b, begin[k], Len(x)) = x
  <2>1. b \in Seq(Nat) /\ n \in Nat \ {0} /\ at[n] = Len(b)
    BY DEF Cutting
  <2>2. /\ Allowed(x) /\ begin[k] \in Nat /\ i <= begin[k] /\ begin[k] + Len(x) = at[k] /\ at[k] <= Len(b)
        /\ k < n => at[k] < Len(b)
        /\ NextNalu(b, i, NALU_isAnnexBFrame(b)) = {r}
        /\ Bytes(b, begin[k], Len(x)) = x
    BY DEF Cutting
  <2> HIDE DEF r, i, x
  <2> QED BY <2>1, <2>2
<1>2. Len(x) \in Nat /\ Len(x) >= 2
  BY <1>1, AllowedLength
<1>3. i \in Nat /\ at[k] \in Nat
  <2>1. n \in Nat /\ at \in [0..n -> Nat]
    BY DEF Cutting
  <2>2. k - 1 \in 0..n /\ k \in 0..n
    BY <2>1
  <2> QED BY <2>1, <2>2
<1> HIDE DEF i, x
<1>4. o \in Nat /\ o <= i
  BY <1>3 DEF i
<1>5. offset \in Nat /\ offset <= begin[k] /\ offset + Len(x) <= Len(b) /\ offset + Len(x) <= at[k]
  <2> DEFINE g == begin[k]
             e == at[k]
             z == Len(x)
             l == Len(b)
  <2>1. /\ g \in Nat /\ e \in Nat /\ z \in Nat /\ l \in Nat /\ i \in Nat /\ o \in Nat
        /\ i <= g /\ g + z = e /\ e <= l /\ o <= i /\ offset = o + g - i
    BY <1>1, <1>2, <1>3, <1>4
  <2> HIDE DEF g, e, z, l, offset
  <2>2. offset \in Nat /\ offset <= g /\ offset + z <= l /\ offset + z <= e
    BY <2>1
  <2> QED BY <2>2 DEF g, e, z, l
<1> HIDE DEF offset
<1>6. PaysFor(made, x, offset, Len(b))
  BY <1>1, <1>5, NaluPays
<1> HIDE DEF made, next
<1>7. Delivers("H264", made, Len(b), StartCode(4) \o x) /\ next \in 0..at[k]
  <2>1. next \in Nat /\ next <= offset + Len(x)
    BY <1>6 DEF PaysFor, next
  <2> QED BY <1>2, <1>3, <1>5, <1>6, <2>1 DEF PaysFor
<1>8. /\ r.begin = begin[k] /\ r.end = at[k] /\ o + r.begin - i = offset
      /\ Bytes(b, r.begin, r.end - r.begin) = x
  <2>1. at[k] - begin[k] = Len(x)
    BY <1>1, <1>2
  <2> QED BY <1>1, <2>1 DEF offset
<1>9. PayloadsAt(b, f, i, o) = Round(b, f, i, o, r)
  <2> HIDE DEF r
  <2> QED BY <1>1 DEF PayloadsAt
<1> HIDE DEF r
<1>10. Round(b, f, i, o, r) = IF begin[k] = Len(b) THEN {<<>>}
                              ELSE CASE at[k] = Len(b) -> {made}
                                     [] at[k] > Len(b) -> Anything
                                     [] OTHER -> {made \o rest : rest \in f[at[k]][next]}
  <2> DEFINE g == r.begin
             e == r.end
             t == o + g - i
             p == createPayloadFromNalu(Bytes(b, g, e - g), t)
             y == RefLengthsSum(t, p)
  <2>1. Round(b, f, i, o, r) = IF g = Len(b) THEN {<<>>}
                              ELSE CASE e = Len(b) -> {p}
                                     [] e > Len(b) -> Anything
                                     [] OTHER -> {p \o rest : rest \in f[e][y]}
    BY Zenon DEF Round, RefLengthsSum
  <2>2. g = begin[k] /\ e = at[k] /\ t = offset /\ Bytes(b, g, e - g) = x
    BY <1>8
  <2>3. p = made
    BY <2>2, Zenon DEF made
  <2>4. y = next
    BY <2>2, <2>3, Zenon DEF next
  <2> HIDE DEF g, e, t, p, y
  <2> QED BY <2>1, <2>2, <2>3, <2>4, Zenon
<1>11. begin[k] # Len(b)
  BY <1>1, <1>2
<1> DEFINE Joined == {made \o rest : rest \in f[at[k]][next]}
<1>12. k = n => Round(b, f, i, o, r) = {made}
  <2> SUFFICES ASSUME k = n PROVE Round(b, f, i, o, r) = {made}
    OBVIOUS
  <2>1. at[k] = Len(b) /\ ~(at[k] > Len(b))
    BY <1>1
  <2> HIDE DEF Joined
  <2> QED BY <1>10, <1>11, <2>1 DEF Joined
<1>13. k < n => Round(b, f, i, o, r) = Joined
  <2> SUFFICES ASSUME k < n PROVE Round(b, f, i, o, r) = Joined
    OBVIOUS
  <2>1. at[k] # Len(b) /\ ~(at[k] > Len(b))
    BY <1>1, <1>3
  <2> QED BY <1>10, <1>11, <2>1, Zenon
<1>14. RoundCuts(b, f, n, nalu, at, k, o)
  <2>1. k = n => PayloadsAt(b, f, i, o) = {made}
    BY <1>9, <1>12, Zenon
  <2>2. k < n => PayloadsAt(b, f, i, o) = {made \o rest : rest \in f[at[k]][next]}
    BY <1>9, <1>13, Zenon
  <2> QED BY <1>7, <2>1, <2>2, Zenon DEF RoundCuts, i, x
<1> QED BY <1>14

(* Those behind the first k.                                               *)
Behind(n, q, k) == [j \in 1..n - k |-> q[k + j]]

LEMMA BehindIs ==
    ASSUME NEW n \in Nat, NEW q \in [1..n -> Seq(Nat)], NEW k \in 1..n
    PROVE  /\ FlattenSeq(Behind(n, q, k)) \in Seq(Nat)
           /\ FlattenSeq(Behind(n, q, k - 1)) = q[k] \o FlattenSeq(Behind(n, q, k))
           /\ k = n => FlattenSeq(Behind(n, q, k - 1)) = q[k]
<1> DEFINE s == Behind(n, q, k - 1)
           r == Behind(n, q, k)
           m == n - k
<1>1. m \in Nat /\ n - (k - 1) = m + 1 /\ q[k] \in Seq(Nat)
  OBVIOUS
<1>2. s = [j \in 1..m + 1 |-> q[k - 1 + j]] /\ r = [j \in 1..m |-> q[k + j]]
  BY <1>1 DEF Behind
<1>3. \A j \in 1..m + 1 : k - 1 + j \in 1..n
  OBVIOUS
<1>4. \A j \in 1..m : k + j \in 1..n /\ j + 1 \in 1..m + 1 /\ k - 1 + (j + 1) = k + j
  OBVIOUS
<1> HIDE DEF s, r, m
<1>5. s \in Seq(Seq(Nat)) /\ Len(s) = m + 1
  <2>1. s \in [1..m + 1 -> Seq(Nat)] /\ m + 1 \in Nat
    BY <1>1, <1>2, <1>3
  <2> QED BY <2>1, FunctionIsSeq
<1>6. r \in Seq(Seq(Nat)) /\ Len(r) = m
  <2>1. r \in [1..m -> Seq(Nat)]
    BY <1>1, <1>2, <1>4
  <2> QED BY <1>1, <2>1, FunctionIsSeq
<1>7. s # <<>> /\ Head(s) = q[k]
  <2>1. s # <<>> /\ Head(s) = s[1]
    BY <1>1, <1>5
  <2>2. 1 \in 1..m + 1 /\ k - 1 + 1 = k
    BY <1>1
  <2>3. s[1] = q[k]
    BY <1>2, <2>2
  <2> QED BY <2>1, <2>3
<1>8. Tail(s) = r
  <2> DEFINE t == Tail(s)
  <2>1. t \in Seq(Seq(Nat)) /\ Len(t) = m /\ \A j \in 1..m : t[j] = s[j + 1]
    BY <1>1, <1>5, <1>7, HeadTailProperties
  <2> HIDE DEF t
  <2>2. t = [j \in 1..m |-> t[j]]
    BY <2>1
  <2>3. \A j \in 1..m : s[j + 1] = q[k + j]
    BY <1>2, <1>4
  <2> QED BY <1>2, <2>1, <2>2, <2>3 DEF t
<1>9. FlattenSeq(s) = q[k] \o FlattenSeq(r)
  <2>1. FlattenSeq(s) = Head(s) \o FlattenSeq(Tail(s))
    BY <1>5, <1>7, FlattenCons
  <2> QED BY <1>7, <1>8, <2>1
<1>10. FlattenSeq(r) \in Seq(Nat)
  BY <1>6, FlattenType
<1>11. k = n => FlattenSeq(s) = q[k]
  <2> SUFFICES ASSUME k = n PROVE FlattenSeq(s) = q[k]
    OBVIOUS
  <2>1. m = 0
    BY DEF m
  <2>2. s = <<q[k]>>
    <3>1. s = [j \in 1..1 |-> q[k]]
      <4>1. s = [j \in 1..1 |-> q[k - 1 + j]] /\ \A j \in 1..1 : k - 1 + j = k
        BY <1>2, <2>1
      <4> QED BY <4>1
    <3> QED BY <3>1
  <2> QED BY <1>1, <2>2, FlattenOne
<1> QED BY <1>9, <1>10, <1>11 DEF s, r

(* The payloader makes one list of payloads of b, and it arrives as the NALUs. *)
Sent(b, n, nalu) ==
    \E p : /\ createPayloadForH264(b) = {p}
           /\ Delivers("H264", p, Len(b), FlattenSeq([k \in 1..n |-> StartCode(4) \o nalu[k]]))

(* A frame cut into its NALUs arrives as these, behind start codes.        *)
LEMMA CutDelivers ==
    ASSUME NEW b, NEW n, NEW nalu, NEW at, NEW begin, Cutting(b, n, nalu, at, begin)
    PROVE  Sent(b, n, nalu)
<1> DEFINE Is(f) == f = [i \in Nat |-> [o \in Nat |-> PayloadsAt(b, f, i, o)]]
           made == CHOOSE f : Is(f)
           q == [k \in 1..n |-> StartCode(4) \o nalu[k]]
<1>0. b \in Seq(Nat) /\ n \in Nat \ {0} /\ at \in [0..n -> Nat] /\ at[0] = 0
      /\ \A k \in 1..n : Allowed(nalu[k])
  BY DEF Cutting
<1>1. Is(made)
  <2>1. \E f : Is(f)
    BY <1>0, PayloadsExist
  <2> HIDE DEF Is
  <2> QED BY <2>1
<1>2. createPayloadForH264(b) = made[0][0]
  BY Zenon DEF createPayloadForH264, PayloadsAt, Round
<1> HIDE DEF made
<1>3. \A i, o \in Nat : made[i][o] = PayloadsAt(b, made, i, o)
  <2>1. \A i \in Nat : made[i] = [o \in Nat |-> PayloadsAt(b, made, i, o)]
    BY <1>1
  <2> QED BY <2>1
<1> HIDE DEF Is
<1>4. q \in [1..n -> Seq(Nat)] /\ \A k \in 1..n : q[k] = StartCode(4) \o nalu[k]
  <2>1. \A k \in 1..n : StartCode(4) \o nalu[k] \in Seq(Nat)
    <3> SUFFICES ASSUME NEW k \in 1..n PROVE StartCode(4) \o nalu[k] \in Seq(Nat)
      OBVIOUS
    <3>1. nalu[k] \in Seq(Nat)
      BY <1>0, AllowedHead
    <3> QED BY <3>1, StartCodeType, ConcatProperties
  <2> QED BY <2>1
<1> HIDE DEF q
<1> DEFINE D(p, k) == Delivers("H264", p, Len(b), FlattenSeq(Behind(n, q, k - 1)))
           C(k) == \A o \in 0..at[k - 1] : \E p : made[at[k - 1]][o] = {p} /\ D(p, k)
           P == {j \in 0..n - 1 : C(n - j)}
<1>5. \A k \in 1..n : k - 1 \in 0..n /\ at[k - 1] \in Nat
  BY <1>0
<1>6. C(n)
  <2>1. n \in 1..n /\ at[n - 1] \in Nat
    BY <1>0, <1>5
  <2> SUFFICES ASSUME NEW o \in 0..at[n - 1] PROVE \E p : made[at[n - 1]][o] = {p} /\ D(p, n)
    OBVIOUS
  <2>2. PICK p : Delivers("H264", p, Len(b), StartCode(4) \o nalu[n]) /\ PayloadsAt(b, made, at[n - 1], o) = {p}
    <3>1. RoundCuts(b, made, n, nalu, at, n, o)
      BY <2>1, RoundIs
    <3> QED BY <3>1, Zenon DEF RoundCuts
  <2>3. made[at[n - 1]][o] = PayloadsAt(b, made, at[n - 1], o)
    <3>1. o \in Nat
      BY <2>1
    <3> QED BY <1>3, <2>1, <3>1
  <2>4. FlattenSeq(Behind(n, q, n - 1)) = StartCode(4) \o nalu[n]
    <3>1. FlattenSeq(Behind(n, q, n - 1)) = q[n]
      BY <1>0, <1>4, <2>1, BehindIs
    <3> QED BY <1>4, <2>1, <3>1
  <2>5. D(p, n)
    BY <2>2, <2>4, Zenon
  <2> HIDE DEF D
  <2> QED BY <2>2, <2>3, <2>5, Zenon
<1>7. ASSUME NEW k \in 1..n - 1, C(k + 1) PROVE C(k)
  <2>1. k \in 1..n /\ k < n /\ at[k - 1] \in Nat /\ at[k] \in Nat /\ (k + 1) - 1 = k
    BY <1>0, <1>5
  <2> SUFFICES ASSUME NEW o \in 0..at[k - 1] PROVE \E p : made[at[k - 1]][o] = {p} /\ D(p, k)
    OBVIOUS
  <2>2. PICK p, next : /\ Delivers("H264", p, Len(b), StartCode(4) \o nalu[k]) /\ next \in 0..at[k]
                       /\ k < n => PayloadsAt(b, made, at[k - 1], o) = {p \o rest : rest \in made[at[k]][next]}
    <3>1. RoundCuts(b, made, n, nalu, at, k, o)
      BY <2>1, RoundIs
    <3> QED BY <3>1, Zenon DEF RoundCuts
  <2>3. \E r : made[at[k]][next] = {r} /\ Delivers("H264", r, Len(b), FlattenSeq(Behind(n, q, k)))
    <3>1. \A y \in 0..at[(k + 1) - 1] : \E r : made[at[(k + 1) - 1]][y] = {r} /\ D(r, k + 1)
      BY <1>7
    <3> QED BY <2>1, <2>2, <3>1
  <2>4. PICK r : made[at[k]][next] = {r} /\ Delivers("H264", r, Len(b), FlattenSeq(Behind(n, q, k)))
    BY <2>3, Zenon
  <2>5. PayloadsAt(b, made, at[k - 1], o) = {p \o r}
    <3>1. PayloadsAt(b, made, at[k - 1], o) = {p \o rest : rest \in made[at[k]][next]}
      BY <2>1, <2>2, Zenon
    <3>2. PayloadsAt(b, made, at[k - 1], o) = {p \o rest : rest \in {r}}
      BY <2>4, <3>1, Zenon
    <3> QED BY <3>2
  <2>6. made[at[k - 1]][o] = {p \o r}
    <3>1. o \in Nat
      BY <2>1
    <3> QED BY <1>3, <2>1, <2>5, <3>1
  <2>7. FlattenSeq(Behind(n, q, k - 1)) = (StartCode(4) \o nalu[k]) \o FlattenSeq(Behind(n, q, k))
    <3>1. FlattenSeq(Behind(n, q, k - 1)) = q[k] \o FlattenSeq(Behind(n, q, k))
      BY <1>0, <1>4, <2>1, BehindIs
    <3>2. q[k] = StartCode(4) \o nalu[k]
      BY <1>4, <2>1
    <3> QED BY <3>1, <3>2, Zenon
  <2>8. Delivers("H264", p \o r, Len(b), (StartCode(4) \o nalu[k]) \o FlattenSeq(Behind(n, q, k)))
    BY <2>2, <2>4, DeliversJoined, Zenon
  <2>9. D(p \o r, k)
    BY <2>7, <2>8, Zenon
  <2> HIDE DEF D
  <2> QED BY <2>6, <2>9, Zenon
<1>8. 0 \in P
  <2>1. n - 0 = n /\ 0 \in 0..n - 1
    BY <1>0
  <2> HIDE DEF C
  <2> QED BY <1>6, <2>1
<1>9. ASSUME NEW j \in 1..n - 1, j - 1 \in P PROVE j \in P
  <2> HIDE DEF C
  <2> DEFINE k == n - j
  <2>1. k \in 1..n - 1 /\ n - (j - 1) = k + 1 /\ j \in 0..n - 1
    BY <1>0
  <2>2. C(n - (j - 1))
    BY <1>9
  <2> HIDE DEF k
  <2>3. C(k)
    BY <1>7, <2>1, <2>2
  <2> QED BY <2>1, <2>3 DEF k
<1> HIDE DEF P
<1>10. n - 1 \in P
  <2>1. n - 1 \in Nat
    BY <1>0
  <2> QED BY <1>8, <1>9, <2>1, UpTo
<1>11. C(1)
  <2> HIDE DEF C
  <2>1. n - (n - 1) = 1
    BY <1>0
  <2> QED BY <1>10, <2>1 DEF P
<1>12. PICK p : made[0][0] = {p} /\ D(p, 1)
  <2>1. 0 \in 0..at[1 - 1] /\ at[1 - 1] = 0
    BY <1>0
  <2> HIDE DEF D
  <2> QED BY <1>11, <2>1
<1>13. Behind(n, q, 1 - 1) = q
  <2>1. n - (1 - 1) = n /\ \A j \in 1..n : (1 - 1) + j = j
    BY <1>0
  <2>2. q = [k \in 1..n |-> q[k]]
    BY <1>4
  <2> QED BY <2>1, <2>2 DEF Behind
<1> QED BY <1>2, <1>12, <1>13, Zenon DEF Sent, q

-----------------------------------------------------------------------------
(* The other codecs, and a far side that sends.                            *)

(* The payloads of a codec that cuts a frame in pieces and needs nothing   *)
(* of it in its headers.                                                   *)
Pieces(c, q, b, room) ==
    /\ q = [k \in 1..PieceCount(b, room) |-> q[k]]
    /\ \A k \in 1..PieceCount(b, room) :
        /\ depay(c, q[k]) = Piece(b, room, k) /\ q[k].data = Piece(b, room, k)
        /\ q[k].refOffset = (k - 1) * room /\ q[k].refLength = Len(Piece(b, room, k))
        /\ HeaderSize(q[k].header.type) \in Nat /\ HeaderSize(q[k].header.type) + room <= Mtu

(* A frame cut into pieces arrives as it was.                              *)
LEMMA PiecesDeliver ==
    ASSUME NEW c, NEW b \in Seq(Nat), NEW room \in Nat \ {0}, NEW q, Pieces(c, q, b, room)
    PROVE  Delivers(c, q, Len(b), b)
<1> DEFINE n == PieceCount(b, room)
           l == Len(b)
           piece == [k \in 1..n |-> Piece(b, room, k)]
<1>1. /\ n \in Nat /\ piece \in [1..n -> Seq(Nat)] /\ FlattenSeq(piece) = b
      /\ \A k \in 1..n : /\ (k - 1) * room \in Nat /\ Len(Piece(b, room, k)) <= room
                         /\ (k - 1) * room + Len(Piece(b, room, k)) = IF k * room <= l THEN k * room ELSE l
  BY PiecesAre
<1>2. l \in Nat /\ Mtu \in Nat
  BY MtuAssumption
<1>3. \A k \in 1..n : piece[k] = Piece(b, room, k) /\ Len(piece[k]) \in Nat
  BY <1>1
<1>4. /\ q = [k \in 1..n |-> q[k]]
      /\ \A k \in 1..n :
            /\ depay(c, q[k]) = Piece(b, room, k) /\ q[k].data = Piece(b, room, k)
            /\ q[k].refOffset = (k - 1) * room /\ q[k].refLength = Len(Piece(b, room, k))
            /\ HeaderSize(q[k].header.type) \in Nat /\ HeaderSize(q[k].header.type) + room <= Mtu
  BY DEF Pieces
<1> HIDE DEF n, piece, l
<1>5. ASSUME NEW k \in 1..n PROVE Fits(q[k], l)
  <2> DEFINE i == (k - 1) * room
             z == Len(Piece(b, room, k))
             w == k * room
             h == HeaderSize(q[k].header.type)
  <2>1. /\ i \in Nat /\ z \in Nat /\ z <= room /\ i + z = IF w <= l THEN w ELSE l
        /\ h \in Nat /\ h + room <= Mtu
        /\ Len(q[k].data) = z /\ q[k].refOffset = i /\ q[k].refLength = z
    BY <1>1, <1>3, <1>4
  <2> HIDE DEF i, z, w, h
  <2>2. i + z \in Nat
    BY <2>1
  <2>3. h + z <= Mtu /\ i + z <= l /\ i + z \in Nat
    BY <1>2, <2>1, <2>2
  <2> QED BY <2>1, <2>3 DEF Fits, h
<1>6. \A k \in 1..n : depay(c, q[k]) = piece[k] /\ Fits(q[k], l)
  BY <1>3, <1>4, <1>5
<1>7. q = [k \in 1..n |-> q[k]]
  BY <1>4
<1>8. Delivers(c, q, l, b)
  BY ONLY <1>1, <1>6, <1>7, DeliversIs, Zenon
<1> QED BY <1>8 DEF l

(* What stands behind a header.                                            *)
LEMMA BytesBehind ==
    ASSUME NEW s \in Seq(Nat), NEW t \in Seq(Nat)
    PROVE  Bytes(s \o t, Len(s), Len(s \o t)) = t
<1> DEFINE b == s \o t
           i == Len(s)
           l == Len(t)
           n == Len(b)
           m == IF i + n <= n THEN n ELSE n - i
           r == Bytes(b, i, n)
<1>1. /\ b \in Seq(Nat) /\ n = i + l /\ i \in Nat /\ l \in Nat
      /\ \A k \in 1..l : b[i + k] = t[k]
  <2>1. b \in Seq(Nat) /\ n = i + l /\ i \in Nat /\ l \in Nat
    BY ConcatProperties
  <2>2. ASSUME NEW k \in 1..l PROVE b[i + k] = t[k]
    <3>1. \A j \in 1..i + l : b[j] = IF j <= i THEN s[j] ELSE t[j - i]
      BY ConcatProperties
    <3> HIDE DEF b, i, l
    <3> DEFINE j == i + k
    <3>2. j \in 1..i + l /\ ~(j <= i) /\ j - i = k
      BY <2>1
    <3> HIDE DEF j
    <3>3. b[j] = t[k]
      BY <3>1, <3>2
    <3> QED BY <3>3 DEF j
  <2> QED BY <2>1, <2>2
<1> HIDE DEF b
<1>2. i \in 0..n /\ n \in Nat
  BY <1>1
<1>3. r \in Seq(Nat) /\ Len(r) = m /\ \A k \in 1..m : r[k] = b[i + k]
  BY <1>1, <1>2, BytesIs
<1> HIDE DEF r, i, l, n
<1>4. m = l
  BY <1>1, <1>2
<1> HIDE DEF m
<1>5. r = t
  <2>1. Len(r) = Len(t) /\ \A k \in 1..Len(t) : r[k] = t[k]
    BY <1>1, <1>3, <1>4 DEF l
  <2> QED BY <1>3, <2>1, SeqEqual
<1> QED BY <1>5 DEF r, b, i, n

LEMMA VP8Delivers ==
    ASSUME NEW b \in Seq(Nat)
    PROVE  Delivers("VP8", createPayloadForVP8(b), Len(b), b)
<1> DEFINE room == Mtu - VP8DescriptorSize
           n == PieceCount(b, room)
           e(k) == Payload([type |-> "VP8", startOfPartition |-> k = 1, extended |-> FALSE, has |-> {},
                            pid16 |-> FALSE, descriptor |-> <<0>>],
                           Piece(b, room, k), (k - 1) * room)
           q == [k \in 1..n |-> e(k)]
<1>1. room \in Nat \ {0} /\ VP8DescriptorSize = 1 /\ 1 + room = Mtu
  BY MtuAssumption DEF VP8DescriptorSize, FuAHeaderSize
<1>2. createPayloadForVP8(b) = q
  BY DEF createPayloadForVP8
<1> HIDE DEF room
<1>3. n \in Nat /\ [k \in 1..n |-> Piece(b, room, k)] \in [1..n -> Seq(Nat)]
  BY <1>1, PiecesAre
<1>4. \A k \in 1..n : Piece(b, room, k) \in Seq(Nat)
  BY <1>3
<1> HIDE DEF n
<1>5. ASSUME NEW k
      PROVE  /\ e(k).header.type = "VP8" /\ e(k).header.extended = FALSE /\ e(k).header.descriptor = <<0>>
             /\ e(k).data = Piece(b, room, k) /\ e(k).refLength = Len(Piece(b, room, k))
             /\ e(k).refOffset = (k - 1) * room
  BY DEF Payload
<1> HIDE DEF e
<1>6. ASSUME NEW k \in 1..n PROVE depay("VP8", e(k)) = Piece(b, room, k)
  <2> DEFINE p == e(k)
             x == Piece(b, room, k)
             packet == <<0>> \o x
  <2>1. p.header.extended = FALSE /\ p.header.descriptor = <<0>> /\ p.data = x
    BY <1>5
  <2>2. x \in Seq(Nat)
    BY <1>4
  <2> HIDE DEF p, x
  <2>3. payloadDescriptorLength(p.header) = 1
    BY <2>1 DEF payloadDescriptorLength
  <2>4. depay("VP8", p) = Bytes(packet, 1, Len(packet))
    BY <2>1, <2>3 DEF depay, depayVP8FromRtpPayload
  <2>5. <<0>> \in Seq(Nat) /\ Len(<<0>>) = 1
    OBVIOUS
  <2>6. Bytes(packet, Len(<<0>>), Len(packet)) = x
    BY <2>2, <2>5, BytesBehind
  <2> QED BY <2>4, <2>5, <2>6 DEF p, x
<1>7. ASSUME NEW k \in 1..n
      PROVE  HeaderSize(e(k).header.type) \in Nat /\ HeaderSize(e(k).header.type) + room <= Mtu
  <2>1. e(k).header.type = "VP8"
    BY <1>5
  <2>2. HeaderSize("VP8") = 1
    BY <1>1 DEF HeaderSize
  <2> QED BY <1>1, <2>1, <2>2
<1>8. q = [k \in 1..n |-> q[k]] /\ \A k \in 1..n : q[k] = e(k)
  OBVIOUS
<1> HIDE DEF q
<1>9. Pieces("VP8", q, b, room)
  BY <1>5, <1>6, <1>7, <1>8 DEF Pieces, n
<1> QED BY <1>1, <1>2, <1>9, PiecesDeliver

LEMMA G711Delivers ==
    ASSUME NEW b \in Seq(Nat)
    PROVE  Delivers("G711", createPayloadForG711(b), Len(b), b)
<1> DEFINE n == PieceCount(b, Mtu)
           e(k) == Payload([type |-> "G711"], Piece(b, Mtu, k), (k - 1) * Mtu)
           q == [k \in 1..n |-> e(k)]
<1>1. Mtu \in Nat \ {0}
  BY MtuAssumption DEF FuAHeaderSize
<1>2. createPayloadForG711(b) = q
  BY DEF createPayloadForG711
<1> HIDE DEF n
<1>5. ASSUME NEW k
      PROVE  /\ e(k).header.type = "G711"
             /\ e(k).data = Piece(b, Mtu, k) /\ e(k).refLength = Len(Piece(b, Mtu, k))
             /\ e(k).refOffset = (k - 1) * Mtu
  BY DEF Payload
<1> HIDE DEF e
<1>6. ASSUME NEW k \in 1..n PROVE depay("G711", e(k)) = Piece(b, Mtu, k)
  BY <1>5 DEF depay, depayG711FromRtpPayload
<1>7. ASSUME NEW k \in 1..n
      PROVE  HeaderSize(e(k).header.type) \in Nat /\ HeaderSize(e(k).header.type) + Mtu <= Mtu
  BY <1>1, <1>5 DEF HeaderSize
<1>8. q = [k \in 1..n |-> q[k]] /\ \A k \in 1..n : q[k] = e(k)
  OBVIOUS
<1> HIDE DEF q
<1>9. Pieces("G711", q, b, Mtu)
  BY <1>5, <1>6, <1>7, <1>8 DEF Pieces, n
<1> QED BY <1>1, <1>2, <1>9, PiecesDeliver

(* A frame in one payload.                                                 *)
LEMMA OneDelivers ==
    ASSUME NEW c, NEW p, NEW u, NEW t \in Seq(Nat), depay(c, p) = t, Fits(p, u)
    PROVE  Delivers(c, <<p>>, u, t)
<1> DEFINE q == <<p>>
           d == <<t>>
<1>1. FlattenSeq(d) = t
  BY FlattenOne
<1>2. d \in [1..1 -> Seq(Nat)] /\ d[1] = t /\ q = [k \in 1..1 |-> q[k]] /\ q[1] = p
  OBVIOUS
<1>3. \A k \in 1..1 : depay(c, q[k]) = d[k] /\ Fits(q[k], u)
  <2>1. \A k \in 1..1 : k = 1
    OBVIOUS
  <2> HIDE DEF q, d
  <2> QED BY <1>2, <2>1, Zenon
<1>4. 1 \in Nat
  OBVIOUS
<1> HIDE DEF q, d
<1>5. Delivers(c, q, u, t)
  BY ONLY <1>1, <1>2, <1>3, <1>4, DeliversIs, Zenon
<1> QED BY <1>5 DEF q

LEMMA OpusDelivers ==
    ASSUME NEW b \in Seq(Nat)
    PROVE  Delivers("Opus", createPayloadForOpus(b), Len(b), b)
<1> DEFINE p == Payload([type |-> "Opus"], b, 0)
<1>1. p.header.type = "Opus" /\ p.data = b
  BY DEF Payload
<1>2. createPayloadForOpus(b) = <<p>>
  BY DEF createPayloadForOpus
<1> HIDE DEF p
<1>3. depay("Opus", p) = b
  BY <1>1 DEF depay, depayOpusFromRtpPayload
<1>4. Fits(p, Len(b))
  BY <1>1 DEF Fits, Cut
<1> QED BY <1>2, <1>3, <1>4, OneDelivers

(* All NALUs of a file in one packet.                                      *)
LEMMA StapADelivers ==
    ASSUME NEW n \in Nat, NEW nalu, NEW x, x = [k \in 1..n |-> nalu[k]],
           \A k \in 1..n : Allowed(nalu[k]), NEW u
    PROVE  Delivers("H264", <<Payload([type |-> "STAP-A"], x, 0)>>, u,
                    FlattenSeq([k \in 1..n |-> StartCode(4) \o nalu[k]]))
<1> DEFINE p == Payload([type |-> "STAP-A"], x, 0)
           q == [k \in 1..n |-> StartCode(4) \o nalu[k]]
           t == FlattenSeq(q)
<1>1. p.header.type = "STAP-A" /\ p.data = x
  BY DEF Payload
<1>2. DOMAIN x = 1..n /\ \A k \in 1..n : x[k] = nalu[k]
  OBVIOUS
<1>3. q = [k \in DOMAIN x |-> StartCode(4) \o x[k]]
  BY <1>2
<1>4. q \in Seq(Seq(Nat))
  <2>1. \A k \in 1..n : StartCode(4) \o nalu[k] \in Seq(Nat)
    <3> SUFFICES ASSUME NEW k \in 1..n PROVE StartCode(4) \o nalu[k] \in Seq(Nat)
      OBVIOUS
    <3>1. nalu[k] \in Seq(Nat)
      BY AllowedHead
    <3> QED BY <3>1, StartCodeType, ConcatProperties
  <2>2. q \in [1..n -> Seq(Nat)]
    BY <2>1
  <2> HIDE DEF q
  <2> QED BY <2>2, FunctionIsSeq
<1>5. t \in Seq(Nat)
  <2> HIDE DEF q
  <2> QED BY <1>4, FlattenType
<1> HIDE DEF p
<1>6. depay("H264", p) = FlattenSeq([k \in DOMAIN x |-> StartCode(4) \o x[k]])
  <2>1. depay("H264", p) = depayH264FromRtpPayload(p)
    BY DEF depay
  <2>2. depayH264FromRtpPayload(p) = FlattenSeq([k \in DOMAIN p.data |-> StartCode(4) \o p.data[k]])
    BY <1>1 DEF depayH264FromRtpPayload
  <2> QED BY <1>1, <2>1, <2>2, Zenon
<1>7. Fits(p, u)
  BY <1>1 DEF Fits, Cut
<1>8. depay("H264", p) = t
  <2> HIDE DEF q
  <2> QED BY <1>3, <1>6, Zenon
<1> HIDE DEF t
<1>9. Delivers("H264", <<p>>, u, t)
  BY <1>5, <1>7, <1>8, OneDelivers
<1> QED BY <1>9, Zenon DEF p, t, q

(* A VP8 partition behind any descriptor.                                  *)
LEMMA DescriptorDelivers ==
    ASSUME NEW b \in Seq(Nat), NEW d \in Descriptors, NEW u
    PROVE  Delivers("VP8", <<Payload(d, b, 0)>>, u, b)
<1> DEFINE p == Payload(d, b, 0)
<1>1. p.header = d /\ p.data = b
  BY DEF Payload
<1> HIDE DEF p
<1> DEFINE Bits == [extended : {TRUE}, pid16 : BOOLEAN, has : SUBSET {"PictureID", "TL0PICIDX", "TID", "KEYIDX"}]
           x(y) == IF "PictureID" \in y.has THEN IF y.pid16 THEN 2 ELSE 1 ELSE 0
           l(y) == Cardinality(y.has \cap {"TL0PICIDX"})
           z(y) == IF y.has \cap {"TID", "KEYIDX"} = {} THEN 0 ELSE 1
           m(y) == x(y) + l(y) + z(y)
<1>2. PICK y \in Bits :
          d = [type |-> "VP8", startOfPartition |-> TRUE, extended |-> TRUE, has |-> y.has, pid16 |-> y.pid16,
               descriptor |-> [k \in 1..2 + m(y) |-> 0]]
  BY DEF Descriptors
<1> DEFINE zeros == [k \in 1..2 + m(y) |-> 0]
<1>3. l(y) = IF "TL0PICIDX" \in y.has THEN 1 ELSE 0
  <2>1. CASE "TL0PICIDX" \in y.has
    <3>1. y.has \cap {"TL0PICIDX"} = {"TL0PICIDX"}
      BY <2>1
    <3> QED BY <2>1, <3>1, FS_Singleton
  <2>2. CASE "TL0PICIDX" \notin y.has
    <3>1. y.has \cap {"TL0PICIDX"} = {}
      BY <2>2
    <3> QED BY <2>2, <3>1, FS_EmptySet
  <2> QED BY <2>1, <2>2
<1>4. x(y) \in Nat /\ l(y) \in Nat /\ z(y) \in Nat
  BY <1>3
<1> HIDE DEF l
<1>5. /\ d.type = "VP8" /\ d.extended = TRUE /\ d.has = y.has /\ d.pid16 = y.pid16 /\ d.descriptor = zeros
  <2> HIDE DEF m
  <2> QED BY <1>2
<1>6. payloadDescriptorLength(d) = 2 + m(y)
  <2>1. {"TID", "KEYIDX"} \cap y.has = y.has \cap {"TID", "KEYIDX"}
    OBVIOUS
  <2>2. payloadDescriptorLength(d) = 1 + (1 + x(y) + (IF "TL0PICIDX" \in y.has THEN 1 ELSE 0) + z(y))
    BY <1>5, <2>1 DEF payloadDescriptorLength
  <2>3. payloadDescriptorLength(d) = 1 + (1 + x(y) + l(y) + z(y))
    BY <1>3, <2>2
  <2> HIDE DEF x, z
  <2> QED BY <1>4, <2>3
<1>7. m(y) \in Nat
  <2> HIDE DEF x, z
  <2> QED BY <1>4
<1> HIDE DEF m, zeros
<1>8. zeros \in Seq(Nat) /\ Len(zeros) = 2 + m(y)
  <2>1. zeros \in [1..2 + m(y) -> Nat]
    BY DEF zeros
  <2>2. 2 + m(y) \in Nat
    BY <1>7
  <2> DEFINE n == 2 + m(y)
  <2> HIDE DEF n
  <2>3. zeros \in Seq(Nat) /\ Len(zeros) = n
    BY <2>1, <2>2, FunctionIsSeq DEF n
  <2> QED BY <2>3 DEF n
<1>9. depay("VP8", p) = b
  <2> DEFINE packet == zeros \o b
  <2>1. depay("VP8", p) = Bytes(packet, Len(zeros), Len(packet))
    <3>1. depay("VP8", p) = depayVP8FromRtpPayload(p)
      BY DEF depay
    <3>2. depayVP8FromRtpPayload(p) = Bytes(d.descriptor \o b, payloadDescriptorLength(d), Len(d.descriptor \o b))
      BY <1>1, Zenon DEF depayVP8FromRtpPayload
    <3>3. payloadDescriptorLength(d) = Len(zeros)
      BY <1>6, <1>8
    <3> QED BY <1>5, <3>1, <3>2, <3>3, Zenon
  <2> QED BY <1>8, <2>1, BytesBehind
<1>10. Fits(p, u)
  BY <1>1, <1>5 DEF Fits, Cut
<1>11. Delivers("VP8", <<p>>, u, b)
  BY <1>9, <1>10, OneDelivers
<1> QED BY <1>11 DEF p

-----------------------------------------------------------------------------
(* A file in a frame.                                                      *)

(* No NALU has a length that reads as a start code: 256 to 511 bytes in    *)
(* the code.                                                               *)
NoLengthIsACode == \A nalu \in Nalus : Len(nalu) \notin Radix..2 * Radix - 1

CodesIn(f) == [k \in DOMAIN f |-> f[k].code]
NalusIn(f) == [k \in DOMAIN f |-> f[k].bytes]
IsFile(f) == \E n \in 1..MaxFileNalus : f \in [1..n -> [code : {3, 4}, bytes : Nalus]]

(* How a file lies in a frame of either format.                            *)
FileLies(f, n) ==
    /\ n \in 1..MaxNalus /\ DOMAIN f = 1..n /\ Len(f) = n
    /\ \A k \in 1..n : NalusIn(f)[k] = f[k].bytes /\ Allowed(f[k].bytes) /\ Allowed(NalusIn(f)[k])
    /\ AnnexB(f) \in Seq(0..Radix - 1) /\ Avcc(f) \in Seq(0..Radix - 1)
    /\ \E at, begin : AnnexBLaid(AnnexB(f), n, CodesIn(f), NalusIn(f), at, begin)
    /\ \E to, start : LaidOut(Avcc(f), n, Lengths(n, NalusIn(f)), NalusIn(f), to, start)
    /\ NoLengthIsACode => AvccFile(n, NalusIn(f))

LEMMA FileIs ==
    ASSUME NEW f, IsFile(f)
    PROVE  \E n : FileLies(f, n)
<1>1. PICK n \in 1..MaxFileNalus : f \in [1..n -> [code : {3, 4}, bytes : Nalus]]
  BY DEF IsFile
<1> DEFINE code == CodesIn(f)
           nalu == NalusIn(f)
           S == 0..Radix - 1
<1>2. n \in Nat \ {0} /\ n \in 1..MaxNalus
  <2>1. MaxFileNalus \in 1..MaxNalus /\ MaxNalus \in Nat
    BY VideoSourceAssumption, NaluAssumption
  <2> QED BY <1>1, <2>1
<1>3. DOMAIN f = 1..n /\ Len(f) = n
  BY <1>1, <1>2
<1>4. \A k \in 1..n : f[k].code \in {3, 4} /\ f[k].bytes \in Nalus
  BY <1>1
<1>5. \A k \in 1..n : code[k] = f[k].code /\ nalu[k] = f[k].bytes
  BY <1>3 DEF CodesIn, NalusIn
<1>6. DOMAIN code = 1..n /\ DOMAIN nalu = 1..n
      /\ code = [k \in 1..n |-> code[k]] /\ nalu = [k \in 1..n |-> nalu[k]]
  BY <1>3 DEF CodesIn, NalusIn
<1>7. AnnexB(f) = FlattenSeq([k \in 1..n |-> StartCode(f[k].code) \o f[k].bytes])
  BY <1>3 DEF AnnexB
<1>8. Avcc(f) = FlattenSeq([k \in 1..n |-> BigEndian(Len(f[k].bytes)) \o f[k].bytes])
  BY <1>3 DEF Avcc
<1> HIDE DEF code, nalu
<1>9. \A k \in 1..n : Allowed(nalu[k]) /\ nalu[k] \in Nalus
  BY <1>4, <1>5, VideoSourceAssumption
<1>10. AllowedFile(n, code, nalu)
  <2>1. code \in [1..n -> {3, 4}]
    BY <1>4, <1>5, <1>6
  <2> QED BY <1>2, <1>9, <2>1 DEF AllowedFile
<1>11. nalu \in [1..n -> Seq(S)] /\ S \in SUBSET Nat
  <2>1. \A k \in 1..n : nalu[k] \in Seq(S)
    BY <1>9 DEF Allowed
  <2>2. nalu \in [1..n -> Seq(S)]
    <3> HIDE DEF S
    <3> QED BY <1>6, <2>1
  <2>3. S \in SUBSET Nat
    BY NaluAssumption
  <2> QED BY <2>2, <2>3
<1>12. AnnexB(f) \in Seq(S) /\ \E at, begin : AnnexBLaid(AnnexB(f), n, code, nalu, at, begin)
  <2> DEFINE head == Codes(n, code)
  <2>1. head \in [1..n -> Seq(S)] /\ \A k \in 1..n : head[k] = StartCode(code[k])
    <3>1. 0 \in S /\ 1 \in S
      BY NaluAssumption
    <3>2. StartCode(3) \in Seq(S) /\ StartCode(4) \in Seq(S)
      <4> HIDE DEF S
      <4> QED BY <3>1 DEF StartCode
    <3>3. \A k \in 1..n : StartCode(code[k]) \in Seq(S)
      BY <1>4, <1>5, <3>2
    <3> HIDE DEF S
    <3> QED BY <3>3 DEF Codes
  <2> HIDE DEF head, S
  <2> DEFINE b == FlattenSeq([k \in 1..n |-> head[k] \o nalu[k]])
  <2>2. b \in Seq(S) /\ \E at, begin : LaidOut(b, n, head, nalu, at, begin)
    BY <1>2, <1>11, <2>1, LaidOutIs, ZenonT(30)
  <2>3. \A k \in 1..n : head[k] \o nalu[k] = StartCode(f[k].code) \o f[k].bytes
    BY <1>5, <2>1
  <2>4. b = AnnexB(f)
    <3>1. [k \in 1..n |-> head[k] \o nalu[k]] = [k \in 1..n |-> StartCode(f[k].code) \o f[k].bytes]
      BY <2>3, Zenon
    <3> QED BY <1>7, <3>1, Zenon
  <2> HIDE DEF b
  <2> QED BY <1>10, <2>2, <2>4, Zenon DEF AnnexBLaid, head
<1>13. Avcc(f) \in Seq(S) /\ \E to, start : LaidOut(Avcc(f), n, Lengths(n, nalu), nalu, to, start)
  <2> DEFINE head == Lengths(n, nalu)
  <2>1. head \in [1..n -> Seq(S)] /\ \A k \in 1..n : head[k] = BigEndian(Len(nalu[k]))
    <3>1. \A k \in 1..n : BigEndian(Len(nalu[k])) \in Seq(S)
      BY <1>9, AllowedLengthBytes
    <3> HIDE DEF S
    <3> QED BY <3>1 DEF Lengths
  <2> HIDE DEF head, S
  <2> DEFINE b == FlattenSeq([k \in 1..n |-> head[k] \o nalu[k]])
  <2>2. b \in Seq(S) /\ \E to, start : LaidOut(b, n, head, nalu, to, start)
    BY <1>2, <1>11, <2>1, LaidOutIs, ZenonT(30)
  <2>3. \A k \in 1..n : head[k] \o nalu[k] = BigEndian(Len(f[k].bytes)) \o f[k].bytes
    BY <1>5, <2>1
  <2>4. b = Avcc(f)
    <3>1. [k \in 1..n |-> head[k] \o nalu[k]] = [k \in 1..n |-> BigEndian(Len(f[k].bytes)) \o f[k].bytes]
      BY <2>3, Zenon
    <3> QED BY <1>8, <3>1, Zenon
  <2> HIDE DEF b
  <2> QED BY <2>2, <2>4, Zenon DEF head
<1>14. NoLengthIsACode => AvccFile(n, nalu)
  BY <1>2, <1>9 DEF AvccFile, NoLengthIsACode
<1>15. FileLies(f, n)
  <2>1. \A k \in 1..n : nalu[k] = f[k].bytes /\ Allowed(f[k].bytes) /\ Allowed(nalu[k])
    BY <1>5, <1>9
  <2> QED BY <1>2, <1>3, <1>12, <1>13, <1>14, <2>1 DEF FileLies, code, nalu
<1> QED BY <1>15

(* The frame of a file as AVCC has it is laid out for a search.            *)
LEMMA AvccLies ==
    ASSUME NEW f, NEW n, FileLies(f, n), NoLengthIsACode
    PROVE  \E at, begin : AvccLaid(Avcc(f), n, NalusIn(f), at, begin)
<1>1. PICK to, start : LaidOut(Avcc(f), n, Lengths(n, NalusIn(f)), NalusIn(f), to, start)
  BY Zenon DEF FileLies
<1>2. AvccFile(n, NalusIn(f))
  BY DEF FileLies
<1> QED BY <1>1, <1>2, Zenon DEF AvccLaid

(* Of either format the payloader makes payloads of which the far side     *)
(* makes the file.                                                         *)
LEMMA FileDelivers ==
    ASSUME NEW f, IsFile(f), NoLengthIsACode, NEW q \in {AnnexB(f), Avcc(f)}
    PROVE  \E p : /\ createPayloadForH264(q) = {p}
                  /\ Delivers("H264", p, Len(q), FlattenSeq([k \in DOMAIN f |-> StartCode(4) \o f[k].bytes]))
<1>1. PICK n : FileLies(f, n)
  BY FileIs
<1> DEFINE nalu == NalusIn(f)
<1>2. \E at, begin : Cutting(q, n, nalu, at, begin)
  <2>1. CASE q = AnnexB(f)
    <3>1. PICK at, begin : AnnexBLaid(AnnexB(f), n, CodesIn(f), nalu, at, begin)
      BY <1>1, Zenon DEF FileLies
    <3>2. Cutting(AnnexB(f), n, nalu, at, begin)
      BY <3>1, AnnexBCut
    <3> QED BY <2>1, <3>2, Zenon
  <2>2. CASE q = Avcc(f)
    <3>1. PICK at, begin : AvccLaid(Avcc(f), n, nalu, at, begin)
      BY <1>1, AvccLies, Zenon
    <3>2. Cutting(Avcc(f), n, nalu, at, begin)
      BY <3>1, AvccCut
    <3> QED BY <2>2, <3>2, Zenon
  <2> QED BY <2>1, <2>2
<1>3. PICK at, begin : Cutting(q, n, nalu, at, begin)
  BY <1>2, Zenon
<1>4. PICK p : /\ createPayloadForH264(q) = {p}
               /\ Delivers("H264", p, Len(q), FlattenSeq([k \in 1..n |-> StartCode(4) \o nalu[k]]))
  <2>1. Sent(q, n, nalu)
    BY <1>3, CutDelivers
  <2> QED BY <2>1, Zenon DEF Sent
<1>5. [k \in 1..n |-> StartCode(4) \o nalu[k]] = [k \in DOMAIN f |-> StartCode(4) \o f[k].bytes]
  <2>1. DOMAIN f = 1..n /\ \A k \in 1..n : nalu[k] = f[k].bytes
    BY <1>1 DEF FileLies
  <2> HIDE DEF nalu
  <2> QED BY <2>1, Zenon
<1> QED BY <1>4, <1>5, Zenon

(* In either format a search finds the first NALU of a type.               *)
SearchFinds(q, f, type) ==
    LET found == NALU_getNalu(q, type)
        has == {k \in DOMAIN f : IsOfType(Head(f[k].bytes), type)}
    IN  /\ found.res <=> has # {}
        /\ found.res => Bytes(q, found.nalu, found.length) = f[Min(has)].bytes

(* The search, for the frame of a file in either form.                     *)
LEMMA FileSearched ==
    ASSUME NEW f, IsFile(f), NoLengthIsACode, NEW q \in {AnnexB(f), Avcc(f)}, NEW type \in 1..TypeRadix - 1
    PROVE  SearchFinds(q, f, type)
<1>1. PICK n : FileLies(f, n)
  BY FileIs
<1> DEFINE nalu == NalusIn(f)
           has == {k \in DOMAIN f : IsOfType(Head(f[k].bytes), type)}
           found == NALU_getNalu(q, type)
<1>2. FoundFirst(q, n, nalu, type)
  <2>1. CASE q = AnnexB(f)
    <3>1. PICK at, begin : AnnexBLaid(AnnexB(f), n, CodesIn(f), nalu, at, begin)
      BY <1>1, Zenon DEF FileLies
    <3>2. FoundFirst(AnnexB(f), n, nalu, type)
      BY <3>1, AnnexBSearch
    <3> QED BY <2>1, <3>2, Zenon
  <2>2. CASE q = Avcc(f)
    <3>1. PICK at, begin : AvccLaid(Avcc(f), n, nalu, at, begin)
      BY <1>1, AvccLies, Zenon
    <3>2. type # 0
      OBVIOUS
    <3>3. FoundFirst(Avcc(f), n, nalu, type)
      BY <3>1, <3>2, AvccSearch
    <3> QED BY <2>2, <3>3, Zenon
  <2> QED BY <2>1, <2>2
<1>3. n \in Nat /\ DOMAIN f = 1..n /\ \A k \in 1..n : nalu[k] = f[k].bytes
  BY <1>1, NaluAssumption DEF FileLies
<1> HIDE DEF nalu
<1>4. OfType(n, nalu, type) = has
  BY <1>3 DEF OfType
<1>5. has # {} => nalu[Min(has)] = f[Min(has)].bytes
  <2>1. has \in SUBSET (1..n)
    BY <1>3
  <2> HIDE DEF has
  <2>2. has # {} => Min(has) \in 1..n
    BY <1>3, <2>1, MinIn
  <2> QED BY <1>3, <2>2
<1> HIDE DEF has
<1>6. /\ found.res <=> has # {}
      /\ found.res => Bytes(q, found.nalu, found.length) = nalu[Min(has)]
  BY <1>2, <1>4, Zenon DEF FoundFirst
<1> HIDE DEF found
<1>7. found.res => Bytes(q, found.nalu, found.length) = f[Min(has)].bytes
  BY <1>5, <1>6, Zenon
<1> QED BY <1>6, <1>7, Zenon DEF SearchFinds, found, has

(* The conversion of a file.                                               *)
FileConverted(r, l, f) ==
    /\ r.b \in [1..l -> 0..Radix - 1] /\ r.uLen = Len(Avcc(f)) /\ r.uLen \in 0..l
    /\ SubSeq(r.b, 1, r.uLen) = Avcc(f)
    /\ Len(AnnexB(f)) \in Nat /\ Len(AnnexB(f)) <= Len(Avcc(f))

(* The conversion, for the frame of a file.                                *)
LEMMA FileConversion ==
    ASSUME NEW f, IsFile(f), NEW l \in Nat, NEW b \in [1..l -> 0..Radix - 1],
           Len(AnnexB(f)) + Len(f) <= l, SubSeq(b, 1, Len(AnnexB(f))) = AnnexB(f)
    PROVE  FileConverted(NALU_convertAnnexBToAvccInPlace(b, Len(AnnexB(f))), l, f)
<1>1. PICK n : FileLies(f, n)
  BY FileIs
<1> DEFINE nalu == NalusIn(f)
           a == AnnexB(f)
           c == Avcc(f)
           r == NALU_convertAnnexBToAvccInPlace(b, Len(a))
<1>2. PICK at, begin : AnnexBLaid(a, n, CodesIn(f), nalu, at, begin)
  BY <1>1, Zenon DEF FileLies
<1>3. PICK to, start : LaidOut(c, n, Lengths(n, nalu), nalu, to, start)
  BY <1>1, Zenon DEF FileLies
<1>4. n \in Nat /\ n <= MaxNalus /\ Len(f) = n /\ c \in Seq(0..Radix - 1) /\ Len(c) \in Nat /\ Len(a) \in Nat
  BY <1>1, NaluAssumption DEF FileLies
<1> HIDE DEF nalu, a, c
<1>5. ConvertedTo(r, l, c)
  <2>1. Len(a) + n <= l /\ SubSeq(b, 1, Len(a)) = a
    BY <1>4 DEF a
  <2> HIDE DEF r
  <2>2. ConvertedTo(NALU_convertAnnexBToAvccInPlace(b, Len(a)), l, c)
    BY <1>2, <1>3, <1>4, <2>1, ConversionIs
  <2> QED BY <2>2 DEF r
<1> HIDE DEF r
<1>6. r.b \in [1..l -> 0..Radix - 1] /\ r.uLen = Len(c) /\ Len(c) <= l /\ \A p \in 1..Len(c) : r.b[p] = c[p]
  BY <1>5 DEF ConvertedTo, Converted
<1>7. SubSeq(r.b, 1, Len(c)) = c
  <2> DEFINE x == r.b
             m == Len(c)
             s == SubSeq(x, 1, m)
  <2>1. x \in [1..l -> 0..Radix - 1] /\ m \in Nat /\ m <= l /\ \A p \in 1..m : x[p] = c[p]
    BY <1>4, <1>6
  <2> HIDE DEF x
  <2>2. x \in Seq(0..Radix - 1) /\ Len(x) = l
    <3>1. x \in [1..l -> 0..Radix - 1]
      BY <2>1
    <3> QED BY <3>1, FunctionIsSeq
  <2> HIDE DEF m
  <2>3. s \in Seq(0..Radix - 1) /\ Len(s) = m /\ \A p \in 1..m : s[p] = x[p]
    <3>1. \A p \in 1..m : x[p] \in 0..Radix - 1 /\ 1 + p - 1 = p
      BY <2>1
    <3>2. 1 \in Int /\ m \in Int /\ \A p \in 1..m : x[p] \in 0..Radix - 1
      BY <2>1, <3>1
    <3>3. /\ s \in Seq(0..Radix - 1)
          /\ Len(s) = IF 1 <= m THEN m - 1 + 1 ELSE 0
          /\ \A p \in 1..m - 1 + 1 : s[p] = x[1 + p - 1]
      BY <3>2, SubSeqProperties
    <3> HIDE DEF s
    <3>4. m - 1 + 1 = m /\ (IF 1 <= m THEN m - 1 + 1 ELSE 0) = m
      BY <2>1
    <3> QED BY <3>1, <3>3, <3>4
  <2> HIDE DEF s
  <2>4. \A p \in 1..m : s[p] = c[p]
    BY <2>1, <2>3
  <2>5. s = c
    BY <1>4, <2>3, <2>4, SeqEqual DEF m
  <2> QED BY <2>5 DEF s, x, m
<1>8. Len(a) <= Len(c)
  <2>1. at[n] = Len(a)
    BY <1>2 DEF AnnexBLaid, LaidOut
  <2>2. to[n] = Len(c)
    BY <1>3 DEF LaidOut
  <2>3. \A k \in 0..n : at[k] <= to[k]
    BY <1>2, <1>3, AvccBehind
  <2>4. n \in 0..n
    BY <1>4
  <2> QED BY <2>1, <2>2, <2>3, <2>4
<1>9. r.uLen \in 0..l
  BY <1>4, <1>6
<1>10. FileConverted(r, l, f)
  BY <1>4, <1>6, <1>7, <1>8, <1>9 DEF FileConverted, a, c
<1> QED BY <1>10 DEF r, a

-----------------------------------------------------------------------------
(* The inductive invariant of VideoSource.                                 *)

(* What has arrived of a whole, and the payloads that bring the rest.      *)
UnderWay(c, p, u, r, w) ==
    LET rest == FlattenSeq(Arrived(c, p))
    IN  Delivers(c, p, u, rest) /\ r \in Seq(Nat) /\ r \o rest = w

(* The receiver: what arrived, joined with what is under way, is the frame. *)
LEMMA UnderWayStarts ==
    ASSUME NEW c, NEW p, NEW u, NEW t, Delivers(c, p, u, t)
    PROVE  UnderWay(c, p, u, <<>>, t)
<1>1. FlattenSeq(Arrived(c, p)) = t /\ Arrived(c, p) \in Seq(Seq(Nat))
  BY DEF Delivers
<1>2. t \in Seq(Nat)
  <2>1. FlattenSeq(Arrived(c, p)) \in Seq(Nat)
    BY <1>1, FlattenType
  <2> QED BY <1>1, <2>1
<1>3. <<>> \in Seq(Nat) /\ <<>> \o t = t
  BY <1>2, ConcatEmptySeq
<1> QED BY <1>1, <1>3 DEF UnderWay

LEMMA UnderWayGoesOn ==
    ASSUME NEW c, NEW p, NEW u, NEW r, NEW w, UnderWay(c, p, u, r, w), p # <<>>
    PROVE  UnderWay(c, Tail(p), u, r \o depay(c, Head(p)), w)
<1> DEFINE t == FlattenSeq(Arrived(c, p))
           d == depay(c, Head(p))
<1>1. Delivers(c, p, u, t) /\ r \in Seq(Nat) /\ r \o t = w
  BY DEF UnderWay
<1> HIDE DEF t
<1>2. PICK s \in Seq(Nat) : Delivers(c, Tail(p), u, s) /\ t = d \o s /\ d \in Seq(Nat)
  BY <1>1, DeliversTail
<1> HIDE DEF d
<1>3. FlattenSeq(Arrived(c, Tail(p))) = s
  BY <1>2 DEF Delivers
<1>4. r \o d \in Seq(Nat)
  BY <1>1, <1>2, ConcatProperties
<1>5. (r \o d) \o s = w
  <2>1. Cat(Cat(r, d), s) = Cat(r, Cat(d, s))
    BY <1>1, <1>2, CatAssoc
  <2> QED BY <1>1, <1>2, <2>1, Zenon DEF Cat
<1>6. UnderWay(c, Tail(p), u, r \o d, w)
  BY <1>2, <1>3, <1>4, <1>5, Zenon DEF UnderWay
<1> QED BY <1>6 DEF d

LEMMA UnderWayEnds ==
    ASSUME NEW c, NEW u, NEW r, NEW w, UnderWay(c, <<>>, u, r, w)
    PROVE  r = w
<1> DEFINE t == FlattenSeq(Arrived(c, <<>>))
<1>1. r \in Seq(Nat) /\ r \o t = w
  BY DEF UnderWay
<1>2. Arrived(c, <<>>) = [k \in 1..0 |-> <<>>]
  BY DEF Arrived
<1>3. t = <<>>
  <2> DEFINE q == [k \in 1..0 |-> <<>>]
             F == [k \in 0..0 |-> <<>>]
  <2>1. q \in [1..0 -> Seq(Nat)] /\ 0 \in Nat
    OBVIOUS
  <2>2. F[0] = <<>>
    OBVIOUS
  <2> HIDE DEF q, F
  <2>3. Joins(F, 0, q)
    BY <2>2 DEF Joins
  <2>4. \A n \in Nat : q \in [1..n -> Seq(Nat)] /\ Joins(F, n, q) => FlattenSeq(q) = F[n]
    BY FlattenIs
  <2>5. FlattenSeq(q) = F[0]
    BY <2>1, <2>3, <2>4, Zenon
  <2> QED BY <1>2, <2>2, <2>5 DEF q
<1> HIDE DEF t
<1> QED BY <1>1, <1>3, ConcatEmptySeq

LEMMA UnderWayFits ==
    ASSUME NEW c, NEW p, NEW u \in Nat, NEW r, NEW w, UnderWay(c, p, u, r, w),
           NEW v \in Nat, u <= v
    PROVE  UnderWay(c, p, v, r, w) /\ \A k \in DOMAIN p : Fits(p[k], v)
<1> DEFINE t == FlattenSeq(Arrived(c, p))
<1>1. Delivers(c, p, u, t) /\ r \in Seq(Nat) /\ r \o t = w
  BY DEF UnderWay
<1>2. ASSUME NEW k \in DOMAIN p PROVE Fits(p[k], v)
  <2>1. Fits(p[k], u)
    BY <1>1 DEF Delivers
  <2> DEFINE e == p[k].refOffset + p[k].refLength
  <2>2. Cut(p[k]) => HeaderSize(p[k].header.type) + Len(p[k].data) <= Mtu /\ e \in Nat /\ e <= u
    BY <2>1 DEF Fits
  <2> HIDE DEF e
  <2>3. Cut(p[k]) => HeaderSize(p[k].header.type) + Len(p[k].data) <= Mtu /\ e \in Nat /\ e <= v
    BY <2>2
  <2> QED BY <2>3 DEF Fits, e
<1>3. Delivers(c, p, v, t)
  BY <1>1, <1>2 DEF Delivers
<1> QED BY <1>1, <1>2, <1>3 DEF UnderWay

-----------------------------------------------------------------------------
(* The buffer has q as its frame.                                          *)
Holds(q) == uLen = Len(q) /\ Frame = q

Whole == IF codec = "H264" THEN FlattenSeq([k \in DOMAIN file |-> StartCode(4) \o file[k].bytes]) ELSE Frame

(* What is in the buffer, and that there is room for a length before each  *)
(* NALU of the file.                                                       *)
BufferInv ==
    /\ stage \in Stage /\ codec \in {"H264", "VP8", "G711", "Opus"}
    /\ pData \in Seq(0..Radix - 1) /\ uLen \in 0..Len(pData)
    /\ bIsKeyFrame \in BOOLEAN /\ (stage = "read" => bIsKeyFrame = FALSE)
    /\ codec # "H264" /\ stage # "read" =>
        /\ stage \in {"write", "receive", "far"} /\ (stage = "far" => codec = "VP8")
        /\ uLen = Len(pData)
    /\ codec = "H264" /\ stage # "read" =>
        /\ IsFile(file) /\ Len(AnnexB(file)) + Len(file) <= Len(pData)
        /\ stage = "convert" => Holds(AnnexB(file))
        /\ stage \in {"write", "add", "far"} => Holds(AnnexB(file)) \/ Holds(Avcc(file))
        /\ stage = "receive" => Holds(Avcc(file))
        /\ bIsKeyFrame => FileHas(IFrame) # {}

(* What has arrived, and what the payloads under way make, is the whole.   *)
PayloadInv ==
    /\ stage \in {"read", "convert", "write"} => payloads = <<>> /\ received = <<>>
    /\ stage \in {"add", "receive", "far"} => UnderWay(codec, payloads, uLen, received, Whole)

SourceInv == BufferInv /\ PayloadInv

(* The bytes of the frame in the buffer.                                   *)
LEMMA FrameIs ==
    ASSUME BufferInv
    PROVE  /\ Frame \in Seq(Nat) /\ Len(Frame) = uLen /\ uLen \in Nat
           /\ uLen = Len(pData) => Frame = pData
<1>1. pData \in Seq(0..Radix - 1) /\ uLen \in 0..Len(pData) /\ 0..Radix - 1 \subseteq Nat
  BY NaluAssumption DEF BufferInv
<1>2. pData \in Seq(Nat) /\ uLen \in Nat
  <2>1. pData \in Seq(Nat)
    BY <1>1, SeqMonotonic
  <2>2. Len(pData) \in Nat
    BY <2>1
  <2> QED BY <1>1, <2>1, <2>2
<1>3. Frame \in Seq(Nat) /\ Len(Frame) = uLen
  BY <1>1, <1>2 DEF Frame
<1>4. uLen = Len(pData) => Frame = pData
  BY <1>1, <1>2 DEF Frame
<1> QED BY <1>2, <1>3, <1>4

(* The room behind a frame that is read.                                   *)
LEMMA RoomBehind ==
    ASSUME NEW S, NEW a \in Seq(S), NEW x \in S, NEW m \in Nat
    PROVE  LET b == a \o [k \in 1..m |-> x]
           IN  b \in Seq(S) /\ Len(b) = Len(a) + m /\ SubSeq(b, 1, Len(a)) = a
<1> DEFINE z == [k \in 1..m |-> x]
           b == a \o z
           l == Len(a)
<1>1. z \in Seq(S) /\ Len(z) = m
  <2>1. z \in [1..m -> S]
    OBVIOUS
  <2> HIDE DEF z
  <2> QED BY <2>1, FunctionIsSeq
<1> HIDE DEF z
<1>2. b \in Seq(S) /\ Len(b) = l + m /\ l \in Nat
      /\ \A k \in 1..l + m : b[k] = IF k <= l THEN a[k] ELSE z[k - l]
  <2>1. b \in Seq(S) /\ Len(b) = Len(a) + Len(z)
    BY <1>1, ConcatProperties
  <2>3. l \in Nat
    <3> HIDE DEF b
    <3> QED BY LenProperties
  <2>2. \A k \in 1..Len(a) + Len(z) : b[k] = IF k <= Len(a) THEN a[k] ELSE z[k - Len(a)]
    BY <1>1, ConcatProperties
  <2> QED BY <1>1, <2>1, <2>2, <2>3, Zenon
<1> HIDE DEF b, l
<1>3. \A k \in 1..l : b[k] = a[k]
  BY <1>2
<1> DEFINE s == SubSeq(b, 1, l)
<1>4. s \in Seq(S) /\ Len(s) = l /\ \A k \in 1..l : s[k] = b[k]
  BY <1>2
<1> HIDE DEF s
<1>5. s = a
  BY <1>3, <1>4, SeqEqual DEF l
<1> QED BY <1>2, <1>5 DEF b, z, l, s

-----------------------------------------------------------------------------
(* VideoSource: each step keeps it.                                        *)

(* SourceInv holds at the start; then it is kept by every action.          *)
LEMMA SourceStarts == SourceInit => SourceInv
<1> SUFFICES ASSUME SourceInit PROVE SourceInv
  OBVIOUS
<1>1. /\ stage = "read" /\ codec = "H264" /\ pData = <<>> /\ uLen = 0 /\ bIsKeyFrame = FALSE
      /\ payloads = <<>> /\ received = <<>>
  BY DEF SourceInit
<1>2. pData \in Seq(0..Radix - 1) /\ uLen \in 0..Len(pData)
  BY <1>1
<1>3. BufferInv
  BY <1>1, <1>2 DEF BufferInv, Stage
<1>4. PayloadInv
  BY <1>1 DEF PayloadInv
<1> QED BY <1>3, <1>4 DEF SourceInv

(* readFile leaves the file in the buffer, and room behind it.             *)
LEMMA SourceReads ==
    ASSUME SourceInv, readFile
    PROVE  SourceInv'
<1>1. /\ stage = "read" /\ stage' = "convert" /\ codec' = "H264"
      /\ \E n \in 1..MaxFileNalus : file' \in [1..n -> [code : {3, 4}, bytes : Nalus]]
      /\ pData' = AnnexB(file') \o [k \in 1..ExtraBufSize |-> 0]
      /\ uLen' = Len(AnnexB(file'))
      /\ bIsKeyFrame' = bIsKeyFrame /\ payloads' = payloads /\ received' = received
  BY DEF readFile
<1>2. bIsKeyFrame = FALSE /\ payloads = <<>> /\ received = <<>>
  BY <1>1 DEF SourceInv, BufferInv, PayloadInv
<1> DEFINE f == file'
           a == AnnexB(f)
           S == 0..Radix - 1
<1>3. IsFile(f)
  BY <1>1 DEF IsFile
<1> HIDE DEF f
<1>4. PICK n : FileLies(f, n)
  BY <1>3, FileIs
<1>5. a \in Seq(S) /\ n \in Nat /\ n <= MaxNalus /\ Len(f) = n
  BY <1>4, NaluAssumption DEF FileLies
<1>6. ExtraBufSize = MaxNalus /\ ExtraBufSize \in Nat /\ 0 \in S
  BY VideoSourceAssumption, NaluAssumption
<1> DEFINE b == a \o [k \in 1..ExtraBufSize |-> 0]
<1> HIDE DEF a, S
<1>7. b \in Seq(S) /\ Len(b) = Len(a) + ExtraBufSize /\ SubSeq(b, 1, Len(a)) = a
  BY <1>5, <1>6, RoomBehind
<1>8. pData' = b /\ uLen' = Len(a)
  BY <1>1 DEF a, f
<1> HIDE DEF b
<1>9. Len(a) \in Nat /\ Len(b) \in Nat
  BY <1>5, <1>7
<1>10. Holds(AnnexB(file))'
  BY <1>7, <1>8 DEF Holds, Frame, a, f
<1>11. (pData \in Seq(0..Radix - 1) /\ uLen \in 0..Len(pData) /\ Len(AnnexB(file)) + Len(file) <= Len(pData))'
  <2>1. Len(a) <= Len(b) /\ Len(a) + Len(f) <= Len(b)
    BY <1>5, <1>6, <1>7, <1>9
  <2>2. Len(a) \in 0..Len(b)
    BY <1>9, <2>1
  <2> QED BY <1>7, <1>8, <2>1, <2>2 DEF a, f, S
<1>12. BufferInv'
  BY <1>1, <1>2, <1>3, <1>10, <1>11 DEF BufferInv, Stage, f
<1>13. PayloadInv'
  BY <1>1, <1>2 DEF PayloadInv
<1> QED BY <1>12, <1>13 DEF SourceInv

LEMMA SourceOther ==
    ASSUME SourceInv, OtherFrame
    PROVE  SourceInv'
<1>1. /\ stage = "read" /\ stage' = "write" /\ codec' \in {"VP8", "G711", "Opus"}
      /\ pData' \in Frames /\ uLen' = Len(pData')
      /\ bIsKeyFrame' = bIsKeyFrame /\ payloads' = payloads /\ received' = received
  BY DEF OtherFrame
<1>2. bIsKeyFrame = FALSE /\ payloads = <<>> /\ received = <<>>
  BY <1>1 DEF SourceInv, BufferInv, PayloadInv
<1>3. pData' \in Seq(0..Radix - 1)
  BY <1>1, VideoSourceAssumption
<1>4. uLen' \in 0..Len(pData')
  <2>1. Len(pData') \in Nat
    BY <1>3
  <2> QED BY <1>1, <2>1
<1>5. BufferInv'
  BY <1>1, <1>2, <1>3, <1>4 DEF BufferInv, Stage
<1>6. PayloadInv'
  BY <1>1, <1>2 DEF PayloadInv
<1> QED BY <1>5, <1>6 DEF SourceInv

(* The buffer of a file in Annex-B is converted as FileConversion says.    *)
LEMMA BufferConverted ==
    ASSUME BufferInv, codec = "H264", stage # "read", Holds(AnnexB(file))
    PROVE  FileConverted(NALU_convertAnnexBToAvccInPlace(pData, uLen), Len(pData), file)
<1>1. pData \in Seq(0..Radix - 1) /\ IsFile(file) /\ Len(AnnexB(file)) + Len(file) <= Len(pData)
  BY DEF BufferInv
<1>2. uLen = Len(AnnexB(file)) /\ SubSeq(pData, 1, Len(AnnexB(file))) = AnnexB(file)
  BY DEF Holds, Frame
<1>3. Len(pData) \in Nat /\ pData \in [1..Len(pData) -> 0..Radix - 1]
  BY <1>1, SeqIsFunction
<1>4. FileConverted(NALU_convertAnnexBToAvccInPlace(pData, Len(AnnexB(file))), Len(pData), file)
  BY <1>1, <1>2, <1>3, FileConversion
<1> QED BY <1>2, <1>4

(* What a converted file is in the buffer of the next state.               *)
LEMMA ConvertedHolds ==
    ASSUME BufferInv, codec = "H264", stage # "read", file' = file,
           FileConverted([b |-> pData', uLen |-> uLen'], Len(pData), file)
    PROVE  /\ pData' \in Seq(0..Radix - 1) /\ Len(pData') = Len(pData) /\ uLen' \in 0..Len(pData')
           /\ Holds(Avcc(file))'
<1> DEFINE l == Len(pData)
<1>1. /\ pData' \in [1..l -> 0..Radix - 1] /\ uLen' = Len(Avcc(file)) /\ uLen' \in 0..l
      /\ SubSeq(pData', 1, uLen') = Avcc(file)
  BY DEF FileConverted
<1>2. l \in Nat
  <2>1. pData \in Seq(0..Radix - 1)
    BY DEF BufferInv
  <2> QED BY <2>1
<1> HIDE DEF l
<1>3. pData' \in Seq(0..Radix - 1) /\ Len(pData') = l
  BY <1>1, <1>2, FunctionIsSeq
<1>4. Holds(Avcc(file))'
  BY <1>1 DEF Holds, Frame
<1> QED BY <1>1, <1>3, <1>4 DEF l

LEMMA SourceConverts ==
    ASSUME SourceInv, Convert
    PROVE  SourceInv'
<1> DEFINE r == NALU_convertAnnexBToAvccInPlace(pData, uLen)
<1>1. /\ stage = "convert" /\ stage' = "write" /\ pData' = r.b /\ uLen' = r.uLen
      /\ codec' = codec /\ file' = file
      /\ bIsKeyFrame' = bIsKeyFrame /\ payloads' = payloads /\ received' = received
  BY DEF Convert
<1>2. BufferInv /\ PayloadInv
  BY DEF SourceInv
<1>3. codec = "H264"
  BY <1>1, <1>2 DEF BufferInv
<1>4. Holds(AnnexB(file))
  BY <1>1, <1>2, <1>3 DEF BufferInv
<1>5. FileConverted(r, Len(pData), file)
  BY <1>1, <1>2, <1>3, <1>4, BufferConverted
<1> HIDE DEF r
<1>6. FileConverted([b |-> pData', uLen |-> uLen'], Len(pData), file)
  BY <1>1, <1>5 DEF FileConverted
<1>7. /\ pData' \in Seq(0..Radix - 1) /\ Len(pData') = Len(pData) /\ uLen' \in 0..Len(pData')
      /\ Holds(Avcc(file))'
  BY <1>1, <1>2, <1>3, <1>6, ConvertedHolds
<1>8. BufferInv'
  <2>1. IsFile(file') /\ Len(AnnexB(file')) + Len(file') <= Len(pData')
    BY <1>1, <1>2, <1>3, <1>7 DEF BufferInv
  <2>2. (bIsKeyFrame => FileHas(IFrame) # {})'
    BY <1>1, <1>2, <1>3 DEF BufferInv, FileHas
  <2>3. bIsKeyFrame' \in BOOLEAN
    BY <1>1, <1>2 DEF BufferInv
  <2> QED BY <1>1, <1>3, <1>7, <2>1, <2>2, <2>3, Zenon DEF BufferInv, Stage
<1>9. PayloadInv'
  BY <1>1, <1>2 DEF PayloadInv
<1> QED BY <1>8, <1>9 DEF SourceInv

LEMMA SourceDoesNotConvert ==
    ASSUME SourceInv, NotConverted
    PROVE  SourceInv'
<1>1. /\ stage = "convert" /\ stage' = "write"
      /\ pData' = pData /\ uLen' = uLen /\ codec' = codec /\ file' = file
      /\ bIsKeyFrame' = bIsKeyFrame /\ payloads' = payloads /\ received' = received
  BY DEF NotConverted
<1>2. BufferInv /\ PayloadInv
  BY DEF SourceInv
<1>3. codec = "H264"
  BY <1>1, <1>2 DEF BufferInv
<1>4. Holds(AnnexB(file))'
  BY <1>1, <1>2, <1>3 DEF BufferInv, Holds, Frame
<1>5. BufferInv'
  <2>1. (bIsKeyFrame => FileHas(IFrame) # {})'
    BY <1>1, <1>2, <1>3 DEF BufferInv, FileHas
  <2>2. /\ pData' \in Seq(0..Radix - 1) /\ uLen' \in 0..Len(pData') /\ bIsKeyFrame' \in BOOLEAN
        /\ IsFile(file') /\ Len(AnnexB(file')) + Len(file') <= Len(pData')
    BY <1>1, <1>2, <1>3 DEF BufferInv
  <2> QED BY <1>1, <1>3, <1>4, <2>1, <2>2, Zenon DEF BufferInv, Stage
<1>6. PayloadInv'
  BY <1>1, <1>2 DEF PayloadInv
<1> QED BY <1>5, <1>6 DEF SourceInv

(* A file in either format, of whatever the buffer holds.                  *)
LEMMA FrameOfFile ==
    ASSUME BufferInv, codec = "H264", stage \in {"write", "add", "far"}
    PROVE  /\ IsFile(file) /\ Frame \in {AnnexB(file), Avcc(file)} /\ Len(Frame) = uLen
           /\ Holds(AnnexB(file)) \/ Holds(Avcc(file))
<1>1. IsFile(file) /\ (Holds(AnnexB(file)) \/ Holds(Avcc(file)))
  BY DEF BufferInv
<1>2. Frame \in {AnnexB(file), Avcc(file)}
  BY <1>1 DEF Holds
<1>3. Len(Frame) = uLen
  BY FrameIs
<1> QED BY <1>1, <1>2, <1>3

(* The payloads of a frame of another codec.                               *)
LEMMA OtherDelivers ==
    ASSUME NEW c \in {"VP8", "G711", "Opus"}, NEW b \in Seq(Nat)
    PROVE  \E p : rtpPayloadFunc(c, b) = {p} /\ Delivers(c, p, Len(b), b)
<1>1. CASE c = "VP8"
  <2>1. rtpPayloadFunc("VP8", b) = {createPayloadForVP8(b)}
    BY DEF rtpPayloadFunc
  <2> QED BY <1>1, <2>1, VP8Delivers, Zenon
<1>2. CASE c = "G711"
  <2>1. rtpPayloadFunc("G711", b) = {createPayloadForG711(b)}
    BY DEF rtpPayloadFunc
  <2> QED BY <1>2, <2>1, G711Delivers, Zenon
<1>3. CASE c = "Opus"
  <2>1. rtpPayloadFunc("Opus", b) = {createPayloadForOpus(b)}
    BY DEF rtpPayloadFunc
  <2> QED BY <1>3, <2>1, OpusDelivers, Zenon
<1> QED BY <1>1, <1>2, <1>3

(* The frame that is sent, and what the far side shall have of it.         *)
LEMMA FrameDelivers ==
    ASSUME NoLengthIsACode, SourceInv, stage = "write"
    PROVE  \E p : rtpPayloadFunc(codec, Frame) = {p} /\ Delivers(codec, p, uLen, Whole)
<1>0. BufferInv
  BY DEF SourceInv
<1>1. Frame \in Seq(Nat) /\ Len(Frame) = uLen
  BY <1>0, FrameIs
<1>2. CASE codec = "H264"
  <2> DEFINE q == Frame
             t == FlattenSeq([k \in DOMAIN file |-> StartCode(4) \o file[k].bytes])
  <2>1. IsFile(file) /\ q \in {AnnexB(file), Avcc(file)}
    BY <1>0, <1>2, FrameOfFile
  <2>2. rtpPayloadFunc("H264", q) = createPayloadForH264(q)
    BY DEF rtpPayloadFunc
  <2>3. Whole = t
    BY <1>2 DEF Whole
  <2> HIDE DEF q, t
  <2>4. \E p : createPayloadForH264(q) = {p} /\ Delivers("H264", p, Len(q), t)
    BY <2>1, FileDelivers DEF t
  <2>5. Len(q) = uLen
    BY <1>1 DEF q
  <2> QED BY <1>2, <2>2, <2>3, <2>4, <2>5, Zenon DEF q
<1>3. CASE codec # "H264"
  <2>1. codec \in {"VP8", "G711", "Opus"}
    BY <1>0, <1>3 DEF BufferInv
  <2>2. Whole = Frame
    BY <1>3 DEF Whole
  <2> DEFINE q == Frame
  <2>3. q \in Seq(Nat) /\ Len(q) = uLen
    BY <1>1
  <2> HIDE DEF q
  <2>4. \E p : rtpPayloadFunc(codec, q) = {p} /\ Delivers(codec, p, Len(q), q)
    BY <2>1, <2>3, OtherDelivers
  <2> QED BY <2>2, <2>3, <2>4, Zenon DEF q
<1> QED BY <1>2, <1>3

LEMMA SourceSends ==
    ASSUME NoLengthIsACode, SourceInv, webrtc_taskAddVideoFrame
    PROVE  SourceInv'
<1>1. /\ stage = "write"
      /\ \/ payloads' \in rtpPayloadFunc(codec, Frame)
         \/ rtpPayloadFunc(codec, Frame) = {} /\ payloads' = payloads
      /\ stage' = IF codec = "H264" THEN "add" ELSE "receive"
      /\ pData' = pData /\ uLen' = uLen /\ codec' = codec /\ file' = file
      /\ bIsKeyFrame' = bIsKeyFrame /\ received' = received
  BY DEF webrtc_taskAddVideoFrame
<1>2. BufferInv /\ PayloadInv /\ received = <<>>
  BY <1>1 DEF SourceInv, PayloadInv
<1>3. Whole' = Whole
  BY <1>1 DEF Whole, Frame
<1>4. PICK p : rtpPayloadFunc(codec, Frame) = {p} /\ Delivers(codec, p, uLen, Whole)
  BY <1>1, FrameDelivers
<1>5. payloads' = p
  BY <1>1, <1>4
<1>6. UnderWay(codec, p, uLen, <<>>, Whole)
  BY <1>4, UnderWayStarts
<1>7. UnderWay(codec, payloads, uLen, received, Whole)'
  <2>1. UnderWay(codec', payloads', uLen', received', Whole')
    BY <1>1, <1>2, <1>3, <1>5, <1>6, Zenon
  <2> QED BY <2>1, Zenon DEF UnderWay
<1>8. PayloadInv'
  BY <1>1, <1>7 DEF PayloadInv
<1>9. BufferInv'
  <2>1. /\ pData' \in Seq(0..Radix - 1) /\ uLen' \in 0..Len(pData') /\ bIsKeyFrame' \in BOOLEAN
        /\ codec' \in {"H264", "VP8", "G711", "Opus"}
    BY <1>1, <1>2 DEF BufferInv
  <2>2. CASE codec = "H264"
    <3>1. /\ (bIsKeyFrame => FileHas(IFrame) # {})'
          /\ IsFile(file') /\ Len(AnnexB(file')) + Len(file') <= Len(pData')
      BY <1>1, <1>2, <2>2 DEF BufferInv, FileHas
    <3>2. Holds(AnnexB(file))' \/ Holds(Avcc(file))'
      BY <1>1, <1>2, <2>2 DEF BufferInv, Holds, Frame
    <3>3. stage' = "add" /\ codec' = "H264"
      BY <1>1, <2>2
    <3> QED BY <2>1, <3>1, <3>2, <3>3, Zenon DEF BufferInv, Stage
  <2>3. CASE codec # "H264"
    <3>1. uLen' = Len(pData')
      BY <1>1, <1>2, <2>3 DEF BufferInv
    <3>2. stage' = "receive" /\ codec' # "H264"
      BY <1>1, <2>3
    <3> QED BY <2>1, <3>1, <3>2 DEF BufferInv, Stage
  <2> QED BY <2>2, <2>3
<1> QED BY <1>8, <1>9 DEF SourceInv

(* The formats are told apart.                                             *)
LEMMA FormatsDiffer ==
    ASSUME NEW f, IsFile(f), NoLengthIsACode
    PROVE  NALU_isAnnexBFrame(AnnexB(f)) /\ ~NALU_isAnnexBFrame(Avcc(f))
<1>1. PICK n : FileLies(f, n)
  BY FileIs
<1>2. PICK at, begin : AnnexBLaid(AnnexB(f), n, CodesIn(f), NalusIn(f), at, begin)
  BY <1>1, Zenon DEF FileLies
<1>3. PICK to, start : AvccLaid(Avcc(f), n, NalusIn(f), to, start)
  BY <1>1, AvccLies, Zenon
<1>4. NALU_isAnnexBFrame(AnnexB(f))
  BY <1>2, AnnexBSearch
<1>5. ~NALU_isAnnexBFrame(Avcc(f))
  BY <1>3, AvccNoCode
<1> QED BY <1>4, <1>5

(* Before and after AddFrame the buffer holds the file; after it as AVCC,  *)
(* which is no shorter.                                                    *)
LEMMA AddedFrame ==
    ASSUME NoLengthIsACode, SourceInv, AddFrame
    PROVE  /\ codec = "H264" /\ IsFile(file) /\ file' = file /\ codec' = codec /\ stage' = "receive"
           /\ pData' \in Seq(0..Radix - 1) /\ Len(pData') = Len(pData) /\ uLen' \in 0..Len(pData')
           /\ Holds(Avcc(file))' /\ uLen <= uLen'
           /\ bIsKeyFrame' \in BOOLEAN /\ (bIsKeyFrame' => isKeyFrame(Avcc(file), IFrame))
<1> DEFINE r == IF NALU_isAnnexBFrame(Frame) THEN NALU_convertAnnexBToAvccInPlace(pData, uLen)
                ELSE [res |-> TRUE, b |-> pData, uLen |-> uLen]
<1>1. /\ stage = "add" /\ stage' = "receive" /\ codec' = codec /\ file' = file
      /\ pData' = r.b /\ uLen' = r.uLen
      /\ bIsKeyFrame' = (r.res /\ isKeyFrame(SubSeq(r.b, 1, r.uLen), IFrame))
  BY DEF AddFrame
<1>2. BufferInv
  BY DEF SourceInv
<1>3. codec = "H264"
  BY <1>1, <1>2 DEF BufferInv
<1>4. IsFile(file) /\ (Holds(AnnexB(file)) \/ Holds(Avcc(file)))
  BY <1>1, <1>2, <1>3, FrameOfFile
<1>5. uLen \in 0..Len(pData) /\ pData \in Seq(0..Radix - 1)
  BY <1>2 DEF BufferInv
<1>6. NALU_isAnnexBFrame(AnnexB(file)) /\ ~NALU_isAnnexBFrame(Avcc(file))
  BY <1>4, FormatsDiffer
<1>7. CASE Holds(AnnexB(file))
  <2>1. Frame = AnnexB(file) /\ uLen = Len(AnnexB(file))
    BY <1>7 DEF Holds
  <2>2. r = NALU_convertAnnexBToAvccInPlace(pData, uLen)
    BY <1>6, <2>1, Zenon
  <2>3. FileConverted(r, Len(pData), file)
    BY <1>1, <1>2, <1>3, <1>7, <2>2, BufferConverted
  <2> HIDE DEF r
  <2>4. FileConverted([b |-> pData', uLen |-> uLen'], Len(pData), file)
    BY <1>1, <2>3 DEF FileConverted
  <2>5. /\ pData' \in Seq(0..Radix - 1) /\ Len(pData') = Len(pData) /\ uLen' \in 0..Len(pData')
        /\ Holds(Avcc(file))'
    BY <1>1, <1>2, <1>3, <2>4, ConvertedHolds
  <2>6. uLen <= uLen' /\ SubSeq(r.b, 1, r.uLen) = Avcc(file)
    BY <1>1, <2>1, <2>3 DEF FileConverted
  <2>7. bIsKeyFrame' = (r.res /\ isKeyFrame(Avcc(file), IFrame))
    BY <1>1, <2>6, Zenon
  <2> QED BY <1>1, <1>3, <1>4, <2>5, <2>6, <2>7, Zenon
<1>8. CASE Holds(Avcc(file))
  <2>1. Frame = Avcc(file) /\ uLen = Len(Avcc(file))
    BY <1>8 DEF Holds
  <2>2. r = [res |-> TRUE, b |-> pData, uLen |-> uLen]
    BY <1>6, <2>1, Zenon
  <2> HIDE DEF r
  <2>3. r.b = pData /\ r.uLen = uLen /\ r.res = TRUE
    BY <2>2
  <2>4. pData' = pData /\ uLen' = uLen
    BY <1>1, <2>3
  <2>5. Holds(Avcc(file))'
    BY <1>1, <2>1, <2>4 DEF Holds, Frame
  <2>6. bIsKeyFrame' = (r.res /\ isKeyFrame(Avcc(file), IFrame))
    BY <1>1, <2>1, <2>3, Zenon DEF Frame
  <2>7. uLen <= uLen'
    BY <1>5, <2>4
  <2> QED BY <1>1, <1>3, <1>4, <1>5, <2>4, <2>5, <2>6, <2>7, Zenon
<1> QED BY <1>4, <1>7, <1>8

(* The producer knows a key frame by its IDR picture.                      *)
LEMMA KeyFrameIs ==
    ASSUME NoLengthIsACode, NEW f, IsFile(f), NEW q \in {AnnexB(f), Avcc(f)}
    PROVE  isKeyFrame(q, IFrame) <=> {k \in DOMAIN f : IsOfType(Head(f[k].bytes), IFrame)} # {}
<1>1. IFrame \in 1..TypeRadix - 1
  BY VideoSourceAssumption
<1>2. SearchFinds(q, f, IFrame)
  BY <1>1, FileSearched
<1>3. isKeyFrame(q, IFrame) = NALU_getNalu(q, IFrame).res
  BY DEF isKeyFrame
<1> QED BY <1>2, <1>3, Zenon DEF SearchFinds

LEMMA SourceAdds ==
    ASSUME NoLengthIsACode, SourceInv, AddFrame
    PROVE  SourceInv'
<1>1. /\ codec = "H264" /\ IsFile(file) /\ file' = file /\ codec' = codec /\ stage' = "receive"
      /\ pData' \in Seq(0..Radix - 1) /\ Len(pData') = Len(pData) /\ uLen' \in 0..Len(pData')
      /\ Holds(Avcc(file))' /\ uLen <= uLen'
      /\ bIsKeyFrame' \in BOOLEAN /\ (bIsKeyFrame' => isKeyFrame(Avcc(file), IFrame))
  BY AddedFrame
<1>2. stage = "add" /\ payloads' = payloads /\ received' = received
  BY DEF AddFrame
<1>3. BufferInv /\ PayloadInv
  BY DEF SourceInv
<1>4. isKeyFrame(Avcc(file), IFrame) <=> FileHas(IFrame) # {}
  <2> DEFINE f == file
             q == Avcc(f)
  <2>1. IsFile(f) /\ q \in {AnnexB(f), Avcc(f)}
    BY <1>1
  <2> HIDE DEF q
  <2>2. isKeyFrame(q, IFrame) <=> {k \in DOMAIN f : IsOfType(Head(f[k].bytes), IFrame)} # {}
    BY <2>1, KeyFrameIs
  <2> QED BY <2>2, Zenon DEF FileHas, q
<1>5. (bIsKeyFrame => FileHas(IFrame) # {})'
  BY <1>1, <1>4 DEF FileHas
<1>6. BufferInv'
  <2>1. IsFile(file') /\ Len(AnnexB(file')) + Len(file') <= Len(pData')
    BY <1>1, <1>2, <1>3 DEF BufferInv
  <2> QED BY <1>1, <1>5, <2>1, Zenon DEF BufferInv, Stage
<1>7. UnderWay(codec, payloads, uLen, received, Whole)
  BY <1>2, <1>3 DEF PayloadInv
<1>8. Whole' = Whole
  BY <1>1 DEF Whole
<1>9. UnderWay(codec, payloads, uLen', received, Whole)
  <2> DEFINE v == uLen'
             w == Whole
  <2>1. uLen \in Nat /\ v \in Nat /\ uLen <= v
    <3>1. uLen \in Nat
      BY <1>3, FrameIs
    <3> QED BY <1>1, <3>1
  <2>2. UnderWay(codec, payloads, uLen, received, w)
    BY <1>7
  <2> HIDE DEF v, w
  <2>3. UnderWay(codec, payloads, v, received, w)
    BY <2>1, <2>2, UnderWayFits
  <2> QED BY <2>3 DEF v, w
<1>10. UnderWay(codec, payloads, uLen, received, Whole)'
  <2>1. UnderWay(codec', payloads', uLen', received', Whole')
    BY <1>1, <1>2, <1>8, <1>9, Zenon
  <2> QED BY <2>1, Zenon DEF UnderWay
<1>11. PayloadInv'
  BY <1>1, <1>10 DEF PayloadInv
<1> QED BY <1>6, <1>11 DEF SourceInv

(* A file from a far side that sends.                                      *)
LEMMA FarDelivers ==
    ASSUME NEW f, IsFile(f), NEW u
    PROVE  Delivers("H264", <<Payload([type |-> "STAP-A"], [k \in DOMAIN f |-> f[k].bytes], 0)>>, u,
                    FlattenSeq([k \in DOMAIN f |-> StartCode(4) \o f[k].bytes]))
<1>1. PICK n : FileLies(f, n)
  BY FileIs
<1> DEFINE nalu == NalusIn(f)
           x == [k \in DOMAIN f |-> f[k].bytes]
<1>2. n \in Nat /\ DOMAIN f = 1..n /\ \A k \in 1..n : nalu[k] = f[k].bytes /\ Allowed(nalu[k])
  BY <1>1, NaluAssumption DEF FileLies
<1> HIDE DEF nalu
<1>3. x = [k \in 1..n |-> nalu[k]]
  BY <1>2
<1>4. [k \in DOMAIN f |-> StartCode(4) \o f[k].bytes] = [k \in 1..n |-> StartCode(4) \o nalu[k]]
  BY <1>2, Zenon
<1> HIDE DEF x
<1>5. Delivers("H264", <<Payload([type |-> "STAP-A"], x, 0)>>, u,
               FlattenSeq([k \in 1..n |-> StartCode(4) \o nalu[k]]))
  BY <1>2, <1>3, StapADelivers
<1> QED BY <1>4, <1>5, Zenon DEF x

LEMMA SourceFar ==
    ASSUME SourceInv, FarFrame
    PROVE  SourceInv'
<1>1. /\ stage = "write" /\ codec \in {"H264", "VP8"} /\ stage' = "far"
      /\ pData' = pData /\ uLen' = uLen /\ codec' = codec /\ file' = file
      /\ bIsKeyFrame' = bIsKeyFrame /\ received' = received
  BY DEF FarFrame
<1>2. BufferInv /\ PayloadInv /\ received = <<>>
  BY <1>1 DEF SourceInv, PayloadInv
<1>3. Whole' = Whole
  BY <1>1 DEF Whole, Frame
<1>4. Delivers(codec, payloads', uLen, Whole)
  <2>1. CASE codec = "H264"
    <3>1. payloads' = <<Payload([type |-> "STAP-A"], [k \in DOMAIN file |-> file[k].bytes], 0)>>
      BY <2>1 DEF FarFrame
    <3>2. IsFile(file)
      BY <1>1, <1>2, <2>1, FrameOfFile
    <3>3. Delivers("H264", <<Payload([type |-> "STAP-A"], [k \in DOMAIN file |-> file[k].bytes], 0)>>, uLen,
                   FlattenSeq([k \in DOMAIN file |-> StartCode(4) \o file[k].bytes]))
      BY <3>2, FarDelivers
    <3>4. Whole = FlattenSeq([k \in DOMAIN file |-> StartCode(4) \o file[k].bytes])
      BY <2>1 DEF Whole
    <3> QED BY <2>1, <3>1, <3>3, <3>4, Zenon
  <2>2. CASE codec = "VP8"
    <3>1. PICK d \in Descriptors : payloads' = <<Payload(d, Frame, 0)>>
      BY <2>2 DEF FarFrame
    <3>2. Frame \in Seq(Nat)
      BY <1>2, FrameIs
    <3>3. Delivers("VP8", <<Payload(d, Frame, 0)>>, uLen, Frame)
      BY <3>2, DescriptorDelivers
    <3>4. Whole = Frame
      BY <2>2 DEF Whole
    <3> QED BY <2>2, <3>1, <3>3, <3>4, Zenon
  <2> QED BY <1>1, <2>1, <2>2
<1>5. UnderWay(codec, payloads', uLen, <<>>, Whole)
  <2> DEFINE p == payloads'
             w == Whole
  <2>1. Delivers(codec, p, uLen, w)
    BY <1>4
  <2> HIDE DEF p, w
  <2>2. UnderWay(codec, p, uLen, <<>>, w)
    BY <2>1, UnderWayStarts
  <2> QED BY <2>2 DEF p, w
<1>6. UnderWay(codec, payloads, uLen, received, Whole)'
  <2>1. UnderWay(codec', payloads', uLen', received', Whole')
    BY <1>1, <1>2, <1>3, <1>5, Zenon
  <2> QED BY <2>1, Zenon DEF UnderWay
<1>7. PayloadInv'
  BY <1>1, <1>6 DEF PayloadInv
<1>8. BufferInv'
  <2>1. /\ pData' \in Seq(0..Radix - 1) /\ uLen' \in 0..Len(pData') /\ bIsKeyFrame' \in BOOLEAN
        /\ codec' \in {"H264", "VP8", "G711", "Opus"}
    BY <1>1, <1>2 DEF BufferInv
  <2>2. CASE codec = "H264"
    <3>1. /\ (bIsKeyFrame => FileHas(IFrame) # {})'
          /\ IsFile(file') /\ Len(AnnexB(file')) + Len(file') <= Len(pData')
      BY <1>1, <1>2, <2>2 DEF BufferInv, FileHas
    <3>2. Holds(AnnexB(file))' \/ Holds(Avcc(file))'
      BY <1>1, <1>2, <2>2 DEF BufferInv, Holds, Frame
    <3>3. codec' = "H264"
      BY <1>1, <2>2
    <3> QED BY <1>1, <2>1, <3>1, <3>2, <3>3, Zenon DEF BufferInv, Stage
  <2>3. CASE codec # "H264"
    <3>1. uLen' = Len(pData') /\ codec' = "VP8"
      BY <1>1, <1>2, <2>3 DEF BufferInv
    <3> QED BY <1>1, <2>1, <3>1 DEF BufferInv, Stage
  <2> QED BY <2>2, <2>3
<1> QED BY <1>7, <1>8 DEF SourceInv

LEMMA SourceReceives ==
    ASSUME SourceInv, Receive
    PROVE  SourceInv'
<1>1. /\ stage \in {"receive", "far"} /\ payloads # <<>>
      /\ payloads' = Tail(payloads) /\ received' = received \o depay(codec, Head(payloads))
      /\ stage' = stage /\ codec' = codec /\ file' = file /\ pData' = pData /\ uLen' = uLen
      /\ bIsKeyFrame' = bIsKeyFrame
  BY DEF Receive
<1>2. BufferInv /\ PayloadInv
  BY DEF SourceInv
<1>3. Whole' = Whole
  BY <1>1 DEF Whole, Frame
<1>4. UnderWay(codec, payloads, uLen, received, Whole)
  BY <1>1, <1>2 DEF PayloadInv
<1>5. UnderWay(codec, Tail(payloads), uLen, received \o depay(codec, Head(payloads)), Whole)
  <2> DEFINE w == Whole
  <2>1. UnderWay(codec, payloads, uLen, received, w)
    BY <1>4
  <2> HIDE DEF w
  <2>2. UnderWay(codec, Tail(payloads), uLen, received \o depay(codec, Head(payloads)), w)
    BY <1>1, <2>1, UnderWayGoesOn
  <2> QED BY <2>2 DEF w
<1>6. UnderWay(codec, payloads, uLen, received, Whole)'
  <2>1. UnderWay(codec', payloads', uLen', received', Whole')
    BY <1>1, <1>3, <1>5, Zenon
  <2> QED BY <2>1, Zenon DEF UnderWay
<1>7. PayloadInv'
  BY <1>1, <1>6 DEF PayloadInv
<1>8. BufferInv'
  BY <1>1, <1>2 DEF BufferInv, Holds, Frame, FileHas
<1> QED BY <1>7, <1>8 DEF SourceInv

LEMMA SourceIsDone ==
    ASSUME SourceInv, Received
    PROVE  SourceInv'
<1>1. /\ stage' = "read" /\ codec' = "H264" /\ pData' = <<>> /\ uLen' = 0 /\ bIsKeyFrame' = FALSE
      /\ payloads' = <<>> /\ received' = <<>>
  BY DEF Received
<1>2. pData' \in Seq(0..Radix - 1) /\ uLen' \in 0..Len(pData')
  BY <1>1
<1>3. BufferInv'
  BY <1>1, <1>2 DEF BufferInv, Stage
<1>4. PayloadInv'
  BY <1>1 DEF PayloadInv
<1> QED BY <1>3, <1>4 DEF SourceInv

(* SourceInv is an invariant of VideoSource.                               *)
LEMMA SourceInvariant == NoLengthIsACode => (SourceSpec => []SourceInv)
<1> SUFFICES ASSUME NoLengthIsACode PROVE SourceSpec => []SourceInv
  OBVIOUS
<1>1. SourceInit => SourceInv
  BY SourceStarts
<1>2. ASSUME SourceInv, [SourceNext]_sourceVars
      PROVE  SourceInv'
  <2>1. CASE readFile
    BY <1>2, <2>1, SourceReads
  <2>2. CASE OtherFrame
    BY <1>2, <2>2, SourceOther
  <2>3. CASE Convert
    BY <1>2, <2>3, SourceConverts
  <2>4. CASE NotConverted
    BY <1>2, <2>4, SourceDoesNotConvert
  <2>5. CASE webrtc_taskAddVideoFrame
    BY <1>2, <2>5, SourceSends
  <2>6. CASE AddFrame
    BY <1>2, <2>6, SourceAdds
  <2>7. CASE FarFrame
    BY <1>2, <2>7, SourceFar
  <2>8. CASE Receive
    BY <1>2, <2>8, SourceReceives
  <2>9. CASE Received
    BY <1>2, <2>9, SourceIsDone
  <2>10. CASE UNCHANGED sourceVars
    <3>1. BufferInv' = BufferInv
      BY <2>10, Zenon DEF BufferInv, sourceVars, Holds, Frame, FileHas
    <3>2. PayloadInv' = PayloadInv
      BY <2>10, Zenon DEF PayloadInv, UnderWay, Whole, Frame, sourceVars
    <3> QED BY <1>2, <3>1, <3>2 DEF SourceInv
  <2> QED BY <1>2, <2>1, <2>2, <2>3, <2>4, <2>5, <2>6, <2>7, <2>8, <2>9, <2>10 DEF SourceNext
<1>3. SourceInv /\ [SourceNext]_sourceVars => SourceInv'
  BY <1>2
<1> QED BY <1>1, <1>3, PTL DEF SourceSpec

-----------------------------------------------------------------------------
(* VideoSource: what follows from it.                                      *)

LEMMA SourceInvHasType ==
    ASSUME SourceInv
    PROVE  SourceTypeOK
<1>1. BufferInv /\ PayloadInv
  BY DEF SourceInv
<1>2. \A k \in DOMAIN pData : pData[k] \in 0..Radix - 1
  <2>1. pData \in Seq(0..Radix - 1)
    BY <1>1 DEF BufferInv
  <2>2. pData \in [1..Len(pData) -> 0..Radix - 1]
    BY <2>1, SeqIsFunction
  <2> QED BY <2>2
<1>3. \A k \in DOMAIN payloads : Cut(payloads[k]) =>
            /\ HeaderSize(payloads[k].header.type) + Len(payloads[k].data) <= Mtu
            /\ payloads[k].refOffset + payloads[k].refLength <= uLen
  <2>1. CASE stage \in {"read", "convert", "write"}
    <3>1. payloads = <<>>
      BY <1>1, <2>1 DEF PayloadInv
    <3>2. DOMAIN payloads = {}
      BY <3>1
    <3> QED BY <3>2
  <2>2. CASE stage \in {"add", "receive", "far"}
    <3>1. UnderWay(codec, payloads, uLen, received, Whole)
      BY <1>1, <2>2 DEF PayloadInv
    <3>2. \A k \in DOMAIN payloads : Fits(payloads[k], uLen)
      BY <3>1, Zenon DEF UnderWay, Delivers
    <3> QED BY <3>2, Zenon DEF Fits
  <2> QED BY <1>1, <2>1, <2>2 DEF BufferInv, Stage
<1> QED BY <1>1, <1>2, <1>3, Zenon DEF SourceTypeOK, BufferInv

(* The buffer of a file holds it in one format or the other.               *)
LEMMA FileInFrame ==
    ASSUME SourceInv, codec = "H264", stage # "read"
    PROVE  IsFile(file) /\ Frame \in {AnnexB(file), Avcc(file)}
<1>1. BufferInv
  BY DEF SourceInv
<1>2. Holds(AnnexB(file)) \/ Holds(Avcc(file))
  BY <1>1 DEF BufferInv, Stage
<1>3. IsFile(file)
  BY <1>1 DEF BufferInv
<1> QED BY <1>2, <1>3 DEF Holds

-----------------------------------------------------------------------------
(* The buffers and the payloads have the types they are declared with; the *)
(* frame is within its buffer, and what this sender cuts of it fits the    *)
(* MTU with its header and lies in the frame.                              *)
THEOREM SourceTypeCorrect == NoLengthIsACode => (SourceSpec => []SourceTypeOK)
<1> SUFFICES ASSUME NoLengthIsACode PROVE SourceSpec => []SourceTypeOK
  OBVIOUS
<1>1. SourceSpec => []SourceInv
  BY SourceInvariant
<1>2. SourceInv => SourceTypeOK
  BY SourceInvHasType
<1> QED BY <1>1, <1>2, PTL

(* The conversion in place gives each NALU of a file behind its length,    *)
(* and nothing else, whatever the mixture of start codes (nalu.c, 259-378).*)
THEOREM ConversionIsExact == NoLengthIsACode => (SourceSpec => []ConvertedExactly)
<1> SUFFICES ASSUME NoLengthIsACode PROVE SourceSpec => []ConvertedExactly
  OBVIOUS
<1>1. SourceSpec => []SourceInv
  BY SourceInvariant
<1>2. SourceInv => ConvertedExactly
  BY DEF SourceInv, BufferInv, Holds, ConvertedExactly
<1> QED BY <1>1, <1>2, PTL

(* A search finds the first NALU of a type, and all of it, in either       *)
(* format, and the producer takes a frame for a key frame by its IDR       *)
(* picture (nalu.c, 103-122 and 140-209; kvsapp.c, 1475).                  *)
THEOREM FirstNaluIsFound == NoLengthIsACode => (SourceSpec => []NaluFound)
<1> SUFFICES ASSUME NoLengthIsACode PROVE SourceSpec => []NaluFound
  OBVIOUS
<1>1. SourceSpec => []SourceInv
  BY SourceInvariant
<1>2. SourceInv => NaluFound
  <2> SUFFICES ASSUME SourceInv, codec = "H264", stage # "read"
               PROVE  /\ \A type \in 1..TypeRadix - 1 :
                          LET found == NALU_getNalu(Frame, type)
                          IN  /\ found.res <=> FileHas(type) # {}
                              /\ found.res => Bytes(Frame, found.nalu, found.length)
                                              = file[Min(FileHas(type))].bytes
                      /\ isKeyFrame(Frame, IFrame) <=> FileHas(IFrame) # {}
                      /\ bIsKeyFrame => FileHas(IFrame) # {}
    BY DEF NaluFound
  <2> DEFINE q == Frame
             f == file
  <2>1. IsFile(f) /\ q \in {AnnexB(f), Avcc(f)}
    BY FileInFrame
  <2>2. bIsKeyFrame => FileHas(IFrame) # {}
    BY DEF SourceInv, BufferInv
  <2>3. \A type : FileHas(type) = {k \in DOMAIN f : IsOfType(Head(f[k].bytes), type)}
    BY DEF FileHas
  <2> HIDE DEF q, f
  <2>4. ASSUME NEW type \in 1..TypeRadix - 1
        PROVE  LET found == NALU_getNalu(q, type)
               IN  /\ found.res <=> FileHas(type) # {}
                   /\ found.res => Bytes(q, found.nalu, found.length) = f[Min(FileHas(type))].bytes
    <3>1. SearchFinds(q, f, type)
      BY <2>1, <2>4, FileSearched
    <3> QED BY <2>3, <3>1, Zenon DEF SearchFinds
  <2>5. isKeyFrame(q, IFrame) <=> FileHas(IFrame) # {}
    <3>1. isKeyFrame(q, IFrame) <=> {k \in DOMAIN f : IsOfType(Head(f[k].bytes), IFrame)} # {}
      BY <2>1, KeyFrameIs
    <3> QED BY <2>3, <3>1, Zenon
  <2> QED BY <2>2, <2>4, <2>5, Zenon DEF q, f
<1> QED BY <1>1, <1>2, PTL

(* Each NALU, fragmented or not, arrives behind a start code, and a frame  *)
(* of another codec as it was (RtpH264Payloader.c, 254 and 433).           *)
THEOREM FramesArriveWhole == NoLengthIsACode => (SourceSpec => []FrameArrivesWhole)
<1> SUFFICES ASSUME NoLengthIsACode PROVE SourceSpec => []FrameArrivesWhole
  OBVIOUS
<1>1. SourceSpec => []SourceInv
  BY SourceInvariant
<1>2. SourceInv => FrameArrivesWhole
  <2> SUFFICES ASSUME SourceInv, stage \in {"receive", "far"}, payloads = <<>>
               PROVE  received = Whole
    BY Zenon DEF FrameArrivesWhole, Whole
  <2>1. UnderWay(codec, <<>>, uLen, received, Whole)
    BY DEF SourceInv, PayloadInv
  <2> DEFINE w == Whole
  <2>2. UnderWay(codec, <<>>, uLen, received, w)
    BY <2>1
  <2> HIDE DEF w
  <2>3. received = w
    BY <2>2, UnderWayEnds
  <2> QED BY <2>3 DEF w
<1> QED BY <1>1, <1>2, PTL

(* As long as no length reads as a start code, a frame is taken for        *)
(* Annex-B exactly when it is (nalu.h, 84).                                *)
THEOREM AvccIsNotAnnexB == NoLengthIsACode => (SourceSpec => []AvccNotTakenForAnnexB)
<1> SUFFICES ASSUME NoLengthIsACode PROVE SourceSpec => []AvccNotTakenForAnnexB
  OBVIOUS
<1>1. SourceSpec => []SourceInv
  BY SourceInvariant
<1>2. SourceInv => AvccNotTakenForAnnexB
  <2> SUFFICES ASSUME SourceInv, codec = "H264", stage \in {"write", "add"}
               PROVE  NALU_isAnnexBFrame(Frame) <=> Frame = AnnexB(file)
    BY DEF AvccNotTakenForAnnexB
  <2> DEFINE q == Frame
             f == file
  <2>1. IsFile(f) /\ q \in {AnnexB(f), Avcc(f)}
    BY FileInFrame
  <2> HIDE DEF q, f
  <2>2. NALU_isAnnexBFrame(AnnexB(f)) /\ ~NALU_isAnnexBFrame(Avcc(f))
    BY <2>1, FormatsDiffer
  <2>3. NALU_isAnnexBFrame(q) <=> q = AnnexB(f)
    BY <2>1, <2>2, Zenon
  <2> QED BY <2>3 DEF q, f
<1> QED BY <1>1, <1>2, PTL
=============================================================================
