------------------------- MODULE StreamBufferProofs -------------------------
(***************************************************************************)
(* What the operators of StreamBuffer return, for any frames, timestamps   *)
(* and width of the timecode field, from the inside out: where a frame     *)
(* goes, which cluster timestamp is in force there, what Inserted returns, *)
(* and which headers are right after an insertion or a pop.                *)
(***************************************************************************)
EXTENDS StreamBuffer, FiniteSetTheorems, SequenceTheorems, TLAPS

-----------------------------------------------------------------------------
(* The least and the greatest of some numbers, and InsertAt.               *)

(* A non-empty set of numbers from 1..n has a least element.               *)
LEMMA LeastNat ==
    ASSUME NEW n \in Nat, NEW T, T \subseteq 1..n, T # {}
    PROVE  \E x \in T : \A y \in T : x <= y
<1>0. T \subseteq Nat
  OBVIOUS
<1>1. \E x \in T : \A y \in T : ~(<<y, x>> \in OpToRel(<, Nat))
  BY <1>0, NatLessThanWellFounded, WFMin
<1>2. \A x, y \in Nat : y < x => <<y, x>> \in OpToRel(<, Nat)
  BY DEF OpToRel
<1>3. \E x \in T : \A y \in T : ~(y < x)
  BY <1>0, <1>1, <1>2, Zenon
<1> QED BY <1>0, <1>3

(* Min of the community modules is that element.                           *)
LEMMA MinOfNats ==
    ASSUME NEW n \in Nat, NEW T, T \subseteq 1..n, T # {}
    PROVE  Min(T) \in T /\ \A y \in T : Min(T) <= y
BY LeastNat DEF Min

(* Max is the greatest one: reflect the set.                               *)
LEMMA MaxOfNats ==
    ASSUME NEW n \in Nat, NEW T, T \subseteq 1..n, T # {}
    PROVE  Max(T) \in T /\ \A y \in T : Max(T) >= y
<1> DEFINE R == {n + 1 - x : x \in T}
<1>1. R \subseteq 1..n /\ R # {}
  <2>1. \A x \in T : x \in Int /\ 1 <= x /\ x <= n
    OBVIOUS
  <2>2. \A x \in T : n + 1 - x \in 1..n
    BY <2>1
  <2> QED BY <2>2
<1>2. PICK r \in R : \A s \in R : r <= s
  <2> HIDE DEF R
  <2> QED BY <1>1, LeastNat
<1>3. PICK x \in T : r = n + 1 - x
  OBVIOUS
<1>4. \A y \in T : x >= y
  <2>1. ASSUME NEW y \in T PROVE x >= y
    <3>1. n + 1 - y \in R
      OBVIOUS
    <3> QED BY <3>1, <1>2, <1>3
  <2> QED BY <2>1
<1> QED BY <1>4 DEF Max

(* What InsertAt returns, element by element.                              *)
LEMMA InsertAtProps ==
    ASSUME NEW S, NEW s \in Seq(S), NEW e \in S, NEW k \in 1..Len(s) + 1
    PROVE  /\ InsertAt(s, k, e) \in Seq(S)
           /\ Len(InsertAt(s, k, e)) = Len(s) + 1
           /\ \A i \in 1..Len(s) + 1 :
                 InsertAt(s, k, e)[i] = IF i < k THEN s[i] ELSE IF i = k THEN e ELSE s[i - 1]
<1> DEFINE l == SubSeq(s, 1, k - 1)
           r == SubSeq(s, k, Len(s))
<1>1. /\ l \in Seq(S) /\ Len(l) = k - 1
      /\ \A i \in 1..k - 1 : l[i] = s[i]
  BY SubSeqProperties
<1>2. /\ r \in Seq(S) /\ Len(r) = Len(s) - k + 1
      /\ \A i \in 1..Len(s) - k + 1 : r[i] = s[k + i - 1]
  BY SubSeqProperties
<1>3. InsertAt(s, k, e) = (l \o <<e>>) \o r
  BY DEF InsertAt
<1> HIDE DEF l, r
<1>4. <<e>> \in Seq(S) /\ Len(<<e>>) = 1 /\ <<e>>[1] = e
  OBVIOUS
<1>5. /\ l \o <<e>> \in Seq(S) /\ Len(l \o <<e>>) = k
      /\ \A i \in 1..k : (l \o <<e>>)[i] = IF i < k THEN s[i] ELSE e
  BY <1>1, <1>4, ConcatProperties
<1> QED BY <1>2, <1>3, <1>5, ConcatProperties

-----------------------------------------------------------------------------
(* The fields of what the list holds.                                      *)

LEMMA FrameFields ==
    ASSUME NEW f \in DataFrameIn
    PROVE  /\ f.uTimestampMs \in Nat
           /\ f.xTrackType \in {"TRACK_VIDEO", "TRACK_AUDIO"}
           /\ f.id \in FrameId
<1>1. f \in [id : FrameId, uTimestampMs : Timestamp, xTrackType : TrackType,
            xClusterType : ClusterType, uDataLen : DataLen]
  BY DEF DataFrameIn
<1> QED BY <1>1, StreamBufferAssumption DEF TrackType

LEMMA PendingFields ==
    ASSUME NEW q \in Seq(DataFrame), NEW i \in 1..Len(q)
    PROVE  /\ q[i].frame \in DataFrameIn
           /\ q[i].timecode \in Nat
           /\ q[i] = [frame |-> q[i].frame, timecode |-> q[i].timecode]
           /\ q[i].frame.uTimestampMs \in Nat
<1>1. q[i] \in [frame : DataFrameIn, timecode : Nat]
  <2>1. q[i] \in DataFrame
    OBVIOUS
  <2> QED BY <2>1 DEF DataFrame
<1>2. q[i].frame \in DataFrameIn
  BY <1>1
<1> QED BY <1>1, <1>2, FrameFields

-----------------------------------------------------------------------------
(* Where a frame goes.                                                     *)

LEMMA InsertPositionProps ==
    ASSUME NEW q \in Seq(DataFrame), NEW f \in DataFrameIn
    PROVE  /\ InsertPosition(q, f) \in 1..Len(q) + 1
           /\ \A i \in 1..Len(q) : i < InsertPosition(q, f) => ~GoesBefore(f, q[i].frame)
           /\ InsertPosition(q, f) <= Len(q)
                => GoesBefore(f, q[InsertPosition(q, f)].frame)
<1> DEFINE T == {i \in 1..Len(q) : GoesBefore(f, q[i].frame)} \cup {Len(q) + 1}
<1>1. T \subseteq 1..(Len(q) + 1) /\ T # {} /\ Len(q) + 1 \in Nat
  OBVIOUS
<1>2. Min(T) \in T /\ \A y \in T : Min(T) <= y
  <2> HIDE DEF T
  <2> QED BY <1>1, MinOfNats
<1>3. InsertPosition(q, f) = Min(T)
  BY DEF InsertPosition
<1>4. Min(T) \in 1..Len(q) + 1
  <2> HIDE DEF T
  <2> QED BY <1>1, <1>2
<1>5. ASSUME NEW i \in 1..Len(q), i < Min(T) PROVE ~GoesBefore(f, q[i].frame)
  <2>1. i \notin T
    <3> HIDE DEF T
    <3> QED BY <1>2, <1>4, <1>5
  <2> QED BY <2>1
<1>6. Min(T) <= Len(q) => GoesBefore(f, q[Min(T)].frame)
  BY <1>2
<1> HIDE DEF T
<1> QED BY <1>3, <1>4, <1>5, <1>6

-----------------------------------------------------------------------------
(* Which cluster timestamp is in force.                                    *)

(* The last cluster among the first k frames determines it ...             *)
LEMMA ClusterTimestampOfLast ==
    ASSUME NEW q, NEW k \in Nat, NEW e, NEW j \in 1..k,
           IsCluster(q[j].frame), \A i \in (j + 1)..k : ~IsCluster(q[i].frame)
    PROVE  ClusterTimestampAt(q, k, e) = q[j].frame.uTimestampMs
<1> DEFINE C == {i \in 1..k : IsCluster(q[i].frame)}
<1>1. C \subseteq 1..k /\ C # {} /\ j \in C
  OBVIOUS
<1>2. Max(C) \in C /\ \A y \in C : Max(C) >= y
  <2> HIDE DEF C
  <2> QED BY <1>1, MaxOfNats
<1>3. Max(C) = j
  BY <1>1, <1>2
<1> QED BY <1>1, <1>3 DEF ClusterTimestampAt

(* ... and when there is none, the last cluster popped does.               *)
LEMMA ClusterTimestampOfNone ==
    ASSUME NEW q, NEW k \in Nat, NEW e, \A i \in 1..k : ~IsCluster(q[i].frame)
    PROVE  ClusterTimestampAt(q, k, e) = e
BY DEF ClusterTimestampAt

(* One of the two is the case.                                             *)
LEMMA LastClusterExists ==
    ASSUME NEW q, NEW k \in Nat
    PROVE  \/ \A i \in 1..k : ~IsCluster(q[i].frame)
           \/ \E j \in 1..k : /\ IsCluster(q[j].frame)
                              /\ \A i \in (j + 1)..k : ~IsCluster(q[i].frame)
<1> DEFINE C == {i \in 1..k : IsCluster(q[i].frame)}
<1>1. CASE C = {}
  BY <1>1
<1>2. CASE C # {}
  <2>1. C \subseteq 1..k
    OBVIOUS
  <2>2. Max(C) \in C /\ \A y \in C : Max(C) >= y
    <3> HIDE DEF C
    <3> QED BY <1>2, <2>1, MaxOfNats
  <2> QED BY <2>2
<1> QED BY <1>1, <1>2

LEMMA ClusterTimestampType ==
    ASSUME NEW q \in Seq(DataFrame), NEW k \in 0..Len(q), NEW e \in Nat
    PROVE  ClusterTimestampAt(q, k, e) \in Nat
<1>1. \A j \in 1..Len(q) : q[j].frame.uTimestampMs \in Nat
  BY PendingFields
<1>2. k \in Nat
  OBVIOUS
<1>3. CASE \A i \in 1..k : ~IsCluster(q[i].frame)
  BY <1>2, <1>3, ClusterTimestampOfNone
<1>4. ASSUME NEW j \in 1..k, IsCluster(q[j].frame),
             \A i \in (j + 1)..k : ~IsCluster(q[i].frame)
      PROVE  ClusterTimestampAt(q, k, e) \in Nat
  <2>1. ClusterTimestampAt(q, k, e) = q[j].frame.uTimestampMs
    BY <1>2, <1>4, ClusterTimestampOfLast
  <2> QED BY <1>1, <2>1
<1> QED BY <1>2, <1>3, <1>4, LastClusterExists

(* It depends on the first k frames only.                                  *)
LEMMA ClusterTimestampOfPrefix ==
    ASSUME NEW q, NEW r, NEW k \in Nat, NEW e, \A j \in 1..k : q[j].frame = r[j].frame
    PROVE  ClusterTimestampAt(q, k, e) = ClusterTimestampAt(r, k, e)
<1>1. CASE \A i \in 1..k : ~IsCluster(q[i].frame)
  BY <1>1, ClusterTimestampOfNone
<1>2. ASSUME NEW j \in 1..k, IsCluster(q[j].frame),
             \A i \in (j + 1)..k : ~IsCluster(q[i].frame)
      PROVE  ClusterTimestampAt(q, k, e) = ClusterTimestampAt(r, k, e)
  BY <1>2, ClusterTimestampOfLast
<1> QED BY <1>1, <1>2, LastClusterExists

(* The first k + 1 frames of s are the first k of q and a block at p.      *)
BlockLinkedAt(q, k, s, p) ==
    /\ k \in Nat /\ p \in 1..(k + 1)
    /\ ~IsCluster(s[p].frame)
    /\ \A j \in 1..k + 1 : j < p => s[j].frame = q[j].frame
    /\ \A j \in 1..k + 1 : j > p => s[j].frame = q[j - 1].frame

(* A block changes nothing behind it: frames shift by one.                 *)
LEMMA ClusterTimestampShifted ==
    ASSUME NEW q, NEW k, NEW s, NEW p, NEW e, BlockLinkedAt(q, k, s, p)
    PROVE  ClusterTimestampAt(s, k + 1, e) = ClusterTimestampAt(q, k, e)
<1> USE DEF BlockLinkedAt
<1>1. CASE \A i \in 1..k : ~IsCluster(q[i].frame)
  <2>1. \A i \in 1..k + 1 : ~IsCluster(s[i].frame)
    <3>1. ASSUME NEW i \in 1..k + 1 PROVE ~IsCluster(s[i].frame)
      <4>1. CASE i < p
        BY <1>1, <4>1
      <4>2. CASE i = p
        BY <4>2
      <4>3. CASE i > p
        BY <1>1, <4>3
      <4> QED BY <4>1, <4>2, <4>3
    <3> QED BY <3>1
  <2> QED BY <1>1, <2>1, ClusterTimestampOfNone
<1>2. ASSUME NEW j \in 1..k, IsCluster(q[j].frame),
             \A i \in (j + 1)..k : ~IsCluster(q[i].frame)
      PROVE  ClusterTimestampAt(s, k + 1, e) = ClusterTimestampAt(q, k, e)
  <2> DEFINE m == IF j < p THEN j ELSE j + 1
  <2>1. m \in 1..k + 1 /\ s[m].frame = q[j].frame
    OBVIOUS
  <2>2. ASSUME NEW i \in (m + 1)..(k + 1) PROVE ~IsCluster(s[i].frame)
    <3>1. CASE i < p
      BY <1>2, <3>1
    <3>2. CASE i = p
      BY <3>2
    <3>3. CASE i > p
      BY <1>2, <3>3
    <3> QED BY <3>1, <3>2, <3>3
  <2>3. ClusterTimestampAt(s, k + 1, e) = s[m].frame.uTimestampMs
    <3>1. IsCluster(s[m].frame)
      BY <1>2, <2>1
    <3>2. k + 1 \in Nat /\ m \in 1..(k + 1)
      BY <2>1
    <3> HIDE DEF m
    <3> QED BY <2>2, <3>1, <3>2, ClusterTimestampOfLast
  <2>4. ClusterTimestampAt(q, k, e) = q[j].frame.uTimestampMs
    BY <1>2, ClusterTimestampOfLast
  <2> QED BY <2>1, <2>3, <2>4
<1> QED BY <1>1, <1>2, LastClusterExists
-----------------------------------------------------------------------------
(* What an insertion returns.                                              *)

LEMMA TimecodeType ==
    ASSUME NEW f \in DataFrameIn, NEW c \in Nat
    PROVE  Timecode(f, c) \in Nat
<1>1. f.uTimestampMs \in Nat /\ DeltaModulus \in Nat \ {0}
  BY FrameFields, StreamBufferAssumption
<1>2. (f.uTimestampMs - c) % DeltaModulus \in Nat
  BY <1>1
<1> QED BY <1>1, <1>2 DEF Timecode

LEMMA RebasedProps ==
    ASSUME NEW q \in Seq(DataFrame)
    PROVE  /\ Rebased(q) \in Seq(DataFrame)
           /\ Len(Rebased(q)) = Len(q)
           /\ \A i \in 1..Len(q) :
                /\ Rebased(q)[i].frame = q[i].frame
                /\ Rebased(q)[i].timecode =
                     IF \E j \in 1..i : IsCluster(q[j].frame)
                     THEN Timecode(q[i].frame, ClusterTimestampAt(q, i, 0))
                     ELSE q[i].timecode
<1> DEFINE R(i) == IF \E j \in 1..i : IsCluster(q[j].frame)
                   THEN [q[i] EXCEPT !.timecode =
                           Timecode(q[i].frame, ClusterTimestampAt(q, i, 0))]
                   ELSE q[i]
<1>1. ASSUME NEW i \in 1..Len(q)
      PROVE  /\ R(i) \in DataFrame
             /\ R(i).frame = q[i].frame
             /\ R(i).timecode =
                  IF \E j \in 1..i : IsCluster(q[j].frame)
                  THEN Timecode(q[i].frame, ClusterTimestampAt(q, i, 0))
                  ELSE q[i].timecode
  <2>1. /\ q[i] \in [frame : DataFrameIn, timecode : Nat]
        /\ q[i].frame \in DataFrameIn
    <3>1. q[i] \in DataFrame
      OBVIOUS
    <3> QED BY <3>1, PendingFields DEF DataFrame
  <2>2. ClusterTimestampAt(q, i, 0) \in Nat
    BY ClusterTimestampType
  <2>3. Timecode(q[i].frame, ClusterTimestampAt(q, i, 0)) \in Nat
    BY <2>1, <2>2, TimecodeType
  <2> QED BY <2>1, <2>3 DEF DataFrame
<1>2. Rebased(q) = [i \in 1..Len(q) |-> R(i)]
  BY DEF Rebased
<1> HIDE DEF R
<1>3. Rebased(q) \in Seq(DataFrame) /\ Len(Rebased(q)) = Len(q)
  BY <1>1, <1>2
<1> QED BY <1>1, <1>2, <1>3

(* The list before headers are corrected: f at its place, with its header. *)
Linked(q, e, f) ==
    LET p == InsertPosition(q, f)
    IN  InsertAt(q, p, [frame |-> f,
                        timecode |-> Timecode(f, ClusterTimestampAt(q, p - 1, e))])

LEMMA LinkedProps ==
    ASSUME NEW q \in Seq(DataFrame), NEW e \in Nat, NEW f \in DataFrameIn
    PROVE  LET p == InsertPosition(q, f) IN
           /\ Linked(q, e, f) \in Seq(DataFrame)
           /\ Len(Linked(q, e, f)) = Len(q) + 1
           /\ \A i \in 1..Len(q) + 1 : i < p => Linked(q, e, f)[i] = q[i]
           /\ \A i \in 1..Len(q) + 1 : i > p => Linked(q, e, f)[i] = q[i - 1]
           /\ Linked(q, e, f)[p].frame = f
           /\ Linked(q, e, f)[p].timecode = Timecode(f, ClusterTimestampAt(q, p - 1, e))
<1> DEFINE p == InsertPosition(q, f)
           d == [frame |-> f, timecode |-> Timecode(f, ClusterTimestampAt(q, p - 1, e))]
<1>1. p \in 1..Len(q) + 1
  BY InsertPositionProps
<1>2. Timecode(f, ClusterTimestampAt(q, p - 1, e)) \in Nat
  <2>1. p - 1 \in 0..Len(q)
    BY <1>1
  <2> QED BY <2>1, ClusterTimestampType, TimecodeType
<1>3. /\ d \in DataFrame
      /\ d.frame = f
      /\ d.timecode = Timecode(f, ClusterTimestampAt(q, p - 1, e))
  <2> HIDE DEF p
  <2> QED BY <1>2 DEF DataFrame
<1>4. Linked(q, e, f) = InsertAt(q, p, d)
  BY DEF Linked
<1> HIDE DEF d, p
<1>5. /\ InsertAt(q, p, d) \in Seq(DataFrame)
      /\ Len(InsertAt(q, p, d)) = Len(q) + 1
      /\ \A i \in 1..Len(q) + 1 :
            InsertAt(q, p, d)[i] = IF i < p THEN q[i] ELSE IF i = p THEN d ELSE q[i - 1]
  BY <1>1, <1>3, InsertAtProps
<1>6. /\ Linked(q, e, f) \in Seq(DataFrame)
      /\ Len(Linked(q, e, f)) = Len(q) + 1
      /\ \A i \in 1..Len(q) + 1 : i < p => Linked(q, e, f)[i] = q[i]
      /\ \A i \in 1..Len(q) + 1 : i > p => Linked(q, e, f)[i] = q[i - 1]
      /\ Linked(q, e, f)[p].frame = f
      /\ Linked(q, e, f)[p].timecode = Timecode(f, ClusterTimestampAt(q, p - 1, e))
  BY <1>1, <1>3, <1>4, <1>5
<1> QED BY <1>6 DEF p

(* Inserted is that list, corrected where a cluster was linked in front of *)
(* other frames; the correction touches no frame.                          *)
LEMMA InsertedProps ==
    ASSUME NEW q \in Seq(DataFrame), NEW e \in Nat, NEW f \in DataFrameIn
    PROVE  LET p == InsertPosition(q, f) IN
           /\ Inserted(q, e, f) =
                 IF IsCluster(f) /\ p <= Len(q) THEN Rebased(Linked(q, e, f))
                                                ELSE Linked(q, e, f)
           /\ Inserted(q, e, f) \in Seq(DataFrame)
           /\ Len(Inserted(q, e, f)) = Len(q) + 1
           /\ \A i \in 1..Len(q) + 1 : i < p => Inserted(q, e, f)[i].frame = q[i].frame
           /\ \A i \in 1..Len(q) + 1 : i > p => Inserted(q, e, f)[i].frame = q[i - 1].frame
           /\ Inserted(q, e, f)[p].frame = f
<1> DEFINE p == InsertPosition(q, f)
<1>1. Inserted(q, e, f) = IF IsCluster(f) /\ p <= Len(q) THEN Rebased(Linked(q, e, f))
                                                         ELSE Linked(q, e, f)
  BY DEF Inserted, Linked
<1>2. p \in 1..Len(q) + 1
  BY InsertPositionProps
<1>3. /\ Linked(q, e, f) \in Seq(DataFrame)
      /\ Len(Linked(q, e, f)) = Len(q) + 1
      /\ \A i \in 1..Len(q) + 1 : i < p => Linked(q, e, f)[i] = q[i]
      /\ \A i \in 1..Len(q) + 1 : i > p => Linked(q, e, f)[i] = q[i - 1]
      /\ Linked(q, e, f)[p].frame = f
      /\ Linked(q, e, f)[p].timecode = Timecode(f, ClusterTimestampAt(q, p - 1, e))
  BY LinkedProps
<1>4. CASE IsCluster(f) /\ p <= Len(q)
  <2>1. /\ Rebased(Linked(q, e, f)) \in Seq(DataFrame)
        /\ Len(Rebased(Linked(q, e, f))) = Len(q) + 1
        /\ \A i \in 1..Len(q) + 1 :
              Rebased(Linked(q, e, f))[i].frame = Linked(q, e, f)[i].frame
    BY <1>3, RebasedProps
  <2> QED BY <1>1, <1>2, <1>3, <1>4, <2>1
<1>5. CASE ~(IsCluster(f) /\ p <= Len(q))
  BY <1>1, <1>3, <1>5
<1> QED BY <1>4, <1>5
-----------------------------------------------------------------------------
(* The headers.                                                            *)

(* A block, or a cluster at the tail, leaves every header right as it is.  *)
LEMMA LinkedKeepsTimecodes ==
    ASSUME NEW q \in Seq(DataFrame), NEW e \in Nat, NEW f \in DataFrameIn,
           TimecodesCurrent(q, e),
           ~IsCluster(f) \/ InsertPosition(q, f) = Len(q) + 1
    PROVE  TimecodesCurrent(Linked(q, e, f), e)
<1> DEFINE p == InsertPosition(q, f)
           s == Linked(q, e, f)
<1>1. p \in 1..Len(q) + 1
  BY InsertPositionProps
<1>2. /\ Len(s) = Len(q) + 1
      /\ \A i \in 1..Len(q) + 1 : i < p => s[i] = q[i]
      /\ \A i \in 1..Len(q) + 1 : i > p => s[i] = q[i - 1]
      /\ s[p].frame = f
      /\ s[p].timecode = Timecode(f, ClusterTimestampAt(q, p - 1, e))
  BY LinkedProps, SMTT(30)
<1>3. \A i \in 1..Len(q) : q[i].timecode = Timecode(q[i].frame, ClusterTimestampAt(q, i, e))
  BY DEF TimecodesCurrent
<1>4. ~IsCluster(f) \/ p = Len(q) + 1
  OBVIOUS
<1> SUFFICES ASSUME NEW i \in 1..Len(q) + 1
             PROVE  s[i].timecode = Timecode(s[i].frame, ClusterTimestampAt(s, i, e))
  BY <1>2 DEF TimecodesCurrent
<1> HIDE DEF p, s
<1>5. CASE i < p
  <2>1. \A j \in 1..i : s[j].frame = q[j].frame
    BY <1>1, <1>2, <1>5
  <2>2. ClusterTimestampAt(s, i, e) = ClusterTimestampAt(q, i, e)
    BY <2>1, ClusterTimestampOfPrefix
  <2> QED BY <1>1, <1>2, <1>3, <1>5, <2>2
<1>6. CASE i = p /\ IsCluster(f)
  BY <1>2, <1>6 DEF Timecode
<1>7. CASE i = p /\ ~IsCluster(f)
  <2>1. BlockLinkedAt(q, p - 1, s, p)
    BY <1>1, <1>2, <1>7 DEF BlockLinkedAt
  <2>2. ClusterTimestampAt(s, (p - 1) + 1, e) = ClusterTimestampAt(q, p - 1, e)
    BY <2>1, ClusterTimestampShifted
  <2> QED BY <1>1, <1>2, <1>7, <2>2
<1>8. CASE i > p
  <2>1. ~IsCluster(f)
    BY <1>1, <1>4, <1>8
  <2>2. BlockLinkedAt(q, i - 1, s, p)
    BY <1>1, <1>2, <1>8, <2>1 DEF BlockLinkedAt
  <2>3. ClusterTimestampAt(s, (i - 1) + 1, e) = ClusterTimestampAt(q, i - 1, e)
    BY <2>2, ClusterTimestampShifted
  <2>4. i - 1 \in 1..Len(q) /\ (i - 1) + 1 = i /\ s[i] = q[i - 1]
    BY <1>1, <1>2, <1>8
  <2> QED BY <1>3, <2>3, <2>4
<1> QED BY <1>1, <1>5, <1>6, <1>7, <1>8

(* A cluster elsewhere changes what follows; the correction pass covers    *)
(* all of it.                                                              *)
LEMMA RebasedKeepsTimecodes ==
    ASSUME NEW q \in Seq(DataFrame), NEW e \in Nat, NEW f \in DataFrameIn,
           TimecodesCurrent(q, e), IsCluster(f)
    PROVE  TimecodesCurrent(Rebased(Linked(q, e, f)), e)
<1> DEFINE p == InsertPosition(q, f)
           s == Linked(q, e, f)
           r == Rebased(s)
<1>1. p \in 1..Len(q) + 1
  BY InsertPositionProps
<1>2. /\ s \in Seq(DataFrame) /\ Len(s) = Len(q) + 1
      /\ \A i \in 1..Len(q) + 1 : i < p => s[i] = q[i]
      /\ s[p].frame = f
  BY LinkedProps
<1>3. /\ Len(r) = Len(s)
      /\ \A i \in 1..Len(s) :
           /\ r[i].frame = s[i].frame
           /\ r[i].timecode =
                IF \E j \in 1..i : IsCluster(s[j].frame)
                THEN Timecode(s[i].frame, ClusterTimestampAt(s, i, 0))
                ELSE s[i].timecode
  <2> HIDE DEF s
  <2> QED BY <1>2, RebasedProps
<1>4. \A i \in 1..Len(q) : q[i].timecode = Timecode(q[i].frame, ClusterTimestampAt(q, i, e))
  BY DEF TimecodesCurrent
<1> SUFFICES ASSUME NEW i \in 1..Len(s)
             PROVE  r[i].timecode = Timecode(r[i].frame, ClusterTimestampAt(r, i, e))
  BY <1>3 DEF TimecodesCurrent
<1> HIDE DEF p, s, r
<1>5. i \in Nat /\ \A j \in 1..i : r[j].frame = s[j].frame
  BY <1>2, <1>3
<1>6. CASE \A j \in 1..i : ~IsCluster(s[j].frame)
  <2>1. i < p
    BY <1>1, <1>2, <1>6
  <2>2. \A j \in 1..i : s[j] = q[j]
    BY <1>1, <1>2, <2>1
  <2>3. ClusterTimestampAt(r, i, e) = ClusterTimestampAt(q, i, e)
    BY <1>5, <2>2, ClusterTimestampOfPrefix
  <2>4. r[i].timecode = q[i].timecode /\ r[i].frame = q[i].frame /\ i \in 1..Len(q)
    BY <1>1, <1>2, <1>3, <1>6, <2>1, <2>2
  <2> QED BY <1>4, <2>3, <2>4
<1>7. ASSUME NEW j \in 1..i, IsCluster(s[j].frame),
             \A m \in (j + 1)..i : ~IsCluster(s[m].frame)
      PROVE  r[i].timecode = Timecode(r[i].frame, ClusterTimestampAt(r, i, e))
  <2>1. ClusterTimestampAt(s, i, 0) = s[j].frame.uTimestampMs
    BY <1>5, <1>7, ClusterTimestampOfLast
  <2>2. /\ IsCluster(r[j].frame)
        /\ \A m \in (j + 1)..i : ~IsCluster(r[m].frame)
    BY <1>5, <1>7
  <2>3. ClusterTimestampAt(r, i, e) = r[j].frame.uTimestampMs
    BY <1>5, <2>2, ClusterTimestampOfLast
  <2> QED BY <1>3, <1>5, <1>7, <2>1, <2>3
<1> QED BY <1>5, <1>6, <1>7, LastClusterExists

(* An insertion anywhere leaves every header right.                        *)
LEMMA InsertedKeepsTimecodes ==
    ASSUME NEW q \in Seq(DataFrame), NEW e \in Nat, NEW f \in DataFrameIn, TimecodesCurrent(q, e)
    PROVE  TimecodesCurrent(Inserted(q, e, f), e)
<1>1. InsertPosition(q, f) \in 1..Len(q) + 1
  BY InsertPositionProps
<1>2. CASE IsCluster(f) /\ InsertPosition(q, f) <= Len(q)
  <2>1. Inserted(q, e, f) = Rebased(Linked(q, e, f))
    BY <1>2, InsertedProps
  <2>2. TimecodesCurrent(Rebased(Linked(q, e, f)), e)
    BY <1>2, RebasedKeepsTimecodes
  <2> QED BY <2>1, <2>2
<1>3. CASE ~(IsCluster(f) /\ InsertPosition(q, f) <= Len(q))
  <2>1. Inserted(q, e, f) = Linked(q, e, f)
    BY <1>3, InsertedProps
  <2>2. ~IsCluster(f) \/ InsertPosition(q, f) = Len(q) + 1
    BY <1>1, <1>3
  <2>3. TimecodesCurrent(Linked(q, e, f), e)
    BY <2>2, LinkedKeepsTimecodes
  <2> QED BY <2>1, <2>3
<1> QED BY <1>2, <1>3

(* What Pop takes off the head, uEarliestClusterTimestamp remembers.       *)
LEMMA PopKeepsTimecodes ==
    ASSUME NEW q \in Seq(DataFrame), q # <<>>, NEW e \in Nat, TimecodesCurrent(q, e)
    PROVE  TimecodesCurrent(Tail(q), EarliestAfterPop(q, e))
<1> DEFINE s == Tail(q)
           d == EarliestAfterPop(q, e)
<1>1. Len(s) = Len(q) - 1 /\ \A i \in 1..Len(s) : s[i] = q[i + 1]
  OBVIOUS
<1>2. d = IF IsCluster(q[1].frame) THEN q[1].frame.uTimestampMs ELSE e
  BY DEF EarliestAfterPop
<1> SUFFICES ASSUME NEW i \in 1..Len(s)
             PROVE  s[i].timecode = Timecode(s[i].frame, ClusterTimestampAt(s, i, d))
  BY DEF TimecodesCurrent
<1> HIDE DEF s, d
<1>3. q[i + 1].timecode = Timecode(q[i + 1].frame, ClusterTimestampAt(q, i + 1, e))
  BY <1>1 DEF TimecodesCurrent
<1>4. i \in Nat /\ i + 1 \in Nat
  BY <1>1
<1>5. CASE \A j \in 1..(i + 1) : ~IsCluster(q[j].frame)
  <2>1. \A j \in 1..i : ~IsCluster(s[j].frame)
    BY <1>1, <1>5
  <2>2. d = e
    BY <1>2, <1>4, <1>5
  <2>3. ClusterTimestampAt(s, i, d) = ClusterTimestampAt(q, i + 1, e)
    BY <1>4, <1>5, <2>1, <2>2, ClusterTimestampOfNone
  <2> QED BY <1>1, <1>3, <2>3
<1>6. ASSUME NEW j \in 1..(i + 1), IsCluster(q[j].frame),
             \A m \in (j + 1)..(i + 1) : ~IsCluster(q[m].frame)
      PROVE  s[i].timecode = Timecode(s[i].frame, ClusterTimestampAt(s, i, d))
  <2>1. ClusterTimestampAt(q, i + 1, e) = q[j].frame.uTimestampMs
    BY <1>4, <1>6, ClusterTimestampOfLast
  <2>2. CASE j = 1
    <3>1. ASSUME NEW m \in 1..i PROVE ~IsCluster(s[m].frame)
      <4>1. m + 1 \in (j + 1)..(i + 1) /\ m \in 1..Len(s)
        BY <2>2
      <4> QED BY <1>1, <1>6, <4>1
    <3>2. ClusterTimestampAt(s, i, d) = d
      BY <1>4, <3>1, ClusterTimestampOfNone
    <3> QED BY <1>1, <1>2, <1>3, <1>6, <2>1, <2>2, <3>2
  <2>3. CASE j > 1
    <3> DEFINE k == j - 1
    <3>1. k \in 1..i /\ s[k] = q[j]
      BY <1>1, <2>3
    <3>2. ASSUME NEW m \in (k + 1)..i PROVE ~IsCluster(s[m].frame)
      <4>1. m + 1 \in (j + 1)..(i + 1) /\ m \in 1..Len(s)
        BY <2>3
      <4> QED BY <1>1, <1>6, <4>1
    <3> HIDE DEF k
    <3>3. ClusterTimestampAt(s, i, d) = s[k].frame.uTimestampMs
      BY <1>4, <1>6, <3>1, <3>2, ClusterTimestampOfLast
    <3> QED BY <1>1, <1>3, <2>1, <3>1, <3>3
  <2> QED BY <2>2, <2>3
<1> QED BY <1>4, <1>5, <1>6, LastClusterExists

-----------------------------------------------------------------------------
(* What the pending frames take.                                           *)

(* g adds up what the first frames of q take, one after the other.         *)
Sums(q, h, g) ==
    /\ g[0] = 0
    /\ \A k \in 1..Len(q) : g[k] = g[k - 1] + q[k].frame.uDataLen + h

(* f is the recursive function the fold over the first n frames is defined *)
(* by.                                                                     *)
Folding(f, n, q, h) ==
    f = [s \in SUBSET (1..n) |->
            IF s = {} THEN 0
            ELSE LET x == Max(s) IN f[s \ {x}] + q[x].frame.uDataLen + h]

(* It exists: if one for the first m - 1 frames does, so does one for the  *)
(* first m.                                                                *)
LEMMA FoldExists ==
    ASSUME NEW n \in Nat, NEW q, NEW h
    PROVE  \E f : Folding(f, n, q, h)
<1> DEFINE Step(f, s) == IF s = {} THEN 0
                         ELSE LET x == Max(s) IN f[s \ {x}] + q[x].frame.uDataLen + h
           Folds(f, m) == f = [s \in SUBSET (1..m) |-> Step(f, s)]
           T == {m \in 1..n : ~\E f : Folds(f, m)}
<1>1. \E f : Folds(f, 0)
  <2> DEFINE f == [s \in SUBSET (1..0) |-> 0]
  <2>1. \A s \in SUBSET (1..0) : s = {}
    OBVIOUS
  <2>2. \A s \in SUBSET (1..0) : Step(f, s) = 0
    BY <2>1
  <2>3. Folds(f, 0)
    <3> HIDE DEF Step
    <3> QED BY <2>2
  <2> QED BY <2>3
<1>2. ASSUME NEW m \in 1..n, NEW f, Folds(f, m - 1) PROVE \E g : Folds(g, m)
  <2> DEFINE g == [s \in SUBSET (1..m) |->
                     IF m \in s THEN f[s \ {m}] + q[m].frame.uDataLen + h ELSE f[s]]
  <2>1. ASSUME NEW s \in SUBSET (1..m) PROVE g[s] = Step(g, s)
    <3>1. CASE m \in s
      <4>1. Max(s) = m
        <5>1. s \subseteq 1..m /\ s # {} /\ m \in Nat
          BY <3>1
        <5>2. Max(s) \in s /\ \A y \in s : Max(s) >= y
          BY <5>1, MaxOfNats
        <5> DEFINE x == Max(s)
        <5>3. x \in 1..m /\ x >= m
          BY <3>1, <5>1, <5>2
        <5> HIDE DEF x
        <5>4. x = m
          BY <5>1, <5>3
        <5> QED BY <5>4 DEF x
      <4>2. s \ {m} \in SUBSET (1..m) /\ m \notin s \ {m}
        OBVIOUS
      <4>3. g[s \ {m}] = f[s \ {m}]
        BY <4>2
      <4>4. g[s] = f[s \ {m}] + q[m].frame.uDataLen + h
        BY <3>1
      <4> HIDE DEF g
      <4> QED BY <3>1, <4>1, <4>3, <4>4
    <3>2. CASE m \notin s
      <4>1. s \in SUBSET (1..(m - 1))
        BY <3>2
      <4>2. g[s] = f[s]
        BY <3>2
      <4>3. f[s] = Step(f, s)
        <5> HIDE DEF Step
        <5> QED BY <1>2, <4>1
      <4>4. s # {} => g[s \ {Max(s)}] = f[s \ {Max(s)}]
        <5>1. s \ {Max(s)} \in SUBSET (1..m) /\ m \notin s \ {Max(s)}
          BY <3>2
        <5> QED BY <5>1
      <4> HIDE DEF g
      <4> QED BY <4>2, <4>3, <4>4
    <3> QED BY <3>1, <3>2
  <2>2. g = [s \in SUBSET (1..m) |-> g[s]]
    OBVIOUS
  <2> HIDE DEF g, Step
  <2>3. Folds(g, m)
    BY <2>1, <2>2
  <2> QED BY <2>3
<1> HIDE DEF Folds
<1>3. T = {}
  <2> SUFFICES ASSUME T # {} PROVE FALSE
    OBVIOUS
  <2>1. T \subseteq 1..n
    OBVIOUS
  <2>2. PICK m \in T : \A k \in T : m <= k
    <3> HIDE DEF T
    <3> QED BY <2>1, LeastNat
  <2>3. m \in 1..n /\ ~\E f : Folds(f, m)
    OBVIOUS
  <2>4. m - 1 \notin T
    <3> HIDE DEF T
    <3> QED BY <2>2, <2>3
  <2>5. m - 1 = 0 \/ m - 1 \in 1..n
    BY <2>3
  <2>6. \E f : Folds(f, m - 1)
    BY <1>1, <2>4, <2>5
  <2> QED BY <1>2, <2>3, <2>6
<1>4. \E f : Folds(f, n)
  <2>1. n = 0 \/ n \in 1..n
    OBVIOUS
  <2> QED BY <1>1, <1>3, <2>1
<1> QED BY <1>4 DEF Folds, Folding

LEMMA MemStatTotalIs ==
    ASSUME NEW q \in Seq(DataFrame), NEW h \in Nat
    PROVE  \E g : Sums(q, h, g) /\ MemStatTotal(q, h) = g[Len(q)]
<1> DEFINE n == Len(q)
           iter == CHOOSE f : Folding(f, n, q, h)
<1>1. n \in Nat /\ DOMAIN q = 1..n
  OBVIOUS
<1>2. Folding(iter, n, q, h)
  <2>1. \E f : Folding(f, n, q, h)
    BY <1>1, FoldExists
  <2> QED BY <2>1
<1>3. MemStatTotal(q, h) = iter[1..n]
  BY <1>1 DEF MemStatTotal, FoldLeft, MapThenFoldSet, Folding
<1> HIDE DEF iter
<1> DEFINE g == [k \in 0..n |-> iter[1..k]]
<1>4. \A s \in SUBSET (1..n) : iter[s] = IF s = {} THEN 0 ELSE iter[s \ {Max(s)}] + q[Max(s)].frame.uDataLen + h
  BY <1>2 DEF Folding
<1>5. g[0] = 0
  <2>1. 1..0 = {} /\ 0 \in 0..n
    BY <1>1
  <2> QED BY <1>4, <2>1
<1>6. ASSUME NEW k \in 1..n PROVE g[k] = g[k - 1] + q[k].frame.uDataLen + h
  <2>0. k \in Nat /\ 1 <= k /\ k <= n
    BY <1>1
  <2>1. 1..k \in SUBSET (1..n) /\ 1..k # {} /\ k \in Nat /\ k \in 1..k
    <3> HIDE DEF n
    <3>1. \A i \in 1..k : i \in 1..n
      BY <1>1, <2>0
    <3>2. k \in 1..k
      BY <2>0
    <3> QED BY <2>0, <3>1, <3>2
  <2>2. Max(1..k) \in 1..k /\ \A y \in 1..k : Max(1..k) >= y
    <3> DEFINE S == 1..k
    <3>1. S \subseteq 1..k /\ S # {}
      BY <2>1
    <3> HIDE DEF S
    <3>2. Max(S) \in S /\ \A y \in S : Max(S) >= y
      BY <2>1, <3>1, MaxOfNats
    <3> QED BY <3>2 DEF S
  <2>3. Max(1..k) = k
    BY <2>1, <2>2
  <2>4. (1..k) \ {k} = 1..(k - 1)
    BY <2>1
  <2>5. iter[1..k] = iter[1..(k - 1)] + q[k].frame.uDataLen + h
    BY <1>4, <2>1, <2>3, <2>4
  <2>6. k \in 0..n /\ k - 1 \in 0..n
    OBVIOUS
  <2> QED BY <2>5, <2>6
<1>7. g[n] = iter[1..n]
  BY <1>1
<1> HIDE DEF g
<1>8. Sums(q, h, g)
  BY <1>5, <1>6 DEF Sums
<1> QED BY <1>3, <1>7, <1>8

LEMMA SumsTypes ==
    ASSUME NEW q \in Seq(DataFrame), NEW h \in Nat, NEW g, Sums(q, h, g)
    PROVE  \A k \in 0..Len(q) : g[k] \in Nat
<1> DEFINE n == Len(q)
           T == {k \in 1..n : g[k] \notin Nat}
<1>1. n \in Nat /\ g[0] = 0
  BY DEF Sums
<1>2. \A k \in 1..n : q[k].frame.uDataLen \in Nat /\ g[k] = g[k - 1] + q[k].frame.uDataLen + h
  <2>1. \A k \in 1..n : q[k].frame \in DataFrameIn
    BY PendingFields
  <2> QED BY <2>1, StreamBufferAssumption DEF DataFrameIn, Sums
<1>3. T = {}
  <2> SUFFICES ASSUME T # {} PROVE FALSE
    OBVIOUS
  <2>1. T \subseteq 1..n
    OBVIOUS
  <2>2. PICK m \in T : \A k \in T : m <= k
    <3> HIDE DEF T
    <3> QED BY <1>1, <2>1, LeastNat
  <2>3. m \in 1..n /\ g[m] \notin Nat
    OBVIOUS
  <2>4. g[m - 1] \in Nat
    <3>1. m = 1 \/ m - 1 \in 1..n
      BY <1>1, <2>3
    <3>2. m - 1 \notin T
      <4> HIDE DEF T, n
      <4> QED BY <1>1, <2>2, <2>3
    <3>3. CASE m = 1
      <4>1. m - 1 = 0
        BY <3>3
      <4> QED BY <1>1, <4>1
    <3>4. CASE m - 1 \in 1..n
      BY <3>2, <3>4
    <3> HIDE DEF T, n
    <3> QED BY <3>1, <3>3, <3>4
  <2> DEFINE a == g[m - 1]
             d == q[m].frame.uDataLen
  <2>5. g[m] = a + d + h /\ a \in Nat /\ d \in Nat
    BY <1>2, <2>3, <2>4
  <2> HIDE DEF a, d
  <2> QED BY <2>3, <2>5
<1> QED BY <1>1, <1>3

(* What is pending takes a number of bytes, and nothing takes none.        *)
LEMMA MemStatTotalType ==
    ASSUME NEW q \in Seq(DataFrame), NEW h \in Nat
    PROVE  MemStatTotal(q, h) \in Nat /\ (q = <<>> => MemStatTotal(q, h) = 0)
<1>1. PICK g : Sums(q, h, g) /\ MemStatTotal(q, h) = g[Len(q)]
  BY MemStatTotalIs
<1>2. \A k \in 0..Len(q) : g[k] \in Nat
  BY <1>1, SumsTypes
<1>3. Len(q) \in 0..Len(q) /\ (q = <<>> => Len(q) = 0)
  OBVIOUS
<1> QED BY <1>1, <1>2, <1>3 DEF Sums

(* One frame more, wherever it is put, takes its data and a header.        *)
LEMMA MemStatTotalOfOneMore ==
    ASSUME NEW q \in Seq(DataFrame), NEW r \in Seq(DataFrame), NEW h \in Nat,
           NEW p \in 1..Len(q) + 1, Len(r) = Len(q) + 1,
           \A i \in 1..Len(q) + 1 : i < p => r[i].frame = q[i].frame,
           \A i \in 1..Len(q) + 1 : i > p => r[i].frame = q[i - 1].frame
    PROVE  MemStatTotal(r, h) = MemStatTotal(q, h) + r[p].frame.uDataLen + h
<1> DEFINE n == Len(q)
           w == r[p].frame.uDataLen + h
<1>0. n \in Nat /\ Len(r) = n + 1 /\ p \in 1..n + 1
  OBVIOUS
<1>1. PICK f : Sums(q, h, f) /\ MemStatTotal(q, h) = f[n]
  BY MemStatTotalIs
<1>2. PICK g : Sums(r, h, g) /\ MemStatTotal(r, h) = g[n + 1]
  <2>1. \E g : Sums(r, h, g) /\ MemStatTotal(r, h) = g[Len(r)]
    BY MemStatTotalIs
  <2> QED BY <1>0, <2>1
<1>3. \A i \in 1..n + 1 : r[i].frame.uDataLen \in Nat
  <2>1. \A i \in 1..n + 1 : r[i].frame \in DataFrameIn
    BY PendingFields
  <2> QED BY <2>1, StreamBufferAssumption DEF DataFrameIn
<1>4. \A k \in 0..n : f[k] \in Nat
  BY <1>1, SumsTypes
<1>5. /\ f[0] = 0 /\ g[0] = 0
      /\ \A k \in 1..n : f[k] = f[k - 1] + q[k].frame.uDataLen + h
      /\ \A k \in 1..n + 1 : g[k] = g[k - 1] + r[k].frame.uDataLen + h
  BY <1>1, <1>2 DEF Sums
<1>6. w \in Nat /\ w = r[p].frame.uDataLen + h
  BY <1>3
<1> DEFINE Moved(k) == g[k] = IF k < p THEN f[k] ELSE f[k - 1] + w
           T == {k \in 1..n + 1 : ~Moved(k)}
<1>7. ASSUME NEW m \in 1..n + 1, m = 1 \/ Moved(m - 1) PROVE Moved(m)
  <2>0. g[m] = g[m - 1] + r[m].frame.uDataLen + h /\ r[m].frame.uDataLen \in Nat
    BY <1>3, <1>5
  <2>1. CASE m < p
    <3>1. g[m - 1] = f[m - 1]
      <4>1. CASE m = 1
        BY <1>5, <4>1
      <4>2. CASE m # 1
        BY <1>0, <1>7, <2>1, <4>2
      <4> QED BY <4>1, <4>2
    <3>2. r[m].frame = q[m].frame /\ m \in 1..n
      BY <1>0, <2>1
    <3>3. f[m] = f[m - 1] + q[m].frame.uDataLen + h
      BY <1>5, <3>2
    <3> QED BY <2>0, <2>1, <3>1, <3>2, <3>3
  <2>2. CASE m = p
    <3>1. g[m - 1] = f[m - 1]
      <4>1. CASE m = 1
        BY <1>5, <4>1
      <4>2. CASE m # 1
        BY <1>0, <1>7, <2>2, <4>2
      <4> QED BY <4>1, <4>2
    <3>2. m - 1 \in 0..n /\ ~(m < p)
      BY <1>0, <2>2
    <3>3. f[m - 1] \in Nat
      BY <1>4, <3>2
    <3> QED BY <2>0, <2>2, <3>1, <3>2, <3>3
  <2>3. CASE m > p
    <3>1. m - 1 >= p /\ m - 1 \in 1..n /\ m - 2 \in 0..n /\ ~(m < p) /\ m # 1 /\ ~(m - 1 < p)
      BY <1>0, <2>3
    <3>2. g[m - 1] = f[m - 2] + w
      <4>1. Moved(m - 1)
        BY <1>7, <3>1
      <4>2. (m - 1) - 1 = m - 2
        BY <1>0
      <4> HIDE DEF w, n
      <4> QED BY <3>1, <4>1, <4>2
    <3>3. r[m].frame = q[m - 1].frame
      BY <1>0, <2>3
    <3>4. f[m - 1] = f[m - 2] + q[m - 1].frame.uDataLen + h
      <4>1. (m - 1) - 1 = m - 2
        BY <1>0
      <4>2. f[m - 1] = f[(m - 1) - 1] + q[m - 1].frame.uDataLen + h
        BY <1>5, <3>1
      <4> QED BY <4>1, <4>2
    <3>5. f[m - 2] \in Nat
      BY <1>4, <3>1
    <3>6. g[m] = f[m - 1] + w
      <4> DEFINE d == r[m].frame.uDataLen
                 a == f[m - 2]
      <4>1. g[m] = (a + w) + d + h /\ f[m - 1] = a + d + h /\ d \in Nat
        BY <2>0, <3>2, <3>3, <3>4
      <4>2. a \in Nat /\ w \in Nat /\ h \in Nat
        BY <1>6, <3>5
      <4> HIDE DEF w, d, a
      <4>3. (a + w) + d + h = (a + d + h) + w
        BY <4>1, <4>2
      <4> QED BY <4>1, <4>3
    <3> QED BY <3>1, <3>6
  <2> QED BY <1>0, <2>1, <2>2, <2>3
<1> HIDE DEF Moved
<1>8. T = {}
  <2> SUFFICES ASSUME T # {} PROVE FALSE
    OBVIOUS
  <2>1. T \subseteq 1..(n + 1) /\ n + 1 \in Nat
    BY <1>0
  <2>2. PICK m \in T : \A k \in T : m <= k
    <3> HIDE DEF T
    <3> QED BY <2>1, LeastNat
  <2>3. m \in 1..n + 1 /\ ~Moved(m)
    OBVIOUS
  <2>4. m = 1 \/ m - 1 \in 1..n + 1
    BY <1>0, <2>3
  <2>5. m - 1 \notin T
    <3> HIDE DEF T
    <3> QED BY <1>0, <2>2, <2>3
  <2> QED BY <1>7, <2>3, <2>4, <2>5
<1>9. Moved(n + 1)
  <2>1. n + 1 \in 1..n + 1
    BY <1>0
  <2> QED BY <1>8, <2>1
<1>10. g[n + 1] = f[n] + w
  <2>1. ~(n + 1 < p) /\ (n + 1) - 1 = n
    BY <1>0
  <2> HIDE DEF w
  <2> QED BY <1>9, <2>1 DEF Moved
<1>11. f[n] \in Nat /\ r[p].frame.uDataLen \in Nat
  BY <1>0, <1>3, <1>4
<1> QED BY <1>1, <1>2, <1>6, <1>10, <1>11
=============================================================================
