---------------------------- MODULE StreamProofs ----------------------------
(***************************************************************************)
(* What the stream guarantees for any frames, timestamps and width of the  *)
(* timecode field, from what StreamBufferProofs says of its operators; and *)
(* that the stream with its headers, for every set of tracks and of tags,  *)
(* is the stream: making headers, handing them out and adding tags leave   *)
(* the list alone.                                                         *)
(***************************************************************************)
EXTENDS MkvStream, StreamBufferProofs

-----------------------------------------------------------------------------
(* The stream holds well-formed frames and headers (TypeOK of Stream).     *)
THEOREM TypeCorrect == Spec => []TypeOK
<1>1. Init => TypeOK
  BY DEF Init, TypeOK
<1>2. TypeOK /\ [Next]_vars => TypeOK'
  <2> SUFFICES ASSUME TypeOK, [Next]_vars PROVE TypeOK'
    OBVIOUS
  <2> USE DEF TypeOK
  <2>1. ASSUME NEW f \in DataFrameIn, Kvs_streamAddDataFrame(f) PROVE TypeOK'
    <3>1. Inserted(pending, uEarliestClusterTimestamp, f) \in Seq(DataFrame)
      BY InsertedProps
    <3> QED BY <2>1, <3>1 DEF Kvs_streamAddDataFrame
  <2>2. CASE Kvs_streamPop
    <3>1. pending[1].frame \in DataFrameIn /\ pending[1].frame.uTimestampMs \in Nat
      <4>1. pending \in Seq(DataFrame) /\ 1 \in 1..Len(pending)
        BY <2>2 DEF Kvs_streamPop
      <4> QED BY <4>1, PendingFields
    <3>2. Tail(pending) \in Seq(DataFrame)
      BY <2>2 DEF Kvs_streamPop
    <3> QED BY <2>2, <3>1, <3>2 DEF Kvs_streamPop, EarliestAfterPop
  <2>3. CASE UNCHANGED vars
    BY <2>3 DEF vars
  <2> QED BY <2>1, <2>2, <2>3 DEF Next
<1> QED BY <1>1, <1>2, PTL DEF Spec

-----------------------------------------------------------------------------
(* The order of the list.  PendingInSendOrder is not inductive enough for  *)
(* the refinement: it leaves open where frames of one track go that tie.   *)
(* Ranked settles it by the number each frame got on arrival.              *)
Ranked ==
    /\ \A i \in 1..Len(pending) : pending[i].frame.id \in 1..arrivals
    /\ \A i, j \in 1..Len(pending) :
          i < j => Queue!First(pending[i].frame, pending[j].frame)

LEMMA FirstTransitive ==
    ASSUME NEW a \in DataFrameIn, NEW b \in DataFrameIn, NEW c \in DataFrameIn,
           a.id \in Nat, b.id \in Nat, c.id \in Nat,
           Queue!First(a, b), Queue!First(b, c)
    PROVE  Queue!First(a, c)
BY FrameFields DEF Queue!First

(* The scan of Kvs_streamAddDataFrame puts the youngest frame where the    *)
(* ranking says.                                                           *)
LEMMA AddKeepsRanked ==
    ASSUME TypeOK, Ranked, NEW f \in DataFrameIn, Kvs_streamAddDataFrame(f)
    PROVE  Ranked'
<1> DEFINE p == InsertPosition(pending, f)
           q == pending
           s == pending'
<1>1. /\ q \in Seq(DataFrame) /\ arrivals \in Nat /\ uEarliestClusterTimestamp \in Nat
      /\ arrivals' = arrivals + 1 /\ f.id = arrivals + 1
  BY DEF TypeOK, Kvs_streamAddDataFrame
<1>2. /\ p \in 1..Len(q) + 1
      /\ \A i \in 1..Len(q) : i < p => ~GoesBefore(f, q[i].frame)
      /\ p <= Len(q) => GoesBefore(f, q[p].frame)
  BY <1>1, InsertPositionProps
<1>3. /\ s \in Seq(DataFrame) /\ Len(s) = Len(q) + 1
      /\ \A i \in 1..Len(q) + 1 : i < p => s[i].frame = q[i].frame
      /\ \A i \in 1..Len(q) + 1 : i > p => s[i].frame = q[i - 1].frame
      /\ s[p].frame = f
  BY <1>1, InsertedProps DEF Kvs_streamAddDataFrame
<1>4. \A i \in 1..Len(q) : q[i].frame \in DataFrameIn /\ q[i].frame.id \in 1..arrivals
  BY <1>1, PendingFields DEF Ranked
<1>5. \A i, j \in 1..Len(q) : i < j => Queue!First(q[i].frame, q[j].frame)
  BY DEF Ranked
<1> HIDE DEF p, q, s
<1>6. ASSUME NEW i \in 1..Len(q), i < p PROVE Queue!First(q[i].frame, f)
  <2>1. ~GoesBefore(f, q[i].frame)
    BY <1>2, <1>6
  <2> QED BY <1>1, <1>4, <2>1, FrameFields DEF GoesBefore, Queue!First
<1>7. ASSUME NEW j \in 1..Len(q), j >= p PROVE Queue!First(f, q[j].frame)
  <2>1. p \in 1..Len(q) /\ GoesBefore(f, q[p].frame)
    BY <1>1, <1>2, <1>7
  <2>2. Queue!First(f, q[p].frame)
    BY <1>1, <1>4, <2>1, FrameFields DEF GoesBefore, Queue!First
  <2>3. CASE j = p
    BY <2>2, <2>3
  <2>4. CASE j > p
    BY <1>1, <1>4, <1>5, <2>1, <2>2, <2>4, FirstTransitive
  <2> QED BY <1>2, <1>7, <2>3, <2>4
<1>8. \A i \in 1..Len(s) : s[i].frame.id \in 1..arrivals'
  <2> SUFFICES ASSUME NEW i \in 1..Len(s) PROVE s[i].frame.id \in 1..arrivals'
    OBVIOUS
  <2>1. CASE i < p
    BY <1>1, <1>2, <1>3, <1>4, <2>1
  <2>2. CASE i = p
    BY <1>1, <1>3, <2>2
  <2>3. CASE i > p
    BY <1>1, <1>2, <1>3, <1>4, <2>3
  <2> QED BY <1>2, <2>1, <2>2, <2>3
<1>9. \A i, j \in 1..Len(s) : i < j => Queue!First(s[i].frame, s[j].frame)
  <2> SUFFICES ASSUME NEW i \in 1..Len(s), NEW j \in 1..Len(s), i < j
               PROVE  Queue!First(s[i].frame, s[j].frame)
    OBVIOUS
  <2>1. CASE j < p
    BY <1>1, <1>2, <1>3, <1>5, <2>1
  <2>2. CASE j = p
    BY <1>1, <1>2, <1>3, <1>6, <2>2
  <2>3. CASE j > p /\ i < p
    <3>1. i \in 1..Len(q) /\ j - 1 \in 1..Len(q) /\ i < j - 1
      BY <1>1, <1>2, <1>3, <2>3
    <3> QED BY <1>3, <1>5, <2>3, <3>1
  <2>4. CASE j > p /\ i = p
    <3>1. j - 1 \in 1..Len(q) /\ j - 1 >= p
      BY <1>1, <1>2, <1>3, <2>4
    <3> QED BY <1>3, <1>7, <2>4, <3>1
  <2>5. CASE j > p /\ i > p
    <3>1. i - 1 \in 1..Len(q) /\ j - 1 \in 1..Len(q) /\ i - 1 < j - 1
      BY <1>1, <1>2, <1>3, <2>5
    <3> QED BY <1>3, <1>5, <2>5, <3>1
  <2> QED BY <1>2, <2>1, <2>2, <2>3, <2>4, <2>5
<1> QED BY <1>8, <1>9 DEF Ranked, s

LEMMA PopKeepsRanked ==
    ASSUME TypeOK, Ranked, Kvs_streamPop
    PROVE  Ranked'
<1>1. /\ pending \in Seq(DataFrame) /\ pending # <<>>
      /\ pending' = Tail(pending) /\ arrivals' = arrivals
  BY DEF TypeOK, Kvs_streamPop
<1>2. /\ Len(pending') = Len(pending) - 1
      /\ \A i \in 1..Len(pending') : pending'[i] = pending[i + 1]
  BY <1>1
<1> QED BY <1>1, <1>2 DEF Ranked

LEMMA RankedInvariant == Spec => [](TypeOK /\ Ranked)
<1>1. Init => Ranked
  BY DEF Init, Ranked
<1>2. TypeOK /\ Ranked /\ [Next]_vars => Ranked'
  <2> SUFFICES ASSUME TypeOK, Ranked, [Next]_vars PROVE Ranked'
    OBVIOUS
  <2>1. ASSUME NEW f \in DataFrameIn, Kvs_streamAddDataFrame(f) PROVE Ranked'
    BY <2>1, AddKeepsRanked
  <2>2. CASE Kvs_streamPop
    BY <2>2, PopKeepsRanked
  <2>3. CASE UNCHANGED vars
    BY <2>3 DEF vars, Ranked
  <2> QED BY <2>1, <2>2, <2>3 DEF Next
<1> QED BY <1>1, <1>2, TypeCorrect, PTL DEF Spec

(* The list stays in the order frames must go out in, for any frames and   *)
(* timestamps in any order of arrival (PendingInSendOrder of Stream).      *)
THEOREM SendOrder == Spec => []PendingInSendOrder
<1>1. TypeOK /\ Ranked => PendingInSendOrder
  <2> SUFFICES ASSUME TypeOK, Ranked PROVE PendingInSendOrder
    OBVIOUS
  <2>1. \A i \in 1..Len(pending) : pending[i].frame \in DataFrameIn
    BY PendingFields DEF TypeOK
  <2> QED BY <2>1, FrameFields DEF Ranked, PendingInSendOrder, InSendOrder, Queue!First
<1> QED BY <1>1, RankedInvariant, PTL

-----------------------------------------------------------------------------
(* No header goes stale, for any frames, timestamps and field width        *)
(* (PendingTimecodesCurrent of Stream).                                    *)
THEOREM TimecodesStayCurrent == Spec => []PendingTimecodesCurrent
<1>1. Init => PendingTimecodesCurrent
  BY DEF Init, PendingTimecodesCurrent, TimecodesCurrent
<1>2. TypeOK /\ PendingTimecodesCurrent /\ [Next]_vars => PendingTimecodesCurrent'
  <2> SUFFICES ASSUME TypeOK, PendingTimecodesCurrent, [Next]_vars
               PROVE  PendingTimecodesCurrent'
    OBVIOUS
  <2> DEFINE q == pending
             e == uEarliestClusterTimestamp
  <2>1. q \in Seq(DataFrame) /\ e \in Nat /\ TimecodesCurrent(q, e)
    BY DEF TypeOK, PendingTimecodesCurrent
  <2>2. ASSUME NEW f \in DataFrameIn, Kvs_streamAddDataFrame(f)
        PROVE  TimecodesCurrent(q', e')
    BY <2>1, <2>2, InsertedKeepsTimecodes DEF Kvs_streamAddDataFrame
  <2>3. CASE Kvs_streamPop
    BY <2>1, <2>3, PopKeepsTimecodes DEF Kvs_streamPop, PendingTimecodesCurrent
  <2>4. CASE UNCHANGED vars
    BY <2>1, <2>4 DEF vars, PendingTimecodesCurrent
  <2> QED BY <2>2, <2>3, <2>4 DEF Next, PendingTimecodesCurrent
<1> QED BY <1>1, <1>2, TypeCorrect, PTL DEF Spec
-----------------------------------------------------------------------------
(* The stream implements the queue its users think of (ImplementsQueue of  *)
(* Stream): an insertion adds the frame to the bag whatever it does to the *)
(* list, and Pop returns the frame that ranks first.                       *)

LEMMA AddIsQueueAdd ==
    ASSUME TypeOK, NEW f \in DataFrameIn, Kvs_streamAddDataFrame(f)
    PROVE  Queue!Add(f)
<1> DEFINE p == InsertPosition(pending, f)
           q == pending
           s == pending'
<1>1. q \in Seq(DataFrame) /\ uEarliestClusterTimestamp \in Nat
  BY DEF TypeOK
<1>2. p \in 1..Len(q) + 1
  BY <1>1, InsertPositionProps
<1>3. /\ s \in Seq(DataFrame) /\ Len(s) = Len(q) + 1
      /\ \A i \in 1..Len(q) + 1 : i < p => s[i].frame = q[i].frame
      /\ \A i \in 1..Len(q) + 1 : i > p => s[i].frame = q[i - 1].frame
      /\ s[p].frame = f
  BY <1>1, InsertedProps DEF Kvs_streamAddDataFrame
<1> HIDE DEF p, q, s
<1>4. {s[i].frame : i \in 1..Len(s)} = {q[i].frame : i \in 1..Len(q)} \cup {f}
  <2>1. ASSUME NEW i \in 1..Len(s)
        PROVE  s[i].frame \in {q[k].frame : k \in 1..Len(q)} \cup {f}
    <3>1. CASE i < p
      BY <1>2, <1>3, <3>1, <1>1, SMTT(30)
    <3>2. CASE i = p
      BY <1>3, <3>2
    <3>3. CASE i > p
      <4>1. i - 1 \in 1..Len(q) /\ s[i].frame = q[i - 1].frame
        BY <1>1, <1>2, <1>3, <3>3
      <4> QED BY <4>1
    <3> QED BY <1>2, <3>1, <3>2, <3>3
  <2>2. ASSUME NEW i \in 1..Len(q) PROVE q[i].frame \in {s[k].frame : k \in 1..Len(s)}
    <3>1. CASE i < p
      BY <1>1, <1>2, <1>3, <3>1
    <3>2. CASE i >= p
      <4>1. i + 1 \in 1..Len(s) /\ i + 1 > p /\ (i + 1) - 1 = i
        BY <1>1, <1>2, <1>3, <3>2
      <4>2. s[i + 1].frame = q[i].frame
        BY <1>3, <4>1
      <4> QED BY <4>1, <4>2
    <3> QED BY <1>2, <3>1, <3>2
  <2>3. f \in {s[k].frame : k \in 1..Len(s)}
    BY <1>1, <1>2, <1>3
  <2> QED BY <2>1, <2>2, <2>3
<1>5. DOMAIN q = 1..Len(q) /\ DOMAIN s = 1..Len(s)
  BY <1>1, <1>3
<1> QED BY <1>4, <1>5 DEF Queue!Add, Kvs_streamAddDataFrame, q, s

LEMMA PopIsQueuePop ==
    ASSUME TypeOK, Ranked, Kvs_streamPop
    PROVE  pending[1].frame \in DataFrameIn /\ Queue!Pop(pending[1].frame)
<1> DEFINE q == pending
           s == pending'
<1>1. q \in Seq(DataFrame) /\ q # <<>> /\ s = Tail(q)
  BY DEF TypeOK, Kvs_streamPop
<1>2. Len(s) = Len(q) - 1 /\ \A i \in 1..Len(s) : s[i] = q[i + 1]
  BY <1>1
<1>3. DOMAIN q = 1..Len(q) /\ DOMAIN s = 1..Len(s) /\ 1 \in 1..Len(q) /\ Len(q) \in Nat
  BY <1>1
<1>4. \A i \in 2..Len(q) : Queue!First(q[1].frame, q[i].frame)
  <2>1. \A i \in 1..Len(q) : 1 < i => Queue!First(q[1].frame, q[i].frame)
    BY <1>3 DEF Ranked
  <2> HIDE DEF q
  <2> QED BY <1>3, <2>1
<1>5. \A i \in 1..Len(q) : q[i].frame \in DataFrameIn /\ q[i].frame.id \in Nat
  <2>1. \A i \in 1..Len(q) : q[i].frame.id \in Nat
    BY DEF Ranked, TypeOK
  <2> HIDE DEF q
  <2> QED BY <1>1, <2>1, PendingFields
<1>6. popped' = {q[1].frame} /\ arrivals' = arrivals
  BY DEF Kvs_streamPop
<1> HIDE DEF q, s
<1>7. \A i \in 2..Len(q) : q[i].frame # q[1].frame
  <2>1. ASSUME NEW f \in DataFrameIn, f.id \in Nat PROVE ~Queue!First(f, f)
    BY <2>1, FrameFields DEF Queue!First
  <2> QED BY <1>3, <1>4, <1>5, <2>1
<1>8. {s[i].frame : i \in 1..Len(s)} = {q[i].frame : i \in 1..Len(q)} \ {q[1].frame}
  <2>1. ASSUME NEW i \in 1..Len(s)
        PROVE  s[i].frame \in {q[k].frame : k \in 1..Len(q)} \ {q[1].frame}
    <3>1. i + 1 \in 2..Len(q) /\ s[i].frame = q[i + 1].frame
      BY <1>2, <1>3
    <3>2. i + 1 \in 1..Len(q)
      BY <1>2, <1>3
    <3> QED BY <1>7, <3>1, <3>2
  <2>2. ASSUME NEW i \in 1..Len(q), q[i].frame # q[1].frame
        PROVE  q[i].frame \in {s[k].frame : k \in 1..Len(s)}
    <3>1. i # 1
      BY <2>2
    <3>2. i - 1 \in 1..Len(s) /\ (i - 1) + 1 = i
      BY <1>2, <1>3, <3>1
    <3>3. s[i - 1].frame = q[i].frame
      BY <1>2, <3>2
    <3> QED BY <3>2, <3>3
  <2> QED BY <2>1, <2>2
<1>9. ASSUME NEW g \in {q[i].frame : i \in 1..Len(q)} \ {q[1].frame}
      PROVE  Queue!First(q[1].frame, g)
  <2>1. ASSUME NEW i \in 1..Len(q), q[i].frame # q[1].frame
        PROVE  Queue!First(q[1].frame, q[i].frame)
    <3>1. i \in 2..Len(q)
      BY <1>3, <2>1
    <3> QED BY <1>4, <3>1
  <2> QED BY <2>1
<1>10. q[1].frame \in {q[i].frame : i \in 1..Len(q)}
  BY <1>3
<1>11. Queue!Pop(q[1].frame)
  BY <1>3, <1>6, <1>8, <1>9, <1>10 DEF Queue!Pop, q, s
<1> QED BY <1>3, <1>5, <1>11 DEF q

(* Every behaviour of the stream is one of the queue.                      *)
THEOREM Refinement == Spec => ImplementsQueue
<1>1. Init => Queue!Init
  BY DEF Init, Queue!Init
<1>2. TypeOK /\ Ranked /\ [Next]_vars => [Queue!Next]_Queue!vars
  <2> SUFFICES ASSUME TypeOK, Ranked, [Next]_vars PROVE [Queue!Next]_Queue!vars
    OBVIOUS
  <2>1. ASSUME NEW f \in DataFrameIn, Kvs_streamAddDataFrame(f) PROVE Queue!Next
    BY <2>1, AddIsQueueAdd DEF Queue!Next
  <2>2. CASE Kvs_streamPop
    BY <2>2, PopIsQueuePop DEF Queue!Next, Queue!Pop
  <2>3. CASE UNCHANGED vars
    BY <2>3 DEF vars, Queue!vars
  <2> QED BY <2>1, <2>2, <2>3 DEF Next
<1> QED BY <1>1, <1>2, RankedInvariant, PTL DEF Spec, Queue!Spec, ImplementsQueue

-----------------------------------------------------------------------------
(* The stream with its headers.                                            *)

(* Every step of the composition is one of the stream, or none of its own  *)
(* (stream.c, 111 and 434-560).                                            *)
THEOREM MkvImplementsStream == MkvSpec => Spec
<1>1. MkvInit => Init
  BY DEF MkvInit
<1>2. [MkvNext]_mkvVars => [Next]_vars
  <2> SUFFICES ASSUME [MkvNext]_mkvVars PROVE [Next]_vars
    OBVIOUS
  <2>1. CASE Kvs_streamCreate
    BY <2>1 DEF Kvs_streamCreate
  <2>2. CASE AddFrame
    BY <2>2 DEF AddFrame, Next
  <2>3. CASE Kvs_streamGetMkvEbmlSegHdr
    BY <2>3 DEF Kvs_streamGetMkvEbmlSegHdr
  <2>4. ASSUME NEW tagsList \in TagsLists, NEW endOfStream \in BOOLEAN, SendFrame(tagsList, endOfStream)
        PROVE  [Next]_vars
    BY <2>4 DEF SendFrame, Next
  <2>5. CASE UNCHANGED mkvVars
    BY <2>5 DEF mkvVars
  <2> QED
    BY <2>1, <2>2, <2>3, <2>4, <2>5 DEF MkvNext
<1> QED
  BY <1>1, <1>2, PTL DEF MkvSpec, Spec

(* Whatever is handed out in between, the headers of pending frames are    *)
(* those their frames need (Mkv_initializeClusterHdr, called again by      *)
(* Kvs_streamAddDataFrame).                                                *)
THEOREM MkvTimecodesStayCurrent == MkvSpec => []PendingTimecodesCurrent
  BY MkvImplementsStream, TimecodesStayCurrent

(* What is sent is, frame by frame, what the abstract queue hands out      *)
(* (prvPutMediaSendData).                                                  *)
THEOREM MkvImplementsQueue == MkvSpec => ImplementsQueue
  BY MkvImplementsStream, Refinement
=============================================================================
