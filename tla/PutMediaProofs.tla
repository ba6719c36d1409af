--------------------------- MODULE PutMediaProofs ---------------------------
(***************************************************************************)
(* What the receiving half of a PUT MEDIA session guarantees for any size  *)
(* of acknowledgements, buffer and records.                                *)
(***************************************************************************)
EXTENDS PutMedia, SequenceTheorems, TLAPS

-----------------------------------------------------------------------------
(* Where acknowledgements lie among the bytes: one behind the other.       *)

LEMMA AckBounds ==
    ASSUME NEW n \in Ack
    PROVE  /\ n * AckLen \in Nat /\ (n - 1) * AckLen \in Nat
           /\ n * AckLen = (n - 1) * AckLen + AckLen
BY PutMediaAssumption DEF Ack

(* One that ends where another begins, or before, has the lower number.    *)
LEMMA EndsBefore ==
    ASSUME NEW m \in Ack, NEW n \in Ack, m * AckLen <= (n - 1) * AckLen
    PROVE  m < n
<1> SUFFICES ASSUME n <= m PROVE FALSE
  BY DEF Ack
<1>1. m - n \in Nat /\ AckLen \in Nat \ {0} /\ m \in Nat /\ n \in Nat
  BY PutMediaAssumption DEF Ack
<1>2. (m - n) * AckLen >= 0
  BY <1>1
<1>3. m * AckLen = (m - n) * AckLen + n * AckLen
  BY <1>1
<1> QED BY <1>1, <1>2, <1>3, AckBounds

(* The server sends a number of bytes.                                     *)
LEMMA BytesType == Bytes \in Nat /\ AckLen \in Nat \ {0}
BY PutMediaAssumption DEF Bytes

-----------------------------------------------------------------------------
(* TypeOK is not inductive: that the buffer holds no more than was sent    *)
(* takes that records end one behind the other, behind what was read, and  *)
(* that nothing is in the buffer when a call allocates it.                 *)
RecordsInOrder ==
    /\ uBufferSize \in Nat
    /\ Consumed <= opened
    /\ \A i \in 1..Len(socket) : opened <= socket[i]
    /\ \A i, j \in 1..Len(socket) : i < j => socket[i] <= socket[j]
    /\ pc \notin {"recv", "parse"} => uBytesTotalReceived = 0

Typed == TypeOK /\ RecordsInOrder

(* How the places in the buffer lie to each other.                         *)
LEMMA ConsumedType ==
    ASSUME Typed
    PROVE  /\ Consumed \in 0..Bytes /\ Consumed = from + uBytesTotalReceived
           /\ from \in Nat /\ uBytesTotalReceived \in Nat /\ uBytesReceived \in Nat
           /\ uBytesReceived <= uBytesTotalReceived /\ uBytesTotalReceived <= uBufferSize
           /\ opened \in Nat /\ uBufferSize \in Nat
BY BytesType DEF Typed, TypeOK, RecordsInOrder, Consumed

(* A call that ends keeps the place in the stream of bytes.                *)
LEMMA ForgetKeepsTyped ==
    ASSUME Typed, Forget
    PROVE  /\ from' \in 0..Bytes /\ uBufferSize' = 0 /\ uBytesTotalReceived' = 0
           /\ uBytesTotalReceived' \in 0..uBufferSize' /\ uBytesReceived' \in 0..uBytesTotalReceived'
           /\ Consumed' = Consumed
BY ConsumedType DEF Forget, Consumed

(* NetIo_recv fills the buffer from the record that is open or is next.    *)
LEMMA ReceiveKeepsTyped ==
    ASSUME Typed, Receive, NetIo_isDataAvailable
    PROVE  Typed'
<1> DEFINE next == opened = Consumed /\ socket # <<>>
           end == IF next THEN Head(socket) ELSE opened
<1>1. /\ uBufferSize' = Room /\ UNCHANGED <<pc, res, from, uBytesReceived>>
      /\ UNCHANGED <<errors, eof, calls, xPendingFragmentAcks, history>>
      /\ uBytesTotalReceived' =
              uBytesTotalReceived + Smaller(end - Consumed, Room - uBytesTotalReceived)
      /\ opened' = end
      /\ socket' = IF next THEN Tail(socket) ELSE socket
  BY DEF Receive, NetIo_recv
<1>2. Room \in Nat /\ uBytesTotalReceived <= Room
  BY ConsumedType DEF Room
<1>3. /\ end \in 0..Bytes /\ Consumed <= end
      /\ socket' \in Seq(1..Bytes)
      /\ \A i \in 1..Len(socket') : end <= socket'[i]
      /\ \A i, j \in 1..Len(socket') : i < j => socket'[i] <= socket'[j]
  <2>1. socket \in Seq(1..Bytes) /\ Bytes \in Nat
    BY BytesType DEF Typed, TypeOK
  <2>2. CASE next
    <3>1. /\ Head(socket) = socket[1] /\ Len(socket) \in Nat \ {0} /\ socket[1] \in 1..Bytes
          /\ Tail(socket) \in Seq(1..Bytes) /\ Len(Tail(socket)) = Len(socket) - 1
          /\ \A i \in 1..Len(Tail(socket)) : Tail(socket)[i] = socket[i + 1]
      BY <2>1, <2>2, HeadTailProperties
    <3>2. \A i \in 1..Len(Tail(socket)) : i + 1 \in 1..Len(socket) /\ 1 \in 1..Len(socket) /\ 1 < i + 1
      BY <3>1
    <3>3. Consumed <= socket[1]
      BY <2>2, <3>1 DEF Typed, RecordsInOrder
    <3>4. \A i \in 1..Len(Tail(socket)) : socket[1] <= Tail(socket)[i]
      BY <3>1, <3>2 DEF Typed, RecordsInOrder
    <3>5. \A i, j \in 1..Len(Tail(socket)) : i < j => Tail(socket)[i] <= Tail(socket)[j]
      <4>1. ASSUME NEW i \in 1..Len(Tail(socket)), NEW j \in 1..Len(Tail(socket)), i < j
            PROVE  Tail(socket)[i] <= Tail(socket)[j]
        <5>1. i + 1 < j + 1
          BY <4>1
        <5> QED BY <5>1, <3>1, <3>2 DEF Typed, RecordsInOrder
      <4> QED BY <4>1
    <3>6. end = socket[1] /\ socket' = Tail(socket)
      BY <1>1, <2>2, <3>1
    <3> HIDE DEF next, end
    <3> QED BY <3>1, <3>3, <3>4, <3>5, <3>6
  <2>3. CASE ~next
    BY <1>1, <2>1, <2>3, ConsumedType DEF Typed, TypeOK, RecordsInOrder
  <2> QED BY <2>2, <2>3
<1> HIDE DEF end, next
<1>4. /\ uBytesTotalReceived' \in uBytesTotalReceived..Room
      /\ from + uBytesTotalReceived' <= end
  <2> DEFINE n == Smaller(end - Consumed, Room - uBytesTotalReceived)
  <2>1. /\ end - Consumed \in Nat /\ Room - uBytesTotalReceived \in Nat
        /\ Consumed \in Nat /\ end \in Nat
    BY <1>2, <1>3, ConsumedType
  <2>2. n \in Nat /\ n <= end - Consumed /\ n <= Room - uBytesTotalReceived
    BY <2>1 DEF Smaller
  <2>3. uBytesTotalReceived' = uBytesTotalReceived + n
    BY <1>1
  <2> HIDE DEF n
  <2> QED BY <1>2, <2>1, <2>2, <2>3, ConsumedType
<1>5. TypeOK'
  <2>1. uBytesTotalReceived' \in 0..uBufferSize' /\ uBytesReceived' \in 0..uBytesTotalReceived'
    BY <1>1, <1>2, <1>4, ConsumedType
  <2>2. socket' \in Seq(1..Bytes) /\ opened' \in 0..Bytes
    BY <1>1, <1>3
  <2>3. UNCHANGED <<errors, eof, pc, res, from, calls, xPendingFragmentAcks, got, reported>>
    BY <1>1 DEF history
  <2> QED BY <2>1, <2>2, <2>3 DEF Typed, TypeOK
<1>6. RecordsInOrder'
  <2>1. uBufferSize' \in Nat /\ Consumed' <= opened'
    BY <1>1, <1>2, <1>4 DEF Consumed
  <2>2. pc' = "recv"
    BY <1>1 DEF Receive
  <2> QED BY <1>1, <1>3, <2>1, <2>2 DEF RecordsInOrder
<1> QED BY <1>5, <1>6 DEF Typed

(* A complete acknowledgement ends inside what was received.               *)
LEMMA ParseKeepsTyped ==
    ASSUME Typed, NEW n \in Ack, ParseAck(n)
    PROVE  Typed'
<1>1. /\ (n - 1) * AckLen = from + uBytesReceived /\ n * AckLen <= Consumed
      /\ prvPushFragmentAck(n) \/ UNCHANGED xPendingFragmentAcks
      /\ AfterPush(n) /\ UNCHANGED <<wire, calls, got>>
  BY DEF ParseAck, Parsed
<1>2. xPendingFragmentAcks' \in Seq(Ack)
  <2>1. Append(xPendingFragmentAcks, n) \in Seq(Ack)
    BY AppendProperties DEF Typed, TypeOK
  <2> QED BY <1>1, <2>1 DEF prvPushFragmentAck, Typed, TypeOK
<1>3. CASE n \in errors
  <2>1. Forget /\ Return("KVS_GENERATE_PUTMEDIA_ERROR") /\ reported' = reported \cup {n}
    BY <1>1, <1>3 DEF AfterPush
  <2>2. TypeOK'
    BY <1>1, <1>2, <2>1, ForgetKeepsTyped DEF Typed, TypeOK, Return, Result, wire
  <2>3. RecordsInOrder'
    BY <1>1, <2>1, ForgetKeepsTyped DEF Typed, RecordsInOrder, wire
  <2> QED BY <2>2, <2>3 DEF Typed
<1>4. CASE n \notin errors
  <2>1. /\ uBytesReceived' = n * AckLen - from
        /\ UNCHANGED <<pc, res, from, uBytesTotalReceived, uBufferSize, reported>>
    BY <1>1, <1>4 DEF AfterPush
  <2>2. uBytesReceived' \in 0..uBytesTotalReceived
    BY <1>1, <2>1, AckBounds, ConsumedType, BytesType
  <2>3. TypeOK'
    BY <1>1, <1>2, <2>1, <2>2 DEF Typed, TypeOK, wire
  <2>4. RecordsInOrder'
    BY <1>1, <2>1 DEF Typed, RecordsInOrder, Consumed, wire
  <2> QED BY <2>3, <2>4 DEF Typed
<1> QED BY <1>3, <1>4

(* A record ends behind all that arrived before.                           *)
LEMMA ArrivalKeepsTyped ==
    ASSUME Typed, NEW size \in 1..Bytes, RecordArrives(size)
    PROVE  Typed'
<1> DEFINE end == Arrived + size
<1>1. /\ end <= Bytes /\ socket' = Append(socket, end)
      /\ UNCHANGED <<errors, opened, eof, pc, res, buffer, calls, xPendingFragmentAcks, history>>
  BY DEF RecordArrives
<1>2. /\ Arrived \in 0..Bytes /\ opened <= Arrived
      /\ \A i \in 1..Len(socket) : socket[i] <= Arrived
      /\ socket \in Seq(1..Bytes) /\ Bytes \in Nat
  <2>1. /\ socket \in Seq(1..Bytes) /\ Bytes \in Nat /\ opened \in 0..Bytes
    BY BytesType DEF Typed, TypeOK
  <2>2. CASE socket = <<>>
    BY <2>1, <2>2 DEF Arrived
  <2>3. CASE socket # <<>>
    <3>1. Len(socket) \in 1..Len(socket) /\ Arrived = socket[Len(socket)]
      BY <2>1, <2>3 DEF Arrived, Last
    <3>2. \A i \in 1..Len(socket) : i = Len(socket) \/ i < Len(socket)
      BY <2>1
    <3>3. \A i \in 1..Len(socket) : socket[i] \in Nat
      BY <2>1
    <3> QED BY <2>1, <3>1, <3>2, <3>3 DEF Typed, RecordsInOrder
  <2> QED BY <2>2, <2>3
<1>3. end \in 1..Bytes /\ Arrived <= end
  BY <1>1, <1>2
<1> HIDE DEF end
<1>4. /\ socket' \in Seq(1..Bytes) /\ Len(socket') = Len(socket) + 1 /\ Len(socket) \in Nat
      /\ \A i \in 1..Len(socket) : socket'[i] = socket[i] /\ socket[i] \in Nat
      /\ socket'[Len(socket) + 1] = end
  BY <1>1, <1>2, <1>3, AppendProperties
<1>5. \A i \in 1..Len(socket') : opened <= socket'[i]
  <2>1. opened <= end
    BY <1>2, <1>3, ConsumedType
  <2> QED BY <1>4, <2>1 DEF Typed, RecordsInOrder
<1>6. \A i, j \in 1..Len(socket') : i < j => socket'[i] <= socket'[j]
  <2>1. \A i \in 1..Len(socket) : socket[i] <= end
    BY <1>2, <1>3, <1>4
  <2> QED BY <1>4, <2>1 DEF Typed, RecordsInOrder
<1>7. TypeOK'
  BY <1>1, <1>4 DEF Typed, TypeOK, buffer, history
<1>8. RecordsInOrder'
  BY <1>1, <1>5, <1>6 DEF Typed, RecordsInOrder, Consumed, buffer
<1> QED BY <1>7, <1>8 DEF Typed

(* One step per action of the session.                                     *)
LEMMA NextKeepsTyped ==
    ASSUME Typed, [Next]_vars
    PROVE  Typed'
<1> USE DEF Typed, TypeOK, RecordsInOrder
<1>1. ASSUME NEW size \in 1..Bytes, RecordArrives(size) PROVE Typed'
  BY <1>1, ArrivalKeepsTyped
<1>2. CASE ConnectionCloses
  BY <1>2 DEF ConnectionCloses, Consumed, buffer, history
<1>3. CASE Kvs_putMediaDoWork
  <2>1. /\ calls' = calls + 1 /\ calls' \in 0..MaxCalls
        /\ pc' \in {"idle", "flush"} /\ res' \in Result
        /\ UNCHANGED <<wire, xPendingFragmentAcks, history>>
        /\ UNCHANGED <<from, uBytesTotalReceived, uBytesReceived>>
        /\ uBufferSize' \in {uBufferSize, DEFAULT_RECV_BUFSIZE}
    BY <1>3, PutMediaAssumption DEF Kvs_putMediaDoWork, Return, Result, OK, Failed, buffer
  <2>2. uBufferSize' \in Nat /\ uBytesTotalReceived' \in 0..uBufferSize'
    <3>1. uBytesTotalReceived = 0
      BY <1>3 DEF Kvs_putMediaDoWork
    <3> QED BY <2>1, <3>1, PutMediaAssumption
  <2>3. UNCHANGED <<errors, socket, opened, eof, from, uBytesTotalReceived, uBytesReceived,
                    xPendingFragmentAcks, got, reported>>
    BY <2>1 DEF wire, history
  <2>4. TypeOK'
    BY <2>1, <2>2, <2>3
  <2>5. RecordsInOrder'
    BY <1>3, <2>2, <2>3 DEF Kvs_putMediaDoWork, Consumed
  <2> QED BY <2>4, <2>5
<1>4. CASE prvFlushFragmentAck
  <2>1. xPendingFragmentAcks' \in Seq(Ack) /\ pc' \in {"recv", "flush"}
    BY <1>4, HeadTailProperties DEF prvFlushFragmentAck
  <2>2. UNCHANGED <<wire, res, buffer, calls, history>> /\ pc = "flush"
    BY <1>4 DEF prvFlushFragmentAck
  <2> QED BY <2>1, <2>2 DEF Consumed, wire, buffer, history
<1>5. CASE Receive
  <2>1. CASE NetIo_isDataAvailable
    BY <1>5, <2>1, ReceiveKeepsTyped
  <2>2. CASE ~NetIo_isDataAvailable
    BY <1>5, <2>2 DEF Receive, Consumed, buffer, history
  <2> QED BY <2>1, <2>2
<1>6. ASSUME NEW n \in Ack, ParseAck(n) PROVE Typed'
  BY <1>6, ParseKeepsTyped
<1>7. CASE ParseEnds \/ ReceiveFails
  <2>1. /\ Forget /\ pc' = "idle" /\ res' \in Result
        /\ UNCHANGED <<wire, calls, xPendingFragmentAcks, history>>
    BY <1>7 DEF ParseEnds, ReceiveFails, Return, Result, OK, Failed
  <2> QED BY <2>1, ForgetKeepsTyped DEF wire, history
<1>8. CASE Kvs_putMediaReadFragmentAck
  BY <1>8 DEF Kvs_putMediaReadFragmentAck, Consumed, wire, buffer
<1>9. CASE Kvs_putMediaFinish
  BY <1>9 DEF Kvs_putMediaFinish, Consumed, wire, buffer, history
<1>10. CASE UNCHANGED vars
  BY <1>10 DEF vars, Consumed, wire, buffer, history
<1> QED BY <1>1, <1>2, <1>3, <1>4, <1>5, <1>6, <1>7, <1>8, <1>9, <1>10
        DEF Next, DoWorkStep

(* The strengthened type invariant holds throughout.                       *)
LEMMA TypedAlways == Spec => []Typed
<1>1. Init => Typed
  <2> SUFFICES ASSUME Init PROVE Typed
    OBVIOUS
  <2>1. TypeOK
    <3>1. 0 \in 0..Bytes /\ 0 \in 0..MaxCalls /\ 0 \in 0..0
      BY BytesType, PutMediaAssumption
    <3>2. res \in Result /\ errors \subseteq Ack /\ reported \subseteq Ack
      BY DEF Init, Result, OK
    <3>3. eof \in BOOLEAN /\ pc \in {"idle", "flush", "recv", "parse", "finished"}
      BY DEF Init
    <3>4. socket \in Seq(1..Bytes) /\ xPendingFragmentAcks \in Seq(Ack) /\ got \in Seq(Ack)
      BY DEF Init
    <3>5. /\ opened \in 0..Bytes /\ from \in 0..Bytes /\ calls \in 0..MaxCalls
          /\ uBytesTotalReceived \in 0..uBufferSize /\ uBytesReceived \in 0..uBytesTotalReceived
      BY <3>1 DEF Init
    <3> QED BY <3>2, <3>3, <3>4, <3>5 DEF TypeOK
  <2>2. RecordsInOrder
    BY DEF Init, RecordsInOrder, Consumed
  <2> QED BY <2>1, <2>2 DEF Typed
<1>2. Typed /\ [Next]_vars => Typed'
  BY NextKeepsTyped
<1> QED BY <1>1, <1>2, PTL DEF Spec

(* The buffer holds no more than was sent, and counters stay within what   *)
(* was sent (TypeOK of PutMedia), for any sizes of acknowledgements,       *)
(* records and buffer.                                                     *)
THEOREM TypeCorrect == Spec => []TypeOK
<1>1. Typed => TypeOK
  BY DEF Typed
<1> QED BY <1>1, TypedAlways, PTL

-----------------------------------------------------------------------------
(* Acknowledgements in the list end before the place parsing has reached,  *)
(* and those that were read are older than those that were not.            *)
OrderedUpTo(seen, byte) ==
    /\ seen \in Seq(Ack)
    /\ \A i, j \in 1..Len(seen) : i < j => seen[i] < seen[j]
    /\ \A i \in 1..Len(seen) : seen[i] * AckLen <= byte

Ordered == OrderedUpTo(got \o xPendingFragmentAcks, from + uBytesReceived)

(* Parsing only moves on.                                                  *)
LEMMA OrderedLater ==
    ASSUME NEW s, NEW b \in Nat, NEW c \in Nat, OrderedUpTo(s, b), b <= c
    PROVE  OrderedUpTo(s, c)
<1>1. \A i \in 1..Len(s) : s[i] * AckLen \in Nat
  BY AckBounds DEF OrderedUpTo
<1> QED BY <1>1 DEF OrderedUpTo

(* What is parsed next goes to the end.                                    *)
LEMMA OrderedAppend ==
    ASSUME NEW s, NEW n \in Ack, OrderedUpTo(s, (n - 1) * AckLen)
    PROVE  OrderedUpTo(Append(s, n), n * AckLen)
<1>1. /\ Append(s, n) \in Seq(Ack) /\ Len(Append(s, n)) = Len(s) + 1 /\ Len(s) \in Nat
      /\ \A i \in 1..Len(s) : Append(s, n)[i] = s[i] /\ s[i] \in Ack
      /\ Append(s, n)[Len(s) + 1] = n
  BY AppendProperties DEF OrderedUpTo
<1>2. \A i \in 1..Len(s) : s[i] < n
  BY <1>1, EndsBefore DEF OrderedUpTo
<1>3. \A i \in 1..Len(s) : s[i] * AckLen <= n * AckLen
  BY <1>1, AckBounds, PutMediaAssumption DEF OrderedUpTo
<1>4. \A i \in 1..Len(s) + 1 : i \in 1..Len(s) \/ i = Len(s) + 1
  BY <1>1
<1>5. n * AckLen <= n * AckLen
  BY AckBounds
<1> QED BY <1>1, <1>2, <1>3, <1>4, <1>5 DEF OrderedUpTo

(* Dropping the head of the list leaves what is left in order.             *)
LEMMA OrderedDrop ==
    ASSUME NEW g \in Seq(Ack), NEW q \in Seq(Ack), q # <<>>, NEW b, OrderedUpTo(g \o q, b)
    PROVE  OrderedUpTo(g \o Tail(q), b)
<1> DEFINE s == g \o q
           t == g \o Tail(q)
<1>1. /\ Tail(q) \in Seq(Ack) /\ Len(Tail(q)) = Len(q) - 1 /\ Len(q) \in Nat \ {0}
      /\ Len(g) \in Nat
      /\ \A i \in 1..Len(Tail(q)) : Tail(q)[i] = q[i + 1]
  BY HeadTailProperties
<1>2. /\ t \in Seq(Ack) /\ Len(t) = Len(s) - 1 /\ Len(s) = Len(g) + Len(q)
      /\ \A i \in 1..Len(t) : t[i] = IF i <= Len(g) THEN g[i] ELSE q[i - Len(g) + 1]
  <2>1. /\ t \in Seq(Ack) /\ Len(t) = Len(g) + Len(q) - 1
        /\ \A i \in 1..Len(t) : t[i] = IF i <= Len(g) THEN g[i] ELSE Tail(q)[i - Len(g)]
    BY <1>1, ConcatProperties
  <2>2. Len(s) = Len(g) + Len(q)
    BY ConcatProperties
  <2> HIDE DEF t, s
  <2>3. ASSUME NEW i \in 1..Len(t)
        PROVE  t[i] = IF i <= Len(g) THEN g[i] ELSE q[i - Len(g) + 1]
    <3>1. CASE i <= Len(g)
      BY <2>1, <3>1
    <3>2. CASE i > Len(g)
      <4>1. i - Len(g) \in 1..Len(Tail(q))
        BY <1>1, <2>1, <3>2
      <4>2. Tail(q)[i - Len(g)] = q[i - Len(g) + 1]
        BY <1>1, <4>1
      <4> QED BY <1>1, <2>1, <3>2, <4>2
    <3> QED BY <1>1, <2>1, <3>1, <3>2
  <2> QED BY <1>1, <2>1, <2>2, <2>3
<1>3. \A i \in 1..Len(s) : s[i] = IF i <= Len(g) THEN g[i] ELSE q[i - Len(g)]
  BY ConcatProperties
<1> HIDE DEF s, t
<1> DEFINE k(i) == IF i <= Len(g) THEN i ELSE i + 1
<1>4. \A i \in 1..Len(t) : k(i) \in 1..Len(s) /\ t[i] = s[k(i)]
  <2>1. ASSUME NEW i \in 1..Len(t) PROVE k(i) \in 1..Len(s) /\ t[i] = s[k(i)]
    <3>1. k(i) \in 1..Len(s)
      BY <1>1, <1>2
    <3>2. CASE i <= Len(g)
      BY <1>2, <1>3, <3>1, <3>2
    <3>3. CASE i > Len(g)
      <4>1. k(i) = i + 1 /\ i + 1 \in 1..Len(s) /\ ~(i + 1 <= Len(g)) /\ ~(i <= Len(g))
        BY <1>1, <1>2, <3>1, <3>3
      <4>2. s[i + 1] = q[(i + 1) - Len(g)] /\ (i + 1) - Len(g) = i - Len(g) + 1
        BY <1>1, <1>2, <1>3, <4>1
      <4> QED BY <1>2, <4>1, <4>2
    <3> QED BY <1>1, <1>2, <3>2, <3>3
  <2> QED BY <2>1
<1>5. \A i, j \in 1..Len(t) : i < j => k(i) < k(j)
  BY <1>1, <1>2
<1> HIDE DEF k
<1>6. \A i, j \in 1..Len(t) : i < j => t[i] < t[j]
  BY <1>4, <1>5 DEF OrderedUpTo, s
<1>7. \A i \in 1..Len(t) : t[i] * AckLen <= b
  BY <1>4 DEF OrderedUpTo, s
<1> QED BY <1>2, <1>6, <1>7 DEF OrderedUpTo, t

(* Reading moves the head of the list behind what was read before.         *)
LEMMA MoveHead ==
    ASSUME NEW g \in Seq(Ack), NEW q \in Seq(Ack), q # <<>>
    PROVE  Append(g, Head(q)) \o Tail(q) = g \o q
<1>1. Head(q) \in Ack /\ Tail(q) \in Seq(Ack) /\ <<Head(q)>> \in Seq(Ack)
  BY HeadTailProperties
<1>2. <<Head(q)>> \o Tail(q) = q
  BY <1>1, HeadTailProperties, ConcatProperties
<1>3. Append(g, Head(q)) = g \o <<Head(q)>>
  BY <1>1, AppendIsConcat
<1>4. (g \o <<Head(q)>>) \o Tail(q) = g \o (<<Head(q)>> \o Tail(q))
  BY <1>1, ConcatAssociative
<1> QED BY <1>2, <1>3, <1>4

(* Finishing leaves what was read.                                         *)
LEMMA OrderedPrefix ==
    ASSUME NEW g \in Seq(Ack), NEW q \in Seq(Ack), NEW b, OrderedUpTo(g \o q, b)
    PROVE  OrderedUpTo(g \o <<>>, b)
<1>1. g \o <<>> = g
  BY ConcatEmptySeq
<1>2. /\ Len(g) \in Nat /\ Len(q) \in Nat /\ Len(g \o q) = Len(g) + Len(q)
      /\ \A i \in 1..Len(g) : i \in 1..Len(g \o q) /\ (g \o q)[i] = g[i]
  BY ConcatProperties
<1> QED BY <1>1, <1>2 DEF OrderedUpTo

(* One step per action that touches the list or the place of parsing.      *)
LEMMA NextKeepsOrdered ==
    ASSUME Typed, Ordered, [Next]_vars
    PROVE  Ordered'
<1> DEFINE g == got
           q == xPendingFragmentAcks
           place == from + uBytesReceived
<1>1. /\ g \in Seq(Ack) /\ q \in Seq(Ack)
      /\ place \in Nat /\ Consumed \in Nat /\ place <= Consumed
      /\ OrderedUpTo(g \o q, place)
  BY ConsumedType DEF Typed, TypeOK, Ordered
<1>2. CASE UNCHANGED <<got, xPendingFragmentAcks, from, uBytesReceived>>
  BY <1>2 DEF Ordered
<1>3. CASE Forget /\ UNCHANGED <<got, xPendingFragmentAcks>>
  <2>1. place' = Consumed
    BY <1>3, ConsumedType DEF Forget
  <2> QED BY <1>1, <1>3, <2>1, OrderedLater DEF Ordered
<1>4. CASE prvFlushFragmentAck
  <2>1. g' = g /\ place' = place
    BY <1>4 DEF prvFlushFragmentAck, buffer, history
  <2>2. CASE q = <<>>
    BY <1>1, <1>4, <2>1, <2>2 DEF prvFlushFragmentAck, Ordered
  <2>3. CASE q # <<>>
    <3>1. q' = Tail(q)
      BY <1>4, <2>3 DEF prvFlushFragmentAck
    <3> QED BY <1>1, <2>1, <2>3, <3>1, OrderedDrop DEF Ordered
  <2> QED BY <2>2, <2>3
<1>5. ASSUME NEW n \in Ack, ParseAck(n) PROVE Ordered'
  <2>1. place = (n - 1) * AckLen /\ n * AckLen <= Consumed
    BY <1>5 DEF ParseAck, Parsed
  <2>2. place' \in Nat /\ n * AckLen <= place' /\ place <= place'
    <3>1. CASE n \in errors
      <4>1. place' = Consumed
        BY <1>5, <3>1, ConsumedType DEF ParseAck, AfterPush, Forget
      <4> QED BY <1>1, <2>1, <4>1
    <3>2. CASE n \notin errors
      <4>1. place' = n * AckLen
        BY <1>5, <3>2, AckBounds, ConsumedType DEF ParseAck, AfterPush
      <4> QED BY <2>1, <4>1, AckBounds, BytesType
    <3> QED BY <3>1, <3>2
  <2>3. CASE prvPushFragmentAck(n)
    <3>1. g' = g /\ q' = Append(q, n)
      BY <1>5, <2>3 DEF ParseAck, prvPushFragmentAck
    <3>2. g \o Append(q, n) = Append(g \o q, n)
      <4>1. /\ Append(q, n) = q \o <<n>> /\ <<n>> \in Seq(Ack) /\ g \o q \in Seq(Ack)
            /\ Append(g \o q, n) = (g \o q) \o <<n>>
        BY <1>1, AppendIsConcat, ConcatProperties
      <4> QED BY <1>1, <4>1, ConcatAssociative
    <3>3. OrderedUpTo(Append(g \o q, n), n * AckLen)
      BY <1>1, <2>1, OrderedAppend
    <3> QED BY <2>2, <3>1, <3>2, <3>3, AckBounds, OrderedLater DEF Ordered
  <2>4. CASE UNCHANGED xPendingFragmentAcks
    <3>1. g' = g /\ q' = q
      BY <1>5, <2>4 DEF ParseAck
    <3> QED BY <1>1, <2>2, <3>1, OrderedLater DEF Ordered
  <2> QED BY <1>5, <2>3, <2>4 DEF ParseAck
<1>6. CASE Kvs_putMediaReadFragmentAck
  <2>1. q # <<>> /\ g' = Append(g, Head(q)) /\ q' = Tail(q) /\ place' = place
    BY <1>6 DEF Kvs_putMediaReadFragmentAck, buffer
  <2> QED BY <1>1, <2>1, MoveHead DEF Ordered
<1>7. CASE Kvs_putMediaFinish
  <2>1. g' = g /\ q' = <<>> /\ place' = place
    BY <1>7 DEF Kvs_putMediaFinish, buffer, history
  <2> QED BY <1>1, <2>1, OrderedPrefix DEF Ordered
<1>8. CASE \/ \E size \in 1..Bytes : RecordArrives(size)
           \/ ConnectionCloses \/ Kvs_putMediaDoWork \/ Receive \/ UNCHANGED vars
  <2>1. UNCHANGED <<got, xPendingFragmentAcks, from, uBytesReceived>>
    BY <1>8 DEF RecordArrives, ConnectionCloses, Kvs_putMediaDoWork, Receive, vars,
                buffer, history
  <2> QED BY <1>2, <2>1
<1>9. CASE ParseEnds \/ ReceiveFails
  BY <1>3, <1>9 DEF ParseEnds, ReceiveFails, history
<1> QED BY <1>4, <1>5, <1>6, <1>7, <1>8, <1>9 DEF Next, DoWorkStep

(* The application reads acknowledgements in the order the server sent     *)
(* them and none twice (AcksOnceInOrder of PutMedia): what parsing drops   *)
(* or skips never comes back behind a later one.                           *)
THEOREM AcksInOrder == Spec => []AcksOnceInOrder
<1>1. Init => Ordered
  <2> SUFFICES ASSUME Init PROVE Ordered
    OBVIOUS
  <2>1. got \o xPendingFragmentAcks = <<>>
    BY DEF Init
  <2> QED BY <2>1 DEF Ordered, OrderedUpTo
<1>2. Typed /\ Ordered /\ [Next]_vars => Ordered'
  BY NextKeepsOrdered
<1>3. Ordered => AcksOnceInOrder
  BY DEF Ordered, OrderedUpTo, AcksOnceInOrder
<1> QED BY <1>1, <1>2, <1>3, TypedAlways, PTL DEF Spec

-----------------------------------------------------------------------------
(* Errors of the server.                                                   *)

(* What the application has seen or will see.                              *)
LEMMA SeenIsReadOrListed ==
    ASSUME NEW g \in Seq(Ack), NEW q \in Seq(Ack), NEW n
    PROVE  n \in ToSet(g \o q) <=> n \in ToSet(g) \/ n \in ToSet(q)
<1>1. /\ Len(g) \in Nat /\ Len(q) \in Nat /\ Len(g \o q) = Len(g) + Len(q)
      /\ DOMAIN g = 1..Len(g) /\ DOMAIN q = 1..Len(q) /\ DOMAIN (g \o q) = 1..Len(g \o q)
      /\ \A i \in 1..Len(g) + Len(q) : (g \o q)[i] = IF i <= Len(g) THEN g[i] ELSE q[i - Len(g)]
  BY ConcatProperties
<1>2. ASSUME NEW i \in 1..Len(g \o q), n = (g \o q)[i]
      PROVE  n \in ToSet(g) \/ n \in ToSet(q)
  <2>1. CASE i <= Len(g)
    BY <1>1, <1>2, <2>1 DEF ToSet
  <2>2. CASE i > Len(g)
    <3>1. i - Len(g) \in 1..Len(q) /\ n = q[i - Len(g)]
      BY <1>1, <1>2, <2>2
    <3> QED BY <1>1, <3>1 DEF ToSet
  <2> QED BY <1>1, <2>1, <2>2
<1>3. ASSUME NEW i \in 1..Len(g), n = g[i] PROVE n \in ToSet(g \o q)
  <2>1. i \in 1..Len(g \o q) /\ n = (g \o q)[i]
    BY <1>1, <1>3
  <2> QED BY <1>1, <2>1 DEF ToSet
<1>4. ASSUME NEW i \in 1..Len(q), n = q[i] PROVE n \in ToSet(g \o q)
  <2>1. /\ i + Len(g) \in 1..Len(g \o q) /\ i + Len(g) > Len(g)
        /\ (i + Len(g)) - Len(g) = i
    BY <1>1
  <2>2. n = (g \o q)[i + Len(g)]
    BY <1>1, <1>4, <2>1
  <2> QED BY <1>1, <2>1, <2>2 DEF ToSet
<1> QED BY <1>1, <1>2, <1>3, <1>4 DEF ToSet

Reported ==
    \A n \in errors :
        n \in ToSet(got) \/ n \in ToSet(xPendingFragmentAcks) => n \in reported

(* Only parsing adds to the list, and it reports what it adds.             *)
LEMMA NextKeepsReported ==
    ASSUME Typed, Typed', Reported, [Next]_vars
    PROVE  Reported'
<1>1. got \in Seq(Ack) /\ xPendingFragmentAcks \in Seq(Ack)
  BY DEF Typed, TypeOK
<1>2. CASE UNCHANGED <<errors, reported, got>> /\ xPendingFragmentAcks' = <<>>
  BY <1>2 DEF Reported, ToSet
<1>3. CASE UNCHANGED <<errors, reported, got, xPendingFragmentAcks>>
  BY <1>3 DEF Reported, ToSet
<1>4. ASSUME xPendingFragmentAcks # <<>>, xPendingFragmentAcks' = Tail(xPendingFragmentAcks)
      PROVE  /\ \A n : n \in ToSet(xPendingFragmentAcks') => n \in ToSet(xPendingFragmentAcks)
             /\ Head(xPendingFragmentAcks) \in ToSet(xPendingFragmentAcks)
             /\ Head(xPendingFragmentAcks) \in Ack
  <2> DEFINE q == xPendingFragmentAcks
  <2>1. /\ Tail(q) \in Seq(Ack) /\ Len(Tail(q)) = Len(q) - 1 /\ Len(q) \in Nat \ {0}
        /\ Head(q) = q[1] /\ Head(q) \in Ack
        /\ \A i \in 1..Len(Tail(q)) : Tail(q)[i] = q[i + 1] /\ i + 1 \in 1..Len(q)
    BY <1>1, <1>4, HeadTailProperties
  <2> QED BY <1>1, <1>4, <2>1 DEF ToSet
<1>5. CASE prvFlushFragmentAck
  <2>1. UNCHANGED <<errors, reported, got>>
    BY <1>5 DEF prvFlushFragmentAck, wire, history
  <2>2. \/ UNCHANGED xPendingFragmentAcks
        \/ xPendingFragmentAcks # <<>> /\ xPendingFragmentAcks' = Tail(xPendingFragmentAcks)
    BY <1>5 DEF prvFlushFragmentAck
  <2> QED BY <1>3, <1>4, <2>1, <2>2 DEF Reported
<1>6. CASE Kvs_putMediaReadFragmentAck
  <2>1. /\ UNCHANGED <<errors, reported>>
        /\ xPendingFragmentAcks # <<>> /\ xPendingFragmentAcks' = Tail(xPendingFragmentAcks)
        /\ got' = Append(got, Head(xPendingFragmentAcks))
    BY <1>6 DEF Kvs_putMediaReadFragmentAck, wire
  <2>2. \A n : n \in ToSet(got') => n \in ToSet(got) \/ n = Head(xPendingFragmentAcks)
    BY <1>1, <1>4, <2>1, AppendProperties DEF ToSet
  <2> QED BY <1>4, <2>1, <2>2 DEF Reported
<1>7. ASSUME NEW n \in Ack, ParseAck(n) PROVE Reported'
  <2>1. UNCHANGED <<errors, got>>
    BY <1>7 DEF ParseAck, wire
  <2>2. \A m : m \in ToSet(xPendingFragmentAcks') => m \in ToSet(xPendingFragmentAcks) \/ m = n
    <3>1. \/ xPendingFragmentAcks' = Append(xPendingFragmentAcks, n)
          \/ UNCHANGED xPendingFragmentAcks
      BY <1>7 DEF ParseAck, prvPushFragmentAck
    <3> QED BY <1>1, <3>1, AppendProperties DEF ToSet
  <2>3. reported' = reported \cup ({n} \cap errors)
    BY <1>7 DEF ParseAck, AfterPush
  <2> QED BY <2>1, <2>2, <2>3 DEF Reported
<1>8. CASE Kvs_putMediaFinish
  BY <1>2, <1>8 DEF Kvs_putMediaFinish, wire, history
<1>9. CASE \/ \E size \in 1..Bytes : RecordArrives(size)
           \/ ConnectionCloses \/ Kvs_putMediaDoWork \/ Receive
           \/ ParseEnds \/ ReceiveFails \/ UNCHANGED vars
  <2>1. UNCHANGED <<errors, reported, got, xPendingFragmentAcks>>
    BY <1>9 DEF RecordArrives, ConnectionCloses, Kvs_putMediaDoWork, Receive, ParseEnds,
                ReceiveFails, vars, wire, history
  <2> QED BY <1>3, <2>1
<1> QED BY <1>5, <1>6, <1>7, <1>8, <1>9 DEF Next, DoWorkStep

(* The application does not find an error of the server in the list that   *)
(* Kvs_putMediaDoWork does not also return (ErrorAckReported of PutMedia), *)
(* wherever in a buffer it came and whatever is dropped.                   *)
THEOREM ErrorsAreReported == Spec => []ErrorAckReported
<1>1. Init => Reported
  BY DEF Init, Reported, ToSet
<1>2. Typed /\ Typed' /\ Reported /\ [Next]_vars => Reported'
  BY NextKeepsReported
<1>3. Typed /\ Reported => ErrorAckReported
  BY SeenIsReadOrListed DEF Typed, TypeOK, Reported, ErrorAckReported
<1> QED BY <1>1, <1>2, <1>3, TypedAlways, PTL DEF Spec
=============================================================================
