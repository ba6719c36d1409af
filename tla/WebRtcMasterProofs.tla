-------------------------- MODULE WebRtcMasterProofs --------------------------
(***************************************************************************)
(* Theorems on WebRtcMaster, for any peers, any room for sessions and any  *)
(* number of sessions and candidates.                                      *)
(***************************************************************************)
EXTENDS WebRtcMaster, SequenceTheorems, FiniteSetTheorems, TLAPS

-----------------------------------------------------------------------------
(* The strengthening, in parts.                                            *)

(* What holds where main is; a session taken off the list is main's alone. *)
Control ==
    /\ main = "free" => /\ i <= MaxSessions
                        /\ pSampleStreamingSession # 0
                        /\ pSampleStreamingSession \notin Range(list)
    /\ main \in {"configuration", "done"} => ~signalingClientHandle
    /\ main = "done" => ~gSampleConfiguration /\ \A p \in Peers : hash[p] = 0

(* A session is listed once, and lives while it is; a frame is written to  *)
(* one that is listed.                                                     *)
Listing ==
    /\ IsInjective(list)
    /\ main # "done" => \A s \in Range(list) : sessions[s].live
    /\ writingTo # 0 => writingTo \in Range(list)

(* The hash has the last session of its peer.                              *)
LastHashed ==
    \A p \in Peers : \A s \in DOMAIN sessions :
        hash[p] # 0 /\ sessions[s].peerId = p => s <= hash[p]

(* A queue is the only one of its peer, which has no session.              *)
Queues ==
    \A j \in DOMAIN pending :
        /\ hash[pending[j].peerId] = 0
        /\ \A k \in DOMAIN pending : pending[j].peerId = pending[k].peerId => j = k

(* Candidates by number: those handed over, those that wait, those to come.*)
NotAfter(q, n) == \A k \in DOMAIN q : q[k] <= n
Order ==
    /\ \A s \in DOMAIN sessions :
        /\ Ascending(sessions[s].candidates) /\ NotAfter(sessions[s].candidates, sent)
        /\ \A t \in DOMAIN sessions : s < t /\ sessions[s].peerId = sessions[t].peerId =>
              Before(sessions[s].candidates, sessions[t].candidates)
        /\ \A k \in DOMAIN pending : pending[k].peerId = sessions[s].peerId =>
              Before(sessions[s].candidates, pending[k].messages)
    /\ \A k \in DOMAIN pending :
        Ascending(pending[k].messages) /\ NotAfter(pending[k].messages, sent)

IInv == TypeOK /\ Control /\ Listing /\ HashedSessionLive /\ LastHashed /\ Queues /\ Order

Queue == [peerId : Peers, messages : Seq(1..MaxCandidates)]

-----------------------------------------------------------------------------
(* Lists.                                                                  *)

LEMMA RemoveAtProps ==
    ASSUME NEW S, NEW s \in Seq(S), NEW k \in 1..Len(s)
    PROVE  /\ RemoveAt(s, k) \in Seq(S) /\ Len(RemoveAt(s, k)) = Len(s) - 1
           /\ \A j \in 1..Len(s) - 1 : RemoveAt(s, k)[j] = IF j < k THEN s[j] ELSE s[j + 1]
<1> DEFINE l == SubSeq(s, 1, k - 1)
           r == SubSeq(s, k + 1, Len(s))
<1>1. l \in Seq(S) /\ Len(l) = k - 1 /\ \A j \in 1..k - 1 : l[j] = s[j]
  BY SubSeqProperties
<1>2. r \in Seq(S) /\ Len(r) = Len(s) - k /\ \A j \in 1..Len(s) - k : r[j] = s[k + j]
  BY SubSeqProperties
<1>3. RemoveAt(s, k) = l \o r
  BY DEF RemoveAt
<1> HIDE DEF l, r
<1>4. /\ l \o r \in Seq(S) /\ Len(l \o r) = Len(s) - 1
      /\ \A j \in 1..Len(s) - 1 : (l \o r)[j] = IF j <= k - 1 THEN l[j] ELSE r[j - (k - 1)]
  <2>1. Len(l) + Len(r) = Len(s) - 1 /\ Len(s) \in Nat /\ k \in Int
    BY <1>1, <1>2
  <2>2. /\ l \o r \in Seq(S) /\ Len(l \o r) = Len(l) + Len(r)
        /\ \A j \in 1..Len(l) + Len(r) : (l \o r)[j] = IF j <= Len(l) THEN l[j] ELSE r[j - Len(l)]
    <3>1. l \in Seq(S) /\ r \in Seq(S)
      BY <1>1, <1>2
    <3> QED BY <3>1, ConcatProperties
  <2>3. Len(l) = k - 1
    BY <1>1
  <2> QED BY <2>1, <2>2, <2>3
<1>5. ASSUME NEW j \in 1..Len(s) - 1, ~(j < k) PROVE r[j - (k - 1)] = s[j + 1]
  <2>1. j - (k - 1) \in 1..Len(s) - k /\ k + (j - (k - 1)) = j + 1
    BY <1>5
  <2> QED BY <1>2, <2>1
<1> QED BY <1>1, <1>3, <1>4, <1>5

(* What the variables are, in the words the steps below use.               *)
LEMMA Typed ==
    ASSUME TypeOK
    PROVE  /\ Len(sessions) \in Nat /\ DOMAIN sessions = 1..Len(sessions)
           /\ \A s \in DOMAIN sessions :
                /\ sessions[s] \in Session
                /\ sessions[s].peerId \in Peers /\ sessions[s].candidates \in Seq(1..MaxCandidates)
           /\ Len(list) \in Nat /\ DOMAIN list = 1..Len(list)
           /\ \A k \in DOMAIN list : list[k] \in DOMAIN sessions /\ list[k] \in Range(list)
           /\ \A s \in Range(list) : s \in DOMAIN sessions
           /\ \A p \in Peers : hash[p] # 0 => hash[p] \in DOMAIN sessions
           /\ Len(pending) \in Nat /\ DOMAIN pending = 1..Len(pending)
           /\ \A k \in DOMAIN pending :
                /\ pending[k] \in Queue
                /\ pending[k].peerId \in Peers /\ pending[k].messages \in Seq(1..MaxCandidates)
           /\ sent \in Nat /\ MaxSessions \in Nat
<1>1. sessions \in Seq(Session) /\ list \in Seq(1..Len(sessions)) /\ pending \in Seq(Queue)
  BY DEF TypeOK, Queue
<1>2. \A s \in DOMAIN sessions : sessions[s] \in Session
  BY <1>1, ElementOfSeq
<1>3. \A k \in DOMAIN list : list[k] \in 1..Len(sessions)
  BY <1>1, ElementOfSeq
<1>4. \A k \in DOMAIN pending : pending[k] \in Queue
  BY <1>1, ElementOfSeq
<1>5. Len(sessions) \in Nat /\ DOMAIN sessions = 1..Len(sessions)
  BY <1>1
<1>6. Len(list) \in Nat /\ DOMAIN list = 1..Len(list)
  BY <1>1
<1>7. Len(pending) \in Nat /\ DOMAIN pending = 1..Len(pending)
  BY <1>1
<1>8. \A p \in Peers : hash[p] # 0 => hash[p] \in 1..Len(sessions)
  <2>1. hash \in [Peers -> 0..Len(sessions)]
    BY DEF TypeOK
  <2> QED BY <1>5, <2>1
<1>9. sent \in Nat /\ MaxSessions \in Nat
  BY WebRtcMasterAssumption DEF TypeOK
<1> QED BY <1>2, <1>3, <1>4, <1>5, <1>6, <1>7, <1>8, <1>9 DEF Session, Queue, Range

-----------------------------------------------------------------------------
(* Queues of messages.                                                     *)

(* The queue of a peer, if it has one, and what is left without it.        *)
LEMMA QueueIs ==
    ASSUME TypeOK, Queues, NEW p \in Peers
    PROVE  \/ QueueOf(p) = {} /\ Waiting(p) = <<>> /\ Removed(p) = pending
           \/ \E k \in DOMAIN pending :
                /\ QueueOf(p) = {k} /\ Min(QueueOf(p)) = k /\ pending[k].peerId = p
                /\ Waiting(p) = pending[k].messages /\ Removed(p) = RemoveAt(pending, k)
<1>1. CASE QueueOf(p) = {}
  BY <1>1 DEF Waiting, Removed
<1>2. CASE QueueOf(p) # {}
  <2>1. PICK k \in DOMAIN pending : k \in QueueOf(p)
    BY <1>2 DEF QueueOf
  <2>2. QueueOf(p) = {k} /\ pending[k].peerId = p
    BY <2>1 DEF QueueOf, Queues
  <2>3. k \in Nat
    BY Typed
  <2>4. Min({k}) = k
    BY <2>3 DEF Min
  <2> QED BY <1>2, <2>2, <2>4 DEF Waiting, Removed
<1> QED BY <1>1, <1>2

(* Some of the queues, each once.                                          *)
Some(q) ==
    /\ q \in Seq(Queue)
    /\ \A j \in DOMAIN q :
        /\ \E k \in DOMAIN pending : q[j] = pending[k]
        /\ \A k \in DOMAIN q : q[j].peerId = q[k].peerId => j = k

LEMMA RemovedAreSome ==
    ASSUME TypeOK, Queues, NEW p \in Peers
    PROVE  /\ Some(Removed(p))
           /\ \A j \in DOMAIN Removed(p) : Removed(p)[j].peerId # p
<1>1. pending \in Seq(Queue)
  BY DEF TypeOK, Queue
<1>2. CASE QueueOf(p) = {} /\ Removed(p) = pending
  BY <1>1, <1>2 DEF Some, Queues, QueueOf
<1>3. ASSUME NEW k \in DOMAIN pending, pending[k].peerId = p, Removed(p) = RemoveAt(pending, k)
      PROVE  /\ Some(Removed(p))
             /\ \A j \in DOMAIN Removed(p) : Removed(p)[j].peerId # p
  <2> DEFINE q == Removed(p)
             n == Len(pending)
  <2>1. k \in 1..n /\ n \in Nat
    BY Typed
  <2>2. /\ q \in Seq(Queue) /\ Len(q) = n - 1
        /\ \A j \in 1..n - 1 : q[j] = IF j < k THEN pending[j] ELSE pending[j + 1]
    BY <1>1, <1>3, <2>1, RemoveAtProps
  <2> HIDE DEF q
  <2>3. DOMAIN q = 1..n - 1
    BY <2>1, <2>2
  <2>4. ASSUME NEW j \in DOMAIN q
        PROVE  \E m \in DOMAIN pending : m # k /\ m = (IF j < k THEN j ELSE j + 1) /\ q[j] = pending[m]
    <3>1. (IF j < k THEN j ELSE j + 1) \in 1..n /\ (IF j < k THEN j ELSE j + 1) # k
      BY <2>1, <2>3
    <3> QED BY <2>2, <2>3, <3>1, Typed
  <2>5. ASSUME NEW j \in DOMAIN q, NEW m \in DOMAIN q, q[j].peerId = q[m].peerId
        PROVE  j = m
    <3>1. (IF j < k THEN j ELSE j + 1) = (IF m < k THEN m ELSE m + 1)
      BY <2>4, <2>5 DEF Queues
    <3> QED BY <2>1, <2>3, <3>1
  <2>6. \A j \in DOMAIN q : q[j].peerId # p
    BY <1>3, <2>4 DEF Queues
  <2> QED BY <2>2, <2>4, <2>5, <2>6 DEF Some, q
<1> QED BY <1>2, <1>3, QueueIs

LEMMA ExpiredLeaveSome ==
    ASSUME TypeOK, Queues, NEW n \in 0..Len(pending)
    PROVE  Some(SubSeq(pending, n + 1, Len(pending)))
<1> DEFINE q == SubSeq(pending, n + 1, Len(pending))
<1>1. pending \in Seq(Queue)
  BY DEF TypeOK, Queue
<1>2. Len(pending) \in Nat /\ DOMAIN pending = 1..Len(pending)
  BY Typed
<1>3. q \in Seq(Queue) /\ Len(q) = Len(pending) - n /\ \A j \in 1..Len(pending) - n : q[j] = pending[n + j]
  <2> DEFINE N == Len(pending)
             m == n + 1
  <2>1. N \in Nat /\ m \in 1..N + 1 /\ \A j \in m..N : pending[j] \in Queue
    BY <1>2, Typed
  <2> HIDE DEF N, m
  <2>2. SubSeq(pending, m, N) \in Seq(Queue)
        /\ Len(SubSeq(pending, m, N)) = (IF m <= N THEN N - m + 1 ELSE 0)
        /\ \A j \in 1..N - m + 1 : SubSeq(pending, m, N)[j] = pending[m + j - 1]
    BY <2>1, SubSeqProperties
  <2> QED BY <2>1, <2>2 DEF N, m
<1> HIDE DEF q
<1>4. DOMAIN q = 1..Len(pending) - n
  BY <1>2, <1>3
<1>5. \A j \in DOMAIN q : n + j \in DOMAIN pending
  BY <1>2, <1>4
<1>6. \A j, k \in DOMAIN q : q[j].peerId = q[k].peerId => n + j = n + k
  <2>1. \A j \in DOMAIN q : q[j] = pending[n + j]
    BY <1>3, <1>4
  <2>2. \A j, k \in DOMAIN pending : pending[j].peerId = pending[k].peerId => j = k
    BY DEF Queues
  <2>3. SUFFICES ASSUME NEW j \in DOMAIN q, NEW k \in DOMAIN q, q[j].peerId = q[k].peerId
                 PROVE  n + j = n + k
    OBVIOUS
  <2>4. n + j \in DOMAIN pending /\ n + k \in DOMAIN pending
    BY <1>5
  <2>5. pending[n + j].peerId = pending[n + k].peerId
    BY <2>1, <2>3
  <2> QED BY <2>2, <2>4, <2>5
<1>7. \A j, k \in DOMAIN q : n + j = n + k => j = k
  BY <1>4
<1> QED BY <1>3, <1>4, <1>5, <1>6, <1>7 DEF Some, q

(* What is known of all queues is known of some of them.                   *)
LEMMA SomeQueues ==
    ASSUME TypeOK, Queues, Some(pending'),
           \A j \in DOMAIN pending' : hash'[pending'[j].peerId] = hash[pending'[j].peerId]
    PROVE  Queues'
BY DEF Queues, Some

LEMMA SomeOrder ==
    ASSUME TypeOK, Order, Some(pending'), UNCHANGED <<sessions, sent>>
    PROVE  Order'
BY DEF Order, Some, NotAfter, Ascending, Before

-----------------------------------------------------------------------------
(* The initial state.                                                      *)

LEMMA InitIInv == Init => IInv
<1> SUFFICES ASSUME Init PROVE IInv
  OBVIOUS
<1>1. DOMAIN list = {} /\ DOMAIN pending = {} /\ DOMAIN sessions = {}
  BY DEF Init
<1>2. TypeOK
  <2>1. Len(sessions) = 0 /\ Len(list) = 0
    BY DEF Init
  <2>2. i \in 1..MaxSessions + 1 /\ Len(list) <= MaxSessions /\ sent \in 0..MaxCandidates
    BY <2>1, WebRtcMasterAssumption DEF Init
  <2>3. hash \in [Peers -> 0..Len(sessions)] /\ writingTo \in 0..Len(sessions)
        /\ pSampleStreamingSession \in 0..Len(sessions)
    BY <2>1 DEF Init
  <2>4. /\ sessions \in Seq(Session) /\ list \in Seq(1..Len(sessions))
        /\ pending \in Seq([peerId : Peers, messages : Seq(1..MaxCandidates)])
    BY EmptySeq DEF Init
  <2>5. main \in Program
        /\ {interrupted, appTerminateFlag, connected, mediaThreadStarted, signalingClientHandle,
            gStopRunning, gSampleConfiguration} \subseteq BOOLEAN
    BY DEF Init, Program
  <2> QED BY <2>2, <2>3, <2>4, <2>5 DEF TypeOK
<1>3. Control
  BY DEF Init, Control
<1>4. Listing
  BY <1>1 DEF Init, Listing, IsInjective, Range
<1>5. HashedSessionLive /\ LastHashed
  BY <1>1 DEF Init, HashedSessionLive, LastHashed
<1>6. Queues /\ Order
  BY <1>1 DEF Queues, Order
<1> QED BY <1>2, <1>3, <1>4, <1>5, <1>6 DEF IInv

-----------------------------------------------------------------------------
(* Steps that leave sessions, lists and queues alone.                      *)

LEMMA TablesKept ==
    ASSUME IInv, UNCHANGED <<tables, sent>>, TypeOK', Control',
           main = "done" => main' = "done",
           writingTo' # 0 => writingTo' \in Range(list)
    PROVE  IInv'
<1>1. UNCHANGED <<list, hash, pending, sessions, sent>>
  BY DEF tables
<1>2. Listing'
  BY <1>1 DEF IInv, Listing
<1>3. HashedSessionLive' /\ LastHashed'
  BY <1>1 DEF IInv, HashedSessionLive, LastHashed, Live
<1>4. Queues' /\ Order'
  BY <1>1 DEF IInv, Queues, Order
<1> QED BY <1>2, <1>3, <1>4 DEF IInv

(* What main does on its own.                                              *)
LEMMA MainIInv ==
    ASSUME IInv, Setup \/ Connect \/ Wake \/ ScanLive \/ Terminate \/ JoinMediaSender \/ FreeSignalingClient
    PROVE  IInv'
<1> USE DEF Setup, Connect, Wake, ScanLive, Terminate, JoinMediaSender, FreeSignalingClient
<1>1. UNCHANGED <<tables, sent>> /\ UNCHANGED writingTo
  OBVIOUS
<1>2. UNCHANGED <<list, hash, pending, sessions, sent>>
  BY <1>1 DEF tables
<1>3. TypeOK
  BY DEF IInv
<1>4. i' \in 1..MaxSessions + 1
  <2>1. i \in 1..MaxSessions + 1 /\ Len(list) \in Nat /\ Len(list) <= MaxSessions /\ MaxSessions \in Nat
    BY <1>3, Typed DEF TypeOK
  <2>2. i' = i \/ i' = 1 \/ (i <= Len(list) /\ i' = i + 1)
    OBVIOUS
  <2> QED BY <2>1, <2>2
<1>5. main' \in Program /\ main' # "free" /\ main' # "done"
      /\ (main' = "configuration" => ~signalingClientHandle')
  BY DEF Program
<1>6. TypeOK'
  <2>1. {interrupted, appTerminateFlag, connected, mediaThreadStarted, signalingClientHandle,
         gStopRunning, gSampleConfiguration}' \subseteq BOOLEAN
    BY <1>3 DEF TypeOK, mediaVars, endVars
  <2>2. pSampleStreamingSession' = pSampleStreamingSession
    OBVIOUS
  <2> QED BY <1>1, <1>2, <1>3, <1>4, <1>5, <2>1, <2>2 DEF TypeOK
<1>7. Control'
  BY <1>5 DEF Control
<1>8. main # "done"
  OBVIOUS
<1> QED BY <1>1, <1>6, <1>7, <1>8, TablesKept DEF IInv, Listing

(* Offers refused, the connection made, media, frames, signals, nothing.   *)
LEMMA QuietIInv ==
    ASSUME IInv,
           \/ UNCHANGED vars
           \/ \E p \in Peers : OfferInProgress(p) \/ OfferNotCreated(p)
           \/ \E s \in DOMAIN sessions : ConnectionConnected(s) \/ ConnectionUnderWay(s)
           \/ mediaSenderRoutine \/ AddVideoFrame \/ FrameWritten \/ Signal
    PROVE  IInv'
<1>1. UNCHANGED <<tables, sent>> /\ UNCHANGED mainVars
  BY DEF vars, OfferInProgress, OfferNotCreated, ConnectionConnected, ConnectionUnderWay, mediaSenderRoutine,
         AddVideoFrame, FrameWritten, Signal
<1>2. /\ UNCHANGED <<list, hash, pending, sessions, sent>>
      /\ UNCHANGED <<main, i, pSampleStreamingSession>>
  BY <1>1 DEF tables, mainVars
<1>3. {interrupted, appTerminateFlag, connected, mediaThreadStarted, signalingClientHandle,
       gStopRunning, gSampleConfiguration}' \subseteq BOOLEAN
      /\ UNCHANGED <<signalingClientHandle, gSampleConfiguration>>
  BY DEF IInv, TypeOK, vars, OfferInProgress, OfferNotCreated, ConnectionConnected, ConnectionUnderWay, mediaSenderRoutine,
         AddVideoFrame, FrameWritten, Signal, mediaVars, endVars
<1>4. writingTo' = writingTo \/ writingTo' = 0 \/ writingTo' \in Range(list)
  <2>1. CASE AddVideoFrame
    <3>1. 1 \in DOMAIN list /\ Head(list) = list[1]
      <4>1. list \in Seq(1..Len(sessions)) /\ list # <<>>
        BY <2>1 DEF IInv, TypeOK, AddVideoFrame
      <4> QED BY <4>1, HeadTailProperties
    <3> QED BY <2>1, <3>1 DEF AddVideoFrame, Range
  <2>2. CASE FrameWritten
    <3>1. \A k \in 2..Len(list) : k \in DOMAIN list
      BY Typed DEF IInv
    <3> QED BY <2>2, <3>1 DEF FrameWritten, Range
  <2>3. CASE ~AddVideoFrame /\ ~FrameWritten
    BY <2>3 DEF vars, OfferInProgress, OfferNotCreated, ConnectionConnected, ConnectionUnderWay, mediaSenderRoutine,
           Signal
  <2> QED BY <2>1, <2>2, <2>3
<1>5. writingTo' # 0 => writingTo' \in Range(list)
  BY <1>4 DEF IInv, Listing
<1>6. TypeOK'
  <2>1. \A s \in Range(list) : s \in 0..Len(sessions)
    BY Typed DEF IInv
  <2>2. writingTo' \in 0..Len(sessions)
    BY <1>4, <2>1 DEF IInv, TypeOK
  <2> QED BY <1>2, <1>3, <2>2 DEF IInv, TypeOK
<1>7. Control'
  BY <1>2, <1>3 DEF IInv, Control
<1> QED BY <1>1, <1>2, <1>5, <1>6, <1>7, TablesKept

-----------------------------------------------------------------------------
(* Steps that change the queues only.                                      *)

LEMMA QueuesLeave ==
    ASSUME IInv, UNCHANGED <<list, hash, sessions, sent, writingTo>>, Some(pending'),
           main = "done" => main' = "done",
           UNCHANGED <<i, pSampleStreamingSession, mediaVars, endVars>>,
           main' \in Program, main' = "free" => main = "free",
           main' \in {"configuration", "done"} => main' = main
    PROVE  IInv'
<1>1. TypeOK'
  BY DEF IInv, TypeOK, Some, Queue, mediaVars, endVars
<1>2. Control'
  BY DEF IInv, Control, endVars
<1>3. Listing'
  BY DEF IInv, Listing
<1>4. HashedSessionLive' /\ LastHashed'
  BY DEF IInv, HashedSessionLive, LastHashed, Live
<1>5. Queues'
  BY SomeQueues DEF IInv
<1>6. Order'
  BY SomeOrder DEF IInv
<1> QED BY <1>1, <1>2, <1>3, <1>4, <1>5, <1>6 DEF IInv

LEMMA OfferBeyondMaxIInv ==
    ASSUME IInv, NEW p \in Peers, OfferBeyondMax(p)
    PROVE  IInv'
<1>1. Some(pending')
  BY RemovedAreSome DEF IInv, OfferBeyondMax
<1>2. UNCHANGED <<main, i, pSampleStreamingSession, list, hash, sessions, mediaVars, endVars, writingTo, sent>>
  BY DEF OfferBeyondMax, mainVars
<1>3. main \in Program
  BY DEF IInv, TypeOK
<1> QED BY <1>1, <1>2, <1>3, QueuesLeave

LEMMA ScanDoneIInv ==
    ASSUME IInv, ScanDone
    PROVE  IInv'
<1>1. Some(pending')
  <2>1. CASE removeExpiredMessageQueues
    BY <2>1, ExpiredLeaveSome DEF IInv, removeExpiredMessageQueues
  <2>2. CASE UNCHANGED pending
    BY <2>2 DEF IInv, TypeOK, Queues, Some, Queue
  <2> QED BY <2>1, <2>2 DEF ScanDone
<1>2. main \notin {"done", "free"} /\ main' \in {"wait", "terminate"}
  BY DEF ScanDone
<1>3. UNCHANGED <<i, pSampleStreamingSession, list, hash, sessions, mediaVars, endVars, writingTo, sent>>
  BY DEF ScanDone
<1>4. main' \in Program
  BY <1>2 DEF Program
<1> QED BY <1>1, <1>2, <1>3, <1>4, QueuesLeave

-----------------------------------------------------------------------------
(* The cleanup loop.                                                       *)

(* A session that goes leaves all others on the list.                      *)
LEMMA SwappedOutIs ==
    ASSUME TypeOK, IsInjective(list), i <= Len(list)
    PROVE  /\ i \in DOMAIN list /\ list[i] \in DOMAIN sessions
           /\ SwappedOut \in Seq(1..Len(sessions)) /\ Len(SwappedOut) = Len(list) - 1
           /\ IsInjective(SwappedOut)
           /\ Range(SwappedOut) = Range(list) \ {list[i]}
<1> DEFINE n == Len(list)
           e == [list EXCEPT ![i] = Last(list)]
           q == SwappedOut
<1>1. n \in Nat /\ DOMAIN list = 1..n /\ i \in 1..n
  <2>1. i \in Nat /\ i >= 1
    BY DEF TypeOK
  <2> QED BY <2>1, Typed
<1>2. \A k \in 1..n : list[k] \in 1..Len(sessions)
  BY <1>1, Typed
<1>3. DOMAIN e = 1..n /\ \A k \in 1..n : e[k] = IF k = i THEN list[n] ELSE list[k]
  <2>1. list \in Seq(1..Len(sessions))
    BY DEF TypeOK
  <2> QED BY <1>1, <2>1 DEF Last
<1>4. \A k \in 1..n - 1 : e[k] \in 1..Len(sessions)
  BY <1>1, <1>2, <1>3
<1>5. Len(e) = n
  <2>1. list \in Seq(1..Len(sessions))
    BY DEF TypeOK
  <2>2. e \in Seq(1..Len(sessions)) /\ Len(e) = Len(list)
    BY <1>1, <1>2, <2>1, ExceptSeq DEF Last
  <2> QED BY <2>2
<1>6. q = SubSeq(e, 1, n - 1)
  BY <1>5 DEF SwappedOut, Front
<1> HIDE DEF e, q
<1>7. /\ q \in Seq(1..Len(sessions)) /\ Len(q) = n - 1
      /\ \A k \in 1..n - 1 : q[k] = e[k]
  <2> HIDE DEF n
  <2> QED BY <1>1, <1>4, <1>6, SubSeqProperties
<1>8. DOMAIN q = 1..n - 1
  BY <1>1, <1>7
<1>9. \A k \in 1..n - 1 : q[k] = IF k = i THEN list[n] ELSE list[k]
  BY <1>1, <1>3, <1>7
<1>10. \A j, k \in 1..n : list[j] = list[k] => j = k
  BY <1>1 DEF IsInjective
<1> HIDE DEF n
<1>11. IsInjective(q)
  <2> SUFFICES ASSUME NEW j \in 1..n - 1, NEW k \in 1..n - 1, q[j] = q[k] PROVE j = k
    BY <1>8 DEF IsInjective
  <2>1. j \in 1..n /\ k \in 1..n /\ n \in 1..n /\ j # n /\ k # n
    BY <1>1
  <2> QED BY <1>9, <1>10, <2>1
<1>12. Range(q) = Range(list) \ {list[i]}
  <2>1. ASSUME NEW k \in 1..n - 1 PROVE \E j \in 1..n : j # i /\ q[k] = list[j]
    <3>1. k \in 1..n /\ n \in 1..n /\ k # n
      BY <1>1
    <3> QED BY <1>9, <3>1
  <2>2. ASSUME NEW j \in 1..n, j # i PROVE \E k \in 1..n - 1 : q[k] = list[j]
    <3>1. CASE j = n
      <4>1. i \in 1..n - 1
        BY <1>1, <2>2, <3>1
      <4> QED BY <1>9, <3>1, <4>1
    <3>2. CASE j # n
      <4>1. j \in 1..n - 1
        BY <1>1, <3>2
      <4> QED BY <1>9, <2>2, <4>1
    <3> QED BY <3>1, <3>2
  <2>3. \A x \in Range(q) : x \in Range(list) \ {list[i]}
    <3>1. \A k \in 1..n - 1 : q[k] \in Range(list) \ {list[i]}
      BY <1>1, <1>10, <2>1 DEF Range
    <3> QED BY <1>8, <3>1 DEF Range
  <2>4. \A x \in Range(list) \ {list[i]} : x \in Range(q)
    <3>1. \A j \in 1..n : j # i => list[j] \in Range(q)
      BY <1>8, <2>2 DEF Range
    <3> QED BY <1>1, <3>1 DEF Range
  <2> QED BY <2>3, <2>4
<1>13. i \in DOMAIN list /\ list[i] \in DOMAIN sessions
  BY <1>1, Typed
<1> QED BY <1>7, <1>11, <1>12, <1>13 DEF q, n

LEMMA ScanTerminatedIInv ==
    ASSUME IInv, ScanTerminated
    PROVE  IInv'
<1> DEFINE s == list[i]
           p == sessions[s].peerId
<1>1. TypeOK /\ IsInjective(list) /\ i <= Len(list)
  BY DEF IInv, Listing, ScanTerminated
<1>2. /\ i \in DOMAIN list /\ s \in DOMAIN sessions
      /\ SwappedOut \in Seq(1..Len(sessions)) /\ Len(SwappedOut) = Len(list) - 1
      /\ IsInjective(SwappedOut)
      /\ Range(SwappedOut) = Range(list) \ {s}
  BY <1>1, SwappedOutIs
<1>3. /\ pSampleStreamingSession' = s /\ list' = SwappedOut /\ main' = "free"
      /\ main = "scan" /\ writingTo = 0
      /\ UNCHANGED <<i, pending, sessions, mediaVars, endVars, writingTo, sent>>
  BY DEF ScanTerminated, ReadLockFree
<1>4. /\ s \in 1..Len(sessions) /\ p \in Peers /\ Len(list) \in Nat /\ Len(list) <= MaxSessions
      /\ MaxSessions \in Nat /\ i \in Nat
  <2>1. Len(list) \in Nat /\ MaxSessions \in Nat /\ DOMAIN sessions = 1..Len(sessions)
        /\ \A t \in DOMAIN sessions : sessions[t].peerId \in Peers
    BY <1>1, Typed
  <2>2. Len(list) <= MaxSessions /\ i \in 1..MaxSessions + 1
    BY <1>1 DEF TypeOK
  <2> HIDE DEF s
  <2> QED BY <1>2, <2>1, <2>2
<1>5. hash \in [Peers -> 0..Len(sessions)] /\ hash' = [hash EXCEPT ![p] = 0]
  BY <1>1 DEF TypeOK, ScanTerminated, Unhashed
<1>6. \A r \in Peers : hash'[r] = IF r = p THEN 0 ELSE hash[r]
  BY <1>4, <1>5
<1> HIDE DEF p, s
<1>7. TypeOK'
  <2>1. hash' \in [Peers -> 0..Len(sessions')]
    BY <1>3, <1>5, <1>4
  <2>2. list' \in Seq(1..Len(sessions')) /\ Len(list') <= MaxSessions
    BY <1>2, <1>3, <1>4
  <2>3. pSampleStreamingSession' \in 0..Len(sessions') /\ main' \in Program
    BY <1>3, <1>4 DEF Program
  <2> QED BY <1>1, <1>3, <2>1, <2>2, <2>3 DEF TypeOK, mediaVars, endVars
<1>8. Control'
  <2>1. s # 0 /\ s \notin Range(list') /\ i <= MaxSessions
    BY <1>1, <1>2, <1>3, <1>4
  <2> QED BY <1>3, <2>1 DEF Control
<1>9. Listing'
  BY <1>2, <1>3 DEF IInv, Listing
<1>10. HashedSessionLive' /\ LastHashed'
  <2>1. ASSUME NEW r \in Peers, hash'[r] # 0
        PROVE  r # p /\ hash'[r] = hash[r] /\ hash[r] \in Range(list) \ {s}
    <3>1. r # p /\ hash'[r] = hash[r]
      BY <1>6, <2>1
    <3>2. hash[r] \in Range(list) /\ sessions[hash[r]].peerId = r
      BY <2>1, <3>1 DEF IInv, HashedSessionLive
    <3> QED BY <3>1, <3>2 DEF p
  <2> QED BY <1>2, <1>3, <2>1 DEF IInv, HashedSessionLive, LastHashed, Live
<1>11. Queues'
  <2>1. \A k \in DOMAIN pending : pending[k].peerId \in Peers
    BY <1>1, Typed
  <2> QED BY <1>3, <1>6, <2>1 DEF IInv, Queues
<1>12. Order'
  BY <1>3 DEF IInv, Order
<1> QED BY <1>7, <1>8, <1>9, <1>10, <1>11, <1>12 DEF IInv

(* Sessions change in other fields than their peers and candidates.        *)
LEMMA OrderKept ==
    ASSUME Order, UNCHANGED <<pending, sent>>, DOMAIN sessions' = DOMAIN sessions,
           \A s \in DOMAIN sessions : /\ sessions'[s].peerId = sessions[s].peerId
                                      /\ sessions'[s].candidates = sessions[s].candidates
    PROVE  Order'
BY DEF Order, NotAfter, Ascending, Before

LEMMA FreeSessionIInv ==
    ASSUME IInv, FreeSession
    PROVE  IInv'
<1> DEFINE s == pSampleStreamingSession
<1>1. /\ main = "free" /\ main' = "scan" /\ i' = i + 1 /\ pSampleStreamingSession' = 0
      /\ sessions' = [sessions EXCEPT ![s].live = FALSE]
      /\ connected' \in {connected, FALSE}
      /\ UNCHANGED <<list, hash, pending, mediaThreadStarted, endVars, writingTo, sent>>
  BY DEF FreeSession
<1>2. TypeOK /\ i <= MaxSessions /\ s \notin Range(list)
  BY <1>1 DEF IInv, Control
<1>3. s \in DOMAIN sessions /\ sessions \in Seq(Session) /\ sessions[s] \in Session
  <2>1. s # 0 /\ s \in 0..Len(sessions) /\ sessions \in Seq(Session)
    BY <1>1 DEF IInv, Control, TypeOK
  <2>2. s \in DOMAIN sessions
    BY <2>1
  <2> QED BY <1>2, <2>1, <2>2, Typed
<1>4. /\ DOMAIN sessions' = DOMAIN sessions /\ Len(sessions') = Len(sessions) /\ sessions' \in Seq(Session)
      /\ sessions'[s] = [sessions[s] EXCEPT !.live = FALSE]
      /\ \A t \in DOMAIN sessions \ {s} : sessions'[t] = sessions[t]
  <2>1. [sessions[s] EXCEPT !.live = FALSE] \in Session
    BY <1>3 DEF Session
  <2>2. sessions' = [sessions EXCEPT ![s] = [sessions[s] EXCEPT !.live = FALSE]]
    BY <1>1
  <2> HIDE DEF s
  <2>3. sessions' \in Seq(Session) /\ Len(sessions') = Len(sessions)
    BY <1>3, <2>1, <2>2, ExceptSeq
  <2> QED BY <1>3, <2>2, <2>3
<1>5. \A t \in DOMAIN sessions : /\ sessions'[t].peerId = sessions[t].peerId
                                 /\ sessions'[t].candidates = sessions[t].candidates
                                 /\ t # s => sessions'[t].live = sessions[t].live
  BY <1>3, <1>4 DEF Session
<1> HIDE DEF s
<1>6. TypeOK'
  <2>1. i' \in 1..MaxSessions + 1
    <3>1. MaxSessions \in Nat /\ i \in 1..MaxSessions + 1
      BY <1>2, Typed DEF TypeOK
    <3> QED BY <1>1, <1>2, <3>1
  <2>2. pSampleStreamingSession' \in 0..Len(sessions') /\ main' \in Program
    BY <1>1, <1>2, <1>4, Typed DEF Program
  <2> QED BY <1>1, <1>2, <1>4, <2>1, <2>2 DEF TypeOK, endVars
<1>7. Control'
  BY <1>1 DEF IInv, Control
<1>8. Listing'
  <2>1. \A t \in Range(list) : t \in DOMAIN sessions /\ t # s
    BY <1>2, Typed
  <2> QED BY <1>1, <1>5, <2>1 DEF IInv, Listing
<1>9. HashedSessionLive' /\ LastHashed'
  BY <1>1, <1>2, <1>4, <1>5 DEF IInv, HashedSessionLive, LastHashed, Live
<1>10. Queues'
  BY <1>1 DEF IInv, Queues
<1>11. Order'
  BY <1>1, <1>4, <1>5, OrderKept DEF IInv
<1> QED BY <1>6, <1>7, <1>8, <1>9, <1>10, <1>11 DEF IInv

-----------------------------------------------------------------------------
(* Connections that end, and the end of the configuration.                 *)

LEMMA ConnectionEndedIInv ==
    ASSUME IInv, NEW s \in DOMAIN sessions, ConnectionEnded(s)
    PROVE  IInv'
<1>1. /\ sessions' = [sessions EXCEPT ![s].terminateFlag = TRUE] /\ connected' = FALSE
      /\ UNCHANGED <<main, i, pSampleStreamingSession, list, hash, pending, mediaThreadStarted, endVars,
                     writingTo, sent>>
  BY DEF ConnectionEnded, mainVars
<1>2. TypeOK /\ sessions \in Seq(Session) /\ sessions[s] \in Session
  BY Typed DEF IInv, TypeOK
<1>3. /\ DOMAIN sessions' = DOMAIN sessions /\ Len(sessions') = Len(sessions) /\ sessions' \in Seq(Session)
      /\ sessions'[s] = [sessions[s] EXCEPT !.terminateFlag = TRUE]
      /\ \A t \in DOMAIN sessions \ {s} : sessions'[t] = sessions[t]
  <2>1. [sessions[s] EXCEPT !.terminateFlag = TRUE] \in Session
    BY <1>2 DEF Session
  <2>2. sessions' = [sessions EXCEPT ![s] = [sessions[s] EXCEPT !.terminateFlag = TRUE]]
    BY <1>1
  <2>3. sessions' \in Seq(Session) /\ Len(sessions') = Len(sessions)
    BY <1>2, <2>1, <2>2, ExceptSeq
  <2> QED BY <1>2, <2>2, <2>3
<1>4. \A t \in DOMAIN sessions : /\ sessions'[t].peerId = sessions[t].peerId
                                 /\ sessions'[t].candidates = sessions[t].candidates
                                 /\ sessions'[t].live = sessions[t].live
  BY <1>2, <1>3 DEF Session
<1>5. TypeOK'
  BY <1>1, <1>2, <1>3 DEF TypeOK, endVars
<1>6. Control'
  BY <1>1 DEF IInv, Control, endVars
<1>7. Listing'
  <2>1. \A t \in Range(list) : t \in DOMAIN sessions
    BY <1>2, Typed
  <2> QED BY <1>1, <1>4, <2>1 DEF IInv, Listing
<1>8. HashedSessionLive' /\ LastHashed'
  BY <1>1, <1>3, <1>4 DEF IInv, HashedSessionLive, LastHashed, Live
<1>9. Queues'
  BY <1>1 DEF IInv, Queues
<1>10. Order'
  BY <1>1, <1>3, <1>4, OrderKept DEF IInv
<1> QED BY <1>5, <1>6, <1>7, <1>8, <1>9, <1>10 DEF IInv

LEMMA FreeConfigurationIInv ==
    ASSUME IInv, FreeConfiguration
    PROVE  IInv'
<1>1. /\ main = "configuration" /\ main' = "done" /\ pending' = <<>> /\ gSampleConfiguration' = FALSE
      /\ hash' = [p \in Peers |-> 0]
      /\ sessions' = [s \in DOMAIN sessions |-> [sessions[s] EXCEPT !.live = @ /\ s \notin Range(list)]]
      /\ UNCHANGED <<i, pSampleStreamingSession, list, mediaVars, signalingClientHandle, interrupted,
                     appTerminateFlag, gStopRunning, writingTo, sent>>
  BY DEF FreeConfiguration
<1>2. TypeOK /\ Len(sessions) \in Nat /\ DOMAIN sessions = 1..Len(sessions)
  BY Typed DEF IInv
<1>3. ASSUME NEW s \in DOMAIN sessions
      PROVE  /\ sessions'[s] \in Session
             /\ sessions'[s].peerId = sessions[s].peerId
             /\ sessions'[s].candidates = sessions[s].candidates
  <2>1. sessions[s] \in Session
    BY <1>2, Typed
  <2> QED BY <1>1, <2>1 DEF Session
<1>4. sessions' \in Seq(Session) /\ Len(sessions') = Len(sessions) /\ DOMAIN sessions' = DOMAIN sessions
  <2>1. sessions' = [s \in 1..Len(sessions) |-> sessions'[s]]
    BY <1>1, <1>2
  <2> QED BY <1>2, <1>3, <2>1, IsASeq
<1>5. TypeOK'
  <2>1. hash' \in [Peers -> 0..Len(sessions')]
    BY <1>1, <1>2, <1>4
  <2>2. pending' \in Seq([peerId : Peers, messages : Seq(1..MaxCandidates)]) /\ main' \in Program
    BY <1>1, EmptySeq DEF Program
  <2> QED BY <1>1, <1>2, <1>4, <2>1, <2>2 DEF TypeOK, mediaVars
<1>6. Control'
  BY <1>1 DEF IInv, Control
<1>7. Listing'
  BY <1>1 DEF IInv, Listing
<1>8. HashedSessionLive' /\ LastHashed'
  BY <1>1 DEF HashedSessionLive, LastHashed
<1>9. DOMAIN pending' = {}
  BY <1>1
<1>10. Queues'
  BY <1>9 DEF Queues
<1>11. Order'
  <2>1. \A s \in DOMAIN sessions' :
            Ascending(sessions'[s].candidates) /\ NotAfter(sessions'[s].candidates, sent)
    BY <1>3, <1>4 DEF IInv, Order
  <2>2. \A s, t \in DOMAIN sessions' : s < t /\ sessions'[s].peerId = sessions'[t].peerId =>
            Before(sessions'[s].candidates, sessions'[t].candidates)
    BY <1>3, <1>4 DEF IInv, Order
  <2>3. sent' = sent /\ DOMAIN pending' = {}
    BY <1>1, <1>9
  <2> QED BY <2>1, <2>2, <2>3 DEF Order, NotAfter, Ascending, Before
<1> QED BY <1>5, <1>6, <1>7, <1>8, <1>10, <1>11 DEF IInv

-----------------------------------------------------------------------------
(* Offers.                                                                 *)

(* The first candidates that wait: in order, and after all handed over.    *)
LEMMA SubmittedAre ==
    ASSUME TypeOK, Queues, Order, NEW p \in Peers, NEW q \in submitPendingIceCandidate(p)
    PROVE  /\ q \in Seq(1..MaxCandidates) /\ Ascending(q) /\ NotAfter(q, sent)
           /\ \A s \in DOMAIN sessions : sessions[s].peerId = p => Before(sessions[s].candidates, q)
<1>1. \/ Waiting(p) = <<>>
      \/ \E k \in DOMAIN pending : pending[k].peerId = p /\ Waiting(p) = pending[k].messages
  BY QueueIs
<1>2. Waiting(p) \in Seq(1..MaxCandidates)
  BY <1>1, Typed, EmptySeq
<1>3. PICK n \in 0..Len(Waiting(p)) : q = SubSeq(Waiting(p), 1, n)
  BY DEF submitPendingIceCandidate
<1>4. \A k \in 1..n : k \in DOMAIN Waiting(p) /\ Waiting(p)[k] \in 1..MaxCandidates
  <2> DEFINE w == Waiting(p)
  <2>1. w \in Seq(1..MaxCandidates) /\ n \in 0..Len(w)
    BY <1>2, <1>3
  <2> HIDE DEF w
  <2>2. Len(w) \in Nat /\ DOMAIN w = 1..Len(w) /\ \A k \in 1..Len(w) : w[k] \in 1..MaxCandidates
    <3>1. \A k \in 1..Len(w) : w[k] \in 1..MaxCandidates
      BY <2>1, ElementOfSeq
    <3>2. Len(w) \in Nat /\ DOMAIN w = 1..Len(w)
      BY <2>1
    <3> QED BY <3>1, <3>2
  <2>3. \A k \in 1..n : k \in 1..Len(w)
    BY <2>1, <2>2
  <2> QED BY <2>2, <2>3 DEF w
<1>5. /\ q \in Seq(1..MaxCandidates) /\ Len(q) = n /\ DOMAIN q = 1..n
      /\ \A k \in 1..n : q[k] = Waiting(p)[k]
  <2>1. n \in Nat
    BY <1>2, <1>3
  <2> DEFINE w == Waiting(p)
  <2> HIDE DEF w
  <2>2. /\ SubSeq(w, 1, n) \in Seq(1..MaxCandidates)
        /\ Len(SubSeq(w, 1, n)) = IF 1 <= n THEN n - 1 + 1 ELSE 0
        /\ \A k \in 1..n - 1 + 1 : SubSeq(w, 1, n)[k] = w[1 + k - 1]
    BY <1>4, <2>1, SubSeqProperties DEF w
  <2>3. Len(SubSeq(w, 1, n)) = n /\ \A k \in 1..n : SubSeq(w, 1, n)[k] = w[k]
    BY <2>1, <2>2
  <2> QED BY <1>3, <2>1, <2>2, <2>3 DEF w
<1>6. CASE Waiting(p) = <<>>
  <2>1. DOMAIN q = {}
    BY <1>4, <1>5, <1>6
  <2> QED BY <1>5, <2>1 DEF Ascending, NotAfter, Before
<1>7. CASE \E k \in DOMAIN pending : pending[k].peerId = p /\ Waiting(p) = pending[k].messages
  BY <1>4, <1>5, <1>7 DEF Order, Ascending, NotAfter, Before
<1> QED BY <1>1, <1>6, <1>7

(* What the handlers do with an offer they create a session for: it is     *)
(* new, alive, known to the hash if the offer is accepted, and has         *)
(* candidates that may be handed over.                                     *)
LEMMA NewSessionIInv ==
    ASSUME IInv, NEW p \in Peers, NEW session \in Session, session.peerId = p, session.live,
           Ascending(session.candidates), NotAfter(session.candidates, sent),
           \A s \in DOMAIN sessions : sessions[s].peerId = p =>
               Before(sessions[s].candidates, session.candidates),
           hash[p] = 0, HasRoom, Receiving,
           list' = Listed, sessions' = Append(sessions, session),
           \/ hash' = hash /\ pending' = pending /\ session.candidates = <<>>
           \/ hash' = [hash EXCEPT ![p] = Created] /\ pending' = Removed(p),
           mediaThreadStarted' \in BOOLEAN,
           UNCHANGED <<mainVars, connected, endVars, writingTo, sent>>
    PROVE  IInv'
<1> DEFINE n == Len(sessions) + 1
<1>1. TypeOK
  BY DEF IInv
<1>2. /\ sessions \in Seq(Session) /\ list \in Seq(1..Len(sessions)) /\ Len(sessions) \in Nat
      /\ DOMAIN sessions = 1..Len(sessions) /\ DOMAIN list = 1..Len(list) /\ Len(list) \in Nat
  BY <1>1, Typed DEF TypeOK
<1>3. /\ sessions' \in Seq(Session) /\ Len(sessions') = n /\ DOMAIN sessions' = 1..n
      /\ sessions'[n] = session
      /\ \A s \in DOMAIN sessions : sessions'[s] = sessions[s]
  <2>1. sessions' \in Seq(Session) /\ Len(sessions') = n
        /\ \A s \in 1..n : sessions'[s] = IF s = n THEN session ELSE sessions[s]
    BY <1>2, AppendProperties
  <2> QED BY <1>2, <2>1
<1>4. /\ n \notin DOMAIN sessions /\ n # 0 /\ n \in Nat
      /\ \A s \in DOMAIN sessions' : s # n => s \in DOMAIN sessions /\ s < n
  BY <1>2, <1>3
<1>5. /\ list' \in Seq(1..n) /\ Len(list') = Len(list) + 1
      /\ \A k \in 1..Len(list) + 1 : list'[k] = IF k <= Len(list) THEN list[k] ELSE n
  <2>1. list \in Seq(1..n) /\ n \in 1..n
    <3>1. \A k \in 1..Len(list) : list[k] \in 1..n
      BY <1>2, ElementOfSeq
    <3>2. list = [k \in 1..Len(list) |-> list[k]]
      BY <1>2
    <3> QED BY <1>2, <3>1, <3>2, IsASeq
  <2>2. list' = Append(list, n)
    BY DEF Listed, Created
  <2> HIDE DEF n
  <2> QED BY <1>2, <2>1, <2>2, AppendProperties
<1>6. DOMAIN list' = 1..Len(list) + 1
  BY <1>2, <1>5
<1>7. Range(list') = Range(list) \cup {n}
  <2>1. \A k \in 1..Len(list) : k \in 1..Len(list) + 1 /\ list'[k] = list[k]
    BY <1>2, <1>5
  <2>2. Len(list) + 1 \in 1..Len(list) + 1 /\ list'[Len(list) + 1] = n
    BY <1>2, <1>5
  <2>3. \A k \in 1..Len(list) + 1 : k # Len(list) + 1 => k \in 1..Len(list)
    BY <1>2
  <2> HIDE DEF n
  <2> QED BY <1>2, <1>6, <2>1, <2>2, <2>3 DEF Range
<1>8. hash' \in [Peers -> 0..n] /\ (\A r \in Peers : r # p => hash'[r] = hash[r])
      /\ hash'[p] \in {0, n}
  <2>1. hash \in [Peers -> 0..Len(sessions)]
    BY <1>1 DEF TypeOK
  <2> QED BY <1>2, <2>1 DEF Created
<1>9. Some(pending') /\ \A j \in DOMAIN pending' : hash'[pending'[j].peerId] = 0
  <2>1. CASE hash' = hash /\ pending' = pending
    BY <2>1 DEF IInv, TypeOK, Queues, Some, Queue
  <2>2. CASE hash' = [hash EXCEPT ![p] = Created] /\ pending' = Removed(p)
    <3>1. Some(pending') /\ \A j \in DOMAIN pending' : pending'[j].peerId # p
      BY <2>2, RemovedAreSome DEF IInv
    <3>2. \A j \in DOMAIN pending' : hash[pending'[j].peerId] = 0 /\ pending'[j].peerId \in Peers
      BY <1>1, <3>1, Typed DEF Some, IInv, Queues
    <3> QED BY <1>8, <3>1, <3>2
  <2> QED BY <2>1, <2>2
<1>10. \A s \in DOMAIN sessions : sessions[s].peerId \in Peers
  BY <1>1, Typed
<1>11. /\ UNCHANGED <<main, i, pSampleStreamingSession, connected, endVars, writingTo, sent>>
       /\ main \notin {"free", "configuration", "done"}
  BY DEF Receiving, ObjLockFree, mainVars, IInv, Control
<1> HIDE DEF n
<1>12. TypeOK'
  <2>1. Len(list') <= MaxSessions
    <3>1. Len(list) < MaxSessions /\ MaxSessions \in Nat
      BY <1>1, Typed DEF HasRoom
    <3> QED BY <1>2, <1>5, <3>1
  <2>2. pSampleStreamingSession' \in 0..n /\ writingTo' \in 0..n
    BY <1>1, <1>2, <1>11 DEF TypeOK, n
  <2>3. pending' \in Seq([peerId : Peers, messages : Seq(1..MaxCandidates)])
    BY <1>9 DEF Some, Queue
  <2> QED BY <1>1, <1>3, <1>5, <1>8, <1>11, <2>1, <2>2, <2>3 DEF TypeOK, endVars
<1>13. Control'
  BY <1>11 DEF Control
<1>14. Listing'
  <2>1. IsInjective(list')
    <3>1. \A j, k \in 1..Len(list) : list[j] = list[k] => j = k
      BY <1>2 DEF IInv, Listing, IsInjective
    <3>2. \A k \in 1..Len(list) : list[k] # n
      BY <1>1, <1>4, Typed
    <3>3. \A k \in 1..Len(list) + 1 : k \in 1..Len(list) \/ k = Len(list) + 1
      BY <1>2
    <3>4. \A k \in 1..Len(list) : k <= Len(list)
      BY <1>2
    <3>5. ~(Len(list) + 1 <= Len(list))
      BY <1>2
    <3> QED BY <1>5, <1>6, <3>1, <3>2, <3>3, <3>4, <3>5 DEF IsInjective
  <2>2. \A s \in Range(list) : s \in DOMAIN sessions /\ sessions'[s].live
    BY <1>1, <1>3, <1>11, Typed DEF IInv, Listing
  <2>3. writingTo' # 0 => writingTo' \in Range(list')
    BY <1>7, <1>11 DEF IInv, Listing
  <2> QED BY <1>3, <1>7, <2>1, <2>2, <2>3 DEF Listing
<1>15. HashedSessionLive'
  <2>1. ASSUME NEW r \in Peers, hash'[r] # 0
        PROVE  /\ hash'[r] \in Range(list') /\ hash'[r] \in DOMAIN sessions'
               /\ sessions'[hash'[r]].live /\ sessions'[hash'[r]].peerId = r
    <3>1. CASE r = p
      <4>1. hash'[r] = n /\ n \in DOMAIN sessions'
        BY <1>3, <1>4, <1>8, <2>1, <3>1
      <4> QED BY <1>3, <1>7, <3>1, <4>1
    <3>2. CASE r # p
      <4>1. hash'[r] = hash[r]
        BY <1>8, <3>2
      <4>2. hash[r] \in Range(list) /\ hash[r] \in DOMAIN sessions
            /\ sessions[hash[r]].live /\ sessions[hash[r]].peerId = r
        BY <2>1, <4>1 DEF IInv, HashedSessionLive, Live
      <4>3. hash[r] \in DOMAIN sessions'
        BY <1>2, <1>3, <4>2 DEF n
      <4> QED BY <1>3, <1>7, <4>1, <4>2, <4>3
    <3> QED BY <3>1, <3>2
  <2> QED BY <2>1 DEF HashedSessionLive, Live
<1>16. LastHashed'
  <2>1. ASSUME NEW r \in Peers, NEW s \in DOMAIN sessions', hash'[r] # 0, sessions'[s].peerId = r
        PROVE  s <= hash'[r]
    <3>1. CASE r = p
      BY <1>3, <1>4, <1>8, <2>1, <3>1
    <3>2. CASE r # p
      <4>1. s # n
        BY <1>3, <2>1, <3>2
      <4> QED BY <1>3, <1>4, <1>8, <2>1, <3>2, <4>1 DEF IInv, LastHashed
    <3> QED BY <3>1, <3>2
  <2> QED BY <2>1 DEF LastHashed
<1>17. Queues'
  BY <1>9 DEF Queues, Some
<1>18. Order'
  <2>1. ASSUME NEW s \in DOMAIN sessions'
        PROVE  Ascending(sessions'[s].candidates) /\ NotAfter(sessions'[s].candidates, sent)
    BY <1>3, <1>4 DEF IInv, Order
  <2>2. ASSUME NEW s \in DOMAIN sessions', NEW t \in DOMAIN sessions', s < t,
               sessions'[s].peerId = sessions'[t].peerId
        PROVE  Before(sessions'[s].candidates, sessions'[t].candidates)
    <3>1. s \in DOMAIN sessions
      BY <1>3, <1>4, <2>2
    <3>2. CASE t = n
      BY <1>3, <2>2, <3>1, <3>2
    <3>3. CASE t # n
      BY <1>3, <1>4, <2>2, <3>1, <3>3 DEF IInv, Order
    <3> QED BY <3>2, <3>3
  <2>3. ASSUME NEW s \in DOMAIN sessions', NEW k \in DOMAIN pending',
               pending'[k].peerId = sessions'[s].peerId
        PROVE  Before(sessions'[s].candidates, pending'[k].messages)
    <3>1. CASE s = n
      <4>1. hash' = hash /\ pending' = pending => session.candidates = <<>>
            \/ (pending' = Removed(p) /\ \A j \in DOMAIN pending' : pending'[j].peerId # p)
        BY RemovedAreSome DEF IInv
      <4>2. session.candidates = <<>> \/ \A j \in DOMAIN pending' : pending'[j].peerId # p
        BY <4>1, RemovedAreSome DEF IInv
      <4>3. session.candidates = <<>>
        BY <1>3, <2>3, <3>1, <4>2
      <4> QED BY <1>3, <3>1, <4>3 DEF Before
    <3>2. CASE s # n
      BY <1>3, <1>4, <1>9, <2>3, <3>2 DEF IInv, Order, Some
    <3> QED BY <3>1, <3>2
  <2>4. \A k \in DOMAIN pending' : Ascending(pending'[k].messages) /\ NotAfter(pending'[k].messages, sent)
    BY <1>9 DEF IInv, Order, Some
  <2> QED BY <1>11, <2>1, <2>2, <2>3, <2>4 DEF Order, NotAfter, Ascending, Before
<1> QED BY <1>12, <1>13, <1>14, <1>15, <1>16, <1>17, <1>18 DEF IInv

LEMMA OfferIInv ==
    ASSUME IInv, NEW p \in Peers, OfferFails(p) \/ OfferAccepted(p)
    PROVE  IInv'
<1> DEFINE fresh == NewSession(p)
           described == [fresh EXCEPT !.remote = TRUE]
<1>1. /\ fresh \in Session /\ described \in Session
      /\ \A session \in {fresh, described} :
            session.peerId = p /\ session.live /\ session.candidates = <<>>
  <2>1. <<>> \in Seq(1..MaxCandidates)
    BY EmptySeq
  <2> DEFINE none == <<>>
  <2>2. /\ none \in Seq(1..MaxCandidates)
        /\ fresh = [peerId |-> p, live |-> TRUE, terminateFlag |-> FALSE, remote |-> FALSE,
                    candidates |-> none]
    BY <2>1 DEF NewSession
  <2> HIDE DEF none, fresh
  <2>3. fresh \in Session /\ fresh.peerId = p /\ fresh.live /\ fresh.candidates = none
    BY <2>2 DEF Session
  <2>4. described \in Session /\ described.peerId = p /\ described.live
        /\ described.candidates = none
    BY <2>3 DEF Session
  <2> QED BY <2>3, <2>4 DEF none
<1>2. \A offer \in handleOffer(fresh) : offer.session \in {fresh, described} /\ offer.accepted \in BOOLEAN
  BY DEF handleOffer
<1> HIDE DEF fresh, described
<1>3. /\ hash[p] = 0 /\ HasRoom /\ Receiving /\ list' = Listed
      /\ UNCHANGED <<mainVars, connected, endVars, writingTo, sent>>
  BY DEF OfferFails, OfferAccepted, MayCreate, mediaVars
<1>4. DOMAIN <<>> = {}
  OBVIOUS
<1>5. CASE OfferFails(p)
  <2>1. PICK offer \in handleOffer(fresh) : sessions' = Append(sessions, offer.session)
    BY <1>5 DEF OfferFails, fresh
  <2>2. hash' = hash /\ pending' = pending /\ mediaThreadStarted' \in BOOLEAN
    BY <1>5 DEF OfferFails
  <2> DEFINE session == offer.session
  <2>3. session \in Session /\ session.peerId = p /\ session.live /\ session.candidates = <<>>
    BY <1>1, <1>2, <2>1
  <2> HIDE DEF session
  <2>4. /\ Ascending(session.candidates) /\ NotAfter(session.candidates, sent)
        /\ \A s \in DOMAIN sessions : Before(sessions[s].candidates, session.candidates)
    BY <1>4, <2>3 DEF Ascending, NotAfter, Before
  <2>5. sessions' = Append(sessions, session)
    BY <2>1 DEF session
  <2> QED BY <1>3, <2>2, <2>3, <2>4, <2>5, NewSessionIInv
<1>6. CASE OfferAccepted(p)
  <2>1. PICK offer \in handleOffer(fresh), submitted \in submitPendingIceCandidate(p) :
            sessions' = Append(sessions, [offer.session EXCEPT !.candidates = submitted])
    BY <1>6 DEF OfferAccepted, fresh
  <2>2. /\ hash' = [hash EXCEPT ![p] = Created] /\ pending' = Removed(p)
        /\ mediaThreadStarted' \in BOOLEAN
    BY <1>6 DEF OfferAccepted
  <2> DEFINE session == [offer.session EXCEPT !.candidates = submitted]
  <2>3. /\ submitted \in Seq(1..MaxCandidates) /\ Ascending(submitted) /\ NotAfter(submitted, sent)
        /\ \A s \in DOMAIN sessions : sessions[s].peerId = p => Before(sessions[s].candidates, submitted)
    BY <2>1, SubmittedAre DEF IInv
  <2>4. /\ session \in Session /\ session.peerId = p /\ session.live
        /\ session.candidates = submitted
    BY <1>1, <1>2, <2>1, <2>3 DEF Session
  <2>5. sessions' = Append(sessions, session)
    BY <2>1
  <2> HIDE DEF session
  <2> QED BY <1>3, <2>2, <2>3, <2>4, <2>5, NewSessionIInv
<1> QED BY <1>5, <1>6

-----------------------------------------------------------------------------
(* Candidates.                                                             *)

(* A candidate put behind others that came before.                         *)
LEMMA AppendedLast ==
    ASSUME NEW q \in Seq(1..MaxCandidates), NEW n \in Nat, n + 1 \in 1..MaxCandidates,
           Ascending(q), NotAfter(q, n)
    PROVE  /\ Append(q, n + 1) \in Seq(1..MaxCandidates)
           /\ Ascending(Append(q, n + 1)) /\ NotAfter(Append(q, n + 1), n + 1)
           /\ \A r \in Seq(1..MaxCandidates) : Before(r, q) /\ NotAfter(r, n) => Before(r, Append(q, n + 1))
<1> DEFINE a == Append(q, n + 1)
           m == Len(q)
<1>1. /\ a \in Seq(1..MaxCandidates) /\ Len(a) = m + 1 /\ m \in Nat
      /\ \A k \in 1..m + 1 : a[k] = IF k <= m THEN q[k] ELSE n + 1
  BY AppendProperties
<1>2. DOMAIN a = 1..m + 1 /\ DOMAIN q = 1..m
  BY <1>1
<1> HIDE DEF a, m
<1>3. \A k \in 1..m : q[k] \in Nat /\ q[k] <= n
  <2>1. \A k \in 1..m : q[k] \in 1..MaxCandidates
    BY <1>2, ElementOfSeq DEF m
  <2> QED BY <1>2, <2>1 DEF NotAfter
<1>4. \A k \in 1..m + 1 : (k \in 1..m /\ a[k] = q[k]) \/ (k = m + 1 /\ a[k] = n + 1)
  BY <1>1
<1>5. Ascending(a)
  <2> SUFFICES ASSUME NEW j \in 1..m + 1, NEW k \in 1..m + 1, j < k
               PROVE  a[j] < a[k]
    BY <1>2 DEF Ascending
  <2>1. j \in 1..m /\ a[j] = q[j] /\ q[j] \in Nat /\ q[j] <= n
    BY <1>1, <1>3, <1>4
  <2>2. CASE k \in 1..m
    <3>1. a[k] = q[k]
      BY <1>1, <1>4, <2>2
    <3> QED BY <1>2, <2>1, <2>2, <3>1 DEF Ascending
  <2>3. CASE k = m + 1
    <3>1. a[k] = n + 1
      BY <1>1, <1>4, <2>3
    <3> QED BY <2>1, <3>1
  <2> QED BY <1>1, <2>2, <2>3
<1>6. NotAfter(a, n + 1)
  BY <1>2, <1>3, <1>4 DEF NotAfter
<1>7. ASSUME NEW r \in Seq(1..MaxCandidates), Before(r, q), NotAfter(r, n)
      PROVE  Before(r, a)
  <2>1. ASSUME NEW j \in DOMAIN r, NEW k \in DOMAIN a PROVE r[j] < a[k]
    <3>0. Len(r) \in Nat /\ DOMAIN r = 1..Len(r)
      OBVIOUS
    <3>1. r[j] \in 1..MaxCandidates
      BY <3>0, ElementOfSeq
    <3>2. r[j] <= n
      BY <1>7 DEF NotAfter
    <3> QED BY <1>2, <1>4, <1>7, <3>1, <3>2 DEF Before
  <2> QED BY <2>1 DEF Before
<1> QED BY <1>1, <1>5, <1>6, <1>7 DEF a

LEMMA CandidateIInv ==
    ASSUME IInv, NEW p \in Peers, Candidate(p)
    PROVE  IInv'
<1>1. /\ sent' = sent + 1 /\ sent \in Nat /\ sent' \in 0..MaxCandidates /\ sent + 1 \in 1..MaxCandidates
      /\ UNCHANGED <<main, i, pSampleStreamingSession, list, hash, mediaVars, endVars, writingTo>>
      /\ TypeOK
  <2>1. /\ sent' = sent + 1 /\ sent < MaxCandidates
        /\ UNCHANGED <<main, i, pSampleStreamingSession, list, hash, mediaVars, endVars, writingTo>>
    BY DEF Candidate, mainVars
  <2>2. sent \in 0..MaxCandidates /\ TypeOK
    BY DEF IInv, TypeOK
  <2>3. MaxCandidates \in Nat
    BY WebRtcMasterAssumption
  <2> QED BY <2>1, <2>2, <2>3
<1>2. main \notin {"free", "configuration", "done"}
  BY DEF Candidate, Receiving, ObjLockFree, IInv, Control
<1>3. Control'
  BY <1>1, <1>2 DEF Control
<1>4. \A q, n : n \in Nat /\ NotAfter(q, n) /\ q \in Seq(1..MaxCandidates) => NotAfter(q, n + 1)
  <2> SUFFICES ASSUME NEW q \in Seq(1..MaxCandidates), NEW n \in Nat, NotAfter(q, n), NEW k \in DOMAIN q
               PROVE  q[k] <= n + 1
    BY DEF NotAfter
  <2>0. Len(q) \in Nat /\ DOMAIN q = 1..Len(q)
    OBVIOUS
  <2>1. q[k] \in 1..MaxCandidates
    BY <2>0, ElementOfSeq
  <2> QED BY <2>1 DEF NotAfter
<1>5. CASE UNCHANGED <<pending, sessions>>
  <2>1. TypeOK'
    BY <1>1, <1>5 DEF TypeOK, mediaVars, endVars
  <2>2. Listing' /\ HashedSessionLive' /\ LastHashed' /\ Queues'
    BY <1>1, <1>5 DEF IInv, Listing, HashedSessionLive, LastHashed, Live, Queues
  <2>3. Order'
    <3>1. \A s \in DOMAIN sessions : NotAfter(sessions[s].candidates, sent')
      BY <1>1, <1>4, Typed DEF IInv, Order
    <3>2. \A k \in DOMAIN pending : NotAfter(pending[k].messages, sent')
      BY <1>1, <1>4, Typed DEF IInv, Order
    <3>3. Order
      BY DEF IInv
    <3> QED BY <1>5, <3>1, <3>2, <3>3 DEF Order, Ascending, Before, NotAfter
  <2> QED BY <1>3, <2>1, <2>2, <2>3 DEF IInv
<1>6. CASE hash[p] # 0 /\ UNCHANGED pending
           /\ sessions' = [sessions EXCEPT ![hash[p]].candidates = Append(@, sent')]
  <2> DEFINE h == hash[p]
             q == Append(sessions[h].candidates, sent + 1)
  <2>1. /\ h \in DOMAIN sessions /\ sessions[h] \in Session /\ sessions[h].peerId = p
        /\ sessions[h].candidates \in Seq(1..MaxCandidates) /\ sessions \in Seq(Session)
    BY <1>1, <1>6, Typed DEF IInv, HashedSessionLive, Live, TypeOK
  <2>2. /\ q \in Seq(1..MaxCandidates) /\ Ascending(q) /\ NotAfter(q, sent + 1)
        /\ \A r \in Seq(1..MaxCandidates) :
              Before(r, sessions[h].candidates) /\ NotAfter(r, sent) => Before(r, q)
    BY <1>1, <2>1, AppendedLast DEF IInv, Order
  <2>3. sessions' = [sessions EXCEPT ![h] = [sessions[h] EXCEPT !.candidates = q]]
    BY <1>1, <1>6
  <2> HIDE DEF h, q
  <2>4. /\ DOMAIN sessions' = DOMAIN sessions /\ Len(sessions') = Len(sessions) /\ sessions' \in Seq(Session)
        /\ sessions'[h] = [sessions[h] EXCEPT !.candidates = q]
        /\ \A t \in DOMAIN sessions \ {h} : sessions'[t] = sessions[t]
    <3>1. [sessions[h] EXCEPT !.candidates = q] \in Session
      BY <2>1, <2>2 DEF Session
    <3>2. sessions' \in Seq(Session) /\ Len(sessions') = Len(sessions)
      BY <2>1, <2>3, <3>1, ExceptSeq
    <3> QED BY <2>1, <2>3, <3>2
  <2>5. \A t \in DOMAIN sessions : /\ sessions'[t].peerId = sessions[t].peerId
                                   /\ sessions'[t].live = sessions[t].live
                                   /\ sessions'[t].candidates = IF t = h THEN q ELSE sessions[t].candidates
    BY <2>1, <2>4 DEF Session
  <2>6. TypeOK'
    BY <1>1, <1>6, <2>4 DEF TypeOK, mediaVars, endVars
  <2>7. Listing'
    <3>1. \A t \in Range(list) : t \in DOMAIN sessions
      BY <1>1, Typed
    <3> QED BY <1>1, <2>5, <3>1 DEF IInv, Listing
  <2>8. HashedSessionLive' /\ LastHashed'
    BY <1>1, <2>4, <2>5 DEF IInv, HashedSessionLive, LastHashed, Live
  <2>9. Queues'
    BY <1>1, <1>6 DEF IInv, Queues
  <2>10. Order'
    <3>1. ASSUME NEW s \in DOMAIN sessions
          PROVE  Ascending(sessions'[s].candidates) /\ NotAfter(sessions'[s].candidates, sent')
      BY <1>1, <1>4, <2>2, <2>5, Typed DEF IInv, Order
    <3>2. ASSUME NEW s \in DOMAIN sessions, NEW t \in DOMAIN sessions, s < t,
                 sessions[s].peerId = sessions[t].peerId
          PROVE  Before(sessions'[s].candidates, sessions'[t].candidates)
      <4>1. Before(sessions[s].candidates, sessions[t].candidates)
            /\ NotAfter(sessions[s].candidates, sent) /\ sessions[s].candidates \in Seq(1..MaxCandidates)
        BY <1>1, <3>2, Typed DEF IInv, Order
      <4>2. s # h
        <5>1. s = h => t <= h
          BY <1>6, <2>1, <3>2 DEF h, IInv, LastHashed
        <5>2. s \in Nat /\ t \in Nat
          BY <1>1, Typed
        <5> QED BY <3>2, <5>1, <5>2
      <4> QED BY <2>2, <2>5, <4>1, <4>2
    <3>3. ASSUME NEW s \in DOMAIN sessions, NEW k \in DOMAIN pending, pending[k].peerId = sessions[s].peerId
          PROVE  Before(sessions'[s].candidates, pending[k].messages)
      <4>1. s # h
        BY <1>6, <2>1, <3>3 DEF h, IInv, Queues
      <4> QED BY <2>5, <3>3, <4>1 DEF IInv, Order
    <3>4. ASSUME NEW k \in DOMAIN pending
          PROVE  Ascending(pending[k].messages) /\ NotAfter(pending[k].messages, sent')
      BY <1>1, <1>4, Typed DEF IInv, Order
    <3>5. pending' = pending /\ DOMAIN sessions' = DOMAIN sessions
      BY <1>6, <2>4
    <3> QED BY <2>5, <3>1, <3>2, <3>3, <3>4, <3>5 DEF Order, Ascending, Before, NotAfter
  <2> QED BY <1>3, <2>6, <2>7, <2>8, <2>9, <2>10 DEF IInv
<1>7. CASE hash[p] = 0 /\ pending' = Enqueued(p, sent') /\ UNCHANGED sessions
  <2> DEFINE old(q) == \E k \in DOMAIN pending : q = pending[k]
             new(q) == /\ q \in Queue /\ q.peerId = p
                       /\ Ascending(q.messages) /\ NotAfter(q.messages, sent + 1)
                       /\ \A s \in DOMAIN sessions : sessions[s].peerId = p =>
                             Before(sessions[s].candidates, q.messages)
  <2>1. \A s \in DOMAIN sessions : /\ sessions[s].candidates \in Seq(1..MaxCandidates)
                                   /\ NotAfter(sessions[s].candidates, sent)
    BY <1>1, Typed DEF IInv, Order
  <2>2. pending \in Seq(Queue) /\ DOMAIN pending = 1..Len(pending) /\ Len(pending) \in Nat
    BY <1>1, Typed DEF TypeOK, Queue
  <2>3. /\ pending' \in Seq(Queue)
        /\ \A j \in DOMAIN pending' : old(pending'[j]) \/ new(pending'[j])
        /\ \A j, k \in DOMAIN pending' : pending'[j].peerId = pending'[k].peerId => j = k
    <3>1. CASE QueueOf(p) = {}
      <4> DEFINE q == [peerId |-> p, messages |-> <<sent + 1>>]
                 n == Len(pending) + 1
      <4>1. Ascending(<<>>) /\ NotAfter(<<>>, sent) /\ <<>> \in Seq(1..MaxCandidates)
            /\ <<sent + 1>> = Append(<<>>, sent + 1) /\ \A r : Before(r, <<>>)
        BY EmptySeq DEF Ascending, NotAfter, Before
      <4>2. /\ <<sent + 1>> \in Seq(1..MaxCandidates)
            /\ Ascending(<<sent + 1>>) /\ NotAfter(<<sent + 1>>, sent + 1)
            /\ \A s \in DOMAIN sessions : Before(sessions[s].candidates, <<sent + 1>>)
        BY <1>1, <2>1, <4>1, AppendedLast
      <4>3. q \in Queue /\ q.peerId = p /\ q.messages = <<sent + 1>>
        BY <4>2 DEF Queue
      <4>4. pending' = Append(pending, q)
        BY <1>1, <1>7, <3>1 DEF Enqueued
      <4> HIDE DEF q
      <4>5. /\ pending' \in Seq(Queue) /\ Len(pending') = n
            /\ \A j \in 1..n : pending'[j] = IF j <= Len(pending) THEN pending[j] ELSE q
        BY <2>2, <4>3, <4>4, AppendProperties
      <4>6. DOMAIN pending' = 1..n
        BY <2>2, <4>5
      <4>7. \A j \in 1..n : (j \in DOMAIN pending /\ pending'[j] = pending[j]) \/ (j = n /\ pending'[j] = q)
        BY <2>2, <4>5
      <4>8. \A j \in DOMAIN pending : pending[j].peerId # p
        BY <3>1 DEF QueueOf
      <4>9. new(q)
        BY <4>2, <4>3
      <4> HIDE DEF n, new
      <4> QED BY <4>3, <4>5, <4>6, <4>7, <4>8, <4>9 DEF IInv, Queues
    <3>2. ASSUME NEW k \in DOMAIN pending, QueueOf(p) = {k}, Min(QueueOf(p)) = k, pending[k].peerId = p
          PROVE  <2>3
      <4> DEFINE q == [pending[k] EXCEPT !.messages = Append(@, sent + 1)]
                 m == pending[k].messages
      <4>1. /\ pending[k] \in Queue /\ m \in Seq(1..MaxCandidates) /\ Ascending(m) /\ NotAfter(m, sent)
            /\ \A s \in DOMAIN sessions : sessions[s].peerId = p => Before(sessions[s].candidates, m)
        BY <1>1, <3>2, Typed DEF IInv, Order
      <4>2. /\ Append(m, sent + 1) \in Seq(1..MaxCandidates)
            /\ Ascending(Append(m, sent + 1)) /\ NotAfter(Append(m, sent + 1), sent + 1)
            /\ \A s \in DOMAIN sessions : sessions[s].peerId = p =>
                  Before(sessions[s].candidates, Append(m, sent + 1))
        BY <1>1, <2>1, <4>1, AppendedLast
      <4>3. q \in Queue /\ q.peerId = p /\ q.messages = Append(m, sent + 1)
        BY <3>2, <4>1, <4>2 DEF Queue
      <4>4. pending' = [pending EXCEPT ![k] = q]
        BY <1>1, <1>7, <3>2 DEF Enqueued
      <4>5. new(q)
        BY <4>2, <4>3
      <4> HIDE DEF q, new
      <4>6. pending' \in Seq(Queue) /\ DOMAIN pending' = DOMAIN pending /\ pending'[k] = q
            /\ \A j \in DOMAIN pending \ {k} : pending'[j] = pending[j]
        <5>1. pending' \in Seq(Queue)
          BY <2>2, <4>3, <4>4, ExceptSeq
        <5> QED BY <4>4, <5>1
      <4>7. \A j \in DOMAIN pending : pending'[j].peerId = pending[j].peerId
        BY <3>2, <4>3, <4>6
      <4> QED BY <4>5, <4>6, <4>7 DEF IInv, Queues
    <3> QED BY <1>1, <3>1, <3>2, QueueIs DEF IInv
  <2>4. TypeOK'
    BY <1>1, <1>7, <2>3 DEF TypeOK, mediaVars, endVars, Queue
  <2>5. Listing' /\ HashedSessionLive' /\ LastHashed'
    BY <1>1, <1>7 DEF IInv, Listing, HashedSessionLive, LastHashed, Live
  <2>6. Queues'
    BY <1>1, <1>7, <2>3 DEF IInv, Queues
  <2>7. Order'
    <3>1. ASSUME NEW s \in DOMAIN sessions
          PROVE  Ascending(sessions[s].candidates) /\ NotAfter(sessions[s].candidates, sent + 1)
      BY <1>1, <1>4, Typed DEF IInv, Order
    <3>2. ASSUME NEW k \in DOMAIN pending'
          PROVE  /\ Ascending(pending'[k].messages) /\ NotAfter(pending'[k].messages, sent + 1)
                 /\ \A s \in DOMAIN sessions : pending'[k].peerId = sessions[s].peerId =>
                       Before(sessions[s].candidates, pending'[k].messages)
      <4>1. CASE new(pending'[k])
        BY <4>1
      <4>2. CASE old(pending'[k])
        BY <1>1, <1>4, <4>2, Typed DEF IInv, Order
      <4> QED BY <2>3, <4>1, <4>2
    <3>3. \A s, t \in DOMAIN sessions : s < t /\ sessions[s].peerId = sessions[t].peerId =>
              Before(sessions[s].candidates, sessions[t].candidates)
      BY DEF IInv, Order
    <3>4. sessions' = sessions /\ sent' = sent + 1
      BY <1>1, <1>7
    <3> QED BY <3>1, <3>2, <3>3, <3>4 DEF Order, Ascending, Before, NotAfter
  <2> QED BY <1>3, <2>4, <2>5, <2>6, <2>7 DEF IInv
<1> QED BY <1>5, <1>6, <1>7 DEF Candidate

-----------------------------------------------------------------------------
LEMMA NextIInv == IInv /\ [Next]_vars => IInv'
<1> SUFFICES ASSUME IInv, [Next]_vars PROVE IInv'
  OBVIOUS
<1>1. CASE Main
  BY <1>1, MainIInv, ScanTerminatedIInv, FreeSessionIInv, ScanDoneIInv, FreeConfigurationIInv DEF Main
<1>2. CASE Signaling
  BY <1>2, QuietIInv, OfferBeyondMaxIInv, OfferIInv, CandidateIInv DEF Signaling
<1>3. CASE PeerConnections
  BY <1>3, QuietIInv, ConnectionEndedIInv DEF PeerConnections
<1>4. CASE mediaSenderRoutine \/ AddVideoFrame \/ FrameWritten \/ Signal \/ UNCHANGED vars
  BY <1>4, QuietIInv
<1> QED BY <1>1, <1>2, <1>3, <1>4 DEF Next

LEMMA Inductive == Spec => []IInv
BY InitIInv, NextIInv, PTL DEF Spec

-----------------------------------------------------------------------------
(* Every variable holds a value of its kind, and no more sessions are      *)
(* listed than sampleStreamingSessionList has room for.                    *)
THEOREM TypeCorrect == Spec => []TypeOK
<1>1. IInv => TypeOK
  BY DEF IInv
<1> QED BY <1>1, Inductive, PTL

(* The candidates of a peer go to a connection of that peer which has not  *)
(* been freed (signalingMessageReceived, sessionCleanupWait).              *)
THEOREM HashedLive == Spec => []HashedSessionLive
<1>1. IInv => HashedSessionLive
  BY DEF IInv
<1> QED BY <1>1, Inductive, PTL

(* No listed session was freed, and none is while a frame is written to it *)
(* (sessionCleanupWait, the writer's loop over the list).                  *)
THEOREM ListedLive == Spec => []ListedSessionsLive
<1>1. IInv => ListedSessionsLive
  <2> SUFFICES ASSUME IInv, main # "done"
               PROVE  /\ IsInjective(list)
                      /\ \A s \in Range(list) : Live(s)
                      /\ writingTo # 0 => Live(writingTo)
    BY DEF ListedSessionsLive
  <2> QED BY Typed DEF IInv, Listing, Live
<1> QED BY <1>1, Inductive, PTL

(* The messages of a peer that has a session do not wait, and no peer has  *)
(* two queues (signalingMessageReceived).                                  *)
THEOREM KnownDontWait == Spec => []KnownPeersDontWait
<1>1. IInv => KnownPeersDontWait
  <2> SUFFICES ASSUME IInv, NEW p \in Peers
               PROVE  Cardinality(QueueOf(p)) <= 1 /\ (hash[p] # 0 => QueueOf(p) = {})
    BY DEF KnownPeersDontWait
  <2>1. QueueOf(p) = {} \/ \E k \in DOMAIN pending : QueueOf(p) = {k}
    BY QueueIs DEF IInv
  <2>2. Cardinality(QueueOf(p)) <= 1
    <3>1. Cardinality({}) = 0
      BY FS_EmptySet
    <3>2. \A k : Cardinality({k}) = 1
      BY FS_Singleton
    <3>3. Cardinality(QueueOf(p)) \in {0, 1}
      BY <2>1, <3>1, <3>2
    <3> QED BY <3>3
  <2>3. hash[p] # 0 => QueueOf(p) = {}
    BY DEF IInv, Queues, QueueOf
  <2> QED BY <2>2, <2>3
<1> QED BY <1>1, Inductive, PTL

(* Through all its sessions a peer's candidates are handed over once and   *)
(* in order (signalingMessageReceived, submitPendingIceCandidate).         *)
THEOREM InOrder == Spec => []CandidatesOnceInOrder
<1>1. IInv => CandidatesOnceInOrder
  <2> SUFFICES ASSUME IInv, NEW p \in Peers
               PROVE  /\ Ascending(Waiting(p))
                      /\ \A s \in SessionsOf(p) :
                          /\ Ascending(sessions[s].candidates)
                          /\ Before(sessions[s].candidates, Waiting(p))
                          /\ \A t \in SessionsOf(p) : s < t =>
                                Before(sessions[s].candidates, sessions[t].candidates)
    BY DEF CandidatesOnceInOrder
  <2>1. Ascending(<<>>) /\ \A r : Before(r, <<>>)
    BY DEF Ascending, Before
  <2>2. \/ Waiting(p) = <<>>
        \/ \E k \in DOMAIN pending : pending[k].peerId = p /\ Waiting(p) = pending[k].messages
    BY QueueIs DEF IInv
  <2>3. Order
    BY DEF IInv
  <2> QED BY <2>1, <2>2, <2>3 DEF Order, SessionsOf
<1> QED BY <1>1, Inductive, PTL
=============================================================================
