------------------------- MODULE OpenSessionProofs -------------------------
(***************************************************************************)
(* What KvsApp_open keeps for any number of attempts and of options set    *)
(* between them, wherever an attempt fails.                                *)
(***************************************************************************)
EXTENDS OpenSession, TLAPS

-----------------------------------------------------------------------------
(* What an allocation adds: nothing when there is no memory.               *)
LEMMA WithHolds ==
    ASSUME NEW S, NEW p
    PROVE  \A x : x \in With(S, p) <=> x \in S \/ (x = p /\ p # 0)
<1>1. CASE p = 0
  BY <1>1 DEF With
<1>2. CASE p # 0
  BY <1>2 DEF With
<1> QED BY <1>1, <1>2

(* A new pointer takes the next number.                                    *)
LEMMA WithIssued ==
    ASSUME NEW S, issued \in Nat, S \subseteq 1..issued, NEW p \in Allocation
    PROVE  With(S, p) \in SUBSET (1..(issued + 1)) /\ p \in Nat /\ p \in 0..(issued + 1)
<1>1. p = 0 \/ p = issued + 1
  BY DEF Allocation
<1>2. ASSUME NEW x \in With(S, p) PROVE x \in 1..(issued + 1)
  <2>1. x \in S \/ (x = p /\ p # 0)
    BY WithHolds
  <2>2. CASE x \in S
    <3>1. x \in 1..issued
      BY <2>2
    <3> QED BY <3>1
  <2>3. CASE x = p /\ p # 0
    BY <1>1, <2>3
  <2> QED BY <2>1, <2>2, <2>3
<1> QED BY <1>1, <1>2

-----------------------------------------------------------------------------
(* The conjuncts of TypeOK, in groups.                                     *)
Flags ==
    /\ iot \in BOOLEAN /\ pcPutMediaEndpoint \in BOOLEAN /\ xPutMediaHandle \in BOOLEAN
    /\ xNetIoHandle \in BOOLEAN /\ whole \in BOOLEAN
    /\ exists \in BOOLEAN /\ answered \in BOOLEAN

Credentials ==
    /\ keys \in [Keys -> Nat] /\ xServicePara \in [Keys -> Nat] /\ signed \in [Keys -> Nat]
    /\ pToken \in Nat /\ issued \in Nat
    /\ allocated \in SUBSET (1..issued)

Progress ==
    /\ pc \in {"closed", "verify", "send", "recv", "returned", "createStream", "open"}
    /\ res \in {OK, Failed} /\ request \in Requests
    /\ uHttpStatusCode \in {0, 200, 400} /\ answer \in {0, 200, 400}
    /\ far \in {"up", "eof", "broken"}
    /\ opens \in 0..MaxOpens /\ options \in 0..MaxOptions

(* TypeOK is not inductive: that the number of connections does not fall   *)
(* below zero takes that each is where the program counter says.           *)
Connected ==
    /\ netios = (IF xNetIoHandle THEN 1 ELSE 0) + (IF xPutMediaHandle THEN 1 ELSE 0)
    /\ xNetIoHandle => pc \in {"recv", "returned"}
    /\ pc = "recv" \/ (pc = "returned" /\ res = OK) => xNetIoHandle
    /\ xPutMediaHandle => pc \in {"createStream", "open"}

Typed == Flags /\ Credentials /\ Progress /\ Connected

LEMMA TypedIsTypeOK == Typed => TypeOK
<1> SUFFICES ASSUME Typed PROVE TypeOK
  OBVIOUS
<1>1. netios \in Nat
  BY DEF Typed, Connected, Flags
<1> QED BY <1>1 DEF Typed, TypeOK, Flags, Credentials, Progress

LEMMA InitTyped == Init => Typed
<1> SUFFICES ASSUME Init PROVE Typed
  OBVIOUS
<1>1. Flags
  BY DEF Init, Flags
<1>2. Credentials
  <2>1. NoKeys \in [Keys -> Nat]
    BY DEF NoKeys
  <2> QED BY <2>1 DEF Init, Credentials
<1>3. Progress
  BY OpenSessionAssumption DEF Init, Progress, Requests
<1>4. Connected
  BY DEF Init, Connected
<1> QED BY <1>1, <1>2, <1>3, <1>4 DEF Typed

LEMMA OptionsKeepTyped ==
    ASSUME Typed, KvsApp_setoption
    PROVE  Typed'
<1>1. /\ UNCHANGED <<iot, pToken, session, pc, res, request, signed, xNetIoHandle,
                     response, netios, service, opens>>
      /\ options' = options + 1 /\ options < MaxOptions
  BY DEF KvsApp_setoption
<1>2. Credentials'
  <2> SUFFICES /\ keys' \in [Keys -> Nat]
               /\ allocated' \in SUBSET (1..issued') /\ issued' \in Nat
    BY <1>1 DEF Typed, Credentials, session
  <2>1. ASSUME NEW k \in Keys, SetKey(k)
        PROVE  /\ keys' \in [Keys -> Nat]
               /\ allocated' \in SUBSET (1..issued') /\ issued' \in Nat
    <3>1. PICK p \in Allocation : /\ keys' = [keys EXCEPT ![k] = p]
                                  /\ allocated' = With(Freed(keys[k]), p)
                                  /\ issued' = issued + 1
      BY <2>1 DEF SetKey
    <3>2. issued \in Nat /\ Freed(keys[k]) \subseteq 1..issued /\ keys \in [Keys -> Nat]
      BY DEF Freed, Typed, Credentials
    <3> QED BY <3>1, <3>2, WithIssued
  <2>2. ASSUME NEW k \in Keys, UnsetKey(k)
        PROVE  /\ keys' \in [Keys -> Nat]
               /\ allocated' \in SUBSET (1..issued') /\ issued' \in Nat
    BY <2>2 DEF UnsetKey, Freed, Typed, Credentials
  <2>3. "session" \in Keys
    BY DEF Keys
  <2> QED BY <2>1, <2>2, <2>3 DEF KvsApp_setoption
<1>3. Flags'
  BY <1>1 DEF Typed, Flags, session, response, service
<1>4. Progress'
  BY <1>1, OpenSessionAssumption DEF Typed, Progress, response, service
<1>5. Connected'
  BY <1>1 DEF Typed, Connected, session
<1> QED BY <1>2, <1>3, <1>4, <1>5 DEF Typed

LEMMA RequestKeepsTyped ==
    ASSUME Typed, NEW r \in Requests, Request(r)
    PROVE  Typed'
<1>1. /\ UNCHANGED <<credentials, session, request, heap, bounds, exists>>
      /\ pc = "send" /\ ~xNetIoHandle /\ ~xPutMediaHandle /\ netios = 0
      /\ uHttpStatusCode' = 0 /\ whole' = FALSE
  BY DEF Request, SendFails, Sent, service, Typed, Connected
<1>2. Credentials'
  BY <1>1 DEF Request, SendFails, Sent, Signature, NoKeys, Typed, Credentials,
              credentials, session, heap
<1>3. CASE SendFails
  <2>1. /\ pc' = "returned" /\ res' = Failed /\ xNetIoHandle' \in BOOLEAN
        /\ netios' = (IF xNetIoHandle' THEN 1 ELSE 0)
        /\ UNCHANGED service
    BY <1>1, <1>3 DEF SendFails
  <2>2. Connected'
    BY <1>1, <2>1 DEF Connected, session, OK, Failed
  <2>3. Flags'
    BY <1>1, <2>1 DEF Typed, Flags, credentials, session, service
  <2>4. Progress'
    BY <1>1, <2>1 DEF Typed, Progress, bounds, service
  <2> QED BY <1>2, <2>2, <2>3, <2>4 DEF Typed
<1>4. CASE Sent
  <2>1. /\ pc' = "recv" /\ res' = OK /\ xNetIoHandle' = TRUE /\ netios' = 1
        /\ answered' = FALSE /\ answer' = 0 /\ far' = "up"
    BY <1>1, <1>4 DEF Sent
  <2>2. Connected'
    BY <1>1, <2>1 DEF Connected, session
  <2>3. Flags'
    BY <1>1, <2>1 DEF Typed, Flags, credentials, session
  <2>4. Progress'
    BY <1>1, <2>1 DEF Typed, Progress, bounds
  <2> QED BY <1>2, <2>2, <2>3, <2>4 DEF Typed
<1> QED BY <1>3, <1>4 DEF Request

(* The far end, and the loop that reads from it.                           *)
LEMMA NetworkKeepsTyped ==
    ASSUME Typed, Answer \/ Disconnect \/ Http_recvHttpRsp
    PROVE  Typed'
<1>1. CASE Answer
  <2>1. /\ UNCHANGED <<credentials, session, pc, res, request, signed, xNetIoHandle,
                       response, heap, netios, far, bounds>>
        /\ answered' = TRUE /\ exists' \in BOOLEAN
    BY <1>1 DEF Answer
  <2>2. answer' \in {200, 400}
    BY <1>1 DEF Answer, Statuses
  <2>3. Flags' /\ Credentials' /\ Connected'
    BY <2>1 DEF Typed, Flags, Credentials, Connected, credentials, session, response, heap
  <2>4. Progress'
    BY <2>1, <2>2 DEF Typed, Progress, response, bounds
  <2> QED BY <2>3, <2>4 DEF Typed
<1>2. CASE Disconnect
  <2>1. /\ UNCHANGED <<credentials, session, pc, res, request, signed, xNetIoHandle,
                       response, heap, netios, exists, answered, answer, bounds>>
        /\ far' \in {"eof", "broken"}
    BY <1>2 DEF Disconnect
  <2>2. Flags' /\ Credentials' /\ Connected'
    BY <2>1 DEF Typed, Flags, Credentials, Connected, credentials, session, response, heap
  <2>3. Progress'
    BY <2>1 DEF Typed, Progress, response, bounds
  <2> QED BY <2>2, <2>3 DEF Typed
<1>3. CASE Http_recvHttpRsp
  <2>1. /\ UNCHANGED <<credentials, session, request, signed, xNetIoHandle, heap, netios,
                       exists, answered, answer, far, bounds>>
        /\ pc = "recv"
    BY <1>3 DEF Http_recvHttpRsp
  <2>2. /\ pc' \in {"recv", "returned"} /\ res' \in {OK, Failed}
        /\ whole' \in BOOLEAN /\ uHttpStatusCode' \in {0, 200, 400}
    <3>1. CASE NetIo_recv
      <4>1. \/ Continues
            \/ \E buf : /\ Parsed(buf) # 100
                        /\ uHttpStatusCode' = Parsed(buf)
                        /\ whole' = ("rest" \in ToSet(buf))
                        /\ \E r \in {OK, Failed} : Concludes(r)
        BY <3>1 DEF NetIo_recv
      <4>2. CASE Continues
        BY <2>1, <4>2 DEF Continues, Typed, Flags, Progress
      <4>3. ASSUME NEW buf, Parsed(buf) # 100, uHttpStatusCode' = Parsed(buf),
                   whole' = ("rest" \in ToSet(buf)), NEW r \in {OK, Failed}, Concludes(r)
            PROVE  /\ pc' \in {"recv", "returned"} /\ res' \in {OK, Failed}
                   /\ whole' \in BOOLEAN /\ uHttpStatusCode' \in {0, 200, 400}
        <5>1. uHttpStatusCode' = answer
          BY <4>3 DEF Parsed
        <5>2. whole' \in BOOLEAN
          BY <4>3
        <5> QED BY <4>3, <5>1, <5>2 DEF Concludes, Typed, Progress
      <4> QED BY <4>1, <4>2, <4>3
    <3>2. CASE NetIo_recvNothing
      BY <2>1, <3>2 DEF NetIo_recvNothing, Concludes, Continues, Typed, Flags, Progress
    <3>3. CASE OutOfMemory
      BY <2>1, <3>3 DEF OutOfMemory, Concludes, response, Typed, Flags, Progress
    <3> QED BY <1>3, <3>1, <3>2, <3>3 DEF Http_recvHttpRsp
  <2>3. Flags' /\ Credentials'
    BY <2>1, <2>2 DEF Typed, Flags, Credentials, credentials, session, heap
  <2>4. Connected'
    BY <2>1, <2>2 DEF Typed, Connected, session
  <2>5. Progress'
    BY <2>1, <2>2 DEF Typed, Progress, bounds
  <2> QED BY <2>3, <2>4, <2>5 DEF Typed
<1> QED BY <1>1, <1>2, <1>3

(* A request that is over gives up its connection.                         *)
LEMMA TerminateKeepsCount ==
    ASSUME Typed, NetIo_terminate, UNCHANGED xPutMediaHandle,
           pc = "returned", pc' \in {"verify", "send", "open"}
    PROVE  xNetIoHandle' = FALSE /\ Connected'
<1>1. /\ xNetIoHandle' = FALSE /\ ~xPutMediaHandle
      /\ netios' = IF xNetIoHandle THEN netios - 1 ELSE netios
      /\ netios = IF xNetIoHandle THEN 1 ELSE 0
  BY DEF NetIo_terminate, Typed, Connected
<1>2. netios' = 0
  BY <1>1
<1> QED BY <1>1, <1>2 DEF Connected

(* What KvsApp_open does between the requests.                             *)
LEMMA OpenKeepsTyped ==
    ASSUME Typed, KvsApp_open \/ CredentialReturned \/ updateAndVerifyRestfulReqParameters
    PROVE  Typed'
<1>1. CASE KvsApp_open
  <2>1. /\ UNCHANGED <<iot, keys, session, res, signed, xNetIoHandle, response, issued,
                       netios, service, options>>
        /\ pc = "closed" /\ opens < MaxOpens /\ opens' = opens + 1
        /\ pc' \in {"send", "verify"} /\ request' \in Requests
        /\ pToken' \in Nat /\ allocated' \subseteq allocated
    BY <1>1 DEF KvsApp_open, Ask, Freed, Requests, Typed, Progress, Credentials
  <2>2. Flags' /\ Credentials'
    BY <2>1 DEF Typed, Flags, Credentials, session, response, service
  <2>3. Connected'
    BY <2>1 DEF Typed, Connected, session
  <2>4. Progress'
    BY <2>1, OpenSessionAssumption DEF Typed, Progress, response, service
  <2> QED BY <2>2, <2>3, <2>4 DEF Typed
<1>2. CASE CredentialReturned
  <2>1. /\ UNCHANGED <<iot, keys, session, res, request, signed, response, service, bounds>>
        /\ pc = "returned" /\ pc' = "verify" /\ NetIo_terminate
        /\ \/ UNCHANGED <<pToken, heap>>
           \/ \E p \in Allocation :
                pToken' = p /\ allocated' = With(allocated, p) /\ issued' = issued + 1
    BY <1>2 DEF CredentialReturned
  <2>2. pToken' \in Nat /\ issued' \in Nat /\ allocated' \in SUBSET (1..issued')
    <3>1. CASE UNCHANGED <<pToken, heap>>
      BY <3>1 DEF Typed, Credentials, heap
    <3>2. ASSUME NEW p \in Allocation, pToken' = p, allocated' = With(allocated, p),
                 issued' = issued + 1
          PROVE  pToken' \in Nat /\ issued' \in Nat /\ allocated' \in SUBSET (1..issued')
      <4>1. issued \in Nat /\ allocated \subseteq 1..issued
        BY DEF Typed, Credentials
      <4>2. With(allocated, p) \in SUBSET (1..(issued + 1)) /\ p \in Nat
        BY <3>2, <4>1, WithIssued
      <4> QED BY <3>2, <4>1, <4>2
    <3> QED BY <2>1, <3>1, <3>2
  <2>3. Credentials'
    BY <2>1, <2>2 DEF Typed, Credentials, session
  <2>4. Flags' /\ Connected'
    BY <2>1, TerminateKeepsCount
    DEF Typed, Flags, session, response, service
  <2>5. Progress'
    BY <2>1 DEF Typed, Progress, response, service, bounds
  <2> QED BY <2>3, <2>4, <2>5 DEF Typed
<1>3. CASE updateAndVerifyRestfulReqParameters
  <2>1. /\ UNCHANGED <<credentials, pcPutMediaEndpoint, xPutMediaHandle, signed,
                       xNetIoHandle, response, heap, netios, service, bounds>>
        /\ pc = "verify" /\ pc' \in {"open", "send"} /\ res' \in {OK, Failed}
        /\ request' \in Requests
    BY <1>3 DEF updateAndVerifyRestfulReqParameters, Return, Ask, Requests, Typed, Progress
  <2>2. xServicePara' \in [Keys -> Nat]
    BY <1>3 DEF updateAndVerifyRestfulReqParameters, Typed, Credentials
  <2>3. Flags' /\ Credentials'
    BY <2>1, <2>2 DEF Typed, Flags, Credentials, credentials, response, service, heap
  <2>4. Connected'
    BY <2>1 DEF Typed, Connected
  <2>5. Progress'
    BY <2>1 DEF Typed, Progress, response, service, bounds
  <2> QED BY <2>3, <2>4, <2>5 DEF Typed
<1> QED BY <1>1, <1>2, <1>3

LEMMA SessionKeepsTyped ==
    ASSUME Typed, setupDataEndpoint \/ PutMediaReturned \/ createStream \/ KvsApp_close
    PROVE  Typed'
<1>1. CASE setupDataEndpoint
  <2>1. /\ UNCHANGED <<credentials, xServicePara, xPutMediaHandle, signed, response, heap,
                       service, bounds>>
        /\ pc = "returned" /\ NetIo_terminate
        /\ pcPutMediaEndpoint' \in BOOLEAN
        /\ pc' \in {"open", "send"} /\ res' \in {OK, Failed} /\ request' \in Requests
    <3>1. DescribeReturned \/ CreateReturned \/ EndpointReturned
      BY <1>1 DEF setupDataEndpoint
    <3>2. /\ pcPutMediaEndpoint' \in BOOLEAN
          /\ pc' \in {"open", "send"} /\ res' \in {OK, Failed} /\ request' \in Requests
      BY <3>1 DEF DescribeReturned, CreateReturned, EndpointReturned, Return, Ask, Requests,
                  Typed, Flags, Progress
    <3> QED BY <1>1, <3>2 DEF setupDataEndpoint
  <2>2. Credentials'
    BY <2>1 DEF Typed, Credentials, credentials, heap
  <2>3. Flags' /\ Connected'
    BY <2>1, TerminateKeepsCount DEF Typed, Flags, credentials, response, service
  <2>4. Progress'
    BY <2>1 DEF Typed, Progress, response, service, bounds
  <2> QED BY <2>2, <2>3, <2>4 DEF Typed
<1>2. CASE PutMediaReturned
  <2>1. UNCHANGED <<credentials, xServicePara, pcPutMediaEndpoint, signed, response, heap,
                    service, bounds>> /\ pc = "returned" /\ ~xPutMediaHandle
    BY <1>2 DEF PutMediaReturned, Typed, Connected
  <2>2. ASSUME Succeeded, xPutMediaHandle' = TRUE, xNetIoHandle' = FALSE,
               pc' = "createStream", UNCHANGED <<res, request, netios>>
        PROVE  Typed'
    <3>1. netios' = 1
      BY <2>1, <2>2 DEF Succeeded, Typed, Connected
    <3>2. Connected'
      BY <2>2, <3>1 DEF Connected
    <3>3. Flags' /\ Credentials'
      BY <2>1, <2>2 DEF Typed, Flags, Credentials, credentials, response, service, heap
    <3>4. Progress'
      BY <2>1, <2>2 DEF Typed, Progress, response, service, bounds
    <3> QED BY <3>2, <3>3, <3>4 DEF Typed
  <2>3. ASSUME Return(Failed), NetIo_terminate, UNCHANGED xPutMediaHandle
        PROVE  Typed'
    <3>1. pc' = "open" /\ res' = Failed /\ UNCHANGED request
      BY <2>3 DEF Return
    <3>2. xNetIoHandle' = FALSE /\ Connected'
      BY <2>1, <2>3, <3>1, TerminateKeepsCount
    <3>3. Flags' /\ Credentials'
      BY <2>1, <2>3, <3>2 DEF Typed, Flags, Credentials, credentials, response, service, heap
    <3>4. Progress'
      BY <2>1, <3>1 DEF Typed, Progress, response, service, bounds
    <3> QED BY <3>2, <3>3, <3>4 DEF Typed
  <2> QED BY <1>2, <2>2, <2>3 DEF PutMediaReturned
<1>3. CASE createStream
  <2>1. /\ UNCHANGED <<credentials, session, signed, xNetIoHandle, response, heap, netios,
                       service, bounds, request>>
        /\ pc = "createStream" /\ pc' = "open" /\ res' \in {OK, Failed}
    BY <1>3 DEF createStream, Return
  <2>2. Flags' /\ Credentials'
    BY <2>1 DEF Typed, Flags, Credentials, credentials, session, response, service, heap
  <2>3. Connected'
    BY <2>1 DEF Typed, Connected, session
  <2>4. Progress'
    BY <2>1 DEF Typed, Progress, response, service, bounds
  <2> QED BY <2>2, <2>3, <2>4 DEF Typed
<1>4. CASE KvsApp_close
  <2>1. /\ UNCHANGED <<credentials, xServicePara, pcPutMediaEndpoint, res, request, signed,
                       xNetIoHandle, response, heap, service, bounds>>
        /\ pc' = "closed" /\ xPutMediaHandle' = FALSE /\ ~xNetIoHandle
        /\ netios' = IF xPutMediaHandle THEN netios - 1 ELSE netios
        /\ netios = IF xPutMediaHandle THEN 1 ELSE 0
    BY <1>4 DEF KvsApp_close, Typed, Connected
  <2>2. netios' = 0
    BY <2>1
  <2>3. Connected'
    BY <2>1, <2>2 DEF Connected
  <2>4. Flags' /\ Credentials'
    BY <2>1 DEF Typed, Flags, Credentials, credentials, response, service, heap
  <2>5. Progress'
    BY <2>1 DEF Typed, Progress, response, service, bounds
  <2> QED BY <2>3, <2>4, <2>5 DEF Typed
<1> QED BY <1>1, <1>2, <1>3, <1>4

LEMMA NextKeepsTyped == Typed /\ [Next]_vars => Typed'
<1> SUFFICES ASSUME Typed, [Next]_vars PROVE Typed'
  OBVIOUS
<1>1. CASE Iot_getCredential \/ Kvs_describeStream \/ Kvs_createStream
           \/ Kvs_getDataEndpoint \/ Kvs_putMediaStart
  BY <1>1, RequestKeepsTyped
  DEF Iot_getCredential, Kvs_describeStream, Kvs_createStream, Kvs_getDataEndpoint,
      Kvs_putMediaStart, Requests
<1>2. CASE UNCHANGED vars
  <2>1. Flags' /\ Credentials'
    BY <1>2 DEF vars, credentials, session, response, heap, service,
                Typed, Flags, Credentials
  <2>2. Connected' /\ Progress'
    BY <1>2 DEF vars, session, response, service, bounds, Typed, Connected, Progress
  <2> QED BY <2>1, <2>2 DEF Typed
<1> QED
  BY <1>1, <1>2, OptionsKeepTyped, NetworkKeepsTyped, OpenKeepsTyped, SessionKeepsTyped
  DEF Next, MainStep

LEMMA TypedAlways == Spec => []Typed
BY InitTyped, NextKeepsTyped, PTL DEF Spec

(* The variables of KvsApp_open keep their types, whatever is set between  *)
(* attempts and wherever they fail (TypeOK of OpenSession).                *)
THEOREM TypeCorrect == Spec => []TypeOK
BY TypedAlways, TypedIsTypeOK, PTL

(* Whatever call fails, the request's connection is terminated once, the   *)
(* one PUT MEDIA keeps is the session's until KvsApp_close, and none is    *)
(* left then (ConnectionsAccounted of OpenSession).                        *)
THEOREM ConnectionsAreGivenUp == Spec => []ConnectionsAccounted
<1>1. Typed => ConnectionsAccounted
  BY DEF Typed, Flags, Connected, ConnectionsAccounted
<1> QED BY <1>1, TypedAlways, PTL

-----------------------------------------------------------------------------
(* CredentialsAccounted is not inductive: to free the old of two pointers  *)
(* frees nothing else only if no two credentials share one.                *)
Held ==
    /\ \A p : p \in allocated <=> p # 0 /\ (p = pToken \/ \E k \in Keys : keys[k] = p)
    /\ \A k, l \in Keys : keys[k] # 0 /\ keys[k] = keys[l] => k = l
    /\ \A k \in Keys : keys[k] # 0 => keys[k] # pToken

LEMMA InitHeld == Init => Held
BY DEF Init, Held, NoKeys

(* A new pointer is none of those in use.                                  *)
LEMMA FreshPointer ==
    ASSUME Typed, NEW p \in Allocation, p # 0
    PROVE  p \notin allocated
BY DEF Typed, Credentials, Allocation

(* Setting one of the keys to another pointer, or to NULL.                 *)
LEMMA KeyKeepsHeld ==
    ASSUME Typed, Held, NEW k \in Keys, NEW p \in Allocation,
           keys' = [keys EXCEPT ![k] = p], UNCHANGED pToken,
           allocated' = With(Freed(keys[k]), p)
    PROVE  Held'
<1>1. /\ keys' \in [Keys -> Nat] /\ keys'[k] = p
      /\ \A l \in Keys : l # k => keys'[l] = keys[l]
  BY DEF Typed, Credentials, Allocation
<1>2. \A x : x \in allocated' <=> (x \in allocated /\ x # keys[k]) \/ (x = p /\ p # 0)
  BY WithHolds DEF Freed
<1>3. p # 0 => p # pToken /\ \A l \in Keys : keys[l] # p
  BY FreshPointer DEF Held
<1>4. \A x : x \in allocated' <=> x # 0 /\ (x = pToken \/ \E l \in Keys : keys'[l] = x)
  <2> SUFFICES ASSUME NEW x
               PROVE  x \in allocated' <=> x # 0 /\ (x = pToken \/ \E l \in Keys : keys'[l] = x)
    OBVIOUS
  <2>1. ASSUME x \in allocated, x # keys[k]
        PROVE  x # 0 /\ (x = pToken \/ \E l \in Keys : keys'[l] = x)
    BY <1>1, <2>1 DEF Held
  <2>2. ASSUME x # 0, x = pToken
        PROVE  x \in allocated /\ x # keys[k]
    BY <2>2 DEF Held
  <2>3. ASSUME x # 0, NEW l \in Keys, l # k, keys'[l] = x
        PROVE  x \in allocated /\ x # keys[k]
    BY <1>1, <2>3 DEF Held
  <2> QED BY <1>1, <1>2, <2>1, <2>2, <2>3
<1>5. \A i, j \in Keys : keys'[i] # 0 /\ keys'[i] = keys'[j] => i = j
  BY <1>1, <1>3 DEF Held
<1>6. \A i \in Keys : keys'[i] # 0 => keys'[i] # pToken
  BY <1>1, <1>3 DEF Held
<1> QED BY <1>4, <1>5, <1>6 DEF Held

(* The token is freed, or a new one stored where there is none.            *)
LEMMA TokenKeepsHeld ==
    ASSUME Typed, Held, UNCHANGED keys,
           \/ pToken' = 0 /\ allocated' = Freed(pToken)
           \/ /\ pToken = 0
              /\ \E p \in Allocation : pToken' = p /\ allocated' = With(allocated, p)
    PROVE  Held'
<1>1. CASE pToken' = 0 /\ allocated' = Freed(pToken)
  BY <1>1 DEF Held, Freed
<1>2. ASSUME pToken = 0, NEW p \in Allocation, pToken' = p, allocated' = With(allocated, p)
      PROVE  Held'
  <2>1. \A x : x \in allocated' <=> x \in allocated \/ (x = p /\ p # 0)
    BY <1>2, WithHolds
  <2>2. p # 0 => \A l \in Keys : keys[l] # p
    BY <1>2, FreshPointer DEF Held
  <2> QED BY <1>2, <2>1, <2>2 DEF Held
<1> QED BY <1>1, <1>2

-----------------------------------------------------------------------------
(* What a request will be signed with, from updateAndVerifyRestfulReq-     *)
(* Parameters, which copies the pointers, until the requests are over.     *)
Source == IF pToken # 0 THEN [k \in Keys |-> pToken] ELSE keys

InRequest == pc \in {"send", "recv", "returned"}

Signing ==
    /\ InRequest /\ request = "credential" => pToken = 0
    /\ InRequest /\ request # "credential" =>
           /\ xServicePara = Source
           /\ pToken # 0 \/ (keys["access"] # 0 /\ keys["secret"] # 0)
    /\ pc \in {"recv", "returned"} =>
           signed = NoKeys \/ (request # "credential" /\ signed = xServicePara)

Accounted == Held /\ Signing

LEMMA InitAccounted == Init => Accounted
BY InitHeld DEF Init, Accounted, Signing, InRequest

LEMMA NextKeepsAccounted == Typed /\ Accounted /\ [Next]_vars => Accounted'
<1> SUFFICES ASSUME Typed, Accounted, [Next]_vars PROVE Accounted'
  OBVIOUS
<1>1. CASE KvsApp_setoption
  <2>1. Held'
    <3>1. UNCHANGED pToken
      BY <1>1 DEF KvsApp_setoption
    <3>2. ASSUME NEW k \in Keys, SetKey(k) PROVE Held'
      BY <3>1, <3>2, KeyKeepsHeld DEF SetKey, Accounted
    <3>3. ASSUME NEW k \in Keys, UnsetKey(k) PROVE Held'
      <4>1. 0 \in Allocation /\ With(Freed(keys[k]), 0) = Freed(keys[k])
        BY DEF Allocation, With
      <4> QED BY <3>1, <3>3, <4>1, KeyKeepsHeld DEF UnsetKey, Accounted
    <3>4. "session" \in Keys
      BY DEF Keys
    <3> QED BY <1>1, <3>2, <3>3, <3>4 DEF KvsApp_setoption
  <2>2. Signing'
    BY <1>1 DEF KvsApp_setoption, Idle, Signing, InRequest
  <2> QED BY <2>1, <2>2 DEF Accounted
<1>2. CASE KvsApp_open
  <2>1. Held'
    BY <1>2, TokenKeepsHeld DEF KvsApp_open, Accounted, Held
  <2>2. Signing'
    BY <1>2 DEF KvsApp_open, Ask, Signing, InRequest
  <2> QED BY <2>1, <2>2 DEF Accounted
<1>3. CASE CredentialReturned
  <2>1. pToken = 0
    BY <1>3 DEF CredentialReturned, Accounted, Signing, InRequest
  <2>2. Held'
    BY <1>3, <2>1, TokenKeepsHeld DEF CredentialReturned, Accounted, Held, heap
  <2>3. Signing'
    BY <1>3 DEF CredentialReturned, Signing, InRequest
  <2> QED BY <2>2, <2>3 DEF Accounted
<1>4. CASE updateAndVerifyRestfulReqParameters
  <2>1. UNCHANGED <<keys, pToken, allocated>> /\ pc' \in {"open", "send"}
    BY <1>4 DEF updateAndVerifyRestfulReqParameters, Return, Ask, credentials, heap
  <2>2. pc' = "send" => /\ xServicePara' = Source /\ request' # "credential"
                        /\ pToken # 0 \/ (keys["access"] # 0 /\ keys["secret"] # 0)
    BY <1>4 DEF updateAndVerifyRestfulReqParameters, Return, Ask, Source
  <2>3. Source' = Source
    BY <2>1 DEF Source
  <2> QED BY <2>1, <2>2, <2>3 DEF Accounted, Held, Signing, InRequest
<1>5. ASSUME NEW r \in Requests, Request(r) PROVE Accounted'
  <2>1. /\ UNCHANGED <<keys, pToken, allocated, xServicePara, request>>
        /\ pc = "send" /\ signed' \in {NoKeys, Signature}
    BY <1>5 DEF Request, SendFails, Sent, credentials, session, heap
  <2>2. Source' = Source /\ NoKeys' = NoKeys
    BY <2>1 DEF Source, NoKeys
  <2>3. signed' = NoKeys \/ (request # "credential" /\ signed' = xServicePara)
    BY <2>1 DEF Signature
  <2> QED BY <2>1, <2>2, <2>3 DEF Accounted, Held, Signing, InRequest
<1>6. CASE Answer \/ Disconnect \/ Http_recvHttpRsp \/ UNCHANGED vars
  <2>1. /\ UNCHANGED <<keys, pToken, allocated, xServicePara, request, signed>>
        /\ pc' = pc \/ (pc = "recv" /\ pc' = "returned")
    BY <1>6 DEF Answer, Disconnect, Http_recvHttpRsp, NetIo_recv, NetIo_recvNothing,
                OutOfMemory, Concludes, Continues, vars, credentials, session, heap
  <2>2. Source' = Source
    BY <2>1 DEF Source
  <2> QED BY <2>1, <2>2 DEF Accounted, Held, Signing, InRequest
<1>7. CASE setupDataEndpoint \/ PutMediaReturned \/ createStream \/ KvsApp_close
  <2>1. /\ UNCHANGED <<keys, pToken, allocated, xServicePara>>
        /\ \/ pc' \notin {"send", "recv", "returned"}
           \/ pc = "returned" /\ pc' = "send" /\ request' # "credential" /\ request # "credential"
    BY <1>7 DEF setupDataEndpoint, DescribeReturned, CreateReturned, EndpointReturned, Return,
                Ask, PutMediaReturned, createStream, KvsApp_close, credentials, session, heap
  <2>2. Source' = Source
    BY <2>1 DEF Source
  <2> QED BY <2>1, <2>2 DEF Accounted, Held, Signing, InRequest
<1> QED
  BY <1>1, <1>2, <1>3, <1>4, <1>5, <1>6, <1>7
  DEF Next, MainStep, Iot_getCredential, Kvs_describeStream, Kvs_createStream,
      Kvs_getDataEndpoint, Kvs_putMediaStart, Requests

LEMMA AccountedAlways == Spec => []Accounted
BY TypedAlways, InitAccounted, NextKeepsAccounted, PTL DEF Spec

(* A token or a key of the application is freed exactly when nothing       *)
(* refers to it any more, for any number of attempts, refusals and options *)
(* (CredentialsAccounted of OpenSession).                                  *)
THEOREM CredentialsAreAccounted == Spec => []CredentialsAccounted
<1>1. Accounted => CredentialsAccounted
  BY DEF Accounted, Held, CredentialsAccounted
<1> QED BY <1>1, AccountedAlways, PTL

(* No request is signed with keys of two sources, or with freed ones: the  *)
(* copies in xServicePara outlive what they were copied from, but nothing  *)
(* reads them then (SignedWithLiveCredentials of OpenSession).             *)
THEOREM SignaturesAreLive == Spec => []SignedWithLiveCredentials
<1>1. Accounted => SignedWithLiveCredentials
  <2> SUFFICES ASSUME Accounted, pc \in {"recv", "returned"}, signed # NoKeys
               PROVE  /\ signed = Source
                      /\ {signed["access"], signed["secret"]} \subseteq allocated
                      /\ signed["session"] \in allocated \union {0}
    BY DEF SignedWithLiveCredentials, Source
  <2>1. /\ signed = Source
        /\ pToken # 0 \/ (keys["access"] # 0 /\ keys["secret"] # 0)
    BY DEF Accounted, Signing, InRequest
  <2>2. "access" \in Keys /\ "secret" \in Keys /\ "session" \in Keys
    BY DEF Keys
  <2>3. CASE pToken # 0
    BY <2>1, <2>2, <2>3 DEF Source, Accounted, Held
  <2>4. CASE pToken = 0
    BY <2>1, <2>2, <2>4 DEF Source, Accounted, Held
  <2> QED BY <2>1, <2>3, <2>4
<1> QED BY <1>1, AccountedAlways, PTL

-----------------------------------------------------------------------------
(* How the main thread comes to know an endpoint and to have a session:    *)
(* what the status it works with, or will read, says of the stream.        *)
OverItsStream ==
    /\ pcPutMediaEndpoint => exists
    /\ pc = "recv" => uHttpStatusCode = 0
    /\ pc = "recv" /\ request = "endpoint" /\ answer = 200 => exists
    /\ pc = "recv" /\ request = "putMedia" => pcPutMediaEndpoint
    /\ pc = "returned" /\ request = "endpoint" /\ uHttpStatusCode = 200 => exists
    /\ pc = "returned" /\ request = "putMedia" /\ uHttpStatusCode = 200 => pcPutMediaEndpoint
    /\ pc = "createStream" \/ (pc = "open" /\ res = OK) => xPutMediaHandle /\ pcPutMediaEndpoint

LEMMA NextKeepsOverItsStream == Typed /\ OverItsStream /\ [Next]_vars => OverItsStream'
<1> SUFFICES ASSUME Typed, OverItsStream, [Next]_vars PROVE OverItsStream'
  OBVIOUS
<1> USE DEF OverItsStream
<1>1. CASE KvsApp_setoption \/ KvsApp_open \/ CredentialReturned
           \/ updateAndVerifyRestfulReqParameters \/ KvsApp_close \/ UNCHANGED vars
  <2>1. CASE KvsApp_setoption \/ UNCHANGED vars
    BY <2>1 DEF KvsApp_setoption, vars, session, response, service
  <2>2. CASE KvsApp_open \/ CredentialReturned \/ KvsApp_close
    BY <2>2 DEF KvsApp_open, CredentialReturned, KvsApp_close, Ask, session, service
  <2>3. CASE updateAndVerifyRestfulReqParameters
    BY <2>3 DEF updateAndVerifyRestfulReqParameters, Return, Ask, service, OK, Failed
  <2> QED BY <1>1, <2>1, <2>2, <2>3
<1>2. ASSUME NEW r \in Requests, Request(r) PROVE OverItsStream'
  <2>1. CASE SendFails
    BY <1>2, <2>1 DEF Request, SendFails, session, service
  <2>2. CASE Sent /\ (r = "putMedia" => pcPutMediaEndpoint)
    BY <1>2, <2>2 DEF Request, Sent, session
  <2> QED BY <1>2, <2>1, <2>2 DEF Request
<1>3. CASE Answer
  <2>1. /\ UNCHANGED <<pcPutMediaEndpoint, xPutMediaHandle, pc, res, request, uHttpStatusCode>>
        /\ exists => exists' /\ pc = "recv"
    BY <1>3 DEF Answer, session, response
  <2>2. request = "endpoint" /\ answer' = 200 => exists'
    <3>1. request = "endpoint" => answer' \in IF exists THEN {200, 400} ELSE {400}
      BY <1>3 DEF Answer, Statuses
    <3> QED BY <2>1, <3>1
  <2> QED BY <2>1, <2>2
<1>4. CASE Disconnect
  BY <1>4 DEF Disconnect, session, response
<1>5. CASE Http_recvHttpRsp
  <2>1. /\ UNCHANGED <<pcPutMediaEndpoint, xPutMediaHandle, request, answer, exists>>
        /\ pc = "recv"
    BY <1>5 DEF Http_recvHttpRsp, session
  <2>2. \/ pc' = "recv" /\ UNCHANGED uHttpStatusCode
        \/ pc' = "returned" /\ uHttpStatusCode' \in {uHttpStatusCode, answer}
    BY <1>5, <2>1 DEF Http_recvHttpRsp, NetIo_recv, NetIo_recvNothing, OutOfMemory, Parsed,
                      Concludes, Continues, response
  <2> QED BY <2>1, <2>2
<1>6. CASE setupDataEndpoint
  <2>1. UNCHANGED <<exists, xPutMediaHandle>> /\ pc = "returned"
    BY <1>6 DEF setupDataEndpoint, service
  <2>2. CASE DescribeReturned \/ CreateReturned
    BY <1>6, <2>1, <2>2 DEF DescribeReturned, CreateReturned, Return, Ask, OK, Failed
  <2>3. CASE EndpointReturned
    BY <1>6, <2>1, <2>3 DEF EndpointReturned, Return, Ask, Succeeded, OK, Failed
  <2> QED BY <1>6, <2>2, <2>3 DEF setupDataEndpoint
<1>7. CASE PutMediaReturned
  BY <1>7 DEF PutMediaReturned, Return, Succeeded, service, OK, Failed
<1>8. CASE createStream
  BY <1>8 DEF createStream, Return, session, service
<1> QED
  BY <1>1, <1>2, <1>3, <1>4, <1>5, <1>6, <1>7, <1>8
  DEF Next, MainStep, Iot_getCredential, Kvs_describeStream, Kvs_createStream,
      Kvs_getDataEndpoint, Kvs_putMediaStart, Requests

(* KvsApp_open succeeds only with a session over a stream that the service *)
(* has, and what a failed attempt leaves for the next one is true          *)
(* (OpenedOverItsStream of OpenSession).                                   *)
THEOREM SessionsAreOverTheirStream == Spec => []OpenedOverItsStream
<1>1. Init => OverItsStream
  BY DEF Init, OverItsStream
<1>2. OverItsStream => OpenedOverItsStream
  BY DEF OverItsStream, OpenedOverItsStream
<1> QED BY <1>1, <1>2, NextKeepsOverItsStream, TypedAlways, PTL DEF Spec
=============================================================================
