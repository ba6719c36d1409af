---------------------------- MODULE OpenSession ----------------------------
(***************************************************************************)
(* KvsApp_open (src/source/app/kvsapp.c): fresh IoT credentials or the     *)
(* application's own keys, a data endpoint once, then the PUT MEDIA        *)
(* connection.  Each of these is an HTTPS request (restapi_kvs.c,          *)
(* iot_credential_provider.c) that may fail at every call, be refused, or  *)
(* never be answered, and waits in Http_recvHttpRsp.                       *)
(*                                                                         *)
(* What is sent over the session is the business of KvsApp; here it is a   *)
(* connection that is open between KvsApp_open and KvsApp_close.           *)
(*                                                                         *)
(* Pointers are numbers, 0 is NULL, and no number is given out twice, so   *)
(* one that is not in "allocated" dangles.  A response is its interim      *)
(* status, its status line and the rest of it, in records of any size; a   *)
(* status line is not cut.                                                 *)
(***************************************************************************)
EXTENDS Integers, Sequences, SequencesExt

CONSTANTS
    MaxOpens,       \* bound: calls of KvsApp_open
    MaxOptions      \* bound: calls of KvsApp_setoption

ASSUME OpenSessionAssumption == MaxOpens \in Nat /\ MaxOptions \in Nat

Keys == {"access", "secret", "session"}
Requests == {"credential", "describe", "create", "endpoint", "putMedia"}

VARIABLES
    \* KvsApp_t.
    iot,                    \* isIotCertAvailable
    keys,                   \* pAwsAccessKeyId, pAwsSecretAccessKey, pAwsSessionToken
    pToken,                 \* one number for the token and the strings in it
    xServicePara,           \* pcAccessKey, pcSecretKey, pcToken
    pcPutMediaEndpoint,     \* it is known
    xPutMediaHandle,        \* it is not NULL
    \* The main thread.
    pc,
    res,
    request,                \* the request in progress, or the next
    signed,                 \* what it was signed with
    xNetIoHandle,           \* the request has a connection
    xBufRecv,
    uHttpStatusCode,
    whole,                  \* the body was all there
    \* The heap and the network stack.
    allocated,              \* credentials that have not been freed
    issued,                 \* how many pointers were given out
    netios,                 \* how many NetIo_t there are
    \* The service and the connection of the request.
    exists,                 \* it has the stream
    answered,
    answer,                 \* the status it answers with
    socket,                 \* parts of the response that have arrived
    far,                    \* "up", "eof", or "broken" (reset, or closed by an alert)
    \* The application.
    opens, options

heap == <<allocated, issued>>
credentials == <<iot, keys, pToken>>
session == <<xServicePara, pcPutMediaEndpoint, xPutMediaHandle>>
response == <<xBufRecv, uHttpStatusCode, whole>>
service == <<exists, answered, answer, socket, far>>
bounds == <<opens, options>>
vars == <<credentials, session, pc, res, request, signed, xNetIoHandle, response,
          heap, netios, service, bounds>>

OK == "KVS_ERRNO_NONE"
Failed == "failed"
NoKeys == [k \in Keys |-> 0]

(* malloc: the next number, or NULL when there is no memory.               *)
Allocation == {0, issued + 1}
Freed(p) == allocated \ {p}
With(set, p) == IF p = 0 THEN set ELSE set \union {p}

Init ==
    /\ iot \in BOOLEAN
    /\ keys = NoKeys /\ pToken = 0 /\ xServicePara = NoKeys
    /\ pcPutMediaEndpoint = FALSE /\ xPutMediaHandle = FALSE
    /\ pc = "closed" /\ res = OK /\ request = "describe" /\ signed = NoKeys
    /\ xNetIoHandle = FALSE /\ xBufRecv = <<>> /\ uHttpStatusCode = 0 /\ whole = FALSE
    /\ allocated = {} /\ issued = 0 /\ netios = 0
    /\ exists \in BOOLEAN
    /\ answered = FALSE /\ answer = 0 /\ socket = <<>> /\ far = "up"
    /\ opens = 0 /\ options = 0

-----------------------------------------------------------------------------
(* KvsApp_setoption for the three keys, between calls of the same thread.  *)

Idle == pc \in {"closed", "open"}

(* prvMallocAndStrcpyHelper: the old string goes before there is a new one.*)
SetKey_KeepsOld(k) ==
    \E p \in Allocation :
        /\ keys' = [keys EXCEPT ![k] = p]
        /\ allocated' = With(allocated, p)
        /\ issued' = issued + 1

SetKey(k) ==
    \E p \in Allocation :
        /\ keys' = [keys EXCEPT ![k] = p]
        /\ allocated' = With(Freed(keys[k]), p)
        /\ issued' = issued + 1

UnsetKey(k) ==
    /\ keys' = [keys EXCEPT ![k] = 0]
    /\ allocated' = Freed(keys[k])
    /\ UNCHANGED issued

(* A session token is unset by setting it to NULL.                         *)
KvsApp_setoption ==
    /\ Idle /\ options < MaxOptions
    /\ options' = options + 1
    /\ \/ \E k \in Keys : SetKey(k)
       \/ UnsetKey("session")
    /\ UNCHANGED <<iot, pToken, session, pc, res, request, signed, xNetIoHandle,
                   response, netios, service, opens>>

-----------------------------------------------------------------------------
(* One request: sign, connect, send, receive.                              *)

Ask(r) == pc' = "send" /\ request' = r

(* KvsApp_open returns to the application.                                 *)
Return(r) == pc' = "open" /\ res' = r /\ UNCHANGED request

(* prvSign reads the credentials where the parameters point to.            *)
Signature == IF request = "credential" THEN NoKeys ELSE xServicePara

(* A failure on the way, before or after NetIo_create; the connection, if  *)
(* there is one, is terminated before the function returns.                *)
SendFails ==
    /\ \E created \in BOOLEAN :
        /\ xNetIoHandle' = created
        /\ netios' = IF created THEN netios + 1 ELSE netios
    /\ signed' \in {NoKeys, Signature}
    /\ res' = Failed
    /\ pc' = "returned"
    /\ UNCHANGED service

Sent ==
    /\ signed' = Signature
    /\ xNetIoHandle' = TRUE /\ netios' = netios + 1
    /\ res' = OK
    /\ pc' = "recv"
    /\ answered' = FALSE /\ answer' = 0 /\ socket' = <<>> /\ far' = "up"
    /\ UNCHANGED exists

Request(r) ==
    /\ pc = "send" /\ request = r
    /\ \/ SendFails
       \/ (r = "putMedia" => pcPutMediaEndpoint) /\ Sent
    /\ xBufRecv' = <<>> /\ uHttpStatusCode' = 0 /\ whole' = FALSE
    /\ UNCHANGED <<credentials, session, request, heap, bounds>>

Iot_getCredential == Request("credential")
Kvs_describeStream == Request("describe")
Kvs_createStream == Request("create")
Kvs_getDataEndpoint == Request("endpoint")
Kvs_putMediaStart == Request("putMedia")

(* What the service may answer.  It refuses whom it likes.                 *)
Statuses ==
    CASE request = "credential" -> {200, 400}
      [] request = "create" -> IF exists THEN {400} ELSE {200, 400}
      [] OTHER -> IF exists THEN {200, 400} ELSE {400}

(* PUT MEDIA asks for 100-continue; whatever sits in front of the service  *)
(* may speak something else than HTTP.                                     *)
Responses ==
    {<<"status", "rest">>, <<"garbage">>}
        \union (IF request = "putMedia" THEN {<<"interim", "status", "rest">>} ELSE {})

Answer ==
    /\ pc = "recv" /\ ~answered /\ far = "up"
    /\ answered' = TRUE
    /\ answer' \in Statuses
    /\ socket' \in Responses
    /\ exists' = (exists \/ (request = "create" /\ answer' = 200))
    /\ UNCHANGED <<credentials, session, pc, res, request, signed, xNetIoHandle,
                   response, heap, netios, far, bounds>>

(* The far end closes the connection in good order, or it breaks and takes *)
(* with it what has not been read.                                         *)
Disconnect ==
    /\ pc = "recv" /\ far = "up"
    /\ \/ far' = "eof" /\ UNCHANGED socket
       \/ far' = "broken" /\ socket' = <<>>
    /\ UNCHANGED <<credentials, session, pc, res, request, signed, xNetIoHandle,
                   response, heap, netios, exists, answered, answer, bounds>>

-----------------------------------------------------------------------------
(* Http_recvHttpRsp: a loop that ends with a response, with end of file or *)
(* without memory.                                                         *)

(* http_parser_adapter_default.c, which stops at the first response.       *)
Parsed_First(buf) == IF Head(buf) = "status" THEN answer ELSE 100

(* HttpParser_parseHttpResponse with llhttp: the status of the last        *)
(* response in the buffer, however much of it is there.                    *)
Malformed(buf) == Head(buf) = "garbage"
Parsed(buf) == IF "status" \in ToSet(buf) THEN answer ELSE 100

Concludes(r) == res' = r /\ pc' = "returned"
Continues == UNCHANGED <<pc, res, uHttpStatusCode, whole>>

NetIo_recv ==
    \E n \in 1..Len(socket) :
        LET buf == xBufRecv \o SubSeq(socket, 1, n) IN
        /\ socket' = SubSeq(socket, n + 1, Len(socket))
        /\ \/ Malformed(buf) /\ xBufRecv' = buf /\ Continues
           \/ ~Malformed(buf) /\ Parsed(buf) = 100 /\ xBufRecv' = <<>> /\ Continues
           \/ /\ ~Malformed(buf) /\ Parsed(buf) # 100
              /\ xBufRecv' = buf
              /\ uHttpStatusCode' = Parsed(buf)
              /\ whole' = ("rest" \in ToSet(buf))
              /\ \E r \in {OK, Failed} : Concludes(r)

(* Zero bytes are the end of file; a failure, and a timeout is one, sends  *)
(* the loop round again.                                                   *)
NetIo_recvNothing ==
    /\ socket = <<>>
    /\ IF far = "eof"
       THEN Concludes(Failed) /\ UNCHANGED <<uHttpStatusCode, whole>>
       ELSE Continues
    /\ UNCHANGED <<xBufRecv, socket>>

(* BUFFER_enlarge fails.                                                   *)
OutOfMemory ==
    /\ xBufRecv # <<>>
    /\ Concludes(Failed)
    /\ UNCHANGED <<response, socket>>

Http_recvHttpRsp ==
    /\ pc = "recv"
    /\ NetIo_recv \/ NetIo_recvNothing \/ OutOfMemory
    /\ UNCHANGED <<credentials, session, request, signed, xNetIoHandle, heap, netios,
                   exists, answered, answer, far, bounds>>

-----------------------------------------------------------------------------
(* KvsApp_open and what it calls, between the requests.                    *)

Succeeded == res = OK /\ uHttpStatusCode = 200

(* How every request leaves its connection behind.                         *)
NetIo_terminate ==
    /\ xNetIoHandle' = FALSE
    /\ netios' = IF xNetIoHandle THEN netios - 1 ELSE netios

KvsApp_open_KeepsToken ==
    /\ pc = "closed" /\ opens < MaxOpens
    /\ opens' = opens + 1
    /\ IF iot
       THEN allocated' = Freed(pToken) /\ Ask("credential")
       ELSE pc' = "verify" /\ UNCHANGED <<allocated, request>>
    /\ UNCHANGED <<iot, keys, pToken, session, res, signed, xNetIoHandle, response,
                   issued, netios, service, options>>

(* updateIotCredential up to the request: the old token goes first.        *)
KvsApp_open ==
    /\ pc = "closed" /\ opens < MaxOpens
    /\ opens' = opens + 1
    /\ IF iot
       THEN pToken' = 0 /\ allocated' = Freed(pToken) /\ Ask("credential")
       ELSE pc' = "verify" /\ UNCHANGED <<pToken, allocated, request>>
    /\ UNCHANGED <<iot, keys, session, res, signed, xNetIoHandle, response, issued,
                   netios, service, options>>

(* The rest of it.  Without a new token there is none.                     *)
CredentialReturned ==
    /\ pc = "returned" /\ request = "credential"
    /\ IF Succeeded /\ whole
       THEN \E p \in Allocation :
                pToken' = p /\ allocated' = With(allocated, p) /\ issued' = issued + 1
       ELSE UNCHANGED <<pToken, heap>>
    /\ NetIo_terminate
    /\ pc' = "verify"
    /\ UNCHANGED <<iot, keys, session, res, request, signed, response, service, bounds>>

updateAndVerifyRestfulReqParameters ==
    /\ pc = "verify"
    /\ IF pToken = 0 /\ (keys["access"] = 0 \/ keys["secret"] = 0)
       THEN Return(Failed) /\ UNCHANGED xServicePara
       ELSE /\ xServicePara' = IF pToken # 0 THEN [k \in Keys |-> pToken] ELSE keys
            /\ Ask(IF pcPutMediaEndpoint THEN "putMedia" ELSE "describe")
            /\ UNCHANGED res
    /\ UNCHANGED <<credentials, pcPutMediaEndpoint, xPutMediaHandle, signed,
                   xNetIoHandle, response, heap, netios, service, bounds>>

(* setupDataEndpoint: a stream that cannot be described is created.        *)
DescribeReturned ==
    /\ request = "describe"
    /\ IF res = Failed THEN Return(Failed)
       ELSE Ask(IF uHttpStatusCode = 200 THEN "endpoint" ELSE "create") /\ UNCHANGED res
    /\ UNCHANGED pcPutMediaEndpoint

CreateReturned ==
    /\ request = "create"
    /\ IF Succeeded THEN Ask("endpoint") /\ UNCHANGED res ELSE Return(Failed)
    /\ UNCHANGED pcPutMediaEndpoint

(* Copying the endpoint may fail without anybody being told.               *)
EndpointReturned ==
    /\ request = "endpoint"
    /\ \/ /\ Succeeded /\ whole
          /\ pcPutMediaEndpoint' \in BOOLEAN
          /\ Ask("putMedia") /\ UNCHANGED res
       \/ Return(Failed) /\ UNCHANGED pcPutMediaEndpoint

setupDataEndpoint ==
    /\ pc = "returned"
    /\ DescribeReturned \/ CreateReturned \/ EndpointReturned
    /\ NetIo_terminate
    /\ UNCHANGED <<credentials, xServicePara, xPutMediaHandle, signed, response, heap,
                   service, bounds>>

PutMediaReturned_Keeps ==
    /\ pc = "returned" /\ request = "putMedia"
    /\ xNetIoHandle' = FALSE
    /\ \/ /\ Succeeded
          /\ xPutMediaHandle' = TRUE
          /\ pc' = "createStream"
          /\ UNCHANGED <<res, request>>
       \/ Return(Failed) /\ UNCHANGED xPutMediaHandle
    /\ UNCHANGED <<credentials, xServicePara, pcPutMediaEndpoint, signed, response,
                   heap, netios, service, bounds>>

PutMediaReturned_AnyStatus ==
    /\ pc = "returned" /\ request = "putMedia"
    /\ \/ /\ Succeeded
          /\ xPutMediaHandle' = TRUE
          /\ xNetIoHandle' = FALSE
          /\ pc' = "createStream"
          /\ UNCHANGED <<res, request, netios>>
       \/ /\ res = OK
          /\ NetIo_terminate
          /\ pc' = "createStream"
          /\ UNCHANGED <<res, request, xPutMediaHandle>>
       \/ Return(Failed) /\ NetIo_terminate /\ UNCHANGED xPutMediaHandle
    /\ UNCHANGED <<credentials, xServicePara, pcPutMediaEndpoint, signed, response,
                   heap, service, bounds>>

(* The connection is kept for the session, if there is one.                *)
PutMediaReturned ==
    /\ pc = "returned" /\ request = "putMedia"
    /\ \/ /\ Succeeded
          /\ xPutMediaHandle' = TRUE
          /\ xNetIoHandle' = FALSE
          /\ pc' = "createStream"
          /\ UNCHANGED <<res, request, netios>>
       \/ Return(Failed) /\ NetIo_terminate /\ UNCHANGED xPutMediaHandle
    /\ UNCHANGED <<credentials, xServicePara, pcPutMediaEndpoint, signed, response,
                   heap, service, bounds>>

createStream ==
    /\ pc = "createStream"
    /\ \E r \in {OK, Failed} : Return(r)
    /\ UNCHANGED <<credentials, session, signed, xNetIoHandle, response, heap, netios,
                   service, bounds>>

KvsApp_close_Unchecked ==
    /\ pc = "open"
    /\ xPutMediaHandle' = FALSE
    /\ netios' = netios - 1
    /\ pc' = "closed"
    /\ UNCHANGED <<credentials, xServicePara, pcPutMediaEndpoint, res, request, signed,
                   xNetIoHandle, response, heap, service, bounds>>

(* The application does this whenever KvsApp_open has returned.            *)
KvsApp_close ==
    /\ pc = "open"
    /\ xPutMediaHandle' = FALSE
    /\ netios' = IF xPutMediaHandle THEN netios - 1 ELSE netios
    /\ pc' = "closed"
    /\ UNCHANGED <<credentials, xServicePara, pcPutMediaEndpoint, res, request, signed,
                   xNetIoHandle, response, heap, service, bounds>>

-----------------------------------------------------------------------------
MainStep ==
    \/ Iot_getCredential \/ Kvs_describeStream \/ Kvs_createStream
    \/ Kvs_getDataEndpoint \/ Kvs_putMediaStart
    \/ Http_recvHttpRsp
    \/ CredentialReturned \/ updateAndVerifyRestfulReqParameters
    \/ setupDataEndpoint \/ PutMediaReturned \/ createStream

Next ==
    \/ KvsApp_setoption \/ KvsApp_open \/ MainStep \/ KvsApp_close
    \/ Answer \/ Disconnect

Spec == Init /\ [][Next]_vars
FairSpec == Spec /\ WF_vars(MainStep)

-----------------------------------------------------------------------------
TypeOK ==
    /\ keys \in [Keys -> Nat] /\ xServicePara \in [Keys -> Nat] /\ signed \in [Keys -> Nat]
    /\ iot \in BOOLEAN /\ pcPutMediaEndpoint \in BOOLEAN /\ xPutMediaHandle \in BOOLEAN
    /\ xNetIoHandle \in BOOLEAN /\ whole \in BOOLEAN
    /\ exists \in BOOLEAN /\ answered \in BOOLEAN
    /\ pToken \in Nat /\ issued \in Nat /\ netios \in Nat
    /\ allocated \in SUBSET (1..issued)
    /\ pc \in {"closed", "verify", "send", "recv", "returned", "createStream", "open"}
    /\ res \in {OK, Failed} /\ request \in Requests
    /\ uHttpStatusCode \in {0, 200, 400} /\ answer \in {0, 200, 400}
    /\ far \in {"up", "eof", "broken"}
    /\ opens \in 0..MaxOpens /\ options \in 0..MaxOptions

(* A request to the service is signed with credentials of one source, the  *)
(* token fetched for this KvsApp_open or else the application's keys, and  *)
(* none of them has been freed (updateIotCredential and                    *)
(* updateAndVerifyRestfulReqParameters, which copies pointers).            *)
SignedWithLiveCredentials ==
    (pc \in {"recv", "returned"} /\ signed # NoKeys) =>
        /\ signed = IF pToken # 0 THEN [k \in Keys |-> pToken] ELSE keys
        /\ {signed["access"], signed["secret"]} \subseteq allocated
        /\ signed["session"] \in allocated \union {0}

(* Credentials are freed exactly when nothing refers to them any more,     *)
(* through any order of options, refusals and new attempts.                *)
CredentialsAccounted == allocated = ({pToken} \union {keys[k] : k \in Keys}) \ {0}

(* Every request gives its connection up, whichever call failed, but for   *)
(* the one that becomes the session's; and KvsApp_close gives up that.     *)
ConnectionsAccounted ==
    /\ netios = (IF xNetIoHandle THEN 1 ELSE 0) + (IF xPutMediaHandle THEN 1 ELSE 0)
    /\ pc = "closed" => netios = 0

(* What an earlier attempt leaves behind is good for the next: a known     *)
(* endpoint is that of a stream the service has, also after an answer was  *)
(* lost, and KvsApp_open succeeds only with a session over it.             *)
OpenedOverItsStream ==
    /\ pcPutMediaEndpoint => exists
    /\ (pc = "open" /\ res = OK) => (xPutMediaHandle /\ pcPutMediaEndpoint)

(* A response that has arrived ends the wait in Http_recvHttpRsp, however  *)
(* it is cut and whether or not 100-continue comes with it, unless the     *)
(* connection breaks before it is read.                                    *)
AnsweredRequestEnds ==
    (pc = "recv" /\ "status" \in ToSet(socket)) ~> (pc # "recv" \/ far = "broken")

(* http_helper.c says of the failure of NetIo_recv "Propagate the res      *)
(* error": KvsApp_open returns, whatever happens to its connection.        *)
OpenReturns == (pc \notin {"closed", "open"}) ~> (pc = "open")
=============================================================================
