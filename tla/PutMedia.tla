------------------------------ MODULE PutMedia ------------------------------
(***************************************************************************)
(* The receiving half of a PUT MEDIA session                               *)
(* (src/source/restful/kvs/restapi_kvs.c): the server acknowledges         *)
(* fragments on the connection the media goes out on.  Kvs_putMediaDoWork  *)
(* reads what is there, cuts it into acknowledgements and puts them into a *)
(* list under the session's lock; the application reads them out of it.    *)
(*                                                                         *)
(* The bytes the server sends are numbered from 0.  Acknowledgement n is   *)
(* AckLen of them, the last of which is number n * AckLen - 1.  They come  *)
(* in TLS records of any size; the socket knows of records, and what is    *)
(* left of a record too long for the buffer stays behind in mbedtls.       *)
(***************************************************************************)
EXTENDS Integers, Sequences, SequencesExt, FiniteSets

CONSTANTS
    AckLen,                 \* bytes of an acknowledgement
    DEFAULT_RECV_BUFSIZE,
    MaxAcks,                \* bound: acknowledgements the server sends
    MaxCalls                \* bound: calls of Kvs_putMediaDoWork

ASSUME PutMediaAssumption ==
    /\ AckLen \in Nat \ {0} /\ DEFAULT_RECV_BUFSIZE \in Nat \ {0}
    /\ MaxAcks \in Nat /\ MaxCalls \in Nat

Ack == 1..MaxAcks
Bytes == MaxAcks * AckLen

VARIABLES
    \* The server and the connection.
    errors,                 \* which acknowledgements are of type eError
    socket,                 \* records that have arrived, each by where it ends
    opened,                 \* where the last record mbedtls has opened ends
    eof,                    \* the connection is closed at the far end
    \* Kvs_putMediaDoWork on the main thread.
    pc,
    res,                    \* what it returned or is going to return
    from,                   \* number of the first byte in xBufRecv
    uBytesTotalReceived,
    uBufferSize,            \* BUFFER_length(xBufRecv)
    uBytesReceived,         \* how far it has been parsed
    calls,                  \* how often it was called
    \* The list, and the application.
    xPendingFragmentAcks,
    got,                    \* history: what the application has read
    reported                \* history: the errors calls have returned

wire == <<errors, socket, opened, eof>>
buffer == <<from, uBytesTotalReceived, uBufferSize, uBytesReceived>>
history == <<got, reported>>
vars == <<wire, pc, res, buffer, calls, xPendingFragmentAcks, history>>

OK == "KVS_ERRNO_NONE"
Failed == "failed"          \* any other code than the server's
Result == {OK, Failed, "KVS_GENERATE_PUTMEDIA_ERROR"}

Init ==
    /\ errors \in SUBSET Ack
    /\ socket = <<>> /\ opened = 0 /\ eof = FALSE
    /\ pc = "idle" /\ res = OK
    /\ from = 0 /\ uBytesTotalReceived = 0 /\ uBufferSize = 0 /\ uBytesReceived = 0
    /\ calls = 0
    /\ xPendingFragmentAcks = <<>>
    /\ got = <<>> /\ reported = {}

-----------------------------------------------------------------------------
(* The far end.                                                            *)

\* Bytes read off the connection so far, and bytes that have arrived.
Consumed == from + uBytesTotalReceived
Arrived == IF socket = <<>> THEN opened ELSE Last(socket)

RecordArrives(size) ==
    /\ ~eof /\ pc # "finished"
    /\ Arrived + size <= Bytes
    /\ socket' = Append(socket, Arrived + size)
    /\ UNCHANGED <<errors, opened, eof, pc, res, buffer, calls, xPendingFragmentAcks, history>>

ConnectionCloses ==
    /\ ~eof /\ pc # "finished"
    /\ eof' = TRUE
    /\ UNCHANGED <<errors, socket, opened, pc, res, buffer, calls, xPendingFragmentAcks, history>>

-----------------------------------------------------------------------------
(* Kvs_putMediaDoWork.                                                     *)

\* NetIo_isDataAvailable asks the socket; bytes inside mbedtls do not count.
NetIo_isDataAvailable == socket # <<>> \/ eof

Return(code) == pc' = "idle" /\ res' = code

\* What was received is forgotten, parsed or not.
Forget ==
    /\ from' = Consumed
    /\ uBytesTotalReceived' = 0 /\ uBufferSize' = 0 /\ uBytesReceived' = 0

Kvs_putMediaDoWork ==
    /\ pc = "idle" /\ calls < MaxCalls
    /\ calls' = calls + 1
    /\ \/ ~NetIo_isDataAvailable /\ Return(OK) /\ UNCHANGED buffer
       \/ /\ NetIo_isDataAvailable
          /\ \/ Return(Failed) /\ UNCHANGED buffer          \* OOM: xBufRecv
             \/ /\ pc' = "flush" /\ res' = OK
                /\ uBufferSize' = DEFAULT_RECV_BUFSIZE
                /\ UNCHANGED <<from, uBytesTotalReceived, uBytesReceived>>
    /\ UNCHANGED <<wire, xPendingFragmentAcks, history>>

\* prvFlushFragmentAck takes the lock for each entry.
prvFlushFragmentAck ==
    /\ pc = "flush"
    /\ IF xPendingFragmentAcks = <<>>
       THEN pc' = "recv" /\ UNCHANGED xPendingFragmentAcks
       ELSE xPendingFragmentAcks' = Tail(xPendingFragmentAcks) /\ UNCHANGED pc
    /\ UNCHANGED <<wire, res, buffer, calls, history>>

\* A plausible slip: a full buffer is not enlarged.
Room_NeverEnlarged == uBufferSize

\* The size of the buffer when NetIo_recv is called; BUFFER_enlarge adds.
Room == IF uBufferSize = uBytesTotalReceived
        THEN uBufferSize + 2 * uBufferSize ELSE uBufferSize

Smaller(a, b) == IF a < b THEN a ELSE b

\* NetIo_recv: mbedtls_ssl_read opens a record only when none is open.
NetIo_recv ==
    LET next == opened = Consumed /\ socket # <<>>
        end == IF next THEN Head(socket) ELSE opened
    IN  /\ uBytesTotalReceived' =
              uBytesTotalReceived + Smaller(end - Consumed, Room - uBytesTotalReceived)
        /\ opened' = end
        /\ socket' = IF next THEN Tail(socket) ELSE socket

\* The loop that reads for as long as the socket has something ...
Receive ==
    /\ pc = "recv"
    /\ IF NetIo_isDataAvailable
       THEN /\ uBufferSize' = Room
            /\ NetIo_recv
            /\ UNCHANGED <<pc, res, from, uBytesReceived>>
       ELSE /\ pc' = "parse"
            /\ UNCHANGED <<opened, socket, res, buffer>>
    /\ UNCHANGED <<errors, eof, calls, xPendingFragmentAcks, history>>

\* ... ends early when the buffer cannot be enlarged or the connection fails;
\* what was received is not parsed then.
ReceiveFails ==
    /\ pc = "recv" /\ NetIo_isDataAvailable
    /\ Return(Failed) /\ Forget
    /\ UNCHANGED <<wire, calls, xPendingFragmentAcks, history>>

\* A plausible slip: the length is not compared with what was received.
Parsed_Unchecked ==
    {n \in Ack : /\ (n - 1) * AckLen = from + uBytesReceived
                 /\ uBytesReceived < uBytesTotalReceived}

\* prvParseFragmentAck at the parser's place in the buffer: the acknowledgement
\* that begins there and is complete, none or one.
Parsed ==
    {n \in Ack : /\ (n - 1) * AckLen = from + uBytesReceived
                 /\ n * AckLen <= Consumed}

\* A plausible slip: the newest acknowledgement goes first.
prvPushFragmentAck_AtHead(n) == xPendingFragmentAcks' = <<n>> \o xPendingFragmentAcks

prvPushFragmentAck(n) == xPendingFragmentAcks' = Append(xPendingFragmentAcks, n)

\* A plausible slip: an error acknowledgement is only put into the list.
AfterPush_KeepsGoing(n) ==
    /\ uBytesReceived' = n * AckLen - from
    /\ UNCHANGED <<pc, res, from, uBytesTotalReceived, uBufferSize, reported>>

\* An error of the server ends the call, whatever follows it in the buffer.
AfterPush(n) ==
    IF n \in errors
    THEN /\ Return("KVS_GENERATE_PUTMEDIA_ERROR") /\ Forget
         /\ reported' = reported \cup {n}
    ELSE /\ uBytesReceived' = n * AckLen - from
         /\ UNCHANGED <<pc, res, from, uBytesTotalReceived, uBufferSize, reported>>

\* One turn of the parsing loop.  No one looks whether the push had memory.
ParseAck(n) ==
    /\ pc = "parse" /\ n \in Parsed
    /\ prvPushFragmentAck(n) \/ UNCHANGED xPendingFragmentAcks
    /\ AfterPush(n)
    /\ UNCHANGED <<wire, calls, got>>

\* The loop ends with the buffer, at a part of an acknowledgement, or without
\* the memory to look into one; the rest of the buffer is dropped.
ParseEnds ==
    /\ pc = "parse"
    /\ Return(OK) /\ Forget
    /\ UNCHANGED <<wire, calls, xPendingFragmentAcks, history>>

-----------------------------------------------------------------------------
(* The application.                                                        *)

Kvs_putMediaReadFragmentAck ==
    /\ pc # "finished" /\ xPendingFragmentAcks # <<>>
    /\ got' = Append(got, Head(xPendingFragmentAcks))
    /\ xPendingFragmentAcks' = Tail(xPendingFragmentAcks)
    /\ UNCHANGED <<wire, pc, res, buffer, calls, reported>>

Kvs_putMediaFinish ==
    /\ pc = "idle"
    /\ pc' = "finished"
    /\ xPendingFragmentAcks' = <<>>
    /\ UNCHANGED <<wire, res, buffer, calls, history>>

DoWorkStep == prvFlushFragmentAck \/ Receive \/ (\E n \in Ack : ParseAck(n)) \/ ParseEnds

Next ==
    \/ \E size \in 1..Bytes : RecordArrives(size)
    \/ ConnectionCloses
    \/ Kvs_putMediaDoWork
    \/ DoWorkStep
    \/ ReceiveFails
    \/ Kvs_putMediaReadFragmentAck
    \/ Kvs_putMediaFinish

\* The main thread gets on with a call it has begun.  Nothing has to fail.
Spec == Init /\ [][Next]_vars /\ WF_vars(DoWorkStep)

-----------------------------------------------------------------------------
(* Counters stay within what was sent, and a buffer within its size.       *)
TypeOK ==
    /\ errors \subseteq Ack /\ reported \subseteq Ack
    /\ socket \in Seq(1..Bytes) /\ opened \in 0..Bytes /\ eof \in BOOLEAN
    /\ pc \in {"idle", "flush", "recv", "parse", "finished"} /\ res \in Result
    /\ from \in 0..Bytes
    /\ uBytesTotalReceived \in 0..uBufferSize /\ uBytesReceived \in 0..uBytesTotalReceived
    /\ calls \in 0..MaxCalls
    /\ xPendingFragmentAcks \in Seq(Ack) /\ got \in Seq(Ack)

(* The application reads acknowledgements in the order the server sent     *)
(* them and none twice, however records, buffers and calls cut the stream, *)
(* and whatever is dropped (prvParseFragmentAck, prvPushFragmentAck).      *)
AcksOnceInOrder ==
    LET seen == got \o xPendingFragmentAcks
    IN  \A i, j \in DOMAIN seen : i < j => seen[i] < seen[j]

(* The application does not find an error of the server in the list that   *)
(* Kvs_putMediaDoWork does not also report by what it returns.             *)
ErrorAckReported ==
    \A n \in errors : n \in ToSet(got \o xPendingFragmentAcks) => n \in reported

(* A call returns, however much has arrived for the buffer it starts with, *)
(* unless the far end has closed the connection (the loop around           *)
(* NetIo_recv).                                                            *)
DoWorkReturns == pc = "flush" ~> (pc = "idle" \/ eof)

=============================================================================
