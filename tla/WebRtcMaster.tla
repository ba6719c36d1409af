---------------------------- MODULE WebRtcMaster ----------------------------
(***************************************************************************)
(* The WebRTC side of kvs_with_webrtc: webrtc_main with its session        *)
(* cleanup loop, the callbacks of the signaling client and of the peer     *)
(* connections, the media sender thread, and the video source thread that  *)
(* writes each frame to every session                                      *)
(* (samples/kvs-with-webrtc/Common.c, kvsWebRTCClientMaster.c and          *)
(* kvs_with_webrtc.c).                                                     *)
(*                                                                         *)
(* Two locks matter.  sampleConfigurationObjLock is held by main from the  *)
(* beginning of its scan to CVAR_WAIT, and by each callback throughout, so *)
(* a callback is one step.  streamingSessionListReadLock is held by the    *)
(* writer while it goes through the sessions.                              *)
(*                                                                         *)
(* A session is its number; numbers are given out in order and 0 is NULL.  *)
(* A candidate is its number in the order of their arrival.  No two peers  *)
(* have the same CRC32, and allocating a message queue succeeds.           *)
(***************************************************************************)
EXTENDS Integers, Sequences, SequencesExt, FiniteSets

CONSTANTS
    Peers,              \* the remote clients
    TricklingPeers,     \* those that send candidates
    MaxSessions,        \* DEFAULT_MAX_CONCURRENT_STREAMING_SESSION
    MaxCreated,         \* bound: sessions ever created
    MaxCandidates       \* bound: candidates they send

ASSUME WebRtcMasterAssumption ==
    /\ TricklingPeers \subseteq Peers
    /\ MaxSessions \in Nat \ {0}
    /\ MaxCreated \in Nat /\ MaxCandidates \in Nat

VARIABLES
    \* webrtc_main and sessionCleanupWait.
    main,                   \* where it is
    i,                      \* the index of the scan, from 1
    pSampleStreamingSession,\* the session taken off the list, or 0
    \* SampleConfiguration.
    list,                   \* sampleStreamingSessionList up to streamingSessionCount
    hash,                   \* pRtcPeerConnectionForRemoteClient: the session of a peer, or 0
    pending,                \* pPendingSignalingMessageForRemoteClient, oldest queue first
    signalingClientHandle,  \* it is valid
    interrupted, appTerminateFlag, connected,
    mediaThreadStarted,     \* also: mediaSenderRoutine runs
    \* The sessions ever created.
    sessions,
    \* The program around it.
    gSampleConfiguration,   \* it points to the configuration
    gStopRunning,
    writingTo,              \* the session videoSourceThread writes its frame to, or 0
    sent                    \* candidates

mainVars == <<main, i, pSampleStreamingSession>>
tables == <<list, hash, pending, sessions>>
mediaVars == <<connected, mediaThreadStarted>>
endVars == <<signalingClientHandle, interrupted, appTerminateFlag, gSampleConfiguration, gStopRunning>>
vars == <<mainVars, tables, mediaVars, endVars, writingTo, sent>>

Program == {"setup", "connect", "scan", "free", "wait", "terminate", "join", "client",
            "configuration", "done"}

(* The locks, by who holds them.                                           *)
ObjLockFree == main \notin {"scan", "free"}
ReadLockFree_NotTaken == TRUE
ReadLockFree == writingTo = 0

Init ==
    /\ main = "setup" /\ i = 1 /\ pSampleStreamingSession = 0
    /\ list = <<>> /\ hash = [p \in Peers |-> 0] /\ pending = <<>> /\ sessions = <<>>
    /\ connected = FALSE /\ mediaThreadStarted = FALSE
    /\ signalingClientHandle = FALSE /\ interrupted = FALSE /\ appTerminateFlag = FALSE
    /\ gSampleConfiguration = FALSE /\ gStopRunning = FALSE
    /\ writingTo = 0 /\ sent = 0

-----------------------------------------------------------------------------
(* Messages that came before their session.                                *)

QueueOf(p) == {k \in DOMAIN pending : pending[k].peerId = p}

(* getPendingMessageQueueForHash: the messages of its queue, and the other *)
(* queues when it is removed.                                              *)
Waiting(p) == IF QueueOf(p) = {} THEN <<>> ELSE pending[Min(QueueOf(p))].messages
Removed_Kept(p) == pending
Removed(p) == IF QueueOf(p) = {} THEN pending ELSE RemoveAt(pending, Min(QueueOf(p)))

(* A queue is created with its first message (createMessageQueue); the     *)
(* others are appended.                                                    *)
Enqueued_AtHead(p, candidate) ==
    IF QueueOf(p) = {} THEN Append(pending, [peerId |-> p, messages |-> <<candidate>>])
    ELSE [pending EXCEPT ![Min(QueueOf(p))].messages = <<candidate>> \o @]
Enqueued(p, candidate) ==
    IF QueueOf(p) = {} THEN Append(pending, [peerId |-> p, messages |-> <<candidate>>])
    ELSE [pending EXCEPT ![Min(QueueOf(p))].messages = Append(@, candidate)]

(* submitPendingIceCandidate stops at the first candidate that is refused; *)
(* those behind it are freed with the queue.                               *)
submitPendingIceCandidate(p) ==
    {SubSeq(Waiting(p), 1, n) : n \in 0..Len(Waiting(p))}

(* removeExpiredMessageQueues: queues are kept in the order of their       *)
(* creation, so the expired ones are the first.                            *)
removeExpiredMessageQueues == \E n \in 0..Len(pending) : pending' = SubSeq(pending, n + 1, Len(pending))

-----------------------------------------------------------------------------
(* signalingMessageReceived, under sampleConfigurationObjLock.             *)

Receiving == signalingClientHandle /\ ObjLockFree
HasRoom == Len(list) < MaxSessions

(* createSampleStreamingSession; "remote" is whether the connection has    *)
(* been told the description of its other side.                            *)
NewSession(p) ==
    [peerId |-> p, live |-> TRUE, terminateFlag |-> FALSE, remote |-> FALSE, candidates |-> <<>>]
MayCreate == HasRoom /\ Len(sessions) < MaxCreated
Created == Len(sessions) + 1
Listed_PreIncrement == Append(Append(list, 0), Created)
Listed == Append(list, Created)

(* handleOffer fails before or after setRemoteDescription has succeeded,   *)
(* at the latest when the answer is sent, or the offer is accepted.        *)
handleOffer(session) ==
    LET described == [session EXCEPT !.remote = TRUE] IN
    [accepted : {FALSE}, session : {session, described}]
        \union [accepted : {TRUE}, session : {described}]

(* An offer of a peer that has a session is refused.                       *)
OfferInProgress(p) ==
    /\ Receiving
    /\ hash[p] # 0
    /\ UNCHANGED vars

(* There is no room: the candidates of the peer are not waited for.        *)
OfferBeyondMax(p) ==
    /\ Receiving
    /\ hash[p] = 0
    /\ ~HasRoom
    /\ pending' = Removed(p)
    /\ UNCHANGED <<mainVars, list, hash, sessions, mediaVars, endVars, writingTo, sent>>

(* createSampleStreamingSession fails and frees what it has made.          *)
OfferNotCreated(p) ==
    /\ Receiving
    /\ hash[p] = 0
    /\ HasRoom
    /\ UNCHANGED vars

(* handleOffer fails, or hashTablePut once it has accepted: the session     *)
(* stays on the list, unknown to the hash.                                 *)
OfferFails(p) ==
    /\ Receiving
    /\ hash[p] = 0
    /\ MayCreate
    /\ ReadLockFree
    /\ list' = Listed
    /\ \E offer \in handleOffer(NewSession(p)) :
        /\ sessions' = Append(sessions, offer.session)
        /\ mediaThreadStarted' = (mediaThreadStarted \/ offer.accepted)
    /\ UNCHANGED <<mainVars, hash, pending, connected, endVars, writingTo, sent>>

OfferAccepted(p) ==
    /\ Receiving
    /\ hash[p] = 0
    /\ MayCreate
    /\ ReadLockFree
    /\ list' = Listed
    /\ \E offer \in handleOffer(NewSession(p)), submitted \in submitPendingIceCandidate(p) :
        /\ offer.accepted
        /\ sessions' = Append(sessions, [offer.session EXCEPT !.candidates = submitted])
    /\ hash' = [hash EXCEPT ![p] = Created]
    /\ pending' = Removed(p)
    /\ mediaThreadStarted' = TRUE
    /\ UNCHANGED <<mainVars, connected, endVars, writingTo, sent>>

(* A candidate goes to the session of its peer, which may refuse it, or    *)
(* waits for the offer.                                                    *)
Candidate(p) ==
    /\ Receiving
    /\ p \in TricklingPeers
    /\ sent < MaxCandidates
    /\ sent' = sent + 1
    /\ IF hash[p] = 0
       THEN pending' = Enqueued(p, sent') /\ UNCHANGED sessions
       ELSE /\ UNCHANGED pending
            /\ \/ sessions' = [sessions EXCEPT ![hash[p]].candidates = Append(@, sent')]
               \/ UNCHANGED sessions
    /\ UNCHANGED <<mainVars, list, hash, mediaVars, endVars, writingTo>>

-----------------------------------------------------------------------------
(* Callbacks of a peer connection, until it is freed, and the media sender *)
(* thread, which has no source in this program.                            *)

Live(s) == s \in DOMAIN sessions /\ sessions[s].live

(* onConnectionStateChange.  A connection that was not told about its      *)
(* other side neither is made nor fails.                                   *)
ConnectionConnected(s) ==
    /\ Live(s) /\ sessions[s].remote
    /\ connected' = TRUE
    /\ UNCHANGED <<mainVars, tables, mediaThreadStarted, endVars, writingTo, sent>>

ConnectionEnded(s) ==
    /\ Live(s) /\ sessions[s].remote
    /\ sessions' = [sessions EXCEPT ![s].terminateFlag = TRUE]
    /\ connected' = FALSE
    /\ UNCHANGED <<mainVars, list, hash, pending, mediaThreadStarted, endVars, writingTo, sent>>

(* Any other state of the connection.                                      *)
ConnectionUnderWay(s) ==
    /\ Live(s) /\ sessions[s].remote
    /\ connected' = FALSE
    /\ UNCHANGED <<mainVars, tables, mediaThreadStarted, endVars, writingTo, sent>>

mediaSenderRoutine_Unterminated ==
    /\ mediaThreadStarted
    /\ ObjLockFree
    /\ connected
    /\ mediaThreadStarted' = FALSE
    /\ UNCHANGED <<mainVars, tables, connected, endVars, writingTo, sent>>

mediaSenderRoutine ==
    /\ mediaThreadStarted
    /\ ObjLockFree
    /\ connected \/ appTerminateFlag
    /\ mediaThreadStarted' = FALSE
    /\ UNCHANGED <<mainVars, tables, connected, endVars, writingTo, sent>>

-----------------------------------------------------------------------------
(* webrtc_main up to the cleanup loop.                                     *)

Setup ==
    /\ main = "setup"
    /\ \/ main' = "connect" /\ signalingClientHandle' = TRUE
       \/ main' = "terminate" /\ UNCHANGED signalingClientHandle
    /\ UNCHANGED <<i, pSampleStreamingSession, tables, mediaVars, interrupted, appTerminateFlag,
                   gSampleConfiguration, gStopRunning, writingTo, sent>>

Connect ==
    /\ main = "connect"
    /\ \/ main' = "wait" /\ gSampleConfiguration' = TRUE
       \/ main' = "terminate" /\ UNCHANGED gSampleConfiguration
    /\ UNCHANGED <<i, pSampleStreamingSession, tables, mediaVars, signalingClientHandle, interrupted,
                   appTerminateFlag, gStopRunning, writingTo, sent>>

-----------------------------------------------------------------------------
(* sessionCleanupWait.                                                     *)

(* The condition of the loop, first and after each wait.                   *)
Wake_KeepsIndex ==
    /\ main = "wait"
    /\ main' = IF interrupted THEN "terminate" ELSE "scan"
    /\ UNCHANGED <<i, pSampleStreamingSession, tables, mediaVars, endVars, writingTo, sent>>

Wake ==
    /\ main = "wait"
    /\ main' = IF interrupted THEN "terminate" ELSE "scan"
    /\ i' = 1
    /\ UNCHANGED <<pSampleStreamingSession, tables, mediaVars, endVars, writingTo, sent>>

ScanLive ==
    /\ main = "scan"
    /\ i <= Len(list)
    /\ ~sessions[list[i]].terminateFlag
    /\ i' = i + 1
    /\ UNCHANGED <<main, pSampleStreamingSession, tables, mediaVars, endVars, writingTo, sent>>

(* The last session takes the place of the one that goes.                  *)
SwappedOut == Front([list EXCEPT ![i] = Last(list)])

(* What the hash has for the peer goes, whichever session it is.           *)
Unhashed_Kept == hash
Unhashed == [hash EXCEPT ![sessions[list[i]].peerId] = 0]

ScanTerminated ==
    /\ main = "scan"
    /\ i <= Len(list)
    /\ sessions[list[i]].terminateFlag
    /\ ReadLockFree
    /\ pSampleStreamingSession' = list[i]
    /\ list' = SwappedOut
    /\ hash' = Unhashed
    /\ main' = "free"
    /\ UNCHANGED <<i, pending, sessions, mediaVars, endVars, writingTo, sent>>

(* freeSampleStreamingSession; closing the connection may report it closed.*)
FreeSession ==
    /\ main = "free"
    /\ sessions' = [sessions EXCEPT ![pSampleStreamingSession].live = FALSE]
    /\ pSampleStreamingSession' = 0
    /\ main' = "scan"
    /\ i' = i + 1
    /\ connected' \in {connected, FALSE}
    /\ UNCHANGED <<list, hash, pending, mediaThreadStarted, endVars, writingTo, sent>>

(* The rest of an iteration, down to CVAR_WAIT, or out of the loop when    *)
(* signalingClientGetCurrentState fails.                                   *)
ScanDone ==
    /\ main = "scan"
    /\ i > Len(list)
    /\ \/ removeExpiredMessageQueues /\ main' = "wait"
       \/ main' = "terminate" /\ UNCHANGED pending
    /\ UNCHANGED <<i, pSampleStreamingSession, list, hash, sessions, mediaVars, endVars, writingTo, sent>>

-----------------------------------------------------------------------------
(* The end of webrtc_main.                                                 *)

Terminate ==
    /\ main = "terminate"
    /\ main' = "join"
    /\ appTerminateFlag' = TRUE
    /\ UNCHANGED <<i, pSampleStreamingSession, tables, mediaVars, signalingClientHandle, interrupted,
                   gSampleConfiguration, gStopRunning, writingTo, sent>>

JoinMediaSender ==
    /\ main = "join"
    /\ ~mediaThreadStarted
    /\ main' = "client"
    /\ UNCHANGED <<i, pSampleStreamingSession, tables, mediaVars, endVars, writingTo, sent>>

(* freeSignalingClient returns when its callbacks have.                    *)
FreeSignalingClient ==
    /\ main = "client"
    /\ main' = "configuration"
    /\ signalingClientHandle' = FALSE
    /\ UNCHANGED <<i, pSampleStreamingSession, tables, mediaVars, interrupted, appTerminateFlag,
                   gSampleConfiguration, gStopRunning, writingTo, sent>>

(* freeSampleConfiguration, and no configuration any more.                 *)
FreeConfiguration ==
    /\ main = "configuration"
    /\ main' = "done"
    /\ pending' = <<>>
    /\ hash' = [p \in Peers |-> 0]
    /\ sessions' = [s \in DOMAIN sessions |->
                        [sessions[s] EXCEPT !.live = @ /\ s \notin Range(list)]]
    /\ gSampleConfiguration' = FALSE
    /\ UNCHANGED <<i, pSampleStreamingSession, list, mediaVars, signalingClientHandle, interrupted,
                   appTerminateFlag, gStopRunning, writingTo, sent>>

-----------------------------------------------------------------------------
(* kvs_with_webrtc.c: videoSourceThread goes on until gStopRunning;        *)
(* webrtc_taskAddVideoFrame goes through the sessions if there is a        *)
(* configuration.                                                          *)

AddVideoFrame ==
    /\ ReadLockFree
    /\ ~gStopRunning
    /\ gSampleConfiguration
    /\ list # <<>>
    /\ writingTo' = Head(list)
    /\ UNCHANGED <<mainVars, tables, mediaVars, endVars, sent>>

(* The next session, or the end of the frame.                              *)
FrameWritten ==
    /\ writingTo # 0
    /\ \/ \E k \in 2..Len(list) : list[k - 1] = writingTo /\ writingTo' = list[k]
       \/ Last(list) = writingTo /\ writingTo' = 0
    /\ UNCHANGED <<mainVars, tables, mediaVars, endVars, sent>>

(* signalHandler and sigintHandler; a second signal leaves the program.    *)
Signal ==
    /\ ~gStopRunning
    /\ gStopRunning' = TRUE
    /\ interrupted' = gSampleConfiguration
    /\ UNCHANGED <<mainVars, tables, mediaVars, signalingClientHandle, appTerminateFlag,
                   gSampleConfiguration, writingTo, sent>>

-----------------------------------------------------------------------------
Main == Setup \/ Connect \/ Wake \/ ScanLive \/ ScanTerminated \/ FreeSession \/ ScanDone
        \/ Terminate \/ JoinMediaSender \/ FreeSignalingClient \/ FreeConfiguration

Signaling == \E p \in Peers : \/ OfferInProgress(p) \/ OfferBeyondMax(p) \/ OfferNotCreated(p)
                              \/ OfferFails(p) \/ OfferAccepted(p) \/ Candidate(p)

PeerConnections == \E s \in DOMAIN sessions :
                       ConnectionConnected(s) \/ ConnectionEnded(s) \/ ConnectionUnderWay(s)

Next == Main \/ Signaling \/ PeerConnections \/ mediaSenderRoutine
        \/ AddVideoFrame \/ FrameWritten \/ Signal

Spec == Init /\ [][Next]_vars

(* Threads that can go on do.  The writer gives the lock of the list away  *)
(* and sleeps after each frame (kvs_with_webrtc.c, line 204), so main gets *)
(* it in time.                                                             *)
FairSpec == Spec /\ WF_vars(Main) /\ SF_vars(ScanTerminated) /\ WF_vars(FrameWritten)
                 /\ WF_vars(mediaSenderRoutine)

-----------------------------------------------------------------------------
Session == [peerId : Peers, live : BOOLEAN, terminateFlag : BOOLEAN, remote : BOOLEAN,
            candidates : Seq(1..MaxCandidates)]

(* The values the variables have; no more sessions are listed than there   *)
(* is room for in sampleStreamingSessionList.                              *)
TypeOK ==
    /\ main \in Program
    /\ i \in 1..MaxSessions + 1
    /\ pSampleStreamingSession \in 0..Len(sessions)
    /\ sessions \in Seq(Session)
    /\ list \in Seq(1..Len(sessions)) /\ Len(list) <= MaxSessions
    /\ hash \in [Peers -> 0..Len(sessions)]
    /\ pending \in Seq([peerId : Peers, messages : Seq(1..MaxCandidates)])
    /\ {interrupted, appTerminateFlag, connected, mediaThreadStarted, signalingClientHandle,
        gStopRunning, gSampleConfiguration} \subseteq BOOLEAN
    /\ writingTo \in 0..Len(sessions)
    /\ sent \in 0..MaxCandidates

(* A session the hash has for a peer is one of that peer, is on the list   *)
(* and has not been freed, so the candidates of the peer go to a           *)
(* connection that exists.  The cleanup loop takes a session off the list, *)
(* out of the hash and frees it in three steps, and takes out of the hash  *)
(* whatever is there for the peer (Common.c, 1142).                        *)
HashedSessionLive ==
    \A p \in Peers : hash[p] # 0 =>
        /\ hash[p] \in Range(list)
        /\ Live(hash[p])
        /\ sessions[hash[p]].peerId = p

(* No session is on the list twice or was freed, and none is freed while a *)
(* frame is written to it, although the cleanup moves the last one to the  *)
(* place of another while a frame is on its way to all of them (Common.c,  *)
(* 1133; kvsWebRTCClientMaster.c, 425).                                    *)
ListedSessionsLive ==
    main # "done" =>
        /\ IsInjective(list)
        /\ \A s \in Range(list) : Live(s)
        /\ writingTo # 0 => Live(writingTo)

(* A candidate that came before its offer does not wait behind a session   *)
(* its peer already has: the queue of a known peer is gone (Common.c,      *)
(* 1279), and there never are two queues of one peer.                      *)
KnownPeersDontWait ==
    \A p \in Peers :
        /\ Cardinality(QueueOf(p)) <= 1
        /\ hash[p] # 0 => QueueOf(p) = {}

(* Whatever sessions a peer goes through, its candidates are handed over   *)
(* at most once and in the order they came in, those that still wait last  *)
(* (Common.c, 1279).                                                       *)
Ascending(q) == \A j, k \in DOMAIN q : j < k => q[j] < q[k]
Before(q, r) == \A j \in DOMAIN q, k \in DOMAIN r : q[j] < r[k]
SessionsOf(p) == {s \in DOMAIN sessions : sessions[s].peerId = p}
CandidatesOnceInOrder ==
    \A p \in Peers :
        /\ Ascending(Waiting(p))
        /\ \A s \in SessionsOf(p) :
            /\ Ascending(sessions[s].candidates)
            /\ Before(sessions[s].candidates, Waiting(p))
            /\ \A t \in SessionsOf(p) : s < t => Before(sessions[s].candidates, sessions[t].candidates)

(* A session whose connection has failed or was closed is freed, though    *)
(* the scan passes over the one it has just moved (Common.c, 1126), unless *)
(* webrtc_main ends first.                                                 *)
TerminatedSessionFreed ==
    \A s \in 1..MaxCreated :
        (s \in Range(list) /\ sessions[s].terminateFlag) ~> (~Live(s) \/ main = "done")

(* An interrupt that found the configuration ends webrtc_main: the wait is *)
(* bounded, and the media sender thread is not waited for in vain.         *)
InterruptedEnds == interrupted ~> main = "done"
=============================================================================
