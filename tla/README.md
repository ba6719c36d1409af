# Verification of the KVS producer for embedded C

The library sends H.264 video and audio frames of a camera to Kinesis Video
Streams; a sample shows the same frames to WebRTC viewers. This directory holds
TLA+ models of the parts that decide which frame is sent when and as what bytes,
what happens to a frame that is not sent, what comes back from the server, and
which viewer is told what; TLC configurations that check the models; and proofs
that TLAPS checks. Paths below are those of the repository; `webrtc-sdk-c` is
`src/libraries/amazon/amazon-kinesis-video-streams-webrtc-sdk-c/patch/src/source`.

## 1. The system

| Component | State | Operations |
| --- | --- | --- |
| Stream buffer, `src/source/stream/stream.c` | list of pending frames with the MKV header of each, timestamp of the last cluster popped, EBML header, one lock | add, pop, peek, is a frame of a track available, memory statistics, add tags |
| MKV generator, `src/source/mkv/mkv_generator.c` | none | codec private data, EBML header with the tracks, cluster and block headers with their timecodes, tags |
| KvsApp, `src/source/app/kvsapp.c` | stream handle, track info, SPS and PPS, PUT MEDIA handle, policy, `uEarliestTimestamp`, "EBML header sent", a lock used by close and terminate only | create, set options, open, add frame, doWork, doWorkEx, read acknowledgements, close, terminate |
| PUT MEDIA session, `src/source/restful/kvs/restapi_kvs.c` | connection, list of fragment acknowledgements under a lock | start, update (send a chunk), doWork (receive), read acknowledgement, finish |
| Control plane, same file | none | describe and create stream, get endpoint: one HTTPS request each |
| HTTP helper and parsers, `src/source/net/http_*.c` | none across calls | send a request, receive and parse a response |
| NetIo, `src/source/net/netio.c` | mbedtls contexts, what TLS has decrypted and nobody has read | connect, send, receive, is data available |
| IoT credential provider, `src/source/restful/iot` | none | one HTTPS request |
| SigV4 signer, `src/source/restful/aws_signer_v4.c` | the request being signed | add to the canonical request, sign |
| NALU codec, `src/source/codec` | none | Annex-B to AVCC in place, find NAL units, decode SPS |
| Pool allocator, `src/source/os` | one pool, one lock | init, malloc, realloc, calloc, free, deinit |
| JSON helper, `src/source/misc`; ports, `src/port` | none | conversions; time and sleep |
| Frame ring buffer, `app/frame-ring-buffer` | slots, head and tail, statistics, next serial number, drop policy, one lock | enqueue, dequeue, set policy, get frame by key |
| kvsapp sample, `samples/kvsapp` | capture threads, main thread, signal handler | the loops that use KvsApp |
| WebRTC master, `samples/kvs-with-webrtc` | list of sessions, hash from peer to session, queues of candidates that came early, flags, a lock for all of these and one for the list | callbacks of signaling and of connections, cleanup of sessions, media and video source threads, the end |
| Payloaders, `webrtc-sdk-c/Rtp/Codecs` | none | frame to payloads and back, for four codecs |
| RTP sender, `webrtc-sdk-c/PeerConnection`, `Rtcp` | sequence number, rolling buffer of packets under a lock, `lastIndex` without | write a frame, resend what a NACK asks for |

How they interact. Two capture threads (video, audio) call
`KvsApp_addFrame`; the main thread opens a session, calls `KvsApp_doWork` until
it fails, sends the rest with `DO_WORK_SEND_END_OF_FRAMES`, closes, and opens
again; SIGINT sets a flag all three look at. `KvsApp_addFrame` converts the
frame, makes a stream out of the first key frame's SPS and PPS, makes room in
the stream if the ring buffer policy says so, and links the frame into it.
`KvsApp_doWork` sends the EBML header once per session (dropping everything in
front of the first cluster), receives acknowledgements, and pops and sends
frames while there are any. The application is called back when a frame is to
be sent, was sent, and is given back. The stream's lock is held for one stream
call at a time. The other fields of the KvsApp are shared without a lock, and
`KvsApp_addFrame` and `KvsApp_doWork` do not take its lock. The WebRTC sample
keeps the frames in a frame ring buffer and gives keys to KvsApp and to its
WebRTC senders, which look the frame up when they send it. Its video source
thread converts a frame in place, writes it to every session on the list, and
adds it to KvsApp. Each session's transceiver numbers the packets of the frame,
keeps references to them in a rolling buffer, and another thread takes them out
and reads the frame again when a NACK asks for them. Signaling callbacks make
sessions, connection callbacks mark them, and the main thread of the WebRTC side
takes marked ones off the list, out of the hash, and frees them.

What is hard: two threads between peek and pop, or between measuring and
adding; creating the stream on whichever thread comes first; block timecodes
that are relative to a cluster another insertion or a pop may change; failures
at each call, each with an obligation to give the frame back exactly once;
several sessions over one stream; acknowledgements cut by TLS records; keys,
serial and sequence numbers that wrap; a conversion that moves bytes onto bytes
it has yet to read; sizes counted apart from what they are sizes of; sessions
that end while a frame or a candidate is on its way to them. `PROJECT.json`
lists each hazard at its line.

What makes each right:

- *Stream*: frames leave in the order of their timestamps, each with the
  timecode that fits the cluster it follows.
- *KvsApp*: no frame is lost or given back twice, none waits forever, memory
  stays bounded, what the server receives decodes to what was captured.
- *PUT MEDIA*: acknowledgements are read once, in order, errors are reported.
- *Frame ring buffer*: it drops the oldest and no more than it must, destroys
  every frame once, finds the frame of a key that is still there.
- *NALU codec, payloaders, MKV generator*: what a reader of the output finds is
  what went in.
- *WebRTC master*: nobody gets hold of a session that was freed, candidates are
  handed over once and in order, what has ended is cleaned up.
- *RTP sender*: a packet is found by its number and freed once.

## 2. Modules

| Module | Models | Reads as |
| --- | --- | --- |
| `StreamBuffer` | the list and the timecodes of `stream.c` and `mkv_generator.c` | pure operators: `Inserted` is `Kvs_streamAddDataFrame`, `EarliestAfterPop` the assignment in `prvStreamPop`, `Rebased` the correction pass, `Timecode` the cut to 16 bits |
| `FrameQueue` | abstract: a set of frames of which the first is taken | |
| `Stream` | the stream on its own; one action per locked call; implements `FrameQueue` | |
| `Nalu` | `nalu.c`: recognising a format, searching, the conversion in place | pure operators on bytes; offsets count from 0 as in C |
| `MkvGenerator` | `mkv_generator.c` | pure operators; each template of the code is one of the same name, with its patched fields as parameters |
| `MkvStream` | the stream with what it was made of, its header, and what is sent for a popped frame, tags included; extends `Stream` and `MkvGenerator` | `chunk` is what the last step handed to PUT MEDIA |
| `KvsApp` | `kvsapp.c` with the sample's three threads; extends `StreamBuffer` | `pc` names the point a thread is at; a step ends wherever it matters that another thread may get in |
| `PutMedia` | `Kvs_putMediaDoWork` and `Kvs_putMediaReadFragmentAck` on top of NetIo | bytes are numbered; an acknowledgement is `AckLen` of them; a TLS record is the number its bytes end at |
| `OpenSession` | `KvsApp_open` with its credentials, the four requests and `Http_recvHttpRsp`; the key options and `KvsApp_close` around it | `pc` and `request` say how far the attempt is; pointers to credentials are numbers, a response three parts |
| `DropOldestQueue` | abstract: a bounded queue that drops the oldest until a limit is met | |
| `FrameRingBuffer` | `frame_ring_buffer.c`; implements `DropOldestQueue` | `ring` is `pBuf`, the indices and `xStat`; `prvEnqueue`, `prvDequeue`, `prvApplyPolicy`, `prvFindFrame` are the code's helpers |
| `RtpPayload` | the four payloaders and their counterparts; extends `Nalu` | a payload is its header, its data, and the part of the frame it refers to |
| `VideoSource` | a frame from the file through the conversion to the far side and to KvsApp | `stage` says where the frame is |
| `Rtp` | `writeFrameEx`, `resendPacketOnNack` and the rolling buffer between them; extends `RtpPayload` | `writer` and `resender` say where the two threads are |
| `WebRtcMaster` | `Common.c`, `kvsWebRTCClientMaster.c`, and the threads of `kvs_with_webrtc.c` | `main` is where `webrtc_main` is; a callback, which holds a lock throughout, is one step |
| `StreamBufferProofs` | lemmas on sequences, remainders and the operators of `StreamBuffer`; used by `StreamProofs` and `KvsAppProofs` | |
| `StreamProofs`, `KvsAppProofs`, `FrameRingBufferProofs`, `PutMediaProofs`, `OpenSessionProofs`, `WebRtcMasterProofs`, `RtpProofs` | theorems on the module of that name; `StreamProofs` has those on `MkvStream` too, `RtpProofs` those on `VideoSource`, with which `Rtp` shares the payloaders; its actions are named apart from those of `Rtp` (`SourceInit`, `SourceNext`, `SourceSpec`) | |
| `MC*` | the instances TLC runs on | |

Abstractions. In the stream and in `KvsApp` a frame is an id, a timestamp, a
track, whether it is a cluster, and a length; its bytes are the matter of
`VideoSource`, its header that of `MkvStream`. In `KvsApp` an SPS either can be
used or cannot. A chunk of PUT MEDIA is sent in pieces; when one of them fails,
the server has got nothing of the chunk or a part of it, and what follows a part
is taken for the rest of it. A failure the code checks for may happen at each
call where it is checked. The operators whose names have a suffix
(`Rebased_Nothing`, `SendHeld_NoTerminate`, ...) are not part of the model: each
is a plausible bug in the definition it is named after, and `PROJECT.json`
("mutants") says which property notices it.

Choices a reader should know of:

- In `KvsApp_addFrame` the capture loop's look at `gStopRunning`, getting the
  frame and the comparison with `uEarliestTimestamp` are one step; the frame is
  linked many steps later, which is what makes that comparison stale.
- `setKvsAppOptions` runs when the capture threads are already adding frames
  (`kvsappcli.c:377-381`), so `SetAudioTrackInfo`, `SetPolicy` and `SetMemLimit`
  are steps of the main thread like any other; a frame added before the policy
  is set is added without one.
- How often the application opens a session has no bound: what a session leaves
  behind is finite, and so are frames and streams.
- Behind a chunk that was cut off (`framed` is FALSE) the server reads frames
  with any timestamp (`Reads`). The server may also close the connection; that
  is `NetworkWork` failing.
- In memory that was freed there is anything: `Inspect` reads an arbitrary
  kind and timestamp, and a NULL from `Kvs_streamPop` ends in "crashed".
- Two threads creating the stream race over a plain pointer: `createStream`
  looks, `StoreStream` stores, `StoreTrackPresent` sets the audio flag, and
  each thread then goes on with whatever handle is there.
- `mode` and `handle` are the arguments and locals of the call in progress;
  `captured`, `terminated`, `clock`, `roomy` and `server` of `KvsApp`, `got`,
  `reported`, `enqueued`, `key`, `ring.destroyed`, `arrivals`, `popped`,
  `tracks`, `chunk`, `file`, `received`, `sent`, `packets`, `freed`, `leaked`,
  `unbuffered`, `resent`, `lastIndexThen` and `nacks` are history.
- An MKV text is a sequence of elements and pieces of data, each with its length
  in bytes and, for an element, the size it declares. The code copies templates
  and patches fields at fixed offsets; the model makes the text of the patched
  fields. `uLen` is the length as the code adds it up, which is where text and
  sizes can part. `Kvs_streamCreate` without memory is a stutter. A search in
  AVCC may succeed without a NALU, or give one beyond the frame, which the code
  reads all the same (`mkv_generator.c:817`): `Fault`, with which no stream is
  made.
- Bytes are below `Radix`, 256 in the code; in the runs of `VideoSource` and
  `Rtp` 16, with as much less room for the type of a NALU. A length of `Radix`
  stands for one of 256.
- The callbacks of signaling hold `sampleConfigurationObjLock` from beginning to
  end, and the main thread holds it while it scans: these callbacks are single
  steps that wait for the scan. Those of connections take no lock and set flags.
  An offer that fails anywhere behind
  its session's place on the list, in `handleOffer` or in the hash, is
  `OfferFails`; a connection reports being connected, its end, or any other
  state, which only clears `connected` (`ConnectionUnderWay`). The video source
  holds the list's own lock while it writes a frame, one session per step.
- A packet is its number in the order the packets were put into the rolling
  buffer; packet `n` has index `n - 1` there. `onRtpResend` looks the frame up
  by its key. One that has left the frame ring buffer is not found, or the frame
  that has its slot now is (`frame_ring_buffer.c:437`), and the packet is resent
  and put back all the same: both are outcomes. What is read then are
  `OtherBytes`, as they are when a frame leaves between being found and being
  read.
- The search of the rolling buffer reads `lastIndex`, which has no lock, for the
  first number, for the last and for each index (`RtpRollingBuffer.c:154-169`);
  the model lets these be any values it has had since the size was read, in
  order.
- In a frame that says a NALU goes beyond it, what remains of its length wraps
  below zero and `createPayloadForH264` reads on behind it
  (`RtpH264Payloader.c:124`): `Anything` comes out. Files and frames of the runs
  have none.
- `FrameRingBuffer_getFrame` reads the buffer pointer out of the slot without
  the lock, and reads it again; the model lets the second read find NULL.
- In `OpenSession` the response is parsed the way llhttp does it, which the
  build takes by default: incomplete messages are accepted, and the status is
  that of the last message in the buffer. `Parsed_First` is what
  `http_parser_adapter_default.c` makes of 100-continue and the final response
  in one read: it stops at the first, the final response is discarded, and
  `AnsweredRequestEnds` fails.
- Fetching the IoT token, and copying the endpoint, may fail without an error:
  `KvsApp_open` goes on with the application's keys, or without an endpoint,
  which makes `Kvs_putMediaStart` fail.
- An acknowledgement cut in two is dropped with everything in the buffer behind
  it; reading starts over with the next call. `PutMedia` does just that.

## 3. Runs

| Run | Question | Instance | Result |
| --- | --- | --- | --- |
| `stream` | Does each pending header stay current, is the list the abstract queue, and is what is sent read as what it was made of? | 3 frames, times 0, 1, 5, timecode modulo 4; five ways to describe the video, three the audio, four lists of tags | holds, 30 thousand states |
| `kvsapp_threads` | Is each frame in one place, memory bounded, each session's header first, what is sent decodable, what was peeked still there, in all interleavings? | 3 frames, times 1, 2, timecode modulo 2, both policies, no audio track, 1 stream, any number of sessions | holds, 2.5 million states |
| `kvsapp_sessions` | Does no video frame wait while main works, however streams are created and sessions end? | 2 frames, times 1, 2, timecode modulo 4, 2 streams, any number of sessions, no ring buffer, audio track or none, fair threads | holds, 206 thousand states |
| `frame_ring_buffer` | Is the ring a drop-oldest queue which destroys once and finds what it holds? | 3 of 4 slots, `UINT16_MAX` 9 (serial numbers 0..7), 10 frames, limits 2, 3 and none | holds, 6.9 thousand states |
| `put_media_acks` | Are acknowledgements read once and in order, errors reported, and does a call return? | 3 acknowledgements of 2 bytes, a buffer of 1 byte that grows, 3 calls, fair main thread | holds, 102 thousand states |
| `open_session` | Is each request signed with live credentials, is nothing leaked wherever it fails, and is no answer missed? | 2 calls of `KvsApp_open`, 3 of `KvsApp_setoption` | holds, 678 thousand states |
| `webrtc_master` | Does a message or a frame meet only live sessions, do candidates arrive once and in order, is what has ended cleaned up, and does the program end? | 2 peers, one of which sends 2 candidates, 2 sessions, fair threads | holds, 373 thousand states |
| `video_source` | Is the conversion in place exact, do searches find what there is, and does the far side get the frame? | files of 1 or 2 NALUs of 2 to 4 bytes, every pattern of 0, 1 and another byte; an MTU of 3 | holds, 196 thousand states |
| `rtp` | Do retransmissions find what was asked for, is each packet in one place, and does its number give its index? | frames of 0, 1 and 2 packets, 3 frames, 4 numbers, a buffer for 3, 2 NACKs of up to 2 numbers, without RTX | holds, 3.3 million states |
| `open_returns` | "Propagate the res error" (`http_helper.c`): does `KvsApp_open` return when its connection fails? | 1 call of `KvsApp_open`, 2 of `KvsApp_setoption` | it waits forever |
| `rtp_resent` | "The second part is for putting offset of a frame" (`Rtp.c`): is what is resent what was sent? | as `rtp`, 1 frame, 1 NACK, with and without RTX | a fragment comes with the byte in front of it and without its last |
| `avcc_detect` | "true if it's a Annex-B NALU, or false otherwise" (`nalu.h`) | one NALU of `Radix - 1` or `Radix` bytes | a length of 256 begins like a start code |

Why the bounds are enough. Send order and timecodes are about a frame, the
cluster in front of it and a cluster inserted between: three frames make every
case, and the theorems cover any number; the times 0, 1 and 5 give ties, a
difference in the field's range and one beyond it. Headers differ by the format
the video is described in, one without SPS and PPS and one that a search runs
out of among them, and by the codec of the audio, one with a frequency AAC has
no index for among them; lists of tags are empty, of one, of as many as fit only
without the tag of the end of a fragment, and too long. In `KvsApp` a race needs
one frame of each capture thread and one that is pending already. With one
stream the loser of the race to create it may replace it with NULL, with two by
an empty one. Sessions have no bound. Of times 1 and 2 with a timecode of one
bit, a block that is one before its cluster and one that has its time fit, and
one that is one behind wraps; with more bits `kvsapp_sessions` never wraps.
`MemLimit` 0 makes the policy drop at every opportunity. The ring wraps its
indices after four frames and its serial numbers after eight, and ten frames
wrap both. A buffer of one byte with acknowledgements of two cuts each of them
and grows; three calls leave one between the first and the last. Two calls of
`KvsApp_open` let the second find what any failure of the first left; three
options set both keys and replace one that has been used. In `kvsapp_threads` a
stream may exceed its limit by the frame of each thread, and three frames can
exceed that. Two sessions let the scan move one to the place of another and pass
over it; two peers let one come again after its offer failed, or find no room;
two candidates can overtake each other. NALUs of four bytes hold every pattern
the scans tell apart at each of the offsets they skip to, and need fragments
under an MTU of 3. With four numbers and three slots numbers and slots wrap at
different packets, and a NACK of two numbers may ask for one that has left. RTX
only takes steps away, as sending waits for the writer and the failure of
encryption does not end the loop.

All runs but those of `VideoSource` say `CHECK_DEADLOCK FALSE`: the program ends
(frames, streams, calls are bounded, the application terminates, a crash is
final). The video source reads the next frame forever.

Fairness. `FairSpec` of `KvsApp` has weak fairness of each `AddStep` and of what
main does outside of two calls (`Working`, at other places than "net"): the
operating system runs every thread, and these steps wait for nothing but a lock
held for a bounded time or a send, which has a timeout (`netio.c` sets
`SO_SNDTIMEO`). Not fair are `KvsApp_open`, which need not return
(`open_returns` shows it), and `Kvs_putMediaDoWork`: once the far end has
closed, the socket stays readable, and its loop may receive nothing over and
over. `VideoDrains` therefore takes being in `KvsApp_open` for an end of the
wait, and says nothing of a run that never leaves `Kvs_putMediaDoWork`. Frames
need not come (`KvsApp_addFrame` is not fair) and SIGINT need not. In `PutMedia`
`DoWorkStep` is fair; that records arrive, that the far end closes and that
receiving fails is not. In `OpenSession` `MainStep`, the thread inside
`KvsApp_open`, is fair; that the service answers, that the connection closes,
and what the application does are not. In `WebRtcMaster` the main thread, the
writer and the media thread are fair, and taking a session off the list is
strongly fair: it waits for the list's lock, which the writer gives away after
each frame before it sleeps (`kvs_with_webrtc.c:204`). Peers, connections and
signals are not fair.

## 4. What the properties say, and what they leave out

- `BlocksDecodeExactly` says of a session of which no chunk was cut off, and of
  a block that reaches the server behind the cluster it was popped behind, that
  it is read with its own time exactly if the distance to the cluster fits the
  signed field (-32.768 s to 32.767 s): a longer group of pictures is read with
  another time, and nothing else is. When the application withholds a cluster,
  or sending it fails before anything of it is sent, the blocks after it are
  read relative to an older one; the code does that and no document says
  otherwise. It holds for whatever is the first frame after the EBML header,
  which after a race may be a block.
- `PeekedFrameStays` is about the policy without a ring buffer. Under the ring
  buffer policy the capture threads take frames out too, and the frame that
  `prvStreamFlushToNextCluster` peeked at may have been freed when it is read;
  the model keeps that as an outcome (`fault`, "crashed"). The property tells
  that the race needs the policy, and no more.
- `FrameInOnePlace` takes a stream that was replaced for a place: it tells that
  a frame there is not sent or given back as well, not that it ever is.
- `PendingInSendOrder`: two video frames of one millisecond leave in the
  reverse order of their arrival; send order does not tell them apart.
- `DoWorkReturns` leaves out a connection the far end has closed, on which the
  socket stays readable. The code then has no way out but an error.
- `RingMemoryBounded` is the bound the code keeps with two threads that measure
  first and add later; the option's value alone is exceeded by up to a frame of
  each. It is about streams in which room was found since the limit was set
  (`roomy`): the capture threads run before the options are set, so when the
  policy comes a stream may hold any number of frames already, and only the next
  frame takes them off.
- `AnsweredRequestEnds` asks for no more than that an answer in the socket is
  found. `OpenReturns`, which asks the same of failures, does not hold:
  `Http_recvHttpRsp` leaves its loop on success, on end of file and without
  memory, and a timeout of `NetIo_recv` is none of these.
- `SignedWithLiveCredentials` takes KvsApp's fields as what is right to sign
  with. Setting the secret key without memory for it unsets it and returns 0
  (`kvsapp.c:1141`), which the model does and no property minds.
- A call of `Kvs_putMediaDoWork` clears the acknowledgements of the previous one
  only when data has arrived, where `restapi.h:193` says that it does. The model
  follows the code.
- `VideoDrains` is about the loops of main: a video frame is sent, dropped or
  given back, unless main is in `KvsApp_open` or a call of `Kvs_putMediaDoWork`
  does not return, which it may do at any time and for good. It takes a stream
  that was replaced and a use of freed memory as other ends of a frame's wait.
  That the next session sends the frame depends on the service.
- `ListedSessionsLive` leaves out the end of `webrtc_main`, where sessions are
  freed without the list's lock while the video thread may be writing
  (`Common.c:1027`).
- `NackedFound` leaves out a buffer with one packet, whose first number is its
  last: the code then takes any number for one that has wrapped. It also leaves
  out searches during which a packet was put into the buffer or `lastIndex`
  stored: the size is then older than `lastIndex`, or one read of it older than
  another, and the indices are off by that much.
- `PacketInOnePlace` does not say that a packet is put back where it was.
- `SequenceFollowsIndex` holds up to the first error of sending other than that
  of the network. The rest of the frame then keeps its numbers and is not put
  into the buffer (`Rtp.c:613`), from where numbers and indices differ for good.
- `PacketInOnePlace` counts a packet that was taken out and whose frame had gone
  as leaked: `Retransmitter.c:100` drops the pointer.
- `ChunksReadBack` takes `firstClusterSeen` as it is, a flag for all sessions of
  the process: the first cluster of a later session is sent behind tags.

What the models do because the code does it, against what it says or without
saying, and which no property can therefore hold:

- Frames may descend: `uEarliestTimestamp` is compared long before the frame is
  linked (`kvsapp.c:1446`), so a frame may be sent after a later one
  (`stream.h:102`: "The descending data frame would corrupt MKV data").
- The frames of a stream that lost the race to be stored (`kvsapp.c:660`) are
  not freed (`kvsappcli.c:159` relies on it).
- A chunk is sent in pieces (`restapi_kvs.c:1202-1205`, `1263-1265`). When one
  of them fails, `KvsApp_doWork` returns 0 though a comment says "Propagate the
  res error": `res` is compared at `kvsapp.c:792` and not assigned
  (`kvsapp.h:171`). The next chunk goes out on the same connection, where the
  server takes it for the rest of the one cut off.
- `DO_WORK_SEND_END_OF_FRAMES` leaves video where there is no audio any more
  (`kvsapp.c:769`, against `kvsapp.h:84`).
- An old key finds a newer frame once its slot was used again
  (`frame_ring_buffer.c:437`, against `.h:75`).
- A video track without codec private data is made, leaked and left out of the
  header while `Mkv_initializeHeaders` succeeds (`mkv_generator.c:404`).
- Nine tags and the one for the end of a fragment are ten, which `kvsapp.c:908`
  takes for the limit and `Kvs_dataFrameAddTags` refuses. A header that was
  extended with tags is never freed, nor is the header of the stream when
  `Kvs_streamCreate` cannot make its lock.
- An offer that fails after its session was listed, in `handleOffer` or because
  the hash has no memory, leaves the session on the list and out of the hash
  (`Common.c:1275-1276`); a second offer of the peer gives
  it two, and when the first ends the hash forgets the second.
- A packet that was resent is put back at the number in the NACK, not at the
  index it was taken from (`Retransmitter.c:137`): another place as soon as
  numbers have wrapped or the NACK asked for one that was not there.

## 5. Proofs

`StreamProofs` proves for every set of frame ids, timestamps and lengths and
for every width of the timecode field, from `StreamBufferAssumption` alone
(timestamps and lengths are natural numbers, the modulus is positive):

- `TypeCorrect`: `Spec => []TypeOK`.
- `SendOrder`: `Spec => []PendingInSendOrder`. A frame is inserted at the first
  place in front of which it goes; all in front of that place stay in front.
- `TimecodesStayCurrent`: `Spec => []PendingTimecodesCurrent`. The case that
  matters is a cluster linked in the middle: the headers in front of the first
  cluster depend on the remembered timestamp and are not touched, those behind
  are written again. On a pop the remembered timestamp changes exactly when the
  block at the new head lost its cluster.
- `Refinement`: `Spec => ImplementsQueue`. This needs more than send order:
  that `Pop` returns *the* first frame needs the ids of pending frames to be
  distinct, bounded by the number of arrivals, and the list to be totally
  ranked by the abstract queue's order, which breaks ties by arrival. `Ranked`
  is that strengthening, and is inductive.

`StreamBufferProofs` holds the facts about `InsertAt`, `Tail` and remainders
these rest on, and what inserting and popping do to a list, its timecodes and
the memory it takes, whoever calls them.

The same module carries this over to the composition: a step of `MkvStream` is
one of `Stream` or leaves its variables alone (`MkvImplementsStream`), whatever
tracks and tags there are, so `MkvTimecodesStayCurrent` and
`MkvImplementsQueue` follow.

`PutMediaProofs` proves for every length of an acknowledgement, every number of
them, every size of the receive buffer and every way the far end cuts them into
records, from `PutMediaAssumption` alone:

- `TypeCorrect`: `Spec => []TypeOK`. By itself it is not inductive: that the
  receive step copies a number of bytes the buffer has room for needs that the
  records in the socket end one behind the other, all of them behind what has
  been read (`RecordsInOrder`), and that the buffer is empty between two calls.
- `AcksInOrder`: `Spec => []AcksOnceInOrder`. The strengthening is `Ordered`:
  what was read and what waits in the list, taken together, increase, and all of
  it ends at or before the byte that is parsed next.
- `ErrorsAreReported`: `Spec => []ErrorAckReported`.

`OpenSessionProofs` proves the module's safety invariants for any number of
attempts and of options, from `OpenSessionAssumption` alone:

- `TypeCorrect` and `ConnectionsAreGivenUp`: `[]TypeOK`,
  `[]ConnectionsAccounted`. `Connected` says in which places of the code a
  connection exists; without it the count could fall below zero.
- `CredentialsAreAccounted`: `[]CredentialsAccounted`. The strengthening `Held`
  says that no two credentials share a pointer: a new one is beyond all that
  were given out.
- `SignaturesAreLive`: `[]SignedWithLiveCredentials`. The pointers in
  `xServicePara` dangle after the next attempt has freed the token. `Signing`
  says that they are fresh copies from the moment a request other than that
  for the token may be sent.
- `SessionsAreOverTheirStream`: `[]OpenedOverItsStream`. `OverItsStream` follows
  the status from the service through `answer` and `uHttpStatusCode`; it needs
  that a request starts with no status, so that none is left of the one before.

`FrameRingBufferProofs` proves for every capacity, every `UINT16_MAX` that holds
it, all lengths, limits and keys, from `FrameRingBufferAssumption` alone:

- `TypeCorrect`, `DestroyedOnce`, `KeysFind`: `[]TypeOK`,
  `[]EachFrameDestroyedOnce`, `[]LiveKeyFinds`. The strengthening `Consistent`
  gives frame `n` the slot `(n-1) % uSize` and the serial number
  `(n-1) % uMaxSerialNumber` whatever happened before it; the ring holds the
  last `used` of the frames enqueued, each in its slot, and nothing else, and
  the memory counted is the sum over those. A serial number gives its slot
  because `uMaxSerialNumber` is a multiple of the number of slots, and tells
  frames apart because no more than the capacity are held.
- `Refinement`: `Spec => ImplementsDropOldest`. Dequeuing is `Tail`, putting is
  `Append`, and after `k` rounds of the policy's loop the ring is the suffix
  without the first `k`. That the loop, a recursive function, stops after a
  certain number of rounds is shown by a smallest counterexample.

`KvsAppProofs` proves for any number of frames, streams and sessions, every
timestamp, length and limit, whichever options are set and when, in every
interleaving of the three threads, from `KvsAppAssumption` and
`StreamBufferAssumption` (lengths have a largest, as a `size_t` does; it is what
the memory bound is stated with):

- `TypeCorrect`, `HeaderFirst`, `PeekedStays`, `DecodeExactly`, `OnePlace`,
  `RingBounded`: `[]TypeOK`, `[]HeaderBeforeMedia`, `[]PeekedFrameStays`,
  `[]BlocksDecodeExactly`, `[]FrameInOnePlace`, `[]RingMemoryBounded`.

None of these is inductive as it stands. The strengthening has seven
parts, each used by those after it:

- `Types`: what every variable is.
- `Control`: what each program point implies: which thread has a frame in its
  hand, when main holds one, which handle it uses, that it is inside a session,
  and that the header is behind it.
- `Places`: no frame is in two hands or at two positions, and it was given back
  exactly when it is in no place. A frame's thread, stream and position move by
  few kinds of step: nothing moves, a frame is captured, given back at once,
  linked, flushed by a capture thread, taken by main, given back by main, or
  everything is given back at the end. Each action is shown to be one of these.
- `Undisturbed`: without the ring buffer policy only main takes frames out, so
  that the one it peeked at stays in the list.
- `Times`: pending timecodes are current in every stream; a cluster that is
  remembered, by a stream or by the server, has been popped and does not come
  back, so its number stands for one timestamp wherever it is remembered.
  `DecodeExactly` follows, as a difference survives the cut to the field's width
  and the reading as a signed number exactly if it fits. A step on the
  connection leaves the server as it was, lets it receive the frame, or cuts it
  off (`Outcomes`); from there on the property says nothing, and the clusters
  the server remembers still stand for one timestamp each.
- `Created`: streams that are yet to be stored are empty, and the current one is
  among those that were stored.
- `Room`: a capture thread about to add a frame owes it to the current stream,
  whether it has found room or came there before the policy was set, and so does
  one that still measures a stream which another has replaced (`Owes`). What the
  current stream takes, if room was found in it, and a frame of the largest
  length for each that owes it one (`Debt`), stay within the bound; the bound
  alone could be exceeded by the next insertion. A stream comes under the bound
  when a thread measures it and finds it within the limit, where at most two
  frames are owed. That an insertion adds the length of one frame and a pop
  takes it off (`MemStatTotalOfOneMore`) is shown for the fold that adds up the
  lengths; the recursive function behind it exists by a smallest counterexample.

`WebRtcMasterProofs` proves the safety invariants of `WebRtcMaster` for any
peers, any number of sessions, slots and candidates, from
`WebRtcMasterAssumption` alone:

- `TypeCorrect`, `HashedLive`, `ListedLive`, `KnownDontWait`, `InOrder`:
  `[]TypeOK`, `[]HashedSessionLive`, `[]ListedSessionsLive`,
  `[]KnownPeersDontWait`, `[]CandidatesOnceInOrder`.

The strengthening: `Control` says what the main thread and the scan have in hand
between two steps, a session they have taken off the list above all. `Listing`:
no session is listed twice, so that taking one off leaves no other entry of it;
those listed are live, and the video thread writes to one of them. `LastHashed`:
the hash has the last session of its peer, from which it follows that a
candidate goes to a session whose list ends later than those of all sessions
before. `Queues`: a queue is the only one of its peer, and the peer has no
session. `Order`: candidates ascend in every session, from each session of a
peer to the next, and from all of these to the queue, and none is beyond the
number sent so far.

`RtpProofs` proves the properties of `Rtp` for any frames, any room in the
rolling buffer, any number of sequence numbers that is larger, and any NACKs, in
every interleaving of the writer and the retransmitter, from `RtpAssumption`,
`MtuAssumption` and `NaluAssumption`:

- `TypeCorrect`, `OnePlace`, `FollowsIndex`, `Nacked`: `[]TypeOK`,
  `[]PacketInOnePlace`, `[]SequenceFollowsIndex`, `NackedFound`.

That the payloads of every frame are a list (`PayloadsAreLists`) is proved of
the payloaders, recursive functions on bytes and all. Such a function is a
CHOOSE, of which nothing is known until one is shown to exist. It is built from
the end of the frame to its beginning, as a round of `createPayloadForH264` asks
for nothing that is not behind it (`SameBehind`): the scan for the end of a NALU
does not lead back to its start code, since that ends in a byte 1 and what is
found is two zeros (`NextStartCodeIs`). `UpTo`, the least number that is not
reached, does the work of induction.

The strengthening: `Typed` and `Control` say what the variables hold where the
two threads are. `Places`: a packet is in one slot, in the retransmitter's hand,
freed or leaked, and *every slot that holds a packet is one that an index of the
buffer leads to*; this is what makes the proof go through, since a packet that
is put into the buffer then takes the slot of the one that leaves it, or an
empty one, and none is overwritten. It holds of packets the retransmitter puts
back at another place too. `Sequence`: the packets of a frame that are still to
be written have the numbers of their indices. `Nacked` rests on
`ValidIsInBuffer`: the buffer has fewer indices than there are numbers, so of
those in it the ones before the wrap have the first number or a larger one, the
others the last number or a smaller one, and the comparisons of the code tell
which is meant.

It proves the invariants of `VideoSource` too, for any values of a byte, any
NALUs that H.264 allows, any number of them in a file, any MTU that holds the
header of a fragment and any frames of the other codecs, from
`VideoSourceAssumption`, `MtuAssumption` and `NaluAssumption`:

- `SourceTypeCorrect`, `ConversionIsExact`, `FirstNaluIsFound`,
  `FramesArriveWhole`: `SourceSpec => []X` for `SourceTypeOK`,
  `ConvertedExactly`, `NaluFound` and `FrameArrivesWhole`;
- `AvccIsNotAnnexB`: `[]AvccNotTakenForAnnexB`, the property that `avcc_detect`
  finds violated.

All five are stated under a hypothesis, `NoLengthIsACode`: no NALU is `Radix` to
`2 * Radix - 1` bytes long (256 to 511 in the code). The code does not see to
it, and the hypothesis is no assumption of the model: `avcc_detect` has such a
NALU, and the last theorem says that what it shows is the one way to take AVCC
for Annex-B. The files of `video_source` satisfy it.

The inductive invariant `SourceInv` has two parts, which TLC has checked on the
instance of `video_source`. `BufferInv`: the buffer holds the file in one format
or the other, in which one the place of the frame says as far as it is known,
and *beyond the Annex-B frame there is a byte more for each NALU than the frame
has*: a start code of three bytes becomes a length of four. `PayloadInv`: what
has arrived, and what the far side will make of the payloads under way
(`UnderWay`), is the whole frame; and each of these payloads fits.

The steps rest on lemmas about what the codec makes of bytes. Recursive
functions are again built from the end of the data to its beginning
(`DescendExists`, `ScanExists`), sums and concatenations from a fold whose next
element is picked (`FoldByExists`), and each claim about all positions or all
NALUs is shown by `UpTo` or `DownFrom`.

- `LaidOut` says that a buffer consists of NALUs, each behind its head, and at
  which offsets; both formats are of this form (`AnnexBLaid`, `AvccLaid`).
- `StartCodesAre`: the scan, which passes up to four bytes at a time, finds
  exactly the start codes that were written. It skips none, since what it passes
  are zeros and the byte that ends them; and it finds none in a NALU, since
  H.264 allows neither three zeros nor a start code within, nor a zero at the
  end of one. So it does not stop at four zeros either (`NoZerosAtCode`).
- `AnnexBSearch`, `AvccSearch`: the first NALU of a type is found, and all of
  it.
- `MovedIs`: after the last k NALUs were moved, the buffer holds these behind
  their lengths, and its front is untouched. That no NALU is overwritten before
  it is moved is `AvccBehind`: each has at least the offset it had, as the heads
  before it are no shorter. This needs that the NALU is moved before its length
  is written, which may go where the NALU was.
- `CutDelivers`: the rounds of `createPayloadForH264`, one per NALU, make
  payloads of which the far side makes the NALU behind a start code, a single
  one (`SinglePays`) or fragments (`FragmentsPay`), where the first octet is
  taken apart and put together again (`FirstByteIs`).
- `StapADelivers`, `DescriptorDelivers`: the same of what another sender makes.

Model-checked only:

- liveness: `VideoDrains`, `DoWorkReturns`, `AnsweredRequestEnds` and the
  properties of `WebRtcMaster` under fairness;
- `ChunksReadBack` of `MkvStream`: what is read back is a recursion over the
  text of a chunk.

## 6. Not modelled

- Options other than keys, credentials, policy and audio track info: each sets a
  field. `KvsApp_open` overwrites those for timeouts with defaults; no document
  says when they take effect.
- In the HTTP helper a status line that is cut in two; the JSON parsing of
  answers, which succeeds on a whole body and fails on a part.
- That `KvsApp_terminate` frees the credentials: it does not free the IoT token.
- Of the NALU codec NALUs of one byte or with zeros at the end, which H.264 does
  not have, and what a seventeenth NALU overwrites before it is refused
  (`nalu.c:261`); the resolution in an SPS, which is bits.
- Of the WebRTC sample the viewer's role; statistics and certificates with their
  timers; making the signaling client anew, where `Common.c:1152` frees it under
  the lock its callbacks wait for, which may be a deadlock or not depending on
  the SDK, whose source is not here; a signal before the configuration is known.
- Of the payloaders the pass that only adds up sizes, FU-B and STAP-B; of the
  RTP sender congestion control, statistics, the variant without a shared
  buffer, and libsrtp.
- Pool allocator: a lock around a third-party allocator. `poolAllocatorFree`
  looks at its pointer before it takes the lock.
- SigV4, JSON: formatting, without state.
- `FrameRingBuffer_terminate`, `KvsApp_create`, `KvsApp_terminate` while other
  calls run: the interfaces exclude it, the samples do not do it.
- Third-party libraries, capturers, ports, board samples.

## 7. Plan

Done: 1. stream, abstract queue and proofs; 2. KvsApp with its threads;
3. frame ring buffer and abstract queue; 4. acknowledgements and proofs;
5. opening a session and waiting for responses, and proofs; 6. NALU codec,
payloaders and the video source; 7. RTP sender; 8. WebRTC master; 9. MKV
generator, tags, their composition with the stream, and proofs; proofs of the
frame ring buffer, of `KvsApp`, of the WebRTC master, of the RTP sender, and of
the NALU codec and the payloaders with the video source.

Next, in this order:

10. Proofs: sizes in `MkvGenerator`, and `ChunksReadBack`, where the way of
    `RtpProofs`, from the end of the data to its beginning, reaches.
11. Options and timeouts of a session in `KvsApp` and `OpenSession`.
12. `PoolAllocator`: init, use and deinit from several threads.
