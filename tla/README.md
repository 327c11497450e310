# TLA+ models of libquicr

libquicr is a C++ implementation of Media over QUIC Transport (MOQT): a client,
a server (relay) and the transport they share, on top of picoquic. This
directory holds TLA+ modules of its core logic, TLC configurations that check
them on small instances, and TLAPS proofs of the central properties for every
instance. Paths below are relative to the repository.

## 1. The system

Three kinds of threads meet in this code.

* **Application threads** call the MOQT API (`PublishObject`, `SubscribeTrack`,
  ...) and, through it, `Enqueue`, `CreateDataContext`, `DeleteDataContext` and
  `Close` of `PicoQuicTransport`. Most of these hold `state_mutex_`.
* **The picoquic thread** runs the network loop. picoquic calls it back
  (`PqEventCb`) with received bytes, FIN and RESET, and asks it for bytes to send
  on every stream it believes to be active. Between callbacks `PqRunner` takes
  functions other threads have posted (`RunPqFunction`).
* **The notifier thread** (`CbNotifier`) runs what the picoquic thread posts in
  `cbNotifyQueue_`: `OnRecvStream`, `OnRecvDgram`, `OnStreamClosed` and the
  connection events. Control messages are decoded, and track handlers called, on
  this thread.

| Component | State | Operations | What is hard, what makes it correct |
|---|---|---|---|
| Stream transmit, `transport_picoquic.cpp` | data contexts with transmit queue, current stream, object under way, `mark_stream_active`, `tx_reset_wait_discard`; runner queue | `CreateDataContext`, `Enqueue`, `DeleteDataContext`, `Close`, `MarkStreamActive`, `SendStreamBytes`, `StreamActionCheck`, `CheckConnsForCongestion` | parts run without the lock, and picoquic forgets a stream that says it has nothing more: no lost wake-up, no dangling context pointer, objects whole and on their own stream |
| Receive path, `transport_picoquic.cpp`, `transport.cpp` | one bounded queue per stream, notification queue, `checked_once`, binding of a stream to its handler | `OnRecvStreamBytes`, `OnRecvDatagram`, FIN/RESET, `RemoveClosedStreams`, `OnRecvStream`, `OnRecvDgram`, `OnStreamClosed` | two threads on one queue that drops its oldest element; handlers that come and go: in order, nothing lost without a reason, the end last, nothing stuck |
| Objects of a track, `*_track_handler.cpp` | latest ids and status of the publisher, `next_object_id_` and stream buffer of the subscriber | `PublishObject`, `StreamDataRecv`, status changes | ids travel as distances over streams that overtake each other |
| Bytes, `messages.cpp`, `uintvar.h`, `stream_buffer.h` | `current_pos` and the fields read so far | encoding and decoding of headers, objects, extensions, control messages | decoders that resume where a buffer ended |
| Client session, subscribing, `transport.cpp`, `client.cpp` | handlers by request id and by alias, their status, the request counter | `SubscribeTrack`, `UnsubscribeTrack`, `FetchTrack`, `CancelFetchTrack`, updates, and the answers | answers to withdrawn requests, locks given up in the middle, loss of the connection |
| Client session, publishing | tracks by request id, name and data context, announcements, `recv_req_id` | `PublishTrack`, `UnpublishTrack`, the server's requests, the fetches a client serves | requests that cross `UnpublishTrack`, two flows that share the same maps |
| Relay, `server.cpp`, `cmd/examples/server.cpp` | the maps of `qserver_vars`, the server's maps | SUBSCRIBE, PUBLISH, announcements and their ends, from both sides | nine maps that must agree whoever comes or goes: subscribers are served, publishers neither forgotten nor kept for nobody |
| Connection life cycle, `transport_picoquic.cpp`, `transport.cpp`, `client.cpp`, `server.cpp` | `transportStatus_`, `conn_context_`, `connections_`, `status_` | `Start`, packet loop, set-up messages, `Shutdown` | three threads of the client and two of the server; a session ends at any point, and shutting down ends too |
| Queues and cache, `time_queue.h`, `priority_queue.h`, `cache.h`, `tick_service.h` | rings of buckets, an index into them | push, front, pop, advance; insert, get | arithmetic modulo the number of buckets, expiry between front and pop |
| Datagram transmit | `dgram_tx_data`, `mark_dgram_ready` | `EnqueueDatagram`, `SendNextDatagram`, `MarkDgramReady` | front and pop are two steps; a wake-up flag again |
| Names, metrics, C bridge, other examples, tools | counters, or none | | not modelled (section 6) |

`PROJECT.json` lists every component with its status, and every hazard at the
line where it bites.

How they interact: `PublishObject` (application thread) calls `Enqueue`; the
posted `MarkStreamActive` makes picoquic call `SendStreamBytes`. On the other
side `OnRecvStreamBytes` posts `OnRecvStream`, which calls `StreamDataRecv` of
the handler found by the track alias. Handlers enter and leave the maps through
control messages, which arrive over the same receive path and are handled one at
a time by the notifier thread.

## 2. Modules

| Module | Models | Built on |
|---|---|---|
| `TxStream`, `RxStream` | the two directions of the transport | `RxStream` refines `Delivery` |
| `Delivery` | what a receiver is promised of its channels | |
| `TrackObjects` | one track from `PublishObject` to `ObjectReceived` | the network those two modules show |
| `StreamBuffer` | numbers and strings as bytes, and how they are read | |
| `Wire` | messages as bytes | `StreamBuffer` |
| `Subscriber`, `Publisher` | the two halves of a client connection | |
| `Relay` | the server with the example relay | |
| `Connect` | clients and server from `Start` to `Shutdown` | refines `Session` |
| `Session` | what an application is promised of `status_` | |
| `Stores` | datagram queue and object cache over one clock | `TimeQueue`, `Cache` (values and operators) |

`MC...` modules are the roots TLC is run on, and add only what a `.cfg` cannot
say (tuples as constants, a symmetry set). `...Proofs` modules hold theorems.
A definition whose comment begins with "Mutant" is a wrong version of the one that
follows it. `PROJECT.json` says which property each refutes when it takes the
other's place, so that no property holds for lack of content.

### TxStream

The transmit side for the data contexts of one connection. One action per
operation; the callback of picoquic is cut where it does not hold the lock,
because `Enqueue` runs in between:

| Action | Code |
|---|---|
| `CreateDataContext`, `EnqueueHeader`, `EnqueueObject`, `DeleteDataContext` | the API, each atomic under `state_mutex_` |
| `Close` | `PicoQuicTransport::Close`, at any point of a callback: `CloseConnection` calls it on the notifier thread |
| `RunMark`, `RunDelete` | `PqRunner` with `MarkStreamActive`, `DeleteDataContextInternal` |
| `PrepareToSend` | `picoquic_callback_prepare_to_send`, as far as `Front` in discard mode |
| `DiscardStep` | `SendStreamBytes`, the `tx_reset_wait_discard` branch |
| `PopNothing`, `PopReplace`, `PopObject` | `PopFront` and its three outcomes, `StreamActionCheck` in the second |
| `DecideStill`, `ProvideBytes` | `is_still_active`, then `picoquic_provide_stream_data_buffer` |
| `CheckConnsForCongestion`, `PeerClosed`, `Expire` | metrics tick, FIN/RESET of a bidirectional stream, time |

An object is its identity, its stream action, a length in callbacks and the
*epoch* it belongs to, the stretch between two stream headers. `Look` is what
`PriorityQueue::Front` and `PopFront` do, including that a rank whose first
object has expired is dropped whole. picoquic is external: a stream stays active
only when the callback said so, and it gives `ProvideBytes` a buffer, since the code
never asks for more than picoquic has offered.

### RxStream

The receive side. A channel is a stream, or the datagram queue. The buffers of a
channel are numbered as received; the two things their bytes decide, whether a
control message is complete and whether the alias is known, are choices. The
read loop is cut between `Front` (`ReadFront`) and `PopFront` (`Take`, in the
`Work...` actions), where the picoquic thread may push. The first buffer a stream
gives to its handler may end in an exception (`WorkNewThrows`): the stream is no
longer new, `PopFront` is skipped, and the buffer is handed over again with the next
one; `refused` keeps its number. `cause` records why
buffers of a channel may be lost or left behind (`slide`, `notify`, `unknown`,
`removed`, `dead`, `threw`); it is history and no guard reads it. Undefined behaviour, the
use of an erased connection context, may crash or not (`TakeRecv`).

`Delivery` is the abstract specification: each buffer is handed over at most once,
the oldest first, none after the end was reported, and a channel on which nothing
was lost hands over all of them. A receiver may refuse one buffer of a channel, the
first it is given, which then waits on. Under the mapping `Promise` what waits is the queue
together with the buffer that `Front` returned and `PopFront` has not removed yet,
a channel is over once `OnStreamClosed` ran, and it is lossy once it has a cause.

### TrackObjects

`PublishObject` is cut between the switch that reads `publish_status_` and the
rest, since the notifier thread sets that status. The network between the two
handlers is what the other two modules show of it: a stream is in order, streams
overtake each other, a new header cuts what was queued for the stream before,
queued objects may expire.

### StreamBuffer and Wire

The two modules with bytes. `StreamBuffer` has `UintVar` in its four lengths, `Size`
and `Get`, and the reads of the class: a read returns the value and what is left of the
buffer, or `nullopt`. Lengths are cut to `uint32_t` (`Uint32`) where the class does
so. It has no state and no recursion, so that it can be proved about.
In `Wire`, `Encode` builds what `operator<<` and the handlers put
on a stream or in a datagram (`subgroup`, `fetch`, `joining`, `datagram`, `status`,
`control`). A `status` datagram is only decoded, as the tests do: the transport
hands none on yet. `Recv(k)` hands the next k bytes
to the code, whatever k once the first buffer has brought the header, which the code
expects of it, and with every kind of stream; a joining fetch begins a new
object with each buffer, and `torn` records that it gave up one it had read in part. A
decoder is the list of its cases, as
`FetchHeaderCases` is in the code, and its state is that of the message struct,
so that a case that fails for lack of bytes is tried again with the next buffer.
The bodies of control messages are opaque: only their framing is modelled. What a
message is given as its body is the buffer to its end, messages behind it included.

### Subscriber and Publisher

One client connection each. The API is cut where the code gives up
`state_mutex_` or does not take it. `Client::ProcessCtrlMessage` never takes it, so an
answer is cut between the find and what is done through the iterator, SUBSCRIBE_OK
once more between the entry by alias and the status, and a SUBSCRIBE between
`GetPubTrackHandler` and the answer:

| Subscriber | Code |
|---|---|
| `SubscribeTrack`, `FetchTrack`, `CancelFetchTrack`, `UpdateTrackSubscription`, `RequestTrackStatus` | the functions of `transport.cpp`, with what the Send functions put in the message |
| `UnsubscribeTrack`, `UnsubscribeEnd` | `RemoveSubscribeTrack` before and after it takes the lock |
| `Pause`, `Resume`, `RequestNewGroup`, `UpdateEnd` | `subscribe_track_handler.cpp`; the request id is read before, the message is sent after |
| `ProcessCtrlMessage`, then `SubscribeOk` and `SubscribeOkEnd`, `SubscribeError`, `PublishDone`, `FetchOk` or `FetchError` | `Client::ProcessCtrlMessage`: the find, and the cases. When the entry is gone by then the process may end, or go on with the handler the node still names; a node that was used again for another entry is not followed |
| `FetchStreamClosed`, `LateNotify`, `ConnectionLost`, `ConnectionErased` | `OnStreamClosed`, what the notifier still runs for a connection that is gone, the two halves of the clean-up |
| `PeerAnswers`, `PeerEnds` | external: the server |

| Publisher | Code |
|---|---|
| `PublishTrack`, `PublishEnd`, `UnpublishTrack`, `UnpublishEnd` | cut where `SetStatus` is called without the lock |
| `PublishNamespaceOk`, `Ignored`, `PublishOk`, `Subscribe` with `SubscribeEnd`, `SubscribeUpdate`, `Unsubscribe`, `TrackStatus`, `Fetch`, `FetchCancel` | cases of `Client::ProcessCtrlMessage`; all but SUBSCRIBE find a handler and set its status in one step |
| `PublishFetchObject`, `UnbindFetchTrack` | `PublishFetchHandler` as far as the transmit queue, `Bind` and `UnbindFetchTrack` |
| `ConnectionLost`, `ConnectionErased` | the clean-up |
| `PeerSubscribes`, `PeerAnswers`, `PeerCancels`, `PeerUpdates`, `PeerFetches` | external: the server |

The history variables `ghost`, `silent`, `stray` (Subscriber), `unsure`, `unsaid`
(Publisher) record the cases in which the code itself gives a property up; each
is named in the comment of its property. `blank` is the context `operator[]`
brings back for a connection that is gone.

### Relay

`Server::ProcessCtrlMessage` with the callbacks of the example relay. An action
is a message, since all of it runs on the notifier thread: `Subscribe`,
`SubscribeUpdate`, `Unsubscribe`, `PublishOk`, `SubscribeNamespace`,
`UnsubscribeNamespace` from subscribers; `PublishNamespace`,
`PublishNamespaceDone`, `Publish`, `PublishDone`, `SubscribeOk`, `SubscribeError`,
`ObjectReceived` from publishers; `ConnectionLost`. Each is composed of the
operators of the calls it makes, named after them (`SubscribeReceived`,
`UnsubscribeReceived`, `UnsubscribeTrack`, `Pause`, `Resume`). Each map of
`qserver_vars` is a variable (`subs`, `aliasReq`, `active`, `annOn` with
`annTracks`, `pubSubs`, `byReqId`, `nsSubs`, `newGroup`). A map entry that
`operator[]` would create is `Null`, and using one is `crashed`. A publisher announces
the namespace of the tracks or, one of `Wide`, a prefix of it: `SubscribeReceived` and
`PublishNamespace` match prefixes, `UnsubscribeReceived` looks for the namespace
itself. When a connection
ends, `ConnectionStatusChanged` calls `UnsubscribeReceived` once for each of its
requests; the model does so for the set of them in one step, in which the first
request of a track, in the order of the ids (that of `std::map`), finds the
handler and the others do not.

### Connect and Session

`Connect` has the application thread, the packet loop and the notifier of each
client, and packet loop and notifier of the server. `nq` and `snq` are the
`cbNotifyQueue_` of the two sides; set-up messages are lost with the connection.
A callback may run before `Start` has stored the connection handle; `early` records
it. `connections_[conn_id]` makes an entry that is missing (`TouchEntry`,
`ServerTouchEntry`: `UnsubscribeTrack`, and the metrics while the transport has the
connection), `blank` since it has no handle. `Shutdown` is taken by a client that runs
and by one whose start has failed. `SlowStart` lets `StartClient` time out.

`Session` is the abstract specification: the values of `status_` follow each other
in one order and none comes back. The refinement mapping hides everything but
`status_`, which it shows as it is (`seen`), or as `kOvertaken` from the moment a
callback was ahead of `Start`: `Session` promises nothing of such a client.

### Stores, TimeQueue, Cache

`TimeQueue` and `Cache` define the structures as values and their operations as
operators. `Stores` runs them against a clock: `Enqueue`, `DeleteDataContext`,
`MarkDgramReady`, `RunnerSlides` (the runner queue drops one at its limit, recorded in
`slid`), `SendNextDatagram` and `SendPop` (two critical sections of one function;
`overtaken` records a datagram that a more urgent one came before in between),
`TickLoop`, and `InsertObject`, `Lookup`, `ClearObjects` of the cache.

## 3. What the runs check

| Run | Instance | Properties | What it shows |
|---|---|---|---|
| `tx` | 1 context, 2 objects of up to 2 callbacks, 2 priorities, 3 streams, discard mode on, fairness | `WakeupPending`, `OnOneStream`, `ContextAlive`, `Drains` | no lost wake-up, no use of a context that is gone; objects whole, in order, on the stream of their header; what is queued is taken |
| `tx_two` | 2 contexts, one bidirectional, runner queue of 2 that slides | `MarkFlagHonest`, `LinkedAlive` | flags stay honest and links alive across contexts that share the runner queue |
| `rx` | a subgroup stream and the datagram queue, queue of 2, notifications 3, a handler that may throw, connection may close, fairness | `UniNotified`, `NothingAfterClosed`, `Handed`, `Reclaimed` | a notification per buffer, nothing after the end; data is handed over and closed streams are removed |
| `rx_poll` | a fetch stream and the control stream, 3 buffers through queues of 2 | `ClosedAfterData`, `Delivers` | with a channel that is notified below a threshold only, and queues that slide: the end is last, and the whole implements `Delivery` (in order, at most once but for a first buffer the handler broke off, nothing lost without a cause) |
| `track` | 2 groups, 2 subgroups, ids with gaps, updates, expiry, 2 objects per buffer | `IdsAgree`, `PublishedOrder` | delta coding round-trips where it can; order and group survive what ids do not |
| `subscriber` | 2 tracks, one with a joining fetch and one with an absolute filter, 1 fetch, 4 requests, 2 answers under way, connection loss | `MapsAgree`, `OkIsServed`, `NoOrphan` | replies cut at the find, updates and unsubscribes in every order leave client and server agreed, but for named exceptions |
| `publisher` | 3 tracks (2 announced, 1 offered), 2 own requests, 1 of the server, 2 messages under way, connection loss | `StatusAgrees` (`HeldIsKnown`, `UsableIsHeld`), `EndIsTold`, `ContextHeld`, `NamespaceFound`, `HeaderFirst` | a status that allows publishing means a subscriber, and the other way round; ends are told; contexts are not mixed up; the queue gets the header of a fetch first |
| `relay` | 1 track, 2 subscribers, 2 publishers, one of which announces a prefix, 2 requests each, 2 upstream handlers, 2 lost connections, symmetry of subscribers | `NoNull`, `SubscribersCurrent` (`GoneForgotten`, `NamespaceThere`), `UpstreamFollows` (`UpstreamAsked`, `UpstreamNeeded`, `PausedIffUnused`), `NoOrphan`, `StatusFound`, `SubscriberServed` | who is asked upstream follows who is subscribed downstream, who is served |
| `wire` | all six kinds, five header types, ids of one, two and four bytes, 2 objects, every cut of every kind | `DecodedIsSent`, `OneForEach` | what comes out is what went in, but for a joining fetch that lost an object read in part |
| `stores` | rings of 4 and 2 buckets, the second of 2 ticks each, ttls of 1 and of the whole duration, 2 keys in any order, 3 datagrams and 3 insertions over 5 ticks | `EntryKept`, `SentOnce`, `DgramWakeup`, `CacheNotEarly` | the rings wrap; no value is lost early, no datagram is forgotten, or sent twice unless it was overtaken |
| `connect` | 1 client and the server, a start that may time out and may be overtaken, fairness | `ReadyAgreed`, `NoZombie`, `PendingAsked`, `Implements`, `Stops`, `Connects` | both sides agree on a session, which implements `Session`; set-up and shutdown end |
| `rx_expiry` (refuted) | 1 stream of an unknown track | `UnknownExpires` | the expiry of an unknown stream is cleared where it is set; the finding in `PROJECT.json` quotes the comment |

The runs keep the properties that say most. `TypeOK` of each module,
and `InOrder` and `Accounted`, which `Delivers` implies, hold on the same instances and
can be added to the configurations; they are proved (section 5), `TypeOK` of `Wire`
excepted.

**Bounds**, and why they suffice. `Max...` constants cap counters that only grow.
Two objects on three streams let a header replace the stream of a half-written
object while another is queued, of the same priority or of an earlier one; `MaxStream` also guards the action that replaces a
stream, and is large enough in `tx` never to bind. Queue limits of 2 and 3 stand
for 2000 and more: what matters is one below, at and above the limit.
`LoopMax` is 4, the smallest for which the code's `kReadLoopMaxPerStream - 4` is
not negative, and `NotifyBelow` is 2 for the code's 10. Four request ids let a
track be subscribed, dropped and subscribed again while an update and a fetch are
outstanding. Two subscribers make one of them the last to leave; two publishers
make one of them the other one that still announces; two handlers per track and publisher
let the second be made after the first ended. Five ticks take a ring of four
buckets once round and to its start again; ids 64 and 16384 are the first that take two
and four bytes, and `UintVarRead` covers the others. Symmetry in `relay` is sound: no
property there is temporal, and nothing orders subscribers. In `wire` and
`stores`, and wherever the bounds end a behaviour, deadlock is not checked; it
is checked in `RxStream`, where `Quiet` describes the only states in which the
system may rest.

**Assumptions on users**, made by constants of the instance, and hypotheses of the
theorems that need them: `OneSub` (a connection subscribes to a track once), `Mixed`
(a connection either announces a track or PUBLISHes it), `Overlap` (one application
thread at a time), `Again` (a handler is not subscribed while it is subscribed),
`MixedRanks` (objects between two headers have one priority). Section 4 says what
happens without each. What the library's own timing decides is assumed nowhere: where
a property has to except an interleaving, the formula names it.

**Fairness.** `tx`: the runner queue is served, since `RunPqFunction` wakes the
network thread, and picoquic calls back for active streams. `rx`: the notifier
thread runs while its queue is not empty, and `RemoveClosedStreams` is called from
the loop every `kMetricsIntervalUs`. `connect`: the loops of both sides run
(`PacketLoop`, `Notifier`, `ServerNotified`), waits with a timeout end (`Waits`),
QUIC delivers or ends a connection (`Accept`, `RecvHello`; `Ends`: a handshake
ends one way or the other, and so does a connection the server has dropped). All of it is weak fairness; nothing is assumed of
applications or of what the peer chooses to send. The liveness properties name
their exceptions in the formula (discard mode, a slid queue, an unknown handler or one
that threw, a callback ahead of `Start`),
because the code has no retry for them.

## 4. Statements that do not hold

These definitions state what a comment, a name or the purpose of the code
suggests. TLC refutes each within seconds to a few minutes when it is added to
the configuration of the module, changed as the second column says. They mark
the edge of what the passing runs claim.

| Definition | Change | Where | What happens |
|---|---|---|---|
| `DiscardDrops` | | `transport_picoquic.cpp:1235` | in discard mode the object in front is counted as discarded and then sent on the old stream |
| `FinWhole` | | `transport_picoquic.cpp:1051` | deleting a context sends FIN in the middle of an object |
| `NeverStalls` | | `transport_picoquic.cpp:1273` | after an expired object the rest of the queue waits for the next `Enqueue` |
| `NotClosedUnder` | | `transport_picoquic.cpp:782` | `Close`, which `CloseConnection` calls on the notifier thread, erases the context `SendStreamBytes` is using |
| `EpochPure` | `MixedRanks` TRUE, `Rank` {1, 2} | `priority_queue.h:163` | with a more urgent object than its header, it is served before the header and goes to the stream before; with a less urgent one, the next header is served first and the object goes to the stream after (the priority is the object's own, `publish_track_handler.cpp:223`) |
| `ClosedGrace` | | `transport_picoquic.cpp:1545` | a stream is removed, unread, by the first check after it closed |
| `HandlerAlive` | | `transport.cpp:1742` | `OnStreamClosed` dereferences a handler that is gone |
| `PostedAlive` | | `transport_picoquic.cpp:1486` | a posted function reads an erased connection context |
| `DataProcessed` | `Ctrl` {c1} alone, `QueueLimit` 8, `NotifyLimit` 9, `MaxBuf` 7 | `transport_picoquic.cpp:1485` | a backlog above the threshold is not notified again |
| `AllReceived` | | `subscribe_track_handler.cpp:61` | the second object a buffer completes is not reported |
| `IdsSame` | | `publish_track_handler.cpp:170` | a subgroup that does not start at 0, or whose stream an update opens in mid-group, is received with wrong ids |
| `PauseRespected` | | `publish_track_handler.cpp:150` | `PublishObject` overwrites a pause that arrived meanwhile |
| `DoneStays` | | `client.cpp:819` | FETCH_OK makes a fetch that has ended `kOk` again |
| `NoOrphan` (Subscriber) | `Overlap` TRUE | `transport.h:465` | `Pause` of one thread and `SubscribeTrack` of another read the same request id; the error that answers the update then erases the new subscription, which the server goes on to serve |
| `MapsAgree`, `OkIsServed` | `Again` TRUE | `transport.cpp:991` | a handler that is subscribed again takes a new request id, and its old entry stays in the map |
| `NoNull` | `OneSub` FALSE | `cmd/examples/server.cpp:600` | after two SUBSCRIBEs and one UNSUBSCRIBE an announcement meets a null handler |
| `NoNull` | `Mixed` TRUE | `cmd/examples/server.cpp:948` | PUBLISH_DONE erases the entry that an announcement's handler shares |
| `NoFailure` | `HeaderTypes` {18} | `subscribe_track_handler.cpp:82` | a subgroup id taken from the first object is read before it is set |
| `AnyCutDecoded` | | `joining_fetch_handler.cpp:29` | a joining fetch begins a new object with every buffer: of one that was cut after its first field, the rest is taken for another object |
| `ReencodeSame` | | `messages.cpp:188` | immutable extensions are added to those that were received |
| `RangeExclusive` | `CacheKeys` {1, 2, 3} | `cache.h:104` | a range includes its end, and more when the end key is absent |
| `PushPopOrder` | `Ttls` {4} | `time_queue.h:350` | a ttl as long as the duration, which the transport and the example relay use (`transport.cpp:279` with `quic_transport.h:94`, `cmd/examples/server.cpp:874` with 1011), puts a value in the bucket behind the current one; it is cleared, and filled again, before the entry expires, which then leads to the newcomer: out of the order that `time_queue.h:43` promises |
| `CacheNotLate` | | `cache.h:150` | with an interval longer than a tick, as all caches of the repository have, lookups more frequent than the interval keep an entry alive |
| `NoWildWrite` | | `transport_picoquic.cpp:1746` | the function `StartClient` posted writes to its variables after the timeout |

Other interleavings happen in the passing runs, and a property excepts them by name
because the code gives it up there. A history variable, or a constant, marks each:

| Marked by | In | Where | What the code does then |
|---|---|---|---|
| `slid` | `MarkFlagHonest`, `WakeupPending`, `Drains`, `DgramWakeup` | `transport_picoquic.cpp:2035` | the runner queue drops its oldest function, a wake-up among them, while the flag stays up: nothing wakes that context, or the datagrams, any more |
| `cause`, `threw` | `UniNotified`, `ClosedAfterData`, `Handed`, `Delivers` | `transport.cpp:1709` | an exception out of the first `StreamDataRecv` (`subscribe_track_handler.cpp:82`, `messages.cpp:230`) skips `PopFront`: the buffer waits without a notification and is handed over a second time with the next one |
| `stray` | `MapsAgree` | `client.cpp:408` | SUBSCRIBE_OK enters an alias, through an invalid iterator, for a request `UnsubscribeTrack` has erased since the find |
| `ghost` | `OkIsServed` | `client.cpp:413`, `subscribe_track_handler.cpp:190` | SUBSCRIBE_OK sets `kOk` inside or after `UnsubscribeTrack`; `Resume` sets it on a handler whose SUBSCRIBE was never answered |
| `silent` | `NoOrphan` (Subscriber) | `transport.cpp:1114` | a subscription is dropped in a status for which no UNSUBSCRIBE is sent |
| `unsaid` | `EndIsTold`, `StatusAgrees` | `client.cpp:274`, `transport.cpp:1165` | a SUBSCRIBE that has found its handler is accepted while `UnpublishTrack` runs, or after it; or a track is unpublished in a status for which no PUBLISH_DONE is sent |
| `unsure` | `StatusAgrees` | `client.cpp:484`, `transport.cpp:1152` | a track takes over the status of another of its namespace, or of a request that had ended |
| `Wide` | `UpstreamFollows` | `cmd/examples/server.cpp:766` | a track is asked of a publisher that announced a prefix of its namespace (`HasSamePrefix`, 913 and 586), and never let go, since the end looks for the namespace itself |
| `torn` | `DecodedIsSent`, `OneForEach` | `joining_fetch_handler.cpp:29` | see `AnyCutDecoded` |
| `overtaken` | `SentOnce` | `transport_picoquic.cpp:1086` | a datagram of a more urgent track comes between `Front` and `Pop`: it is popped unsent, and the one that was sent is sent again |
| `early` | `PendingAsked`, `NoZombie`, `Implements`, `Connects` | `transport.cpp:163` | a callback runs before `Start` has stored the handle: CLIENT_SETUP is lost and `Start` puts the status back to `kConnecting`, or the entry of a connection that has ended is made after its end |
| `blank` | `NoZombie` | `transport.cpp:1055`, `1927`, `1944` | `connections_[conn_id]` makes an entry without a handle after the end of the connection was handled, and nothing removes it |
| `tstatus` | `Stops` | `transport_picoquic.cpp:315` | a connection that becomes ready writes `kReady` over `kShuttingDown`: the packet loop runs on and the destructor waits for it |

Three more limits of what the properties say. A lost publisher's entries of
`announce_active`, `pub_subscribes` and `pub_subscribes_by_req_id` stay, as
`ConnectionStatusChanged` (`cmd/examples/server.cpp:615`) removes only what it holds as
a subscriber: `SubscribersCurrent` counts such a namespace as announced. The header
of a fetch is first in the transmit queue (`HeaderFirst`), where it may expire, or be
overtaken by an object of another priority, before it is sent
(`publish_fetch_handler.cpp:47`). And a length of 2^32 or more is cut to `uint32_t`
between the test and the read of `StreamBuffer`, so that fewer bytes are taken than
were announced.

## 5. What is proved

For all values of the constants, from the named assumptions in the modules; a
hypothesis a theorem adds to them is named below, and section 4 has the
counterexample without it. Every safety property of every passing run is a theorem,
except the two of `Wire`. Each proof has the same form: a strengthened invariant
holds initially, every action keeps it, it implies the property. The
strengthening is what the code relies on without saying so.

**TxStreamProofs** (ranks are naturals, limits positive). `TypeCorrect`,
`MarkFlagCorrect`, `WakeupCorrect`, `LinkCorrect`: `Spec => []P` for `TypeOK`,
`MarkFlagHonest`, `WakeupPending`, `LinkedAlive`. The inductive invariant `IInv`
adds

* `LinkInv`: a context and its current stream point to each other, streams not
  yet created are free. Without it, a reused or replaced stream could belong to
  two contexts and waking one would not wake the other.
* `CallbackInv`: what a callback in progress relies on; above all, once it has
  decided that nothing is left (`still` false), the queue is empty or an
  `Enqueue` since then has raised the flag. This is the heart of the argument: the
  flag is honest, so a post is queued, so the wake-up is not lost.

`AliveCorrect` (`ContextAlive`) follows from `CallbackInv`: while the connection is
open, the context a callback works on is alive and linked to its stream, although
other threads delete contexts meanwhile. `OneStreamCorrect`
(`OnOneStream`) needs `~MixedRanks`; its invariant `WireInv` says of every context
that what is written on its stream, the object under way and the queue are of
ascending epochs and identities, with a header where an epoch begins, and of a
stream that it is the current one of one context only.

**RxStreamProofs** (limits positive, `LoopMax >= 4`). `TypeCorrect`,
`OrderCorrect`, `AccountCorrect` for `TypeOK`, `InOrder`, `Accounted`. The
inductive invariant `RxInv` adds

* `QueueInv`: the queue of a channel ascends and is ahead of everything
  delivered. It makes order inductive although elements disappear from the front.
* `WorkInv`: the buffer taken by `Front` is ahead of what was delivered and not
  behind the front of the queue; if nothing slid, it *is* the front. So `PopFront`
  removes that buffer, or, after a slide, one that was never handed over, and no
  buffer is taken out twice.
* `CountInv`: `Accounted` by positions, so that `Append` and `Tail` can be
  followed without concatenation; `CountedConcat` turns it back.

Three more concern the end of a stream. `ClosedIsLast` is the action property
`NothingAfterClosed`, from `EndInv`: in the notification queue the end of a stream
comes after all of its data, and once it was run no data is left there or in
the callback. `NotifiedCorrect` (`UniNotified`) counts the positions of a stream's
notifications (`NotifiedInv`), which a slide, a `Front` and a removal change by
at most one; `UnboundInv` accounts for streams that found no handler.
`AfterDataCorrect` (`ClosedAfterData`) follows from the three: when the end is
run, no notification is left, so nothing is queued, so all was delivered.

`DeliveryCorrect` is the refinement `Spec => Delivers`, without a hypothesis. Initial
states map to initial states; each action changes what waits on one channel as
`Arrive`, `HandOver`, `End` or `Lose` do, or leaves all of it. `RxInv` is what makes
it go through: that the buffer at hand is the least of those that wait (`WorkInv`,
`QueueInv`) turns the delivery of a buffer into `HandOver` even after a slide, when
`PopFront` removes another one than was delivered; and `EndInv`, that nothing is read
once the end was reported. `FreshInv` adds that a new stream has handed over nothing,
so that the buffer a handler refuses is the first it is given.

**TrackObjectsProofs** (ids are naturals). `TypeCorrect`, `OrderCorrect`
(`PublishedOrder`) and `IdsCorrect` (`IdsAgree`). The invariant `OrderInv` says that
objects on the wire are numbered upwards within and across streams (`Numbered`,
`Below`), each on a stream of its own group (`OwnGroup`), that the buffer of the
subscriber is the end of what it got (`Window`), and that all that may still be
given to the application comes after what was given (`Ahead`); `CallInv` carries
over what `PublishObject` found out before its status was changed. `IdInv` adds
that a distance on the wire is the one to the object published before (`Linked`)
and that the subscriber adds to the object it was given last (`Follows`).

The last section is about the bytes that ids, distances and lengths travel as
(`StreamBuffer`). `UintVarRead`: a number below 2^62 that the constructor of `UintVar`
encoded is read back as it was, in each of its lengths, and whatever is behind it is
left. `UintVarWaits`: of one that was cut nothing is read. `BytesRead` and `BytesWait`
say the same of a string behind its length (`PushLengthBytes`, `DecodeBytes`). The
argument is positional: `Digits` and `Halves` take a number apart into its bytes,
`EncodesIs` adds them up again and finds that `Size` of the first byte is the number
of bytes put down, `TakenApart` cuts a buffer where it was joined. These are the steps
each decoder of `Wire` is made of.

**SubscriberProofs** (the sets of handlers are disjoint, `None` is no id).
`TypeCorrect`, `MapsAlwaysAgree`, `NoOrphans` and `OkServedCorrect`
for `TypeOK`, `MapsAgree`, `NoOrphan`, `OkIsServed`; all but the first under `~Again`,
and `NoOrphans` also under `~Overlap`, while the others hold however many threads use
the connection. The inductive invariants consist of
`TypeOK`, `CallOf` and `ReplyOf` (a call, or an answer, under way has a handler and a
request id), and

* `MapsInv`: `MapsAgree`, and that ids not given out are in no map and no two
  handlers hold the same one. A reply that finds a handler by request id would
  otherwise clear the alias of another.
* `IdsInv`: a call that has read the request counter finds it unchanged when it moves
  it on. This is where `~Overlap` enters.
* `HeldInv`: a request the server serves and the client has forgotten was
  forgotten in a status for which no UNSUBSCRIBE is sent; a refused one is not
  served; between the halves of `UnsubscribeTrack` the request is already over,
  or already among those.
* `OkInv`, for `OkIsServed`: a SUBSCRIBE_OK under way is for a request the server
  holds, or has its PUBLISH_DONE behind it, or meets a client that is giving it up;
  `FoundInv` says the same of the answer the notifier thread is handling, whose entry
  may have been erased since the find.

**PublisherProofs** (announced tracks are tracks, ids are naturals). `TypeCorrect`,
`ContextCorrect`, `FoundCorrect`, `ToldCorrect`, `StatusCorrect` for `TypeOK`,
`ContextHeld`, `NamespaceFound`, `EndIsTold`, `StatusAgrees`. They come from one
invariant, `PubInv`, because the four maps are only right together: the two flows
use disjoint request ids (`Requests`, `Handlers`), every map leads to the track of
the request (`Maps`), a message under way still says something true of its request
(`Messages`: an acceptance that was taken back has its UNSUBSCRIBE behind it),
requests of a track that is gone were told or are recorded as not told (`Told`),
an unanswered announcement leads to a published track (`Found`), `Calling`
says what a call that gave up the lock may count on when it takes it again, and
`Offered` what the SUBSCRIBE at hand may of the handler it has found.

`HeaderCorrect` (`HeaderFirst`) has an invariant of its own, `HeaderInv`: a FETCH under
way is the only one of its request, whose handler is untouched (`AskedOnce`), and while
the connection is open a handler whose stream has nothing on it will send the header
(`Headed`). The flag may be up with nothing sent once the connection is gone, where
nothing goes out any more.

**RelayProofs** (tracks and publishers are finite sets). `TypeCorrect`
unconditionally. `NullCorrect`, `StaleCorrect`, `FollowsCorrect`, `OrphanCorrect`,
`StatusCorrect` for `NoNull`, `SubscribersCurrent`, `UpstreamFollows`, `NoOrphan`,
`StatusFound`, and `ServedCorrect` for `SubscriberServed`, under `OneSub` and `~Mixed`,
for any number of connections and tracks. The invariant `RelayInv` says how the maps hang together:

* `SubsInv`: `subscribe_active` and `subscribe_alias_req_id` hold the same requests,
  one for each connection and track, exactly they have a handler in `subscribes`,
  and all are of open connections. With two requests for one track the first
  UNSUBSCRIBE would break it, which is why `OneSub` is needed.
* `EntriesInv`: a track is among those asked of an announcement while it has
  subscribers and, if the announcement is of its own namespace, only then; an entry of `pub_subscribes` is of such a track or of a
  PUBLISH, never of both (here `~Mixed` enters) and never null.
* `HandlersInv`: the handler an entry leads to is in the state that publisher and
  subscribers imply, and no other one is wanted. `Forgets` and `Asks` say what
  `UnsubscribeReceived` and `SubscribeReceived` come down to on such maps.
* `ServedInv`, on top of the three: the server's `recv_req_id` and the relay's
  `subscribe_alias_req_id` hold the same requests, so an UNSUBSCRIBE reaches the
  handler of its own request only.

**StoresProofs** (intervals and numbers of buckets positive). The lemmas are about
the operations on values, for any ring: what `Advance`, `Push`, `Front`, `Pop`,
`Insert` leave. All theorems hold for every interval and number of buckets, times to
live up to the duration and keys in any order.

* `WakeupCorrect` (`DgramWakeup`): the flag stands for a posted function, unless one
  was dropped.
* `KeptCorrect` (`EntryKept`): an entry with two intervals to go is in a bucket ahead of
  the current one that was not cleared since, and a bucket is only ever added to
  between two clearings, so its value is where it was put.
* `SentCorrect` (`SentOnce`): within one key, what was sent, what is being sent and what
  is queued are in ascending order (`SentInOrder`), where a datagram that was sent may
  still be queued only if it was overtaken: otherwise what `Pop` removes is what
  `Front` returned, or that one has expired.
* `NotEarlyCorrect` (`CacheNotEarly`): `KeysEnd` says how far ahead of the current bucket
  a key's bucket is, in whole intervals.

**ConnectProofs** (no assumption but a Boolean constant). `TypeCorrect`,
`ReadyIsAgreed`, `PendingIsAsked`, `NoZombies` (`TypeOK`, `ReadyAgreed`,
`PendingAsked`, `NoZombie`) and `Refinement` (`Spec => Implements`), unconditionally
and for any set of clients:
initial states map to initial states and a step changes what is seen of one client
along `Session` or not at all. The invariant `IInv` describes a client
(`ClientInv`: what the order of its notification queue implies for `status`, the
entry and the two set-up messages, as long as no callback was early), a stopped client
(`StoppedInv`) and the
server's view of it (`ServerInv`). It is needed because a step's effect on `status`
depends on what was queued several steps before: that "kReady" comes first,
SERVER_SETUP after CLIENT_SETUP, and the end of a connection once.

**Only model-checked**, and why. Liveness (`Drains`, `Handed`, `Reclaimed`,
`Stops`, `Connects`) needs fairness and ENABLED. `DecodedIsSent` and `OneForEach`
of `Wire` say what recursive definitions compute from sequences of bytes of any
length, which needs induction over data; the reads they are composed of are proved
(`UintVarRead` and the other three).

## 6. What is not modelled, and what is left

* Bodies of control messages: `ctrl_message_types.cpp` is generated from the draft,
  a list of fields read one after the other.
* The namespace subscriptions of a client, the PUBLISH a client receives as a
  subscriber, and the messages that are only handed to the application: their
  state is one map entry per request, of the kind `Subscriber` has.
* The server side of fetch: the example relay leaves those callbacks empty, so a
  FETCH it gets has no answer to check; the machinery is that of a client that
  serves a fetch (`Publisher`).
* `ForwardPublishedData`, which passes bytes on unread.
* Names and hashes (a name is a value, without collisions), logging, metrics
  (except congestion as a choice), the layout of `DataStorage`.
* The C bridge, the other examples, tools, benchmarks and fuzzers, which use the
  library and keep no protocol state of their own.
* A stream header split over two buffers, the control decoder after lost bytes,
  and bit-field races on the flags of a data context.

Left for later: a composition of `Subscriber` and `Relay` over an ordered channel.
