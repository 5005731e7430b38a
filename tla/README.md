# TLA+ verification of rtmp_server

This directory holds a formal model of the RTMP live server in `src/` (C++ on
the State Threads library): TLA+ modules for its parts, TLC configurations that
model-check them on small instances, and proofs checked by TLAPS. All paths
below are relative to the repository, whose own code is in `src/src` and
`src/include`; `objs/st-1.9` is the vendored State Threads library.

- [The system](#the-system)
- [Modules](#modules)
- [Runs](#runs)
- [Bounds](#bounds)
- [Fairness](#fairness)
- [Proofs](#proofs)
- [Disagreements between the code and what it says](#disagreements)
- [What is not modelled](#what-is-not-modelled)
- [Plan](#plan)

## The system

The server accepts RTMP connections. A connection is a publisher, which feeds
one live stream, or a player, which is sent one. Every connection has its own
cooperative thread. A state thread gives up the processor only where it waits:
in `st_read`, `st_write`, `st_writev`, `st_accept` and `st_usleep`. Everything
between two such points is atomic, so a model action is a piece of code from one
waiting point to the next, and all the interleavings of the program are
interleavings of those actions.

| Component | State it keeps | Operations | Talks to |
|---|---|---|---|
| `RssServer`, `RssConnection` (`rss_core_server`, `rss_core_conn`) | the list `conns`, `rss_report_interval_ms` | `accept_client`, `start`, `cycle`, `remove`, `can_report` | creates `RssClient`, is called back by its thread |
| `RssClient`, `RssRtmp` (`rss_core_client`, `rss_core_rtmp`) | position in the session, transaction ids in local variables | `do_cycle`: handshake, connect, identify, then `streaming_play` or `streaming_publish` | `RssProtocol`, `RssSource`, `RssServer` |
| `RssRequest`, the pool of sources | request fields, `RssSource::pool` | `discovery_app`, `get_stream_url`, `find` | used by every session |
| `RssSource`, `RssConsumer` | consumers, three cached messages, a queue per consumer | `on_meta_data`, `on_audio`, `on_video`, `create_consumer`, `enqueue`, `get_packets`, destructors | shared by all threads of a stream |
| `RssSharedPtrMessage` | `shared_count` per payload | `initialize`, `copy`, destructor | shared by caches, queues, batches |
| `RssProtocol`, `RssBuffer`, `RssChunkStream` | buffer, chunk streams, chunk sizes of both directions | `recv_message`, `send_message` and their hooks | `RssSocket` |
| `RssSocket` | timeouts; the process's `errno` | `read`, `read_fully`, `write`, `writev` | State Threads |
| packets, AMF0, `RssStream` | a cursor over one payload; nothing between calls | `decode_packet`, `encode`, `get_size`, `rss_amf0_*` | `RssProtocol`, `RssRtmp`, `RssSource` |
| State Threads (`objs/st-1.9`) | run, I/O and sleep queue, due times, reference counts per descriptor, the kernel's registrations | `st_thread_create`, `st_thread_exit`, `st_usleep`, `st_poll`, the idle thread | runs every thread of the server |
| log, main | none that matters | | |

What is hard here, and therefore what the properties are about:

- **Sharing between threads.** A player is switched out in the middle of sending
  a batch; meanwhile the publisher replaces cached messages, other players join,
  fail and leave, and all of them count references to the same payloads.
- **Reading in pieces.** Chunks of several chunk streams interleave, reads stop
  anywhere, the chunk size changes on the way, timestamps cross the 24 bit escape.
- **Timeouts as a pulse.** The play loop uses a 100 ms read timeout as its clock
  and calls `recv_message` again afterwards; `errno`, which tells a timeout from
  a closed peer, is shared by all threads.
- **Conversations.** The server reads requests in a fixed order and drops the
  rest; clients send ahead, or wait, or fall silent, or close anywhere.
- **Failures in the middle.** A send fails in a batch, a thread cannot be created
  for a connection that is already listed.
- **Bytes.** Lengths and ends of AMF0 values come from the peer and may lie; a
  message may end anywhere; the size of an answer is computed by other code than
  the code that writes it.
- **The scheduler below.** Threads time out while their wait is still queued,
  share descriptors, and leave the timeout heap from any place. Everything the
  other models assume of timeouts and of fairness rests on it.

The hazards, one by one and at their lines, are in `PROJECT.json`.

## Modules

| Module | Models | State and actions |
|---|---|---|
| `RssSharedPtrMessage` | `RssSharedPtrMessage` | Operators on the counted blocks: `initialize`, `copies`, `copyEach`, `destroy`. |
| `Broadcast` | what a live stream promises | A log; viewers who join get a catch-up and then every later message, in order. No queues, batches or caches. |
| `RssSource` | one source with its consumers, and the loops `streaming_publish` and `streaming_play` that drive it | A payload is its position in `stream`, the history of what was published. An object of class `RssSharedPtrMessage` is a payload together with the place that holds it: a cache slot, a queue, a batch, or nothing (`leaked`). Handlers of the source are one action each, because none waits; the play loop has a place `recv` and a place `send`. In `recv` it may be `fed` bytes that complete no message, after which `recv_message` goes on reading. |
| `RssSource_proofs` | proofs about `RssSource`: counting; delivery and the refinement of `Broadcast` | |
| `RssProtocol` | `recv_message` with `RssBuffer` | The wire is a sequence of tokens, one for each group of bytes the code asks the buffer for. `rpc` says which `ensure_buffer_bytes` the reader is in; an action is what happens between two of them. |
| `RssProtocolPeer` | `RssProtocol` against a client | The client (external) writes what the RTMP chunk rules allow. |
| `RssProtocolSend` | `send_message` into `RssProtocol` | The chunks the server writes, read back by its own reader. |
| `RssSocket` | `RssSocket::read` over `st_read`, and the loops above it | `errno` is one variable for all threads; `st_read` and `st_netfd_poll` are modelled from how the server uses them. |
| `RssClient` | `do_cycle` and the services of `RssRtmp` | The thread's program is a sequence `todo` of sends, reads and expectations that grows when the client is identified. Clients of several kinds follow scripts. |
| `RssServer` | `RssServer`, `RssConnection` | The list, the threads, the report clock of each play loop. |
| `RssProtocol_proofs` | that the reader follows whoever writes chunks by the rules | Lemmas only; both of the following build on it. |
| `RssProtocolPeer_proofs`, `RssProtocolSend_proofs` | proofs about the reader with a client, and with `send_message` | |
| `RssClient_proofs`, `RssRequest_proofs`, `StSched_proofs` | proofs about the modules they are named after | |
| `RssServer_proofs` | proofs about `RssServer` and about `RssSocket` | |
| `RssRequest` | `discovery_app`, `get_stream_url`, `RssSource::find` | Texts are sequences of tokens: names and the delimiters the code searches for. |
| `RssStream` | `RssStream` | A cursor: the payload's bytes and how many it has passed. Operators that yield an error code, the stream and a value. |
| `RssAmf0` | `rss_core_amf0` | Readers, writers and sizes of AMF0 values; the property table. |
| `RssPackets` | packets and `RssCommonMessage` | A received packet is its fields in the order they are read; a packet of the server is its size and the guarded writes that encode it. |
| `RssPacketsPeer` | `decode_packet` and the services of `RssRtmp` and `on_meta_data`, against a client | The client (external) writes by the grammar, and what is cut short is cut at any byte; the players (external) read by the grammar. |
| `StSched` | State Threads: `sched.c`, the epoll part of `event.c`, `st_usleep` | Threads with a program of waits. A call up to its context switch is one action, the rest of the call another; a turn of the idle thread is one. The sleep queue is a set, and equal due times are served in any order. |
| `StTimeoutHeap` | the same with the timeout heap | Extends `StSched` by the heap, as the sequence of threads by `heap_index`. |
| `MC_*` | | Constants, messages and workloads for TLC. |

`RssSource` composes source, consumers and both loops; `RssProtocolPeer` and
`RssProtocolSend` compose the protocol with its other end; `RssPacketsPeer`
composes stream, values, packets and services with a client and the players. The
session (`RssClient`) sees packets by their class, not their fields; the server
sees sessions that begin, play and end; all of them see threads that are run
again after they have waited, which is what `StSched` is about. These are the
interfaces at which the modules meet.

A definition that is named for what it gets wrong (`get_packets_clears`,
`required_size_past`, ...) is a faulty variant of the definition below it. No
action uses it; put in the place of the right one, it breaks a property, and so
shows that the property depends on that line of the code.

### How definitions correspond to the code

`PROJECT.json` maps each definition to its lines. The choices that matter:

- *Reference counts.* `shared_count` is modelled as the code keeps it, one less
  than the number of objects. It is not derived from the places that hold
  objects: that the two agree is the property `RefCount`.
- *`on_video`, `on_audio`.* The local object takes the payload, each consumer
  gets a copy, an empty cache slot gets one, and the local object dies: four
  changes of the count in one action, in the order of the code.
- *Publishers.* The source is not told when a publisher begins or ends, and does
  not look into payloads: a message is its kind.
- *The chunk reader.* `chunk->msg` is created before the message header is read,
  and header fields are stored before the extended timestamp has arrived. A
  timeout leaves these half-done changes in place, as in the code.
- *The pointer into the buffer.* `read_basic_header` and `read_message_header`
  keep a pointer into the vector across a call that may grow it, and a growth may
  move it. After such a move (`moved`) a read through the pointer yields the right
  value or another one: the build can do both.
- *Signed bytes and signed timestamps.* `char` and `int32_t` are signed: `Char`
  and `Signed` keep the wrap-around.
- *Bytes.* Payloads are sequences of bytes, and every reader and writer asks
  `require` as the code does. `Radix`, the number of values of a byte, is a
  constant; signed integers wrap at half of it to the power of their width.
  Texts are short and told apart by a number: no property is about wording.
- *Writers.* A writer is the sequence of its guarded writes; `encode` folds them
  over a buffer of `get_size` bytes that nobody has written.
- *Objects.* The property table is the list it is in the code: a name that is set
  again moves to the end. The array count that the code never initialises is any
  of `Counts`.
- *The clock of the scheduler.* Due times are kept relative to `_ST_LAST_CLOCK`,
  which only the idle thread sets; `elapsed` is the time since, `asked` its value
  when `epoll_wait` was called. `epoll_wait` counts whole milliseconds from there.
- *A pollq.* It lives on the stack of the waiting thread. `on_ioq` stays set when
  the wait times out, until the thread runs again and unlinks it, as in the code.
- *`errno`.* It changes in `st_read` (`EAGAIN`), at a timeout (`ETIME`), at the
  end of file (set by `RssSocket::read` itself, and only if it is not `ETIME`),
  and in writes.

## Runs

Passing runs:

| Run | Asks | Answer |
|---|---|---|
| `source` | A publisher, two players, three messages, every interleaving and failure. | `RefCount` and `NoUseAfterFree`: counts are exact, nothing deleted is reachable. `DeliveryInOrder`: every player gets its catch-up and then the stream, each message once, in order, and a prefix of that if it goes. `ImplementsBroadcast`, under the mapping feed = received, batch, queue. `QueuedIsDelivered`, under fairness: what is queued is sent, or the player's connection ends, provided the player stops sending bytes that complete no message. |
| `chunks_in` | Three chunk streams with ids of one, two and three bytes (none above 127), all formats, empty messages, messages of one chunk and of two, plain and extended timestamps, plain deltas, new chunk sizes, refused ones too. | `ReceivedAsSent`, `ChunkSizesAgree`, `CachedMsgIsPartial`. |
| `chunks_out` | What `send_message` writes, with timestamps below, at and above the escape and below 2^31. | It is read back as it was sent, and all of it is (`SentIsReceived`). |
| `server` | Three connection objects that come, play, go and are allocated again, with and without a thread. | `ListedOnce`; `ReportsSpread`, as an action property: clients never report more often than once per base interval together. They may report less often, see [Disagreements](#disagreements). |
| `socket` | Two players and a publisher on one `errno`. | `PlayerEndsWithPeer`: no player is dropped because of a timeout or of another thread's `errno`. `ClosedPublisherEnds`. |
| `session` | Players, two ways to publish, an encrypted handshake, a bad address; noise, silence, closing. | `AnswersMatch`, `MediaKept`, `Served` (no mutual waiting), `UnpublishAnswered`, `SilentIsDropped`. |
| `lookup` | Addresses with and without their parts; two clients that look up, leave, return. | `AddressRead`: what `discovery_app` accepts it takes apart correctly. `SameStreamMeets`. |
| `packets` | Every command the server knows and one it does not, metadata of several shapes (a name twice, nested values, `@setDataFrame`, empty strings), control messages, strings beyond the signed length, bytes that are no AMF0; whole and cut at every byte. | `CursorInside`: no read leaves the payload, no assertion fails. `CommandRead`: a whole message is read as it was meant. `CutIsPrefix`: a cut one is refused or read as the part that arrived. `AnswersExact`: each answer fills the buffer `get_size` measured, no byte unwritten, and follows the grammar. `MetadataRelayed`: players parse what the publisher wrote, with the server's name. |
| `sched` | Main, the listener and up to four connections that sleep and wait, with and without timeouts, on shared descriptors, and end. | `QueuesExact`, `EpollExact` (no registration lost, none left over). `ImplementsSched`: with the heap, all who are due are woken, in the order of their due times, and nobody else; the heap is hidden. `TimedWaitEnds`. |
| `heap` | Six connections on the timeout heap at once, one of which leaves it from any place because its descriptor is ready. | `HeapOrdered`: `heap_delete` repairs the heap downwards and upwards. `ImplementsSched`, for heaps of this size. |

The two runs that end in a violation (`pulse_retry`, `socket_stale_errno`) are listed
under [Disagreements](#disagreements).

`CHECK_DEADLOCK FALSE` stands in the configurations in which publishers, clients
and connections may stop for good and the numbers of messages are bounded.
`packets`, `sched` and `heap` check deadlock: a client may always send again, and the
idle loop always goes on.

## Bounds

| Bound | Value | Why it is enough |
|---|---|---|
| `Consumers` | 2 | One player sends while the other joins, fails or leaves; a third adds no new kind of holder. The proofs hold for any number. |
| `Publishers` | 1 | The source is not told which publisher a message is from, nor when one begins or ends: a second one adds only the order of its own beginning and end. The proofs hold for any number. |
| `MaxMsgs` (source) | 3 | A message of each kind, or two of metadata and one frame: caches fill, are replaced and are shared by two queues. The proofs of the counts hold for any number. |
| `W24`, `W32` | 4, 16 | The widths of timestamp fields, scaled: the values below, at and above the escape, and the sign bit of the 32 bit field, remain distinct. |
| `ChunkSize0`, `Lens` | 1 block; 0 and 2 (in), 0, 1 and 3 (out) | Messages of no block, of several chunks, and of exactly one: incoming ones of 2 blocks after the chunk size has become 2, outgoing ones of 1. |
| `Cids` | 6, 70, 400 | Streams interleave; the three encodings of an id. No byte of 70 and 400 is above 127, see [Disagreements](#disagreements). |
| `MaxMsgs`, `MaxNet` (chunks) | 3, 2 or 3 | A message on each of two streams and a change of chunk size between them. `MaxNet` limits what is in flight when the next chunk starts; reads still split it anywhere. The proofs hold for any number. |
| `MaxNoise` | 2 | An unasked message at every place of the session, twice. The proofs hold for any number. |
| `Medias` | 2 | Media that a publisher sends ahead, read before and after its answers: an order to keep. The proofs hold for any number. |
| `MaxTime`, `ReportInterval` | 8, 2 | Several reports with one to three clients. |
| `MaxData` | 1 | A message read before the close and one that never comes. |
| `Radix` | 20 | Bytes of 20 values: all markers, and one of the texts, fit; strings of 200 characters reach the sign of a two-byte length. |
| `Messages` | about 50, in `MC_RssPackets` | Each class of packet, each kind of value, and each way of the readers to fail. Readers keep no state between messages. |
| workloads | three, in `MC_StTimeoutHeap` | `ComeAndGo`: two connections that make any of the calls on one descriptor, with the listener, and end and are created again. `AllTimed`: four on the heap at once, which has three levels then, and leave it from the root, the middle and the end. `SixTimed`, of the run `heap`: six, the least number at which the last thread of the heap can be due before the parent of a place that becomes free, so that it has to move up. Threads with one program are interchangeable there (`Alike`), which is sound as the run checks safety only. |
| `Longest`, `Millisecond` | 3, 2 (`heap`: 2, 1) | Equal and different due times, a timeout that is not a whole millisecond, and turns of the idle thread before, at and after it. |

`BufferMoves` is FALSE: the runs show what holds while no read moves the vector.
`Pulse` is FALSE in the passing runs, which are about a connection that closes on
a timeout, and TRUE in `pulse_retry`. `BigDeltas` is FALSE: the client
sends an absolute timestamp instead of a delta that would need the extended field,
with which the server would return another timestamp. What these constants leave out
is taken up under [Disagreements](#disagreements).

## Fairness

State Threads runs every thread that is ready, in the order in which they become
ready, and all loops wait in each turn. That timed waits end is itself checked:
`StSched` assumes that the running thread waits or ends at some time (threads are
cooperative), that time passes, and that `epoll_wait` returns at its timeout, and
`TimedWaitEnds` follows. Nothing is assumed of descriptors becoming ready. The
listener is such a thread as long as `st_accept` has to wait in between; a
listener whose `accept` fails at once for ever would not be. The other modules
build on this:

- `RssSource`: weak fairness of each step of a play loop. One `st_read` ends with
  bytes or after 100 ms, one send in success or after the 5 s send timeout
  (`SendFail` is part of the fair action). That the read of the loop as a whole
  ends is *not* assumed, because `recv_message` goes on after a partial chunk and
  after an empty message and every `st_read` starts the 100 ms anew:
  `QueuedIsDelivered` says instead what follows for a player that does not keep
  this up for ever (`<>[]~fed`). Nothing is assumed of publishers or of new
  players.
- `RssSocket`: weak fairness of each thread. It is not assumed that a player
  has messages to send, because a stream may have no publisher.
- `RssClient`: weak fairness of the thread, and of a client that has a request
  to send and neither is silent nor has closed (it may become so at any time).
- `RssProtocolSend`: weak fairness of the writer and of the reader; that bytes
  in flight arrive is TCP's promise. A timeout may happen but is not assumed to.

## Proofs

TLAPS checks these for every value of the constants.

**`RssSource_proofs`** assumes that `Consumers` is finite and `MaxMsgs` a natural
number; publishers and players may be any number.

- `TypeCorrect`: `Spec => []TypeOK`; in particular no `shared_count` is ever
  negative.
- `Inductive`: `Spec => []IInv`.
- `RefCountExact`: `Spec => []RefCount`.
- `NothingDangles`: `Spec => []NoUseAfterFree`.

`RefCount` is not inductive: `destroy` only keeps a count exact if it is applied
once per object. The inductive invariant `IInv` therefore adds

- `PlayPlaces`: where a play loop is determines what its consumer may hold; a
  batch is non-empty exactly while it is being sent, a consumer that is not
  registered has no queue, and only a loop that has ended has leaked anything;
- `OnlyPublished`: held and cached payloads were published, and a slot holds a
  message of its kind, so a payload is in one slot at most;
- `NoDuplicates`: no queue or batch holds two objects of one payload, and a
  queue shares none with the batch, so that a consumer counts once;
- `Counted`: an allocated block counts its holders, a deleted one has none.

With these, each action changes the set of holders of each payload by known
elements, and the count by the same number. The lemmas about `copies`,
`copyEach` and `destroy` say what an operation does to one block; the lemmas on
holders say how the cardinality of the owners changes; the step theorems, one per
action, put the two together.

**Delivery**, in the second half of `RssSource_proofs`, from the same assumptions:

- `DeliveryInductive`: `Spec => []DInv`.
- `DeliveredInOrder`: `Spec => []DeliveryInOrder`.
- `SourceImplementsBroadcast`: `Spec => ImplementsBroadcast`, the refinement.

`DeliveryInOrder` speaks of the log as it was when a player joined, and
`create_consumer` only sees the cache slots of the present. `DInv` adds to `IInv`
that the slots hold the catch-up of the log (`CachesFollowLog`: no frame came
before the cached one, no metadata after it) and that nobody joined in the future.
Under the refinement mapping (feed = received, batch, queue) a publish handler is
`Publish`, `create_consumer` is `Join`, a send that succeeds is `Deliver`, an end
of the play loop is `Leave`, and all else, `get_packets` included, is a stutter:
it moves messages between queue and batch, which the feed cannot tell.

**`RssServer_proofs`** assumes `ReportInterval` positive.

- `Inductive`: `Spec => []IInv` with `TypeOK`, `ListedOnce` and `IntervalCovers`
  (the interval is at least the base interval times the number of listed
  clients: it is recomputed only in `accept_client`, so it may be larger).
- `TypeCorrect`: `Spec => []TypeOK`. `ListIsExact`: `Spec => []ListedOnce`.
- `ReportsAreSpread`: `Spec => ReportsSpread`, the action property, from
  `IntervalCovers`.

**The sockets**, in the second half of `RssServer_proofs`, which extends `RssSocket`
too (hence the prefix of `SocketInit`, `SocketNext` and `SocketSpec`). The constants
are assumed to satisfy `SocketAssumption`: no thread is a player and a publisher
(`identify_client` decides for one of them), and `MaxData` is a natural number.

- `SocketTypeCorrect`: `SocketSpec => []SocketTypeOK`, where `data` cannot go below zero and
  is never more than what the peer has written (`SocketInv`).
- `PlayersEndWithTheirPeer`: `SocketSpec => []PlayerEndsWithPeer`. A loop that waits in
  `st_read` returns either with data, or with the end of its own stream, or with
  `ETIME`, which ends no play loop; a value that another thread
  left in `errno` is looked at only in the second case, and there it can only delay
  the end (the finding of `socket_stale_errno`).

**`RssClient_proofs`** assumes of `Noise` that no step of the session waits for such a
message and that it is no media (`ClientConstants`); a client has any number of them,
of media messages and of the five scripts. The theorems say nothing of a client that
sends messages other than these.

- `TypeCorrect`: `FairSpec => []TypeOK`.
- `AnswersAlwaysMatch`: `FairSpec => []AnswersMatch`.
- `MediaAlwaysKept`: `FairSpec => []MediaKept`.

None of the three is inductive: a response is right because of what was read many
steps before it is sent, and media is not lost because of what the thread has still to
do. The invariant `IInv` relates the two ends by one number: the requests of a client
are numbered by its script, and `u` is the first that the thread has not read.

- `Numbered`: the messages sent are the requests `1 .. made` and the unread ones
  `u .. made`, in order, with noise between them only after the greeting;
- `SentMatch`: responses sent are for requests before `u` of their kind, no two for one;
- `OwedMatch`: a response that comes in `todo` before the next read is for a request
  before `u`, which its local variable names, and which has not been answered;
- `InStep`: the next thing the thread of a FMLE publisher reads is the step for request
  `u` (`Want`), and it has accepted the media before `u`.

`Program` says what of the thread's programs this rests on, and is kept as `todo` gets
shorter: between two reads at most one result is sent, from the variable which the
read before it has set (`Paired`), and the requests of a FMLE publisher are awaited one
after the other (`Chained`). It is shown of each of the five programs from the table of
its steps. `Want` makes `MediaKept` clear: `streaming_publish` is the step for every
request from the first media message on, so `rss_rtmp_expect_message` drops none.
`MediaList` then says which media are among numbered messages, by counting off their
places.

**`RssRequest_proofs`** assumes that the names in an address contain no delimiter
and an app no `://` (`RequestAssumption`; an app may contain `/`).

- `TypeCorrect`: `Spec => []TypeOK`. `AddressesAreRead`: `Spec => []AddressRead`.
  `StreamsMeet`: `Spec => []SameStreamMeets`.

The first part is about texts: `FindFirst` says where `find` cuts a text that is
written as a part without the delimiter, the delimiter, and a rest; `discovery_app`
is then followed through its cuts, with and without a port. The second part is the
pool: `RInv` keeps that sources are numbered as they are made and that a client
has the one at its key, so equal keys meet and different ones do not.

**`StSched_proofs`** assumes finitely many threads and descriptors and that the
listener, main and the idle thread are different threads. Nothing is assumed of
the calls a thread makes (`work` is not even typed).

- `QueuesStayExact`: `Spec => []QueuesExact`.
- `EpollStaysExact`: `Spec => []EpollExact`.

`QueuesExact` is not inductive: what keeps a dead `pollq` off the I/O queue is that
a thread only gets out of `st_poll` by running, and running by leaving the run
queue. `SInv` adds that exactly the current thread runs, that the idle thread runs
only when the run queue is empty, and that a `pollq` is linked from `st_poll` until
dispatch or the rest of `st_poll` unlinks it (`LinkedInPoll`). `EInv` adds the
types of the counters. The hard step is a turn of the idle thread: `Notified` and
the new I/O queue are the two halves of the old one (`Those`, whose elements,
order and length the lemmas give), those who are due leave the sleep queue, and the
count of each descriptor goes down by the number of its waiters that were notified.

What would be an induction over a queue or the log (its last metadata, the k-th
place of a selection) is proved with a least counterexample instead: a non-empty
set of numbers has a least element, a bounded one a greatest (`Least`, `Greatest`).

**The chunk protocol.** `RssProtocol_proofs` shows that the reader keeps its place
in the stream, whoever writes it. The invariant cannot be about the present state
of the sender, which may be many chunks ahead. It says (`Track`) that the tokens in
`buffer` and `net` are a sequence of chunks, each written from a *snapshot* of the
sender (its chunk streams, its chunk size, the number of messages it had completed)
and leading to the next one; that the reader's chunk streams, chunk size and number
of messages are those of the first snapshot; and that the last one is the sender's
present. Inside a chunk, `rpc` says how much of it is in the chunk stream already
(`HeaderPending`, `ExtPending`, `HeaderRead`), since the code stores fields before
the rest of the header has come. `Following` hides the chunks and snapshots.

- `RecvStep`: every step of `recv_message`, in whatever pieces bytes arrive, keeps
  `Following` and returns the next message of the log if it returns one. There is
  one lemma per read: the id bytes (`IdBytes`), the header in each format, the
  extended timestamp, the payload with a new chunk size taking effect.
- `SenderStep`: a chunk appended to what is in flight keeps it.

`RssProtocolPeer_proofs` shows that a client writes such chunks: `TypeCorrect`,
`MessagesAsSent`, `SizesAgree` and `CachedIsPartial` are
`Supported => (Spec /\ []~moved => []P)` for `TypeOK`, `ReceivedAsSent`,
`ChunkSizesAgree` and `CachedMsgIsPartial`. `RssProtocolSend_proofs` shows the same of
`send_message`: `TypeCorrect`, `MessagesAsSent` and `SizesAgree`, under `FairSpec`.
Both hold for any lengths, chunk sizes and interleaving, any number of messages in
flight, and the ids and timestamps that `Supported` admits. In the second one, a message in progress is the only thing the receiver
does not know yet (`Told`), and the receiver refuses nothing, because the server
announces no chunk size below the minimum.

These conditions are restrictions of what the RTMP specification allows, not promises
of the code, and without any one of them the statement is false, as the runs and the
table under [Disagreements](#disagreements) show. `Supported` is about the
connection: reads are not retried after a timeout (`~Pulse`), deltas do not need the
extended field (`~BigDeltas`; for `send_message`, which sends no deltas, timestamps are
below 2^31), and no id has a byte above 127 (`PlainId`). `[]~moved` is about the
behaviour: no read moves the vector while the reader keeps a pointer into it. Whether
a read does is left open in the model (`BufferMoves` may be TRUE in the theorems), so
they cover every connection up to the first such move; `std::vector` moves when it
outgrows its capacity, which it never gives back. The constants of `chunks_in` and
`chunks_out` satisfy `Supported`. The assumptions `PeerConstants` and `SendConstants` say that lengths and sizes are
numbers and that timestamps fit their 32 bits.

Only model-checked:

- liveness (`QueuedIsDelivered`, `Served`, `ClosedPublisherEnds`, `TimedWaitEnds`,
  ...), which is out of this prover's reach;
- what the recursive readers, writers and sizes of AMF0 compute (`packets`), and
  the timeout heap (`HeapOrdered`, `ImplementsSched`), which would need induction
  over data. These are `RECURSIVE` operators, about which the prover cannot reason.

Every other safety property of a passing run is stated by a theorem.

## Disagreements

Two runs check what a comment of the repository says, and TLC shows a
behaviour of the code that differs. `PROJECT.json` quotes the lines.

| Run | The code | What it says |
|---|---|---|
| `pulse_retry` | A timeout inside a chunk header leaves a message of which nothing was received; the retry is refused (`CachedMsgIsPartial`). | "when exists cache msg, means got an partial message" |
| `socket_stale_errno` | An end of file after a timeout is reported as a timeout, for ever, by a player with nothing to send (`ClosedPlayerEnds`). | "a value of 0 means the network connection is closed or end of file is reached" |

The models contain further such behaviours. They have no run of their own; they
appear in the runs named when these are changed as shown, or can be read off the
definitions.

| Where | The code | How to see it |
|---|---|---|
| `rss_core_client.cpp:231` | A send that fails in a batch leaves the messages behind it unfreed. | `SendFail` puts them into `leaked`. |
| `rss_core_source.cpp:232` | The cached sequence header is the first the source ever saw, also after a new publisher. | `on_av`; `CatchUp` of `Broadcast` takes the first message of a kind. |
| `rss_core_amf0.cpp:364` | A string of 2^15 characters or more is taken for an empty one and its characters for what follows. | `packets` without the length in `Readable` breaks `CommandRead`. |
| `rss_core_protocol.cpp:1078` | Data of AMF3 are decoded from their format byte on and refused. | `decode_amf` skips a byte for commands only. |
| `rss_core_source.cpp:124` | `on_meta_data` allocates a buffer that `encode` replaces by its own. | Not in the model; `encode` in `rss_core_protocol.cpp:1395`. |
| `rss_core_amf0.cpp:764` | A null or undefined property leaves its marker in the stream, and what follows is read one byte off: well-formed metadata ("null-type = null-marker") is refused. | `packets` without the markers in `Readable` breaks `CommandRead`. |
| `rss_core_protocol.cpp:850` | A delta with an extended field becomes the absolute timestamp ("the difference between the previous chunk's timestamp and the current chunk's timestamp is sent here"). | `chunks_in` with `BigDeltas = TRUE` breaks `ReceivedAsSent`. |
| `rss_core_protocol.cpp:643` | Id bytes above 127 are added as negative numbers: 262 is read as 6. | `chunks_in` with `Cids = {6, 262}` breaks `ReceivedAsSent`. |
| `rss_core_protocol.cpp:347` | From 2^31 on a timestamp is sent without its extended field. | `chunks_out` with `Times = {9, 15}` breaks `ReceivedAsSent`. |
| `rss_core_server.cpp:177` | After a client has gone the others report as rarely as if it were there, until the next one is accepted ("ensure the report interval is consts"). | `remove` leaves the interval; `IntervalCovers` is no equality. |
| `rss_core_protocol.cpp:287`, `rss_core_buffer.cpp:44` | A player that sends empty messages, or pieces of a message, less than 100 ms apart keeps the play loop in `recv_message`: it is sent nothing while its queue grows. | `source` without the condition `<>[]~fed` breaks `QueuedIsDelivered`. |
| `rss_core_protocol.cpp:850` | The extended timestamp (and the later bytes of an id) are read through a pointer that was taken before the buffer grew. | `chunks_in` with `BufferMoves = TRUE` breaks `ReceivedAsSent`. |
| `rss_core_server.cpp:179` | A connection whose thread cannot be created stays listed: "the cycle thread will remove the client" does not apply to it. | `accept_client` leaves it at `"none"`, where `cycle` is not enabled. |
| `rss_core_rtmp.cpp:745` | After `createStream` only `play` is understood, although a client may "createStream to play or publish by flash". | `identify_play`; the client kind `"flash"`. |
| `rss_core_client.cpp:192` | The play loop never frees a control message. | `unfreed` grows in `streaming_play`. |
| `rss_core_rtmp.cpp:100` | The key of a source leaves out the virtual host ("find stream by vhost/app/stream"). | `get_stream_url`. |

Two more things the models show, for which the repository states no expectation:
the handshake reads through a socket object of its own without the receive
timeout, so `SilentIsDropped` holds from the end of the handshake on only; and
`releaseStream`, `FCPublish` and `FCUnpublish` decode to one packet, so each of
them ends a running publication.

## What is not modelled

- `RssPlayResPacket` and `rss_amf0_read_undefined`: nothing uses them.
- The contents of the handshake; only its order and the plain-text check matter
  to the session.
- Log, main, and setting up the listening socket: no state that changes later.
- Of State Threads: interrupts, mutexes, condition variables, join and keys, which
  the server does not use; re-initialisation after a fork; the event systems
  select, poll and kqueue (the server selects epoll, `rss_core_server.cpp:41`);
  the switching and caching of stacks, which is machine code; waits for several
  descriptors at once, which `st_netfd_poll` never makes. The vendored examples
  and the `md.h` of other platforms are not part of the server.
- Allocation failure, and failures of `epoll_ctl` and `epoll_create`.

## Plan

Done, in this order: source and messages; the chunk reader and writer; server;
socket; session; lookup; proofs of source and server; `RssStream`, AMF0 and the
packets against the grammar; the scheduler and its timeout heap; proofs of delivery,
socket, lookup, scheduler, both directions of the chunk protocol, and the session.

Next, the model:

1. A composition of session and source: publishers and players that go through
   `identify_client` and meet at `find`, with the source's lifetime.
2. `RssProtocol` with the play loop's pulse and sends on the same connection.

Next, the proofs:

1. `RssProtocol` with the retry of the play loop: what does hold of the messages
   returned before the first timeout inside a header.
