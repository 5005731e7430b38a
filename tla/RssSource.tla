----------------------------- MODULE RssSource -----------------------------
(***************************************************************************)
(* One live stream: the RssSource of rss_core_source.cpp, its RssConsumers *)
(* and the two loops of rss_core_client.cpp that drive it,                 *)
(* streaming_publish and streaming_play.                                   *)
(*                                                                         *)
(* The server runs one cooperative (State Threads) thread per connection.  *)
(* A thread loses the processor only in st_usleep, in a read and in a      *)
(* write.  RssSource and RssConsumer do none of these, so every handler of *)
(* theirs is one action; the play loop may be switched out while it waits  *)
(* for a control message (pc "recv") and inside each send_message (pc      *)
(* "send").                                                                *)
(*                                                                         *)
(* A payload is named by its position in stream, the history of everything *)
(* published.  A RssSharedPtrMessage object is named by its payload and by *)
(* the place that holds it: a cache slot, the queue or the batch of a      *)
(* consumer, or nothing at all (leaked).                                   *)
(***************************************************************************)
EXTENDS Sequences, FiniteSets, RssSharedPtrMessage

CONSTANTS
  Consumers,    \* the RssConsumer objects, one for each play connection
  Publishers,   \* the publish connections
  MaxMsgs       \* bound: how many messages are ever published

ASSUME ConsumersFinite == IsFiniteSet(Consumers)
ASSUME MaxMsgsNat == MaxMsgs \in Nat

VARIABLES
  stream,       \* history: the messages published, in order
  ptrs,         \* the RssSharedPtr block of each payload
  cache,        \* cache_metadata, cache_sh_video, cache_sh_audio
  consumers,    \* RssSource::consumers
  queue,        \* RssConsumer::msgs
  batch,        \* msgs[i..count-1] of streaming_play, the first being sent
  pc,           \* where each play loop is
  fed,          \* bytes of the player have arrived that complete no message
  pub,          \* where each publish loop is
  leaked,       \* history: payloads of the objects no pointer reaches, by consumer
  joined,       \* history: length of stream when the consumer was created
  received      \* history: what the player was sent completely

vars == <<stream, ptrs, cache, consumers, queue, batch, pc, fed, pub, leaked,
          joined, received>>

NULL == 0
Payloads == 1 .. MaxMsgs
Kinds == {"metadata", "video", "audio"}

(* A published message; the source sees its kind and nothing else of it.   *)
Messages == [kind : Kinds]

\* The elements of a sequence.
Elems(s) == {s[i] : i \in DOMAIN s}

\* A pointer as a sequence: empty for NULL.
NonNull(p) == IF p = NULL THEN <<>> ELSE <<p>>

Init ==
  /\ stream = <<>>
  /\ ptrs = [p \in Payloads |-> unallocated]
  /\ cache = [k \in Kinds |-> NULL]
  /\ consumers = {}
  /\ queue = [c \in Consumers |-> <<>>]
  /\ batch = [c \in Consumers |-> <<>>]
  /\ pc = [c \in Consumers |-> "init"]
  /\ fed = [c \in Consumers |-> FALSE]
  /\ pub = [u \in Publishers |-> "init"]
  /\ leaked = [c \in Consumers |-> {}]
  /\ joined = [c \in Consumers |-> 0]
  /\ received = [c \in Consumers |-> <<>>]

-----------------------------------------------------------------------------
(* RssSource: the handlers of the publish loop.                            *)

\* consumer->enqueue(copy) for every consumer of the source.
enqueueAll(p) ==
  queue' = [c \in Consumers |-> IF c \in consumers THEN Append(queue[c], p)
                                                   ELSE queue[c]]

(* The publisher is in streaming_publish and its next message arrives.     *)
Receive(u, k) ==
  /\ pub[u] = "publishing"
  /\ Len(stream) < MaxMsgs
  /\ stream' = Append(stream, [kind |-> k])

\* Faulty variant: the old cached object is not deleted.
on_meta_data_keeps_old(u) ==
  LET p == Len(stream) + 1
  IN /\ Receive(u, "metadata")
     /\ ptrs' = copies(initialize(ptrs, p), p, Cardinality(consumers))
     /\ cache' = [cache EXCEPT !["metadata"] = p]
     /\ enqueueAll(p)
     /\ UNCHANGED <<consumers, batch, pc, fed, pub, leaked, joined, received>>

(* on_meta_data: the old cached object is deleted, the new one takes the   *)
(* re-encoded payload, and every consumer gets a copy of it.               *)
on_meta_data(u) ==
  LET p   == Len(stream) + 1
      old == {cache["metadata"]} \ {NULL}
  IN /\ Receive(u, "metadata")
     /\ ptrs' = copies(initialize(destroy(ptrs, old), p), p,
                       Cardinality(consumers))
     /\ cache' = [cache EXCEPT !["metadata"] = p]
     /\ enqueueAll(p)
     /\ UNCHANGED <<consumers, batch, pc, fed, pub, leaked, joined, received>>

(* on_audio and on_video: a local object takes the payload from the        *)
(* received message, every consumer gets a copy, the empty cache slot gets *)
(* one, and the local object dies with its scope.                          *)
on_av(u, k) ==
  LET p      == Len(stream) + 1
      caches == cache[k] = NULL
      sent   == copies(initialize(ptrs, p), p, Cardinality(consumers))
      kept   == IF caches THEN copies(sent, p, 1) ELSE sent
  IN /\ Receive(u, k)
     /\ ptrs' = destroy(kept, {p})
     /\ cache' = IF caches THEN [cache EXCEPT ![k] = p] ELSE cache
     /\ enqueueAll(p)
     /\ UNCHANGED <<consumers, batch, pc, fed, pub, leaked, joined, received>>

on_audio(u) == on_av(u, "audio")
on_video(u) == on_av(u, "video")

(* RssClient: identified as a publisher, enters streaming_publish.         *)
StartPublish(u) ==
  /\ pub[u] = "init"
  /\ pub' = [pub EXCEPT ![u] = "publishing"]
  /\ UNCHANGED <<stream, ptrs, cache, consumers, queue, batch, pc, fed, leaked,
                 joined, received>>

(* streaming_publish returns: unpublish, a read error or a read timeout.   *)
(* The source is not told, and keeps its caches.                           *)
EndPublish(u) ==
  /\ pub[u] = "publishing"
  /\ pub' = [pub EXCEPT ![u] = "done"]
  /\ UNCHANGED <<stream, ptrs, cache, consumers, queue, batch, pc, fed, leaked,
                 joined, received>>

-----------------------------------------------------------------------------
(* RssConsumer and the play loop.                                          *)

\* Faulty variant: the sequence headers in the other order.
cached_audio_first == NonNull(cache["metadata"]) \o NonNull(cache["audio"])
                        \o NonNull(cache["video"])

\* The cached messages a new consumer is given, in the order of the code.
cached == NonNull(cache["metadata"]) \o NonNull(cache["video"])
            \o NonNull(cache["audio"])

(* create_consumer: the consumer is registered and gets a copy of each     *)
(* cached message.                                                         *)
create_consumer(c) ==
  /\ pc[c] = "init"
  /\ pc' = [pc EXCEPT ![c] = "recv"]
  /\ consumers' = consumers \cup {c}
  /\ queue' = [queue EXCEPT ![c] = cached]
  /\ ptrs' = copyEach(ptrs, Elems(cached))
  /\ joined' = [joined EXCEPT ![c] = Len(stream)]
  /\ UNCHANGED <<stream, cache, batch, fed, pub, leaked, received>>

(* External: bytes of the player arrive that leave recv_message without a  *)
(* message to return: a part of a chunk, a chunk of a longer message, or   *)
(* an empty message.                                                       *)
Trickle(c) ==
  /\ pc[c] = "recv"
  /\ ~fed[c]
  /\ fed' = [fed EXCEPT ![c] = TRUE]
  /\ UNCHANGED <<stream, ptrs, cache, consumers, queue, batch, pc, pub, leaked,
                 joined, received>>

(* recv_message takes them and goes on: ensure_buffer_bytes calls read     *)
(* again, and the next read waits for its full timeout.                    *)
recv_message_goes_on(c) ==
  /\ pc[c] = "recv"
  /\ fed[c]
  /\ fed' = [fed EXCEPT ![c] = FALSE]
  /\ UNCHANGED <<stream, ptrs, cache, consumers, queue, batch, pc, pub, leaked,
                 joined, received>>

\* Faulty variant: takes one message and clears the queue.
get_packets_clears(c) ==
  /\ pc[c] = "recv"
  /\ ~fed[c]
  /\ queue[c] # <<>>
  /\ batch' = [batch EXCEPT ![c] = <<Head(queue[c])>>]
  /\ queue' = [queue EXCEPT ![c] = <<>>]
  /\ pc' = [pc EXCEPT ![c] = "send"]
  /\ UNCHANGED <<stream, ptrs, cache, consumers, fed, pub, leaked, joined,
                 received>>

(* recv_message returned a message, or ERROR_SOCKET_TIMEOUT when nothing   *)
(* has arrived since its last read; get_packets(0) takes the whole queue   *)
(* and the first send starts.  With an empty queue the loop goes round and *)
(* nothing changes.                                                        *)
get_packets(c) ==
  /\ pc[c] = "recv"
  /\ ~fed[c]
  /\ queue[c] # <<>>
  /\ batch' = [batch EXCEPT ![c] = queue[c]]
  /\ queue' = [queue EXCEPT ![c] = <<>>]
  /\ pc' = [pc EXCEPT ![c] = "send"]
  /\ UNCHANGED <<stream, ptrs, cache, consumers, fed, pub, leaked, joined,
                 received>>

\* Faulty variant: the loop over the batch stops after its first message.
send_message_once(c) ==
  /\ pc[c] = "send"
  /\ received' = [received EXCEPT ![c] = Append(@, Head(batch[c]))]
  /\ ptrs' = destroy(ptrs, {Head(batch[c])})
  /\ batch' = [batch EXCEPT ![c] = <<>>]
  /\ pc' = [pc EXCEPT ![c] = "recv"]
  /\ UNCHANGED <<stream, cache, consumers, queue, fed, pub, leaked, joined>>

(* send_message returned ERROR_SUCCESS: it has deleted the message; the    *)
(* loop sends the next one of the batch or goes back to recv_message.      *)
send_message(c) ==
  /\ pc[c] = "send"
  /\ received' = [received EXCEPT ![c] = Append(@, Head(batch[c]))]
  /\ ptrs' = destroy(ptrs, {Head(batch[c])})
  /\ batch' = [batch EXCEPT ![c] = Tail(@)]
  /\ pc' = [pc EXCEPT ![c] = IF Tail(batch[c]) = <<>> THEN "recv" ELSE "send"]
  /\ UNCHANGED <<stream, cache, consumers, queue, fed, pub, leaked, joined>>

(* ~RssConsumer: deletes the queued messages and leaves the source; the    *)
(* payloads in freed go with it.                                           *)
destroy_consumer(c, freed) ==
  /\ ptrs' = destroy(ptrs, freed \cup Elems(queue[c]))
  /\ queue' = [queue EXCEPT ![c] = <<>>]
  /\ consumers' = consumers \ {c}
  /\ pc' = [pc EXCEPT ![c] = "done"]

(* send_message failed (write error or timeout): it has deleted its        *)
(* message, but the auto free of the batch deletes the array only, so the  *)
(* messages behind it are reachable no more.                               *)
SendFail(c) ==
  /\ pc[c] = "send"
  /\ destroy_consumer(c, {Head(batch[c])})
  /\ leaked' = [leaked EXCEPT ![c] = Elems(Tail(batch[c]))]
  /\ batch' = [batch EXCEPT ![c] = <<>>]
  /\ UNCHANGED <<stream, cache, fed, pub, joined, received>>

(* recv_message failed with anything but ERROR_SOCKET_TIMEOUT.             *)
RecvFail(c) ==
  /\ pc[c] = "recv"
  /\ destroy_consumer(c, {})
  /\ fed' = [fed EXCEPT ![c] = FALSE]
  /\ UNCHANGED <<stream, cache, batch, pub, leaked, joined, received>>

-----------------------------------------------------------------------------
Publish(u) == on_meta_data(u) \/ on_audio(u) \/ on_video(u)

\* The steps of a play loop.
Play(c) == recv_message_goes_on(c) \/ get_packets(c) \/ send_message(c)
             \/ SendFail(c) \/ RecvFail(c)

Next ==
  \/ \E u \in Publishers : StartPublish(u) \/ Publish(u) \/ EndPublish(u)
  \/ \E c \in Consumers : create_consumer(c) \/ Trickle(c) \/ Play(c)

Spec == Init /\ [][Next]_vars

(* The scheduler runs every thread that yields again.  A read in the play  *)
(* loop is over after 100 ms in which nothing arrives, a send after 5 s in *)
(* which nothing can be written; a message has finitely many bytes, but    *)
(* nothing bounds the reads of one recv_message.                           *)
PlayLoop(c) == recv_message_goes_on(c) \/ get_packets(c) \/ send_message(c)
                 \/ SendFail(c)

FairSpec == Spec /\ \A c \in Consumers : WF_vars(PlayLoop(c))

-----------------------------------------------------------------------------
(* Type correctness of the source, its consumers and the loops; no         *)
(* shared_count goes below zero.                                           *)
TypeOK ==
  /\ stream \in Seq(Messages) /\ Len(stream) <= MaxMsgs
  /\ ptrs \in [Payloads -> SharedPtr]
  /\ cache \in [Kinds -> {NULL} \cup Payloads]
  /\ consumers \subseteq Consumers
  /\ queue \in [Consumers -> Seq(Payloads)]
  /\ batch \in [Consumers -> Seq(Payloads)]
  /\ pc \in [Consumers -> {"init", "recv", "send", "done"}]
  /\ fed \in [Consumers -> BOOLEAN]
  /\ pub \in [Publishers -> {"init", "publishing", "done"}]
  /\ leaked \in [Consumers -> SUBSET Payloads]
  /\ joined \in [Consumers -> Nat]
  /\ received \in [Consumers -> Seq(Payloads)]

\* The payloads consumer c can still reach, and those it holds an object of.
Reaches(c) == Elems(queue[c]) \cup Elems(batch[c])
Holds(c) == Reaches(c) \cup leaked[c]

\* The number of RssSharedPtrMessage objects that point to payload p.
Slots(p) == {k \in Kinds : cache[k] = p}
Owners(p) == {c \in Consumers : p \in Holds(c)}
HolderCount(p) == Cardinality(Slots(p)) + Cardinality(Owners(p))

(* No cache slot, queue or batch ever points to a deleted block: whatever  *)
(* the publishers and the other players do while a player is switched out  *)
(* in the middle of a send, the payload it sends stays allocated.          *)
NoUseAfterFree ==
  /\ \A k \in Kinds : cache[k] # NULL => ptrs[cache[k]].alive
  /\ \A c \in Consumers : \A p \in Holds(c) : ptrs[p].alive

(* shared_count is exactly one less than the number of objects, so the     *)
(* block goes with its last object and never before or after it.           *)
RefCount ==
  \A p \in 1 .. Len(stream) :
    ptrs[p].alive => ptrs[p].shared_count + 1 = HolderCount(p)

(* The parts of the inductive invariant behind the properties.             *)

\* What the place of a play loop says about what its consumer holds.
PlayPlaces ==
  \A c \in Consumers :
    /\ c \in consumers <=> pc[c] \in {"recv", "send"}
    /\ pc[c] = "send" <=> batch[c] # <<>>
    /\ pc[c] \in {"init", "done"} => queue[c] = <<>>
    /\ pc[c] # "done" => leaked[c] = {}
    /\ pc[c] = "init" => received[c] = <<>>

\* Only published payloads are held, a slot holds its own kind of message.
OnlyPublished ==
  /\ \A c \in Consumers : Holds(c) \subseteq 1 .. Len(stream)
  /\ \A k \in Kinds : cache[k] # NULL =>
       cache[k] \in 1 .. Len(stream) /\ stream[cache[k]].kind = k

Injective(s) == \A i, j \in DOMAIN s : s[i] = s[j] => i = j

\* No consumer holds two objects of one payload.
NoDuplicates ==
  \A c \in Consumers :
    /\ Injective(queue[c])
    /\ Injective(batch[c])
    /\ Elems(queue[c]) \cap Elems(batch[c]) = {}

\* A block is allocated as long as it has objects, and counts them.
BlockOK(b, n) == IF b.alive THEN b.shared_count + 1 = n ELSE n = 0

Counted == \A p \in 1 .. Len(stream) : BlockOK(ptrs[p], HolderCount(p))

IInv == TypeOK /\ PlayPlaces /\ OnlyPublished /\ NoDuplicates /\ Counted

\* What a consumer was sent, is being sent and has queued.
Feed(c) == received[c] \o batch[c] \o queue[c]

B == INSTANCE Broadcast WITH
       Viewers <- Consumers,
       log <- stream,
       members <- consumers,
       feed <- [c \in Consumers |-> Feed(c)],
       delivered <- received

\* The positions a consumer that joined at j is owed after its catch-up.
Since(j) == [i \in 1 .. Len(stream) - j |-> j + i]

\* All that a consumer that stays is owed.
Owed(c) == B!CatchUp(SubSeq(stream, 1, joined[c])) \o Since(joined[c])

(* A player is sent the catch-up of the moment it joined and then every    *)
(* message published since, each once and in order, however publishing,    *)
(* get_packets and the sends of a batch interleave; when it goes, what it  *)
(* got is a prefix of that.                                                *)
DeliveryInOrder ==
  \A c \in Consumers :
    /\ pc[c] \in {"recv", "send"} => Feed(c) = Owed(c)
    /\ pc[c] = "done" =>
         /\ Len(received[c]) <= Len(Owed(c))
         /\ received[c] = SubSeq(Owed(c), 1, Len(received[c]))

\* The cache slots hold the catch-up of the log: no video or audio message
\* came before the cached one, no metadata after it.
CachesFollowLog ==
  /\ \A k \in {"video", "audio"} : \A i \in B!OfKind(stream, k) :
       cache[k] # NULL /\ cache[k] <= i
  /\ \A i \in B!OfKind(stream, "metadata") : i <= cache["metadata"]

\* Nobody joined in the future.
JoinedBefore == \A c \in Consumers : joined[c] <= Len(stream)

(* The inductive invariant behind delivery.                                *)
DInv == IInv /\ CachesFollowLog /\ JoinedBefore /\ DeliveryInOrder

(* The source, its consumers and the two loops implement the broadcast     *)
(* service: queues, batches and caches cannot be told from the log.        *)
ImplementsBroadcast == B!Spec

(* Whatever is queued for a player is sent to it, unless its connection    *)
(* ends first, provided that the player does not for ever send bytes that  *)
(* complete no message: each of them starts the timeout of the read anew.  *)
QueuedIsDelivered ==
  \A c \in Consumers :
    <>[](~fed[c]) =>
      \A p \in Payloads :
        p \in Elems(queue[c]) ~> (p \in Elems(received[c]) \/ pc[c] = "done")
=============================================================================
