-------------------------- MODULE RssSource_proofs --------------------------
(* Proofs about RssSource, for any number of connections and messages.     *)
EXTENDS RssSource, FiniteSetTheorems, WellFoundedInduction, TLAPS

-----------------------------------------------------------------------------
(* Types of the heap.                                                      *)

(* The destructor of one object leaves a well-formed block.                *)
LEMMA DestroyedType ==
  ASSUME NEW b \in SharedPtr
  PROVE  destroyed(b) \in SharedPtr
BY DEF SharedPtr, destroyed, unallocated

LEMMA DestroyType ==
  ASSUME NEW t \in [Payloads -> SharedPtr], NEW S
  PROVE  destroy(t, S) \in [Payloads -> SharedPtr]
BY DestroyedType DEF destroy

LEMMA InitializeType ==
  ASSUME NEW t \in [Payloads -> SharedPtr], NEW p
  PROVE  initialize(t, p) \in [Payloads -> SharedPtr]
BY DEF initialize, SharedPtr

LEMMA CopiesType ==
  ASSUME NEW t \in [Payloads -> SharedPtr], NEW p, NEW n \in Nat
  PROVE  copies(t, p, n) \in [Payloads -> SharedPtr]
<1>1. CASE p \in Payloads
  <2>1. [alive |-> t[p].alive, shared_count |-> t[p].shared_count + n] \in SharedPtr
    BY <1>1 DEF SharedPtr
  <2> QED BY <1>1, <2>1 DEF copies
<1>2. CASE p \notin Payloads
  BY <1>2 DEF copies
<1> QED BY <1>1, <1>2

LEMMA CopyEachType ==
  ASSUME NEW t \in [Payloads -> SharedPtr], NEW S
  PROVE  copyEach(t, S) \in [Payloads -> SharedPtr]
BY DEF copyEach, SharedPtr

\* What the catch-up of a new consumer is made of.
LEMMA CachedType ==
  ASSUME cache \in [Kinds -> {NULL} \cup Payloads]
  PROVE  cached \in Seq(Payloads)
BY DEF cached, NonNull, Kinds

LEMMA ConsumersCount ==
  ASSUME TypeOK
  PROVE  IsFiniteSet(consumers) /\ Cardinality(consumers) \in Nat
BY ConsumersFinite, FS_Subset, FS_CardinalityType DEF TypeOK

-----------------------------------------------------------------------------
(* Sequences of payloads.                                                  *)

LEMMA ElemsType ==
  ASSUME NEW S, NEW s \in Seq(S)
  PROVE  Elems(s) \subseteq S
<1>1. \A i \in DOMAIN s : s[i] \in S
  OBVIOUS
<1> QED BY <1>1 DEF Elems

LEMMA ElemsAppend ==
  ASSUME NEW S, NEW s \in Seq(S), NEW x \in S
  PROVE  Elems(Append(s, x)) = Elems(s) \cup {x}
<1>1. DOMAIN Append(s, x) = 1 .. Len(s) + 1 /\ DOMAIN s = 1 .. Len(s)
  OBVIOUS
<1>2. \A i \in 1 .. Len(s) : Append(s, x)[i] = s[i]
  OBVIOUS
<1>3. Append(s, x)[Len(s) + 1] = x /\ Len(s) \in Nat
  OBVIOUS
<1> HIDE DEF Elems
<1>4. ASSUME NEW y PROVE y \in Elems(Append(s, x)) <=> y \in Elems(s) \cup {x}
  BY <1>1, <1>2, <1>3 DEF Elems
<1> QED BY <1>4

LEMMA ElemsSplit ==
  ASSUME NEW S, NEW s \in Seq(S), s # <<>>
  PROVE  Elems(s) = {Head(s)} \cup Elems(Tail(s))
<1>1. ASSUME NEW x \in Elems(s) PROVE x \in {Head(s)} \cup Elems(Tail(s))
  <2>1. PICK i \in 1 .. Len(s) : x = s[i]
    BY <1>1 DEF Elems
  <2>2. CASE i = 1
    BY <2>1, <2>2
  <2>3. CASE i # 1
    <3>1. i - 1 \in DOMAIN Tail(s) /\ Tail(s)[i - 1] = s[i]
      BY <2>1, <2>3
    <3> QED BY <2>1, <3>1 DEF Elems
  <2> QED BY <2>2, <2>3
<1>2. ASSUME NEW x \in {Head(s)} \cup Elems(Tail(s)) PROVE x \in Elems(s)
  <2>1. CASE x = Head(s)
    BY <2>1 DEF Elems
  <2>2. CASE x \in Elems(Tail(s))
    <3>1. PICK i \in 1 .. Len(Tail(s)) : x = Tail(s)[i]
      BY <2>2 DEF Elems
    <3>2. i + 1 \in DOMAIN s /\ s[i + 1] = x
      BY <3>1
    <3> QED BY <3>2 DEF Elems
  <2> QED BY <1>2, <2>1, <2>2
<1> QED BY <1>1, <1>2

LEMMA ElemsConcat ==
  ASSUME NEW S, NEW s \in Seq(S), NEW t \in Seq(S)
  PROVE  s \o t \in Seq(S) /\ Elems(s \o t) = Elems(s) \cup Elems(t)
<1>1. /\ s \o t \in Seq(S)
      /\ DOMAIN (s \o t) = 1 .. Len(s) + Len(t)
      /\ DOMAIN s = 1 .. Len(s) /\ DOMAIN t = 1 .. Len(t)
      /\ Len(s) \in Nat /\ Len(t) \in Nat
  OBVIOUS
<1>2. \A i \in 1 .. Len(s) : (s \o t)[i] = s[i] /\ i \in DOMAIN (s \o t)
  OBVIOUS
<1>3. \A i \in 1 .. Len(t) : (s \o t)[Len(s) + i] = t[i] /\ Len(s) + i \in DOMAIN (s \o t)
  OBVIOUS
<1>4. ASSUME NEW x \in Elems(s \o t) PROVE x \in Elems(s) \cup Elems(t)
  <2>1. PICK i \in 1 .. Len(s) + Len(t) : x = (s \o t)[i]
    BY <1>1, <1>4 DEF Elems
  <2>2. CASE i <= Len(s)
    BY <1>1, <1>2, <2>1, <2>2 DEF Elems
  <2>3. CASE i > Len(s)
    <3>1. i - Len(s) \in DOMAIN t /\ x = t[i - Len(s)]
      BY <1>1, <1>3, <2>1, <2>3
    <3> QED BY <3>1 DEF Elems
  <2> QED BY <1>1, <2>1, <2>2, <2>3
<1>5. ASSUME NEW x \in Elems(s) \cup Elems(t) PROVE x \in Elems(s \o t)
  BY <1>1, <1>2, <1>3, <1>5 DEF Elems
<1> QED BY <1>1, <1>4, <1>5

LEMMA InjectiveConcat ==
  ASSUME NEW S, NEW s \in Seq(S), NEW t \in Seq(S),
         Injective(s), Injective(t), Elems(s) \cap Elems(t) = {}
  PROVE  Injective(s \o t)
<1>1. /\ DOMAIN (s \o t) = 1 .. Len(s) + Len(t)
      /\ DOMAIN s = 1 .. Len(s) /\ DOMAIN t = 1 .. Len(t)
      /\ Len(s) \in Nat /\ Len(t) \in Nat
  OBVIOUS
<1>2. \A i \in 1 .. Len(s) : (s \o t)[i] = s[i]
  OBVIOUS
<1>3. \A i \in DOMAIN (s \o t) : i > Len(s) =>
        i - Len(s) \in DOMAIN t /\ (s \o t)[i] = t[i - Len(s)]
  OBVIOUS
<1>4. \A i \in DOMAIN s, j \in DOMAIN t : s[i] # t[j]
  BY DEF Elems
<1> QED BY <1>1, <1>2, <1>3, <1>4 DEF Injective

LEMMA ElemsEmpty == Elems(<<>>) = {}
BY DEF Elems

LEMMA InjectiveAppend ==
  ASSUME NEW S, NEW s \in Seq(S), NEW x \in S, Injective(s), x \notin Elems(s)
  PROVE  Injective(Append(s, x))
BY DEF Injective, Elems

LEMMA InjectiveTail ==
  ASSUME NEW S, NEW s \in Seq(S), s # <<>>, Injective(s)
  PROVE  Injective(Tail(s)) /\ Head(s) \notin Elems(Tail(s))
<1>1. \A i \in DOMAIN Tail(s) : i + 1 \in DOMAIN s /\ Tail(s)[i] = s[i + 1]
  OBVIOUS
<1>2. DOMAIN Tail(s) \subseteq Nat \ {0}
  OBVIOUS
<1>3. Injective(Tail(s))
  BY <1>1, <1>2 DEF Injective
<1>4. Head(s) = s[1] /\ 1 \in DOMAIN s
  OBVIOUS
<1>5. Head(s) \notin Elems(Tail(s))
  BY <1>1, <1>2, <1>4 DEF Injective, Elems
<1> QED BY <1>3, <1>5
-----------------------------------------------------------------------------
(* Every step keeps the types.  A play loop in send_message needs to know  *)
(* that it has something to send.                                          *)
LEMMA TypeStep ==
  ASSUME TypeOK, PlayPlaces, [Next]_vars
  PROVE  TypeOK'
<1>1. ASSUME NEW u \in Publishers, NEW k \in Kinds, Receive(u, k)
      PROVE  /\ stream' \in Seq(Messages) /\ Len(stream') <= MaxMsgs
             /\ Len(stream) + 1 \in Payloads
  <2>1. [kind |-> k] \in Messages
    BY <1>1 DEF Messages
  <2>2. stream' \in Seq(Messages) /\ Len(stream') = Len(stream) + 1
    BY <1>1, <2>1 DEF Receive, TypeOK
  <2> QED BY <1>1, <2>2, MaxMsgsNat DEF Receive, TypeOK, Kinds, Payloads
<1>2. ASSUME NEW p \in Payloads, enqueueAll(p)
      PROVE  queue' \in [Consumers -> Seq(Payloads)]
  BY <1>2 DEF enqueueAll, TypeOK
<1>3. ASSUME NEW u \in Publishers, on_meta_data(u)
      PROVE  TypeOK'
  <2> DEFINE p == Len(stream) + 1
             old == {cache["metadata"]} \ {NULL}
  <2>1. Receive(u, "metadata") /\ "metadata" \in Kinds
    BY <1>3 DEF on_meta_data, Kinds
  <2>2. p \in Payloads
    BY <2>1, <1>1
  <2>3. ptrs' \in [Payloads -> SharedPtr]
    <3>1. ptrs' = copies(initialize(destroy(ptrs, old), p), p,
                         Cardinality(consumers))
      BY <1>3 DEF on_meta_data
    <3>2. destroy(ptrs, old) \in [Payloads -> SharedPtr]
      BY DestroyType DEF TypeOK
    <3>3. initialize(destroy(ptrs, old), p) \in [Payloads -> SharedPtr]
      BY <3>2, InitializeType
    <3> HIDE DEF p, old
    <3> QED BY <3>1, <3>3, CopiesType, ConsumersCount
  <2> QED BY <1>1, <1>2, <1>3, <2>1, <2>2, <2>3 DEF on_meta_data, TypeOK
<1>4. ASSUME NEW u \in Publishers, NEW k \in {"video", "audio"}, on_av(u, k)
      PROVE  TypeOK'
  <2> DEFINE p == Len(stream) + 1
             sent == copies(initialize(ptrs, p), p, Cardinality(consumers))
             kept == IF cache[k] = NULL THEN copies(sent, p, 1) ELSE sent
  <2>1. Receive(u, k) /\ k \in Kinds
    BY <1>4 DEF on_av, Kinds
  <2>2. p \in Payloads
    BY <2>1, <1>1
  <2>3. ptrs' \in [Payloads -> SharedPtr]
    <3>1. ptrs' = destroy(kept, {p})
      BY <1>4 DEF on_av
    <3>2. initialize(ptrs, p) \in [Payloads -> SharedPtr]
      BY InitializeType DEF TypeOK
    <3>3. sent \in [Payloads -> SharedPtr]
      BY <3>2, CopiesType, ConsumersCount
    <3>4. kept \in [Payloads -> SharedPtr]
      <4> HIDE DEF sent
      <4> QED BY <3>3, CopiesType
    <3> HIDE DEF kept
    <3> QED BY <3>1, <3>4, DestroyType
  <2>4. cache' \in [Kinds -> {NULL} \cup Payloads]
    BY <1>4, <2>1, <2>2 DEF on_av, TypeOK
  <2>5. enqueueAll(p) /\ UNCHANGED <<consumers, batch, pc, fed, pub, leaked, joined,
                                   received>>
    BY <1>4 DEF on_av
  <2> QED BY <1>1, <1>2, <2>1, <2>2, <2>3, <2>4, <2>5 DEF TypeOK
<1>5. ASSUME NEW u \in Publishers, StartPublish(u) \/ EndPublish(u)
      PROVE  TypeOK'
  BY <1>5 DEF StartPublish, EndPublish, TypeOK
<1>6. ASSUME NEW c \in Consumers, create_consumer(c)
      PROVE  TypeOK'
  <2>1. cached \in Seq(Payloads)
    BY CachedType DEF TypeOK
  <2>2. ptrs' \in [Payloads -> SharedPtr]
    BY <1>6, CopyEachType DEF create_consumer, TypeOK
  <2> QED BY <1>6, <2>1, <2>2 DEF create_consumer, TypeOK
<1>7. ASSUME NEW c \in Consumers, get_packets(c)
      PROVE  TypeOK'
  BY <1>7 DEF get_packets, TypeOK
<1>8. ASSUME NEW c \in Consumers, send_message(c)
      PROVE  TypeOK'
  <2>1. ptrs' \in [Payloads -> SharedPtr]
    BY <1>8, DestroyType DEF send_message, TypeOK
  <2>2. Head(batch[c]) \in Payloads /\ Tail(batch[c]) \in Seq(Payloads)
    BY <1>8 DEF TypeOK, PlayPlaces, send_message
  <2>3. received' \in [Consumers -> Seq(Payloads)]
    BY <1>8, <2>2 DEF send_message, TypeOK
  <2>4. batch' \in [Consumers -> Seq(Payloads)]
    BY <1>8, <2>2 DEF send_message, TypeOK
  <2>5. pc' \in [Consumers -> {"init", "recv", "send", "done"}]
    BY <1>8 DEF send_message, TypeOK
  <2> QED BY <1>8, <2>1, <2>3, <2>4, <2>5 DEF send_message, TypeOK
<1>9. ASSUME NEW c \in Consumers, SendFail(c)
      PROVE  TypeOK'
  <2>1. ptrs' \in [Payloads -> SharedPtr]
    BY <1>9, DestroyType DEF SendFail, destroy_consumer, TypeOK
  <2>2. Tail(batch[c]) \in Seq(Payloads)
    BY <1>9 DEF TypeOK, PlayPlaces, SendFail
  <2>3. leaked' \in [Consumers -> SUBSET Payloads]
    <3>1. Elems(Tail(batch[c])) \in SUBSET Payloads
      BY <2>2, ElemsType
    <3>2. leaked' = [leaked EXCEPT ![c] = Elems(Tail(batch[c]))]
      BY <1>9 DEF SendFail
    <3> QED BY <3>1, <3>2 DEF TypeOK
  <2>4. /\ batch' \in [Consumers -> Seq(Payloads)]
        /\ queue' \in [Consumers -> Seq(Payloads)]
        /\ consumers' \subseteq Consumers
        /\ pc' \in [Consumers -> {"init", "recv", "send", "done"}]
    BY <1>9 DEF SendFail, destroy_consumer, TypeOK
  <2>5. UNCHANGED <<stream, cache, fed, pub, joined, received>>
    BY <1>9 DEF SendFail
  <2> QED BY <2>1, <2>3, <2>4, <2>5 DEF TypeOK
<1>10. ASSUME NEW c \in Consumers, RecvFail(c)
       PROVE  TypeOK'
  <2>1. ptrs' \in [Payloads -> SharedPtr]
    BY <1>10, DestroyType DEF RecvFail, destroy_consumer, TypeOK
  <2> QED BY <1>10, <2>1 DEF RecvFail, destroy_consumer, TypeOK
<1>11. CASE UNCHANGED vars
  BY <1>11 DEF vars, TypeOK
<1>12. ASSUME NEW c \in Consumers, Trickle(c) \/ recv_message_goes_on(c)
       PROVE  TypeOK'
  BY <1>12 DEF Trickle, recv_message_goes_on, TypeOK
<1> QED
  BY <1>3, <1>4, <1>5, <1>6, <1>7, <1>8, <1>9, <1>10, <1>11, <1>12
     DEF Next, Publish, on_audio, on_video, Play
-----------------------------------------------------------------------------
(* The place of a play loop determines what its consumer may hold.         *)
LEMMA PlacesStep ==
  ASSUME TypeOK, PlayPlaces, [Next]_vars
  PROVE  PlayPlaces'
<1>1. ASSUME NEW u \in Publishers, on_meta_data(u)
      PROVE  PlayPlaces'
  BY <1>1 DEF on_meta_data, enqueueAll, PlayPlaces, TypeOK
<1>2. ASSUME NEW u \in Publishers, NEW k \in {"video", "audio"}, on_av(u, k)
      PROVE  PlayPlaces'
  BY <1>2 DEF on_av, enqueueAll, PlayPlaces, TypeOK
<1>3. ASSUME NEW u \in Publishers, StartPublish(u) \/ EndPublish(u)
      PROVE  PlayPlaces'
  BY <1>3 DEF StartPublish, EndPublish, PlayPlaces
<1>4. ASSUME NEW c \in Consumers, create_consumer(c)
      PROVE  PlayPlaces'
  BY <1>4 DEF create_consumer, PlayPlaces, TypeOK
<1>5. ASSUME NEW c \in Consumers, get_packets(c)
      PROVE  PlayPlaces'
  BY <1>5 DEF get_packets, PlayPlaces, TypeOK
<1>6. ASSUME NEW c \in Consumers, send_message(c)
      PROVE  PlayPlaces'
  BY <1>6 DEF send_message, PlayPlaces, TypeOK
<1>7. ASSUME NEW c \in Consumers, SendFail(c)
      PROVE  PlayPlaces'
  BY <1>7 DEF SendFail, destroy_consumer, PlayPlaces, TypeOK
<1>8. ASSUME NEW c \in Consumers, RecvFail(c)
      PROVE  PlayPlaces'
  BY <1>8 DEF RecvFail, destroy_consumer, PlayPlaces, TypeOK
<1>9. CASE UNCHANGED vars
  BY <1>9 DEF vars, PlayPlaces
<1>10. ASSUME NEW c \in Consumers, Trickle(c) \/ recv_message_goes_on(c)
       PROVE  PlayPlaces'
  BY <1>10 DEF Trickle, recv_message_goes_on, PlayPlaces
<1> QED
  BY <1>1, <1>2, <1>3, <1>4, <1>5, <1>6, <1>7, <1>8, <1>9, <1>10
     DEF Next, Publish, on_audio, on_video, Play

(* The types, for every behaviour of the stream: in particular no count of *)
(* references ever falls below zero, and no play loop sends from an empty  *)
(* batch.                                                                  *)
THEOREM TypeCorrect == Spec => []TypeOK
<1>1. Init => TypeOK /\ PlayPlaces
  BY MaxMsgsNat DEF Init, TypeOK, PlayPlaces, unallocated, SharedPtr
<1>2. TypeOK /\ PlayPlaces /\ [Next]_vars => (TypeOK /\ PlayPlaces)'
  BY TypeStep, PlacesStep
<1> QED BY <1>1, <1>2, PTL DEF Spec

-----------------------------------------------------------------------------
(* How each action changes what is held.                                   *)

\* The messages of the cache slots, for create_consumer.
LEMMA CachedElems ==
  ASSUME TypeOK, OnlyPublished
  PROVE  /\ Elems(cached) = {cache[k] : k \in Kinds} \ {NULL}
         /\ Injective(cached)
<1> DEFINE a == cache["metadata"]
           v == cache["video"]
           w == cache["audio"]
<1>1. /\ a \in {NULL} \cup Payloads
      /\ v \in {NULL} \cup Payloads
      /\ w \in {NULL} \cup Payloads
  BY DEF TypeOK, Kinds
<1>2. {cache[k] : k \in Kinds} = {a, v, w}
  BY DEF Kinds
<1>3. /\ a # NULL /\ v # NULL => a # v
      /\ a # NULL /\ w # NULL => a # w
      /\ v # NULL /\ w # NULL => v # w
  BY DEF OnlyPublished, Kinds
<1>4. cached = NonNull(a) \o NonNull(v) \o NonNull(w)
  BY DEF cached
<1>5. ASSUME NEW p \in {NULL} \cup Payloads
      PROVE  /\ NonNull(p) \in Seq(Payloads)
             /\ Elems(NonNull(p)) = {p} \ {NULL}
             /\ Injective(NonNull(p))
  <2>1. CASE p = NULL
    BY <2>1, ElemsEmpty DEF NonNull, Injective
  <2>2. CASE p # NULL
    <3>1. NonNull(p) = <<p>> /\ p \in Payloads
      BY <2>2 DEF NonNull
    <3>2. DOMAIN <<p>> = {1} /\ <<p>>[1] = p /\ <<p>> \in Seq(Payloads)
      BY <3>1
    <3> QED BY <2>2, <3>1, <3>2 DEF Elems, Injective
  <2> QED BY <2>1, <2>2
<1> HIDE DEF a, v, w
<1>6. /\ NonNull(a) \o NonNull(v) \in Seq(Payloads)
      /\ Elems(NonNull(a) \o NonNull(v)) = {a, v} \ {NULL}
      /\ Injective(NonNull(a) \o NonNull(v))
  <2>1. Elems(NonNull(a)) \cap Elems(NonNull(v)) = {}
    BY <1>1, <1>3, <1>5
  <2> QED BY <1>1, <1>5, <2>1, ElemsConcat, InjectiveConcat
<1>7. /\ Elems(cached) = {a, v, w} \ {NULL}
      /\ Injective(cached)
  <2>1. Elems(NonNull(a) \o NonNull(v)) \cap Elems(NonNull(w)) = {}
    BY <1>1, <1>3, <1>5, <1>6
  <2>2. /\ Elems(cached) = Elems(NonNull(a) \o NonNull(v)) \cup Elems(NonNull(w))
        /\ Injective(cached)
    <3> DEFINE s == NonNull(a) \o NonNull(v)
               t == NonNull(w)
    <3>1. s \in Seq(Payloads) /\ Injective(s)
      BY <1>6
    <3>2. t \in Seq(Payloads) /\ Injective(t)
      BY <1>1, <1>5
    <3>3. cached = s \o t /\ Elems(s) \cap Elems(t) = {}
      BY <1>4, <2>1
    <3> HIDE DEF s, t
    <3>4. Elems(cached) = Elems(s) \cup Elems(t) /\ Injective(cached)
      BY <3>1, <3>2, <3>3, ElemsConcat, InjectiveConcat
    <3> QED BY <3>4 DEF s, t
  <2> QED BY <1>1, <1>5, <1>6, <2>2
<1> QED BY <1>2, <1>7
LEMMA KindsFinite == IsFiniteSet(Kinds)
<1>1. Kinds = {"metadata"} \cup {"video"} \cup {"audio"}
  BY DEF Kinds
<1> QED BY <1>1, FS_Singleton, FS_AddElement

\* Sets of holders are finite, so they can be counted.
LEMMA Countable ==
  ASSUME NEW S, S \subseteq Consumers \/ S \subseteq Kinds
  PROVE  IsFiniteSet(S) /\ Cardinality(S) \in Nat
BY ConsumersFinite, KindsFinite, FS_Subset, FS_CardinalityType

\* A block that has objects is allocated; one object comes, one goes.
LEMMA BlockChange ==
  ASSUME NEW b \in SharedPtr, NEW n \in Nat \ {0}, BlockOK(b, n)
  PROVE  /\ b.alive
         /\ BlockOK(destroyed(b), n - 1)
         /\ BlockOK([alive |-> b.alive, shared_count |-> b.shared_count + 1], n + 1)
BY DEF BlockOK, destroyed, unallocated, SharedPtr

(* One consumer gives up its objects of the payloads in R, deleting each.  *)
LEMMA Release ==
  ASSUME TypeOK, TypeOK', OnlyPublished, Counted,
         NEW c \in Consumers, NEW R,
         R \subseteq Holds(c),
         Holds(c)' = Holds(c) \ R,
         \A d \in Consumers \ {c} : Holds(d)' = Holds(d),
         UNCHANGED <<stream, cache>>,
         ptrs' = destroy(ptrs, R)
  PROVE  Counted'
<1> SUFFICES ASSUME NEW p \in 1 .. Len(stream)
             PROVE  BlockOK(ptrs[p], HolderCount(p))'
  BY DEF Counted
<1>1. p \in Payloads /\ ptrs[p] \in SharedPtr /\ p \in DOMAIN ptrs
  BY MaxMsgsNat DEF TypeOK, Payloads
<1>2. BlockOK(ptrs[p], HolderCount(p))
  BY DEF Counted
<1>3. Slots(p)' = Slots(p) /\ Slots(p) \subseteq Kinds
  BY DEF Slots
<1>4. Owners(p) \subseteq Consumers
  BY DEF Owners
<1>5. CASE p \in R
  <2>1. Owners(p)' = Owners(p) \ {c} /\ c \in Owners(p)
    BY <1>5 DEF Owners
  <2>2. Cardinality(Owners(p)') = Cardinality(Owners(p)) - 1
    BY <1>4, <2>1, Countable, FS_RemoveElement
  <2>3. Cardinality(Owners(p)) # 0
    BY <1>4, <2>1, Countable, FS_EmptySet
  <2>4. /\ HolderCount(p) \in Nat \ {0}
        /\ HolderCount(p)' = HolderCount(p) - 1
    BY <1>3, <1>4, <2>2, <2>3, Countable DEF HolderCount
  <2>5. ptrs'[p] = destroyed(ptrs[p])
    BY <1>1, <1>5 DEF destroy
  <2> QED BY <1>1, <1>2, <2>4, <2>5, BlockChange
<1>6. CASE p \notin R
  <2>1. Owners(p)' = Owners(p)
    BY <1>6 DEF Owners
  <2>2. ptrs'[p] = ptrs[p]
    BY <1>1, <1>6 DEF destroy
  <2> QED BY <1>2, <1>3, <2>1, <2>2 DEF HolderCount
<1> QED BY <1>5, <1>6

(* One consumer gets an object of each payload in R, copied from an object *)
(* that exists.                                                            *)
LEMMA Acquire ==
  ASSUME TypeOK, TypeOK', Counted,
         NEW c \in Consumers, NEW R,
         Holds(c) = {},
         Holds(c)' = R,
         \A d \in Consumers \ {c} : Holds(d)' = Holds(d),
         \A p \in R : Slots(p) # {},
         UNCHANGED <<stream, cache>>,
         ptrs' = copyEach(ptrs, R)
  PROVE  Counted'
<1> SUFFICES ASSUME NEW p \in 1 .. Len(stream)
             PROVE  BlockOK(ptrs[p], HolderCount(p))'
  BY DEF Counted
<1>1. p \in Payloads /\ ptrs[p] \in SharedPtr /\ p \in DOMAIN ptrs
  BY MaxMsgsNat DEF TypeOK, Payloads
<1>2. BlockOK(ptrs[p], HolderCount(p))
  BY DEF Counted
<1>3. Slots(p)' = Slots(p) /\ Slots(p) \subseteq Kinds
  BY DEF Slots
<1>4. Owners(p) \subseteq Consumers
  BY DEF Owners
<1>5. CASE p \in R
  <2>1. Owners(p)' = Owners(p) \cup {c} /\ c \notin Owners(p)
    BY <1>5 DEF Owners
  <2>2. Cardinality(Owners(p)') = Cardinality(Owners(p)) + 1
    BY <1>4, <2>1, Countable, FS_AddElement
  <2>3. Cardinality(Slots(p)) # 0
    BY <1>3, <1>5, Countable, FS_EmptySet
  <2>4. /\ HolderCount(p) \in Nat \ {0}
        /\ HolderCount(p)' = HolderCount(p) + 1
    BY <1>3, <1>4, <2>2, <2>3, Countable DEF HolderCount
  <2>5. ptrs'[p] = [alive |-> ptrs[p].alive,
                    shared_count |-> ptrs[p].shared_count + 1]
    BY <1>1, <1>5 DEF copyEach
  <2> QED BY <1>1, <1>2, <2>4, <2>5, BlockChange
<1>6. CASE p \notin R
  <2>1. Owners(p)' = Owners(p)
    BY <1>6 DEF Owners
  <2>2. ptrs'[p] = ptrs[p]
    BY <1>1, <1>6 DEF copyEach
  <2> QED BY <1>2, <1>3, <2>1, <2>2 DEF HolderCount
<1> QED BY <1>5, <1>6
(* Publishing: the payload is new, and goes to the consumers there are.    *)
LEMMA PublishHolds ==
  ASSUME TypeOK, PlayPlaces, OnlyPublished, NoDuplicates,
         NEW u \in Publishers, NEW k \in Kinds,
         Receive(u, k), enqueueAll(Len(stream) + 1),
         UNCHANGED <<consumers, batch, leaked>>
  PROVE  /\ Len(stream) + 1 \in Payloads
         /\ Len(stream') = Len(stream) + 1
         /\ \A i \in 1 .. Len(stream) : stream'[i] = stream[i]
         /\ stream'[Len(stream) + 1].kind = k
         /\ \A c \in Consumers :
              Holds(c)' = IF c \in consumers THEN Holds(c) \cup {Len(stream) + 1}
                                             ELSE Holds(c)
         /\ NoDuplicates'
<1> DEFINE p == Len(stream) + 1
<1>1. /\ p \in Payloads
      /\ Len(stream') = Len(stream) + 1
      /\ \A i \in 1 .. Len(stream) : stream'[i] = stream[i]
      /\ stream'[Len(stream) + 1].kind = k
  BY MaxMsgsNat DEF Receive, TypeOK, Payloads
<1>2. \A c \in Consumers : p \notin Holds(c)
  BY DEF OnlyPublished, TypeOK
<1>3. ASSUME NEW c \in consumers
      PROVE  /\ c \in Consumers
             /\ queue'[c] = Append(queue[c], p)
             /\ queue[c] \in Seq(Payloads)
             /\ Elems(queue'[c]) = Elems(queue[c]) \cup {p}
  BY <1>1, ElemsAppend DEF enqueueAll, TypeOK
<1>4. ASSUME NEW c \in Consumers \ consumers
      PROVE  queue'[c] = queue[c]
  BY DEF enqueueAll
<1>5. \A c \in Consumers :
        Holds(c)' = IF c \in consumers THEN Holds(c) \cup {p} ELSE Holds(c)
  BY <1>3, <1>4 DEF Holds, Reaches
<1>6. ASSUME NEW c \in Consumers
      PROVE  /\ Injective(queue'[c])
             /\ Injective(batch[c])
             /\ Elems(queue'[c]) \cap Elems(batch[c]) = {}
  <2>1. CASE c \in consumers
    <3>1. Injective(queue'[c])
      <4>1. Injective(queue[c]) /\ p \notin Elems(queue[c])
        BY <1>2 DEF NoDuplicates, Holds, Reaches
      <4> HIDE DEF p
      <4> QED BY <1>1, <1>3, <2>1, <4>1, InjectiveAppend
    <3>2. /\ Injective(batch[c])
          /\ Elems(queue[c]) \cap Elems(batch[c]) = {}
          /\ p \notin Elems(batch[c])
      BY <1>2 DEF NoDuplicates, Holds, Reaches
    <3>3. Elems(queue'[c]) = Elems(queue[c]) \cup {p}
      BY <1>3, <2>1
    <3> HIDE DEF p
    <3> QED BY <3>1, <3>2, <3>3
  <2>2. CASE c \notin consumers
    BY <1>4, <2>2 DEF NoDuplicates
  <2> QED BY <2>1, <2>2
<1>7. NoDuplicates'
  BY <1>6 DEF NoDuplicates
<1> QED BY <1>1, <1>5, <1>7

(* ... so the other payloads keep their consumers.                         *)
LEMMA PublishOwners ==
  ASSUME TypeOK, PlayPlaces, OnlyPublished, NoDuplicates,
         NEW u \in Publishers, NEW k \in Kinds,
         Receive(u, k), enqueueAll(Len(stream) + 1),
         UNCHANGED <<consumers, batch, leaked>>,
         NEW p, p = Len(stream) + 1
  PROVE  /\ Owners(p)' = consumers
         /\ \A q \in 1 .. Len(stream) : Owners(q)' = Owners(q)
<1>1. \A c \in Consumers :
        Holds(c)' = IF c \in consumers THEN Holds(c) \cup {Len(stream) + 1}
                                       ELSE Holds(c)
  BY PublishHolds
<1>2. \A c \in Consumers : Len(stream) + 1 \notin Holds(c)
  BY DEF OnlyPublished, TypeOK
<1>3. consumers \subseteq Consumers /\ Len(stream) \in Nat
  BY DEF TypeOK
<1>4. ASSUME NEW q \in 1 .. Len(stream) PROVE Owners(q)' = Owners(q)
  <2>1. q # Len(stream) + 1
    BY <1>3
  <2> QED BY <1>1, <2>1 DEF Owners
<1>5. Owners(p)' = consumers
  BY <1>1, <1>2, <1>3 DEF Owners
<1> QED BY <1>4, <1>5
\* All of the invariant but the types, which TypeStep and PlacesStep keep.
Rest == OnlyPublished /\ NoDuplicates /\ Counted

LEMMA MetaDataStep ==
  ASSUME IInv, TypeOK', NEW u \in Publishers, on_meta_data(u)
  PROVE  Rest'
<1> USE DEF IInv
<1>1. PICK p : p = Len(stream) + 1
  OBVIOUS
<1> DEFINE old == {cache["metadata"]} \ {NULL}
<1>2. /\ Receive(u, "metadata") /\ "metadata" \in Kinds
      /\ enqueueAll(Len(stream) + 1)
      /\ UNCHANGED <<consumers, batch, leaked>>
      /\ cache' = [cache EXCEPT !["metadata"] = p]
      /\ ptrs' = copies(initialize(destroy(ptrs, old), p), p,
                        Cardinality(consumers))
  BY <1>1 DEF on_meta_data, Kinds
<1>3. /\ p \in Payloads
      /\ Len(stream') = p
      /\ \A i \in 1 .. Len(stream) : stream'[i] = stream[i]
      /\ stream'[p].kind = "metadata"
      /\ \A c \in Consumers :
           Holds(c)' = IF c \in consumers THEN Holds(c) \cup {p} ELSE Holds(c)
      /\ NoDuplicates'
  BY <1>1, <1>2, PublishHolds
<1>4. /\ Owners(p)' = consumers
      /\ \A q \in 1 .. Len(stream) : Owners(q)' = Owners(q)
  BY <1>1, <1>2, PublishOwners
<1>5. p \in Nat /\ Len(stream) \in Nat /\ p # NULL
  BY <1>1 DEF TypeOK, NULL
<1>6. OnlyPublished'
  <2>1. ASSUME NEW c \in Consumers PROVE Holds(c)' \subseteq 1 .. Len(stream')
    <3>1. Holds(c) \subseteq 1 .. Len(stream)
      BY DEF OnlyPublished
    <3> QED BY <1>1, <1>3, <1>5, <3>1
  <2>2. ASSUME NEW k \in Kinds, cache'[k] # NULL
        PROVE  cache'[k] \in 1 .. Len(stream') /\ stream'[cache'[k]].kind = k
    <3>1. CASE k = "metadata"
      BY <1>1, <1>2, <1>3, <1>5, <3>1 DEF TypeOK
    <3>2. CASE k # "metadata"
      <4>1. cache'[k] = cache[k]
        BY <1>2, <3>2 DEF TypeOK
      <4>2. cache[k] \in 1 .. Len(stream) /\ stream[cache[k]].kind = k
        BY <2>2, <4>1 DEF OnlyPublished
      <4> QED BY <1>1, <1>3, <1>5, <4>1, <4>2
    <3> QED BY <3>1, <3>2
  <2> QED BY <2>1, <2>2 DEF OnlyPublished
<1>7. Counted'
  <2> SUFFICES ASSUME NEW q \in 1 .. p
               PROVE  BlockOK(ptrs[q], HolderCount(q))'
    BY <1>3 DEF Counted
  <2>1. ptrs \in [Payloads -> SharedPtr] /\ q \in Payloads /\ consumers \subseteq Consumers
    BY <1>3, <1>5, MaxMsgsNat DEF TypeOK, Payloads
  <2>2. cache \in [Kinds -> {NULL} \cup Payloads]
    BY DEF TypeOK
  <2>3. CASE q = p
    <3>1. Slots(q)' = {"metadata"}
      <4>1. \A k \in Kinds : cache[k] # p
        BY <1>1, <1>5 DEF OnlyPublished
      <4> QED BY <1>2, <2>2, <2>3, <4>1 DEF Slots
    <3>2. HolderCount(q)' = 1 + Cardinality(consumers)
      BY <1>4, <2>3, <3>1, FS_Singleton DEF HolderCount
    <3>3. ptrs'[q] = [alive |-> TRUE, shared_count |-> 0 + Cardinality(consumers)]
      BY <1>2, <1>3, <2>1, <2>3 DEF copies, initialize, destroy
    <3>4. Cardinality(consumers) \in Nat
      BY <2>1, Countable
    <3> QED BY <3>2, <3>3, <3>4 DEF BlockOK
  <2>4. CASE q # p /\ q \in old
    <3>1. q \in 1 .. Len(stream) /\ q = cache["metadata"]
      BY <1>1, <1>5, <2>4
    <3>2. Slots(q) = {"metadata"} /\ Slots(q)' = {}
      <4>1. \A k \in Kinds : cache[k] = q => k = "metadata"
        BY <1>2, <2>4, <3>1 DEF OnlyPublished
      <4> QED BY <1>2, <2>2, <2>4, <3>1, <4>1 DEF Slots
    <3>3. Owners(q)' = Owners(q) /\ Cardinality(Owners(q)) \in Nat
      BY <1>4, <3>1, Countable DEF Owners
    <3>4. HolderCount(q) = 1 + Cardinality(Owners(q))
      BY <3>2, FS_Singleton DEF HolderCount
    <3>5. HolderCount(q)' = 0 + Cardinality(Owners(q))
      BY <3>2, <3>3, FS_EmptySet DEF HolderCount
    <3>6. ptrs'[q] = destroyed(ptrs[q])
      BY <1>2, <1>3, <2>1, <2>4 DEF copies, initialize, destroy
    <3>7. BlockOK(ptrs[q], HolderCount(q)) /\ ptrs[q] \in SharedPtr
      BY <2>1, <3>1 DEF Counted
    <3>8. /\ HolderCount(q) \in Nat \ {0}
          /\ HolderCount(q)' = HolderCount(q) - 1
      BY <3>3, <3>4, <3>5
    <3> QED BY <3>6, <3>7, <3>8, BlockChange
  <2>5. CASE q # p /\ q \notin old
    <3>1. q \in 1 .. Len(stream)
      BY <1>1, <1>5, <2>5
    <3>2. q # cache["metadata"]
      BY <2>5, <3>1 DEF NULL
    <3>3. Slots(q)' = Slots(q)
      BY <1>2, <2>2, <2>5, <3>2 DEF Slots
    <3>4. ptrs'[q] = ptrs[q]
      BY <1>2, <1>3, <2>1, <2>5 DEF copies, initialize, destroy
    <3> QED BY <1>4, <3>1, <3>3, <3>4 DEF Counted, HolderCount
  <2> QED BY <2>3, <2>4, <2>5
<1> QED BY <1>3, <1>6, <1>7 DEF Rest
LEMMA AudioVideoStep ==
  ASSUME IInv, TypeOK', NEW u \in Publishers, NEW k \in {"video", "audio"},
         on_av(u, k)
  PROVE  Rest'
<1> USE DEF IInv
<1>1. PICK p : p = Len(stream) + 1
  OBVIOUS
<1> DEFINE n == Cardinality(consumers)
           sent == copies(initialize(ptrs, p), p, n)
           kept == IF cache[k] = NULL THEN copies(sent, p, 1) ELSE sent
<1>2. /\ Receive(u, k) /\ k \in Kinds
      /\ enqueueAll(Len(stream) + 1)
      /\ UNCHANGED <<consumers, batch, leaked>>
      /\ cache' = IF cache[k] = NULL THEN [cache EXCEPT ![k] = p] ELSE cache
      /\ ptrs' = destroy(kept, {p})
  BY <1>1 DEF on_av, Kinds
<1>3. /\ p \in Payloads
      /\ Len(stream') = p
      /\ \A i \in 1 .. Len(stream) : stream'[i] = stream[i]
      /\ stream'[p].kind = k
      /\ \A c \in Consumers :
           Holds(c)' = IF c \in consumers THEN Holds(c) \cup {p} ELSE Holds(c)
      /\ NoDuplicates'
  BY <1>1, <1>2, PublishHolds
<1>4. /\ Owners(p)' = consumers
      /\ \A q \in 1 .. Len(stream) : Owners(q)' = Owners(q)
  BY <1>1, <1>2, PublishOwners
<1>5. p \in Nat /\ Len(stream) \in Nat /\ p # NULL
  BY <1>1 DEF TypeOK, NULL
<1>6. OnlyPublished'
  <2>1. ASSUME NEW c \in Consumers PROVE Holds(c)' \subseteq 1 .. Len(stream')
    <3>1. Holds(c) \subseteq 1 .. Len(stream)
      BY DEF OnlyPublished
    <3> QED BY <1>1, <1>3, <1>5, <3>1
  <2>2. ASSUME NEW j \in Kinds, cache'[j] # NULL
        PROVE  cache'[j] \in 1 .. Len(stream') /\ stream'[cache'[j]].kind = j
    <3>1. CASE cache'[j] = cache[j]
      <4>1. cache[j] \in 1 .. Len(stream) /\ stream[cache[j]].kind = j
        BY <2>2, <3>1 DEF OnlyPublished
      <4> QED BY <1>1, <1>3, <1>5, <3>1, <4>1
    <3>2. CASE cache'[j] # cache[j]
      <4>1. j = k /\ cache'[j] = p
        BY <1>2, <3>2 DEF TypeOK
      <4> QED BY <1>1, <1>3, <1>5, <4>1
    <3> QED BY <3>1, <3>2
  <2> QED BY <2>1, <2>2 DEF OnlyPublished
<1>7. Counted'
  <2> SUFFICES ASSUME NEW q \in 1 .. p
               PROVE  BlockOK(ptrs[q], HolderCount(q))'
    BY <1>3 DEF Counted
  <2>1. /\ ptrs \in [Payloads -> SharedPtr] /\ q \in Payloads
        /\ consumers \subseteq Consumers
    BY <1>3, <1>5, MaxMsgsNat DEF TypeOK, Payloads
  <2>2. cache \in [Kinds -> {NULL} \cup Payloads]
    BY DEF TypeOK
  <2>3. n \in Nat /\ Owners(p)' = consumers
    BY <1>4, <2>1, Countable
  <2>4. \A j \in Kinds : cache[j] # p
    BY <1>1, <1>5 DEF OnlyPublished
  <2>5. CASE q = p /\ cache[k] = NULL
    <3>1. Slots(q)' = {k}
      BY <1>2, <2>2, <2>4, <2>5 DEF Slots
    <3>2. HolderCount(q)' = 1 + n
      BY <2>3, <2>5, <3>1, FS_Singleton DEF HolderCount
    <3>3. kept[p] = [alive |-> TRUE, shared_count |-> 0 + n + 1] /\ p \in DOMAIN kept
      BY <1>3, <2>1, <2>5 DEF copies, initialize
    <3>4. ptrs'[p] = destroyed(kept[p])
      BY <1>2, <3>3 DEF destroy
    <3> QED BY <2>3, <2>5, <3>2, <3>3, <3>4 DEF BlockOK, destroyed
  <2>6. CASE q = p /\ cache[k] # NULL
    <3>1. Slots(q)' = {}
      BY <1>2, <2>2, <2>4, <2>6 DEF Slots
    <3>2. HolderCount(q)' = 0 + n
      BY <2>3, <2>6, <3>1, FS_EmptySet DEF HolderCount
    <3>3. kept[p] = [alive |-> TRUE, shared_count |-> 0 + n] /\ p \in DOMAIN kept
      BY <1>3, <2>1, <2>6 DEF copies, initialize
    <3>4. ptrs'[p] = destroyed(kept[p])
      BY <1>2, <3>3 DEF destroy
    <3> QED BY <2>3, <2>6, <3>2, <3>3, <3>4 DEF BlockOK, destroyed, unallocated
  <2>7. CASE q # p
    <3>1. q \in 1 .. Len(stream)
      BY <1>1, <1>5, <2>7
    <3>2. Slots(q)' = Slots(q)
      BY <1>2, <2>2, <2>7, <3>1 DEF Slots, NULL
    <3>3. ptrs'[q] = ptrs[q]
      BY <1>2, <2>1, <2>7 DEF copies, initialize, destroy
    <3> QED BY <1>4, <3>1, <3>2, <3>3 DEF Counted, HolderCount
  <2> QED BY <2>5, <2>6, <2>7
<1> QED BY <1>3, <1>6, <1>7 DEF Rest

LEMMA CreateStep ==
  ASSUME IInv, TypeOK', NEW c \in Consumers, create_consumer(c)
  PROVE  Rest'
<1> USE DEF IInv
<1> DEFINE R == Elems(cached)
<1>1. /\ pc[c] = "init" /\ queue' = [queue EXCEPT ![c] = cached]
      /\ ptrs' = copyEach(ptrs, R)
      /\ UNCHANGED <<stream, cache, batch, leaked>>
  BY DEF create_consumer
<1>2. queue[c] = <<>> /\ batch[c] = <<>> /\ leaked[c] = {}
  BY <1>1 DEF PlayPlaces
<1>3. R = {cache[k] : k \in Kinds} \ {NULL} /\ Injective(cached)
  BY CachedElems
<1>4. queue'[c] = cached /\ \A d \in Consumers \ {c} : queue'[d] = queue[d]
  BY <1>1 DEF TypeOK
<1>5. Holds(c) = {} /\ Holds(c)' = R
  BY <1>1, <1>2, <1>4, ElemsEmpty DEF Holds, Reaches
<1>6. \A d \in Consumers \ {c} : Holds(d)' = Holds(d)
  BY <1>1, <1>4 DEF Holds, Reaches
<1>7. \A p \in R : Slots(p) # {} /\ p \in 1 .. Len(stream)
  BY <1>3 DEF Slots, OnlyPublished
<1>8. OnlyPublished'
  BY <1>1, <1>5, <1>6, <1>7 DEF OnlyPublished
<1>9. NoDuplicates'
  <2>1. Elems(batch[c]) = {} /\ Injective(batch[c])
    BY <1>2, ElemsEmpty DEF Injective
  <2> QED BY <1>1, <1>3, <1>4, <2>1 DEF NoDuplicates
<1>10. Counted'
  <2> HIDE DEF R, IInv
  <2> QED BY <1>1, <1>5, <1>6, <1>7, Acquire DEF IInv
<1> QED BY <1>8, <1>9, <1>10 DEF Rest

LEMMA GetPacketsStep ==
  ASSUME IInv, TypeOK', NEW c \in Consumers, get_packets(c)
  PROVE  Rest'
<1> USE DEF IInv
<1>1. /\ pc[c] = "recv"
      /\ batch' = [batch EXCEPT ![c] = queue[c]]
      /\ queue' = [queue EXCEPT ![c] = <<>>]
      /\ UNCHANGED <<stream, ptrs, cache, leaked>>
  BY DEF get_packets
<1>2. batch[c] = <<>>
  BY <1>1 DEF PlayPlaces
<1>3. /\ batch'[c] = queue[c] /\ queue'[c] = <<>>
      /\ \A d \in Consumers \ {c} : queue'[d] = queue[d] /\ batch'[d] = batch[d]
  BY <1>1 DEF TypeOK
<1>4. \A d \in Consumers : Holds(d)' = Holds(d)
  BY <1>1, <1>2, <1>3, ElemsEmpty DEF Holds, Reaches
<1>5. OnlyPublished'
  BY <1>1, <1>4 DEF OnlyPublished
<1>6. NoDuplicates'
  <2>1. Injective(<<>>)
    BY DEF Injective
  <2> QED BY <1>3, <2>1, ElemsEmpty DEF NoDuplicates
<1>7. Counted'
  BY <1>1, <1>4 DEF Counted, HolderCount, Slots, Owners
<1> QED BY <1>5, <1>6, <1>7 DEF Rest

LEMMA SendStep ==
  ASSUME IInv, TypeOK', NEW c \in Consumers, send_message(c)
  PROVE  Rest'
<1> USE DEF IInv
<1> DEFINE b == batch[c]
<1>1. /\ pc[c] = "send"
      /\ ptrs' = destroy(ptrs, {Head(b)})
      /\ batch' = [batch EXCEPT ![c] = Tail(b)]
      /\ UNCHANGED <<stream, cache, queue, leaked>>
  BY DEF send_message
<1>2. b # <<>> /\ b \in Seq(Payloads) /\ leaked[c] = {} /\ Injective(b)
  BY <1>1 DEF PlayPlaces, TypeOK, NoDuplicates
<1>3. /\ Elems(b) = {Head(b)} \cup Elems(Tail(b))
      /\ Injective(Tail(b)) /\ Head(b) \notin Elems(Tail(b))
  <2> HIDE DEF b
  <2> QED BY <1>2, ElemsSplit, InjectiveTail
<1>4. /\ batch'[c] = Tail(b)
      /\ \A d \in Consumers \ {c} : batch'[d] = batch[d]
  BY <1>1 DEF TypeOK
<1>5. Elems(queue[c]) \cap Elems(b) = {}
  BY DEF NoDuplicates
<1>6. /\ Holds(c) = Elems(queue[c]) \cup Elems(b)
      /\ Holds(c)' = Elems(queue[c]) \cup Elems(Tail(b))
  BY <1>1, <1>2, <1>4 DEF Holds, Reaches
<1>7. {Head(b)} \subseteq Holds(c) /\ Holds(c)' = Holds(c) \ {Head(b)}
  <2> HIDE DEF b
  <2> QED BY <1>3, <1>5, <1>6
<1>8. \A d \in Consumers \ {c} : Holds(d)' = Holds(d)
  BY <1>1, <1>4 DEF Holds, Reaches
<1>9. OnlyPublished'
  BY <1>1, <1>7, <1>8 DEF OnlyPublished
<1>10. NoDuplicates'
  <2>1. Elems(queue[c]) \cap Elems(Tail(b)) = {}
    <3> HIDE DEF b
    <3> QED BY <1>3, <1>5
  <2> QED BY <1>1, <1>3, <1>4, <2>1 DEF NoDuplicates
<1>11. Counted'
  <2> HIDE DEF b, IInv
  <2> QED BY <1>1, <1>7, <1>8, Release DEF IInv
<1> QED BY <1>9, <1>10, <1>11 DEF Rest

LEMMA SendFailStep ==
  ASSUME IInv, TypeOK', NEW c \in Consumers, SendFail(c)
  PROVE  Rest'
<1> USE DEF IInv
<1> DEFINE b == batch[c]
           R == {Head(b)} \cup Elems(queue[c])
<1>1. /\ pc[c] = "send"
      /\ ptrs' = destroy(ptrs, R)
      /\ batch' = [batch EXCEPT ![c] = <<>>]
      /\ queue' = [queue EXCEPT ![c] = <<>>]
      /\ leaked' = [leaked EXCEPT ![c] = Elems(Tail(b))]
      /\ UNCHANGED <<stream, cache>>
  BY DEF SendFail, destroy_consumer
<1>2. b # <<>> /\ b \in Seq(Payloads) /\ leaked[c] = {} /\ Injective(b)
  BY <1>1 DEF PlayPlaces, TypeOK, NoDuplicates
<1>3. /\ Elems(b) = {Head(b)} \cup Elems(Tail(b))
      /\ Head(b) \notin Elems(Tail(b))
  <2> HIDE DEF b
  <2> QED BY <1>2, ElemsSplit, InjectiveTail
<1>4. /\ batch'[c] = <<>> /\ queue'[c] = <<>> /\ leaked'[c] = Elems(Tail(b))
      /\ \A d \in Consumers \ {c} : /\ batch'[d] = batch[d]
                                     /\ queue'[d] = queue[d]
                                     /\ leaked'[d] = leaked[d]
  BY <1>1 DEF TypeOK
<1>5. Elems(queue[c]) \cap Elems(b) = {}
  BY DEF NoDuplicates
<1>6. /\ Holds(c) = Elems(queue[c]) \cup Elems(b)
      /\ Holds(c)' = Elems(Tail(b))
  BY <1>2, <1>4, ElemsEmpty DEF Holds, Reaches
<1>7. R \subseteq Holds(c) /\ Holds(c)' = Holds(c) \ R
  <2> HIDE DEF b
  <2> QED BY <1>3, <1>5, <1>6
<1>8. \A d \in Consumers \ {c} : Holds(d)' = Holds(d)
  BY <1>4 DEF Holds, Reaches
<1>9. OnlyPublished'
  BY <1>1, <1>7, <1>8 DEF OnlyPublished
<1>10. NoDuplicates'
  BY <1>4, ElemsEmpty DEF NoDuplicates, Injective
<1>11. Counted'
  <2> HIDE DEF b, R, IInv
  <2> QED BY <1>1, <1>7, <1>8, Release DEF IInv
<1> QED BY <1>9, <1>10, <1>11 DEF Rest

LEMMA RecvFailStep ==
  ASSUME IInv, TypeOK', NEW c \in Consumers, RecvFail(c)
  PROVE  Rest'
<1> USE DEF IInv
<1> DEFINE R == Elems(queue[c])
<1>1. /\ pc[c] = "recv"
      /\ ptrs' = destroy(ptrs, {} \cup R)
      /\ queue' = [queue EXCEPT ![c] = <<>>]
      /\ UNCHANGED <<stream, cache, batch, leaked>>
  BY DEF RecvFail, destroy_consumer
<1>2. batch[c] = <<>> /\ leaked[c] = {}
  BY <1>1 DEF PlayPlaces
<1>3. queue'[c] = <<>> /\ \A d \in Consumers \ {c} : queue'[d] = queue[d]
  BY <1>1 DEF TypeOK
<1>4. Holds(c) = R /\ Holds(c)' = {}
  BY <1>1, <1>2, <1>3, ElemsEmpty DEF Holds, Reaches
<1>5. \A d \in Consumers \ {c} : Holds(d)' = Holds(d)
  BY <1>1, <1>3 DEF Holds, Reaches
<1>6. OnlyPublished'
  BY <1>1, <1>4, <1>5 DEF OnlyPublished
<1>7. NoDuplicates'
  BY <1>1, <1>3, ElemsEmpty DEF NoDuplicates, Injective
<1>8. Counted'
  <2> HIDE DEF R, IInv
  <2>1. {} \cup R = R /\ R \subseteq Holds(c) /\ Holds(c)' = Holds(c) \ R
    BY <1>4
  <2> QED BY <1>1, <1>5, <2>1, Release DEF IInv
<1> QED BY <1>6, <1>7, <1>8 DEF Rest

\* The steps that touch neither the heap nor what is held.
LEMMA StutterStep ==
  ASSUME Rest, UNCHANGED <<stream, ptrs, cache, queue, batch, leaked>>
  PROVE  Rest'
<1>1. \A c \in Consumers : Holds(c)' = Holds(c)
  BY DEF Holds, Reaches
<1>2. OnlyPublished'
  BY <1>1 DEF Rest, OnlyPublished
<1>3. NoDuplicates'
  BY DEF Rest, NoDuplicates
<1>4. \A p \in 1 .. Len(stream) : HolderCount(p)' = HolderCount(p)
  BY <1>1 DEF HolderCount, Slots, Owners
<1>5. Counted'
  BY <1>4 DEF Rest, Counted
<1> QED BY <1>2, <1>3, <1>5 DEF Rest

-----------------------------------------------------------------------------
(* The inductive invariant holds in every state of every behaviour.        *)
THEOREM Inductive == Spec => []IInv
<1>1. Init => IInv
  <2> SUFFICES ASSUME Init PROVE IInv
    OBVIOUS
  <2>1. TypeOK /\ PlayPlaces
    BY MaxMsgsNat DEF Init, TypeOK, PlayPlaces, unallocated, SharedPtr
  <2>2. \A c \in Consumers : Holds(c) = {}
    BY ElemsEmpty DEF Init, Holds, Reaches
  <2>3. OnlyPublished /\ Counted
    BY <2>2 DEF Init, OnlyPublished, Counted
  <2>4. NoDuplicates
    BY ElemsEmpty DEF Init, NoDuplicates, Injective
  <2> QED BY <2>1, <2>3, <2>4 DEF IInv
<1>2. IInv /\ [Next]_vars => IInv'
  <2> SUFFICES ASSUME IInv, [Next]_vars PROVE IInv'
    OBVIOUS
  <2>1. TypeOK' /\ PlayPlaces'
    BY TypeStep, PlacesStep DEF IInv
  <2>0. Rest
    BY DEF IInv, Rest
  <2>2. ASSUME NEW u \in Publishers, StartPublish(u) \/ EndPublish(u)
        PROVE  Rest'
    BY <2>2, <2>0, StutterStep DEF StartPublish, EndPublish
  <2>5. ASSUME NEW c \in Consumers, Trickle(c) \/ recv_message_goes_on(c)
        PROVE  Rest'
    BY <2>5, <2>0, StutterStep DEF Trickle, recv_message_goes_on
  <2>3. ASSUME UNCHANGED vars PROVE Rest'
    <3>1. UNCHANGED <<stream, ptrs, cache, queue, batch, leaked>>
      BY <2>3 DEF vars
    <3> QED BY <2>0, <3>1, StutterStep
  <2>4. Rest'
    <3>1. ASSUME NEW u \in Publishers, StartPublish(u) \/ Publish(u) \/ EndPublish(u)
          PROVE  Rest'
      BY <2>1, <2>2, <3>1, MetaDataStep, AudioVideoStep DEF Publish, on_audio, on_video
    <3>2. ASSUME NEW c \in Consumers, create_consumer(c) \/ Trickle(c) \/ Play(c)
          PROVE  Rest'
      BY <2>1, <2>5, <3>2, CreateStep, GetPacketsStep, SendStep, SendFailStep, RecvFailStep
         DEF Play
    <3>3. CASE Next
      BY <3>1, <3>2, <3>3 DEF Next
    <3> QED BY <2>3, <3>3
  <2> QED BY <2>1, <2>4 DEF IInv, Rest
<1> QED BY <1>1, <1>2, PTL DEF Spec

(* shared_count is exact: a block is deleted with its last object, and     *)
(* never before or after it, for any number of players and publishers.     *)
THEOREM RefCountExact == Spec => []RefCount
<1>1. IInv => RefCount
  BY DEF IInv, Counted, RefCount, BlockOK
<1> QED BY <1>1, Inductive, PTL

(* No cache slot, queue or batch points to a deleted block.                *)
THEOREM NothingDangles == Spec => []NoUseAfterFree
<1>1. IInv => NoUseAfterFree
  <2> SUFFICES ASSUME IInv PROVE NoUseAfterFree
    OBVIOUS
  <2> USE DEF IInv
  <2>1. ASSUME NEW p \in 1 .. Len(stream), Slots(p) # {} \/ Owners(p) # {}
        PROVE  ptrs[p].alive
    <3>1. BlockOK(ptrs[p], HolderCount(p))
      BY DEF Counted
    <3>2. /\ IsFiniteSet(Slots(p)) /\ Cardinality(Slots(p)) \in Nat
          /\ IsFiniteSet(Owners(p)) /\ Cardinality(Owners(p)) \in Nat
      BY Countable DEF Slots, Owners
    <3>3. HolderCount(p) # 0
      BY <2>1, <3>2, FS_EmptySet DEF HolderCount
    <3> QED BY <3>1, <3>3 DEF BlockOK
  <2>2. \A k \in Kinds : cache[k] # NULL => ptrs[cache[k]].alive
    BY <2>1 DEF OnlyPublished, Slots
  <2>3. \A c \in Consumers : \A p \in Holds(c) : ptrs[p].alive
    BY <2>1 DEF OnlyPublished, Owners
  <2> QED BY <2>2, <2>3 DEF NoUseAfterFree
<1> QED BY <1>1, Inductive, PTL

-----------------------------------------------------------------------------
(* What RssSource delivers: every player gets its catch-up and then the    *)
(* stream, and the source implements the broadcast service.                *)

(* Least and greatest elements of sets of natural numbers.  What would     *)
(* otherwise need an induction is proved with a least counterexample.      *)

LEMMA Least ==
  ASSUME NEW T, T \subseteq Nat, T # {}
  PROVE  \E m \in T : \A n \in T : m <= n
<1> DEFINE R == OpToRel(<, Nat)
<1>1. IsWellFoundedOn(R, Nat)
  BY NatLessThanWellFounded
<1>2. PICK m \in T : \A n \in T : ~ (<<n, m>> \in R)
  <2> HIDE DEF R
  <2> QED BY <1>1, WFMin
<1>3. ASSUME NEW n \in T PROVE m <= n
  <2>1. ~ (<<n, m>> \in R) /\ n \in Nat /\ m \in Nat
    BY <1>2
  <2>2. n < m => <<n, m>> \in R
    BY <2>1 DEF OpToRel
  <2> HIDE DEF R
  <2> QED BY <2>1, <2>2
<1> QED BY <1>3

LEMMA Greatest ==
  ASSUME NEW b \in Nat, NEW T, T \subseteq 0 .. b, T # {}
  PROVE  \E m \in T : \A n \in T : n <= m
<1> DEFINE U == {b - n : n \in T}
<1>1. \A n \in T : b - n \in U /\ n \in Int
  OBVIOUS
<1>2. \A u \in U : u \in Nat /\ \E n \in T : u = b - n
  OBVIOUS
<1>3. U \subseteq Nat /\ U # {}
  <2> HIDE DEF U
  <2> QED BY <1>1, <1>2
<1>4. PICK u \in U : \A n \in U : u <= n
  BY <1>3, Least
<1> HIDE DEF U
<1>5. PICK m \in T : u = b - m
  BY <1>2
<1>6. ASSUME NEW n \in T PROVE n <= m
  <2>1. u <= b - n /\ n \in Int /\ m \in Int
    BY <1>1, <1>4
  <2> QED BY <1>5, <2>1
<1> QED BY <1>6

-----------------------------------------------------------------------------
(* Sequences.                                                              *)

LEMMA ConcatAppend ==
  ASSUME NEW S, NEW s \in Seq(S), NEW t \in Seq(S), NEW x \in S
  PROVE  s \o Append(t, x) = Append(s \o t, x)
OBVIOUS

LEMMA ConcatHead ==
  ASSUME NEW S, NEW s \in Seq(S), NEW t \in Seq(S), t # <<>>
  PROVE  Append(s, Head(t)) \o Tail(t) = s \o t
OBVIOUS

LEMMA ConcatEmpty ==
  ASSUME NEW S, NEW s \in Seq(S)
  PROVE  s \o <<>> = s /\ <<>> \o s = s
OBVIOUS

LEMMA ConcatType ==
  ASSUME NEW S, NEW s \in Seq(S), NEW t \in Seq(S)
  PROVE  s \o t \in Seq(S) /\ Len(s \o t) = Len(s) + Len(t)
OBVIOUS

LEMMA ConcatNext ==
  ASSUME NEW S, NEW s \in Seq(S), NEW t \in Seq(S), t # <<>>
  PROVE  Len(s) < Len(s \o t) /\ (s \o t)[Len(s) + 1] = Head(t)
OBVIOUS

\* The first n elements of a sequence are not changed by what is appended.
LEMMA PrefixKept ==
  ASSUME NEW S, NEW s \in Seq(S), NEW x \in S, NEW n \in 0 .. Len(s)
  PROVE  SubSeq(Append(s, x), 1, n) = SubSeq(s, 1, n)
OBVIOUS

LEMMA PrefixOfConcat ==
  ASSUME NEW S, NEW s \in Seq(S), NEW t \in Seq(S)
  PROVE  Len(s) <= Len(s \o t) /\ SubSeq(s \o t, 1, Len(s)) = s
OBVIOUS

LEMMA PrefixType ==
  ASSUME NEW S, NEW s \in Seq(S), NEW n \in 0 .. Len(s)
  PROVE  SubSeq(s, 1, n) \in Seq(S) /\ Len(SubSeq(s, 1, n)) = n
OBVIOUS

-----------------------------------------------------------------------------
(* The catch-up that Broadcast computes from a log.                        *)

LEMMA FirstIs ==
  ASSUME NEW l \in Seq(Messages), NEW k, NEW i \in B!OfKind(l, k),
         \A j \in B!OfKind(l, k) : i <= j
  PROVE  B!First(l, k) = <<i>>
<1>1. B!OfKind(l, k) \subseteq Int
  BY DEF B!OfKind
<1>2. \A n \in B!OfKind(l, k) : (\A j \in B!OfKind(l, k) : n <= j) => n = i
  BY <1>1
<1> QED BY <1>2 DEF B!First

LEMMA LatestIs ==
  ASSUME NEW l \in Seq(Messages), NEW k, NEW i \in B!OfKind(l, k),
         \A j \in B!OfKind(l, k) : j <= i
  PROVE  B!Latest(l, k) = <<i>>
<1>1. B!OfKind(l, k) \subseteq Int
  BY DEF B!OfKind
<1>2. \A n \in B!OfKind(l, k) : (\A j \in B!OfKind(l, k) : j <= n) => n = i
  BY <1>1
<1> QED BY <1>2 DEF B!Latest

LEMMA CatchUpType ==
  ASSUME NEW l \in Seq(Messages), Len(l) <= MaxMsgs
  PROVE  B!CatchUp(l) \in Seq(Payloads)
<1>1. ASSUME NEW k PROVE B!OfKind(l, k) \subseteq Payloads
  BY MaxMsgsNat DEF B!OfKind, Payloads
<1>2. ASSUME NEW k PROVE B!First(l, k) \in Seq(Payloads)
  <2>1. CASE B!OfKind(l, k) = {}
    BY <2>1 DEF B!First
  <2>2. CASE B!OfKind(l, k) # {}
    <3>1. B!OfKind(l, k) \subseteq Nat
      BY DEF B!OfKind
    <3>2. PICK i \in B!OfKind(l, k) : \A j \in B!OfKind(l, k) : i <= j
      BY <2>2, <3>1, Least
    <3>3. B!First(l, k) = <<i>> /\ i \in Payloads
      BY <1>1, <3>2, FirstIs
    <3> QED BY <3>3
  <2> QED BY <2>1, <2>2
<1>3. ASSUME NEW k PROVE B!Latest(l, k) \in Seq(Payloads)
  <2>1. CASE B!OfKind(l, k) = {}
    BY <2>1 DEF B!Latest
  <2>2. CASE B!OfKind(l, k) # {}
    <3>1. B!OfKind(l, k) \subseteq 0 .. Len(l) /\ Len(l) \in Nat
      BY DEF B!OfKind
    <3>2. PICK i \in B!OfKind(l, k) : \A j \in B!OfKind(l, k) : j <= i
      BY <2>2, <3>1, Greatest
    <3>3. B!Latest(l, k) = <<i>> /\ i \in Payloads
      BY <1>1, <3>2, LatestIs
    <3> QED BY <3>3
  <2> QED BY <2>1, <2>2
<1> QED BY <1>2, <1>3 DEF B!CatchUp

\* A player that joins is given what Broadcast owes it.
LEMMA CachedIsCatchUp ==
  ASSUME TypeOK, OnlyPublished, CachesFollowLog
  PROVE  cached = B!CatchUp(stream)
<1>1. ASSUME NEW k \in Kinds, cache[k] # NULL
      PROVE  cache[k] \in B!OfKind(stream, k)
  BY <1>1 DEF OnlyPublished, B!OfKind
<1>2. ASSUME NEW k \in {"video", "audio"}
      PROVE  NonNull(cache[k]) = B!First(stream, k)
  <2>1. CASE cache[k] = NULL
    <3>1. B!OfKind(stream, k) = {}
      BY <2>1 DEF CachesFollowLog
    <3> QED BY <2>1, <3>1 DEF NonNull, B!First
  <2>2. CASE cache[k] # NULL
    <3>1. cache[k] \in B!OfKind(stream, k)
      BY <1>1, <2>2 DEF Kinds
    <3>2. \A j \in B!OfKind(stream, k) : cache[k] <= j
      BY DEF CachesFollowLog
    <3> QED BY <2>2, <3>1, <3>2, FirstIs DEF NonNull, TypeOK
  <2> QED BY <2>1, <2>2
<1>3. NonNull(cache["metadata"]) = B!Latest(stream, "metadata")
  <2>1. CASE cache["metadata"] = NULL
    <3>1. \A i \in B!OfKind(stream, "metadata") : i <= 0 /\ i \in 1 .. Len(stream)
      BY <2>1 DEF CachesFollowLog, NULL, B!OfKind
    <3>2. B!OfKind(stream, "metadata") = {}
      BY <3>1
    <3> QED BY <2>1, <3>2 DEF NonNull, B!Latest
  <2>2. CASE cache["metadata"] # NULL
    <3>1. cache["metadata"] \in B!OfKind(stream, "metadata")
      BY <1>1, <2>2 DEF Kinds
    <3>2. \A j \in B!OfKind(stream, "metadata") : j <= cache["metadata"]
      BY DEF CachesFollowLog
    <3> QED BY <2>2, <3>1, <3>2, LatestIs DEF NonNull, TypeOK
  <2> QED BY <2>1, <2>2
<1> QED BY <1>2, <1>3 DEF cached, B!CatchUp

-----------------------------------------------------------------------------
(* How publishing changes what a consumer has and what it is owed.         *)

LEMMA OwedType ==
  ASSUME TypeOK, JoinedBefore, NEW c \in Consumers
  PROVE  Owed(c) \in Seq(Payloads)
<1>1. joined[c] \in 0 .. Len(stream) /\ Len(stream) \in Nat /\ Len(stream) <= MaxMsgs
  BY DEF TypeOK, JoinedBefore
<1>2. B!CatchUp(SubSeq(stream, 1, joined[c])) \in Seq(Payloads)
  <2>1. /\ SubSeq(stream, 1, joined[c]) \in Seq(Messages)
        /\ Len(SubSeq(stream, 1, joined[c])) <= MaxMsgs
    BY <1>1, PrefixType, MaxMsgsNat DEF TypeOK
  <2> QED BY <2>1, CatchUpType
<1>3. Since(joined[c]) \in Seq(Payloads)
  BY <1>1, MaxMsgsNat DEF Since, Payloads
<1> QED BY <1>2, <1>3, ConcatType DEF Owed

LEMMA OwedGrows ==
  ASSUME TypeOK, TypeOK', JoinedBefore, NEW k \in Kinds, NEW c \in Consumers,
         stream' = Append(stream, [kind |-> k]), joined' = joined
  PROVE  Owed(c)' = Append(Owed(c), Len(stream) + 1)
<1> DEFINE j == joined[c]
           n == Len(stream)
           u == B!CatchUp(SubSeq(stream, 1, j))
<1>1. /\ j \in 0 .. n /\ n \in Nat /\ n <= MaxMsgs /\ j' = j
      /\ Len(stream') = n + 1 /\ n + 1 \in Payloads
  BY MaxMsgsNat DEF TypeOK, JoinedBefore, Payloads
<1>2. SubSeq(stream', 1, j) = SubSeq(stream, 1, j)
  <2>1. [kind |-> k] \in Messages
    BY DEF Messages
  <2> HIDE DEF j, n
  <2> QED BY <1>1, <2>1, PrefixKept DEF n, TypeOK
<1>3. Since(j)' = Append(Since(j), n + 1)
  BY <1>1 DEF Since
<1>4. u \in Seq(Payloads)
  <2>1. SubSeq(stream, 1, j) \in Seq(Messages) /\ Len(SubSeq(stream, 1, j)) <= MaxMsgs
    BY <1>1, PrefixType, MaxMsgsNat DEF TypeOK
  <2> QED BY <2>1, CatchUpType
<1>5. Since(j) \in Seq(Payloads)
  <2> HIDE DEF j
  <2> QED BY <1>1, MaxMsgsNat DEF Since, Payloads
<1>6. Owed(c) = u \o Since(j) /\ Owed(c)' = u \o Append(Since(j), n + 1)
  BY <1>1, <1>2, <1>3 DEF Owed
<1> HIDE DEF j, n, u
<1> QED BY <1>1, <1>4, <1>5, <1>6, ConcatAppend DEF n

LEMMA FeedGrows ==
  ASSUME TypeOK, NEW p \in Payloads, enqueueAll(p), UNCHANGED <<batch, received>>,
         NEW c \in Consumers
  PROVE  Feed(c)' = IF c \in consumers THEN Append(Feed(c), p) ELSE Feed(c)
<1>1. /\ received[c] \in Seq(Payloads) /\ batch[c] \in Seq(Payloads)
      /\ queue[c] \in Seq(Payloads)
  BY DEF TypeOK
<1>2. queue'[c] = IF c \in consumers THEN Append(queue[c], p) ELSE queue[c]
  BY DEF enqueueAll
<1>3. received[c] \o batch[c] \in Seq(Payloads)
  BY <1>1, ConcatType
<1>4. (received[c] \o batch[c]) \o Append(queue[c], p) = Append(Feed(c), p)
  <2> DEFINE r == received[c] \o batch[c]
             q == queue[c]
  <2>1. r \in Seq(Payloads) /\ q \in Seq(Payloads)
    BY <1>1, <1>3
  <2>2. r \o Append(q, p) = Append(r \o q, p)
    <3> HIDE DEF r, q
    <3> QED BY <2>1, ConcatAppend
  <2> QED BY <2>2 DEF Feed
<1>5. Feed(c)' = (received[c] \o batch[c]) \o queue'[c]
  BY DEF Feed
<1> QED BY <1>2, <1>4, <1>5 DEF Feed

LEMMA FeedType ==
  ASSUME TypeOK, NEW c \in Consumers
  PROVE  Feed(c) \in Seq(Payloads)
BY ConcatType DEF TypeOK, Feed

\* What the three handlers of the publish loop have in common.
LEMMA PublishDelivery ==
  ASSUME DInv, TypeOK', NEW u \in Publishers, NEW k \in Kinds, Receive(u, k),
         enqueueAll(Len(stream) + 1),
         UNCHANGED <<consumers, batch, pc, joined, received>>
  PROVE  JoinedBefore' /\ DeliveryInOrder'
<1> USE DEF DInv, IInv
<1> DEFINE p == Len(stream) + 1
<1>1. /\ stream' = Append(stream, [kind |-> k]) /\ Len(stream') = p
      /\ p \in Payloads
  BY MaxMsgsNat DEF Receive, TypeOK, Payloads
<1>2. JoinedBefore'
  BY <1>1 DEF JoinedBefore, TypeOK
<1>3. ASSUME NEW c \in Consumers
      PROVE  /\ Owed(c)' = Append(Owed(c), p)
             /\ Feed(c)' = IF c \in consumers THEN Append(Feed(c), p) ELSE Feed(c)
             /\ Owed(c) \in Seq(Payloads)
  BY <1>1, OwedGrows, FeedGrows, OwedType
<1>4. ASSUME NEW c \in Consumers, pc[c] \in {"recv", "send"}
      PROVE  Feed(c)' = Owed(c)'
  BY <1>3, <1>4 DEF DeliveryInOrder, PlayPlaces
<1>5. ASSUME NEW c \in Consumers, pc[c] = "done"
      PROVE  /\ Len(received[c]) <= Len(Owed(c)')
             /\ received[c] = SubSeq(Owed(c)', 1, Len(received[c]))
  <2>1. /\ Len(received[c]) \in 0 .. Len(Owed(c))
        /\ received[c] = SubSeq(Owed(c), 1, Len(received[c]))
    BY <1>3, <1>5 DEF DeliveryInOrder, TypeOK
  <2>2. Len(Owed(c)') = Len(Owed(c)) + 1 /\ Len(Owed(c)) \in Nat
    BY <1>1, <1>3
  <2>3. SubSeq(Owed(c)', 1, Len(received[c])) = SubSeq(Owed(c), 1, Len(received[c]))
    BY <1>1, <1>3, <2>1, PrefixKept
  <2> QED BY <2>1, <2>2, <2>3
<1> QED BY <1>2, <1>4, <1>5 DEF DeliveryInOrder

-----------------------------------------------------------------------------
(* The caches follow the log.                                              *)

LEMMA OfKindGrows ==
  ASSUME stream \in Seq(Messages), NEW k \in Kinds,
         stream' = Append(stream, [kind |-> k]), NEW j \in Kinds
  PROVE  B!OfKind(stream, j)' =
           IF j = k THEN B!OfKind(stream, j) \cup {Len(stream) + 1}
                    ELSE B!OfKind(stream, j)
<1>1. [kind |-> k] \in Messages
  BY DEF Messages
<1>2. /\ Len(stream') = Len(stream) + 1 /\ Len(stream) \in Nat
      /\ \A i \in 1 .. Len(stream) : stream'[i] = stream[i]
      /\ stream'[Len(stream) + 1].kind = k
  BY <1>1
<1> QED BY <1>2 DEF B!OfKind

LEMMA CachesStep ==
  ASSUME DInv, [Next]_vars
  PROVE  CachesFollowLog'
<1> USE DEF DInv, IInv
<1> DEFINE p == Len(stream) + 1
           Of(k) == B!OfKind(stream, k)
<1>0. /\ stream \in Seq(Messages) /\ Len(stream) \in Nat
      /\ cache \in [Kinds -> {NULL} \cup Payloads]
      /\ \A k \in Kinds : Of(k) \subseteq 1 .. Len(stream)
  BY DEF TypeOK, B!OfKind
<1>1. ASSUME NEW u \in Publishers, on_meta_data(u)
      PROVE  CachesFollowLog'
  <2>1. /\ stream' = Append(stream, [kind |-> "metadata"])
        /\ cache' = [cache EXCEPT !["metadata"] = p]
    BY <1>1 DEF on_meta_data, Receive
  <2>2. \A j \in Kinds : Of(j)' = IF j = "metadata" THEN Of(j) \cup {p} ELSE Of(j)
    BY <1>0, <2>1, OfKindGrows DEF Kinds
  <2>3. /\ \A j \in Of("metadata") : j <= p
        /\ cache'["metadata"] = p
        /\ \A k \in {"video", "audio"} : cache'[k] = cache[k]
    BY <1>0, <2>1 DEF Kinds
  <2> QED BY <2>2, <2>3 DEF CachesFollowLog, Kinds
<1>2. ASSUME NEW u \in Publishers, NEW k \in {"video", "audio"}, on_av(u, k)
      PROVE  CachesFollowLog'
  <2>1. /\ stream' = Append(stream, [kind |-> k])
        /\ cache' = IF cache[k] = NULL THEN [cache EXCEPT ![k] = p] ELSE cache
    BY <1>2 DEF on_av, Receive
  <2>2. \A j \in Kinds : Of(j)' = IF j = k THEN Of(j) \cup {p} ELSE Of(j)
    BY <1>0, <2>1, OfKindGrows DEF Kinds
  <2>3. /\ cache'["metadata"] = cache["metadata"]
        /\ Of("metadata")' = Of("metadata")
    BY <1>0, <2>1, <2>2 DEF Kinds
  <2>4. ASSUME NEW j \in {"video", "audio"}, NEW i \in Of(j)'
        PROVE  cache'[j] # NULL /\ cache'[j] <= i
    <3>1. CASE j # k
      <4>1. cache'[j] = cache[j] /\ i \in Of(j)
        BY <1>0, <2>1, <2>2, <2>4, <3>1 DEF Kinds
      <4> QED BY <4>1 DEF CachesFollowLog
    <3>2. CASE j = k /\ cache[k] = NULL
      <4>1. cache'[j] = p
        BY <1>0, <2>1, <3>2 DEF Kinds
      <4>2. i = p
        BY <2>2, <2>4, <3>2 DEF CachesFollowLog, Kinds
      <4> QED BY <1>0, <4>1, <4>2 DEF NULL
    <3>3. CASE j = k /\ cache[k] # NULL
      <4>1. cache'[j] = cache[k]
        BY <2>1, <3>3
      <4>2. cache[k] \in 1 .. Len(stream)
        BY <3>3 DEF OnlyPublished, Kinds
      <4>3. i = p \/ i \in Of(k)
        BY <2>2, <2>4, <3>3 DEF Kinds
      <4> QED BY <1>0, <3>3, <4>1, <4>2, <4>3 DEF CachesFollowLog
    <3> QED BY <3>1, <3>2, <3>3
  <2> QED BY <2>3, <2>4 DEF CachesFollowLog
<1>3. ASSUME UNCHANGED <<stream, cache>>
      PROVE  CachesFollowLog'
  BY <1>3 DEF CachesFollowLog, B!OfKind
<1>4. ASSUME NEW c \in Consumers, create_consumer(c) \/ Trickle(c) \/ Play(c)
      PROVE  UNCHANGED <<stream, cache>>
  BY <1>4 DEF create_consumer, Trickle, Play, recv_message_goes_on, get_packets,
              send_message, SendFail, RecvFail
<1>5. ASSUME NEW u \in Publishers, StartPublish(u) \/ EndPublish(u)
      PROVE  UNCHANGED <<stream, cache>>
  BY <1>5 DEF StartPublish, EndPublish
<1>6. CASE UNCHANGED vars
  BY <1>3, <1>6 DEF vars
<1> QED
  BY <1>1, <1>2, <1>3, <1>4, <1>5, <1>6 DEF Next, Publish, on_audio, on_video

-----------------------------------------------------------------------------
(* What the steps of the play loops do to the feed of each consumer.       *)

LEMMA CreateFeed ==
  ASSUME DInv, NEW c \in Consumers, create_consumer(c)
  PROVE  /\ Feed(c)' = B!CatchUp(stream)
         /\ received[c] = <<>>
         /\ \A d \in Consumers \ {c} : Feed(d)' = Feed(d)
<1> USE DEF DInv, IInv
<1>1. received[c] = <<>> /\ batch[c] = <<>>
  BY DEF create_consumer, PlayPlaces
<1>2. /\ queue'[c] = cached /\ \A d \in Consumers \ {c} : queue'[d] = queue[d]
      /\ UNCHANGED <<batch, received>>
  BY DEF create_consumer, TypeOK
<1>3. cached = B!CatchUp(stream) /\ cached \in Seq(Payloads)
  BY CachedIsCatchUp, CachedType DEF TypeOK
<1>4. (<<>> \o <<>>) \o cached = cached
  BY <1>3, ConcatEmpty
<1> QED BY <1>1, <1>2, <1>3, <1>4 DEF Feed

LEMMA GetPacketsFeed ==
  ASSUME DInv, NEW c \in Consumers, get_packets(c)
  PROVE  \A d \in Consumers : Feed(d)' = Feed(d)
<1> USE DEF DInv, IInv
<1>1. batch[c] = <<>>
  BY DEF get_packets, PlayPlaces
<1>2. /\ batch'[c] = queue[c] /\ queue'[c] = <<>> /\ UNCHANGED received
      /\ \A d \in Consumers \ {c} : queue'[d] = queue[d] /\ batch'[d] = batch[d]
  BY DEF get_packets, TypeOK
<1>3. Feed(c)' = Feed(c)
  <2> DEFINE r == received[c]
             q == queue[c]
  <2>1. r \in Seq(Payloads) /\ q \in Seq(Payloads)
    BY DEF TypeOK
  <2>2. Feed(c) = (r \o <<>>) \o q /\ Feed(c)' = (r \o q) \o <<>>
    BY <1>1, <1>2 DEF Feed
  <2>3. (r \o <<>>) \o q = (r \o q) \o <<>>
    <3> HIDE DEF r, q
    <3> QED BY <2>1, ConcatEmpty, ConcatType
  <2> QED BY <2>2, <2>3
<1> QED BY <1>2, <1>3 DEF Feed

LEMMA SendFeed ==
  ASSUME DInv, NEW c \in Consumers, send_message(c)
  PROVE  /\ \A d \in Consumers : Feed(d)' = Feed(d)
         /\ Len(received[c]) < Len(Feed(c))
         /\ Head(batch[c]) = Feed(c)[Len(received[c]) + 1]
<1> USE DEF DInv, IInv
<1> DEFINE r == received[c]
           b == batch[c]
           q == queue[c]
<1>1. b # <<>> /\ r \in Seq(Payloads) /\ b \in Seq(Payloads) /\ q \in Seq(Payloads)
  BY DEF send_message, PlayPlaces, TypeOK
<1>2. /\ received'[c] = Append(r, Head(b)) /\ batch'[c] = Tail(b) /\ UNCHANGED queue
      /\ \A d \in Consumers \ {c} : received'[d] = received[d] /\ batch'[d] = batch[d]
  BY DEF send_message, TypeOK
<1>3. Feed(c) = (r \o b) \o q /\ Feed(c)' = (Append(r, Head(b)) \o Tail(b)) \o q
  BY <1>2 DEF Feed
<1>4. /\ (Append(r, Head(b)) \o Tail(b)) \o q = (r \o b) \o q
      /\ Len(r) < Len((r \o b) \o q)
      /\ ((r \o b) \o q)[Len(r) + 1] = Head(b)
  <2> HIDE DEF r, b, q
  <2>1. Append(r, Head(b)) \o Tail(b) = r \o b
    BY <1>1, ConcatHead
  <2> QED BY <1>1, <2>1
<1> QED BY <1>2, <1>3, <1>4 DEF Feed

LEMMA EndFeed ==
  ASSUME DInv, NEW c \in Consumers, SendFail(c) \/ RecvFail(c)
  PROVE  /\ Feed(c)' = received[c]
         /\ UNCHANGED <<stream, joined, received>>
         /\ c \in consumers /\ consumers' = consumers \ {c}
         /\ pc' = [pc EXCEPT ![c] = "done"]
         /\ \A d \in Consumers \ {c} : Feed(d)' = Feed(d)
<1> USE DEF DInv, IInv
<1>1. /\ batch'[c] = <<>> /\ queue'[c] = <<>> /\ UNCHANGED <<stream, joined, received>>
      /\ c \in consumers /\ consumers' = consumers \ {c}
      /\ pc' = [pc EXCEPT ![c] = "done"]
      /\ \A d \in Consumers \ {c} : queue'[d] = queue[d] /\ batch'[d] = batch[d]
  <2>1. CASE SendFail(c)
    BY <2>1 DEF SendFail, destroy_consumer, TypeOK, PlayPlaces
  <2>2. CASE RecvFail(c)
    BY <2>2 DEF RecvFail, destroy_consumer, TypeOK, PlayPlaces
  <2> QED BY <2>1, <2>2
<1>2. received[c] \in Seq(Payloads)
  BY DEF TypeOK
<1>3. (received[c] \o <<>>) \o <<>> = received[c]
  BY <1>2, ConcatEmpty
<1> QED BY <1>1, <1>3 DEF Feed

\* As long as nothing is published nobody is owed more.
LEMMA OwedKept ==
  ASSUME UNCHANGED stream, NEW c \in Consumers, joined'[c] = joined[c]
  PROVE  Owed(c)' = Owed(c)
BY DEF Owed, Since, B!CatchUp, B!First, B!Latest, B!OfKind

LEMMA DeliveryStep ==
  ASSUME DInv, IInv', [Next]_vars
  PROVE  JoinedBefore' /\ DeliveryInOrder'
<1> USE DEF DInv, IInv
<1>1. ASSUME NEW u \in Publishers, Publish(u)
      PROVE  JoinedBefore' /\ DeliveryInOrder'
  <2>1. CASE on_meta_data(u)
    BY <2>1, PublishDelivery DEF on_meta_data, Kinds
  <2>2. ASSUME NEW k \in {"video", "audio"}, on_av(u, k)
        PROVE  JoinedBefore' /\ DeliveryInOrder'
    BY <2>2, PublishDelivery DEF on_av, Kinds
  <2> QED BY <1>1, <2>1, <2>2 DEF Publish, on_audio, on_video
<1>2. ASSUME NEW c \in Consumers, create_consumer(c)
      PROVE  JoinedBefore' /\ DeliveryInOrder'
  <2>1. /\ UNCHANGED <<stream, received>> /\ pc[c] = "init"
        /\ pc' = [pc EXCEPT ![c] = "recv"]
        /\ joined' = [joined EXCEPT ![c] = Len(stream)]
    BY <1>2 DEF create_consumer
  <2>2. /\ pc'[c] = "recv" /\ joined'[c] = Len(stream)
        /\ \A d \in Consumers \ {c} : pc'[d] = pc[d] /\ joined'[d] = joined[d]
        /\ Len(stream) \in Nat
    BY <2>1 DEF TypeOK
  <2>3. JoinedBefore'
    BY <2>1, <2>2 DEF JoinedBefore
  <2>4. Owed(c)' = B!CatchUp(stream)
    <3>1. Since(Len(stream))' = <<>>
      BY <2>1, <2>2 DEF Since
    <3>2. SubSeq(stream, 1, Len(stream)) = stream
      BY DEF TypeOK
    <3>3. B!CatchUp(stream) \in Seq(Payloads)
      BY CatchUpType DEF TypeOK
    <3>4. Owed(c)' = B!CatchUp(stream) \o <<>>
      <4>1. SubSeq(stream, 1, joined[c])' = stream /\ Since(joined[c])' = <<>>
        BY <2>1, <2>2, <3>1, <3>2
      <4>2. Owed(c)' = B!CatchUp(SubSeq(stream, 1, joined[c])') \o Since(joined[c])'
        BY DEF Owed, B!CatchUp, B!First, B!Latest, B!OfKind
      <4> QED BY <4>1, <4>2
    <3> QED BY <3>3, <3>4, ConcatEmpty
  <2>5. \A d \in Consumers \ {c} : Owed(d)' = Owed(d)
    BY <2>1, <2>2, OwedKept
  <2>6. Feed(c)' = B!CatchUp(stream) /\ \A d \in Consumers \ {c} : Feed(d)' = Feed(d)
    BY <1>2, CreateFeed
  <2> QED BY <2>1, <2>2, <2>3, <2>4, <2>5, <2>6 DEF DeliveryInOrder
<1>3. ASSUME NEW c \in Consumers, get_packets(c) \/ send_message(c)
      PROVE  JoinedBefore' /\ DeliveryInOrder'
  <2>1. /\ UNCHANGED <<stream, joined>> /\ pc[c] \in {"recv", "send"}
        /\ pc'[c] \in {"recv", "send"}
        /\ \A d \in Consumers \ {c} : pc'[d] = pc[d] /\ received'[d] = received[d]
    BY <1>3 DEF get_packets, send_message, TypeOK
  <2>2. \A d \in Consumers : Feed(d)' = Feed(d)
    BY <1>3, GetPacketsFeed, SendFeed
  <2>3. \A d \in Consumers : Owed(d)' = Owed(d)
    BY <2>1, OwedKept
  <2> QED BY <2>1, <2>2, <2>3 DEF DeliveryInOrder, JoinedBefore
<1>4. ASSUME NEW c \in Consumers, SendFail(c) \/ RecvFail(c)
      PROVE  JoinedBefore' /\ DeliveryInOrder'
  <2>1. /\ Feed(c)' = received[c]
        /\ UNCHANGED <<stream, joined, received>> /\ c \in consumers
        /\ \A d \in Consumers \ {c} : Feed(d)' = Feed(d)
        /\ pc'[c] = "done" /\ \A d \in Consumers \ {c} : pc'[d] = pc[d]
    BY <1>4, EndFeed DEF TypeOK
  <2>2. \A d \in Consumers : Owed(d)' = Owed(d)
    BY <2>1, OwedKept
  <2>3. /\ Len(received[c]) <= Len(Owed(c))
        /\ received[c] = SubSeq(Owed(c), 1, Len(received[c]))
    <3> DEFINE r == received[c]
               b == batch[c]
               q == queue[c]
    <3>1. Owed(c) = (r \o b) \o q
      BY <2>1 DEF DeliveryInOrder, PlayPlaces, Feed
    <3>2. r \in Seq(Payloads) /\ b \in Seq(Payloads) /\ q \in Seq(Payloads)
      BY DEF TypeOK
    <3>3. Len(r) <= Len((r \o b) \o q) /\ SubSeq((r \o b) \o q, 1, Len(r)) = r
      <4> HIDE DEF r, b, q
      <4> QED BY <3>2
    <3> QED BY <3>1, <3>3
  <2> QED BY <2>1, <2>2, <2>3 DEF DeliveryInOrder, JoinedBefore
<1>5. ASSUME UNCHANGED <<stream, queue, batch, pc, joined, received>>
      PROVE  JoinedBefore' /\ DeliveryInOrder'
  <2>1. \A d \in Consumers : Owed(d)' = Owed(d) /\ Feed(d)' = Feed(d)
    BY <1>5, OwedKept DEF Feed
  <2> QED BY <1>5, <2>1 DEF DeliveryInOrder, JoinedBefore
<1>6. ASSUME NEW u \in Publishers, StartPublish(u) \/ EndPublish(u)
      PROVE  JoinedBefore' /\ DeliveryInOrder'
  BY <1>5, <1>6 DEF StartPublish, EndPublish
<1>7. CASE UNCHANGED vars
  BY <1>5, <1>7 DEF vars
<1>8. ASSUME NEW c \in Consumers, Trickle(c) \/ recv_message_goes_on(c)
      PROVE  JoinedBefore' /\ DeliveryInOrder'
  BY <1>5, <1>8 DEF Trickle, recv_message_goes_on
<1> QED BY <1>1, <1>2, <1>3, <1>4, <1>6, <1>7, <1>8 DEF Next, Play

-----------------------------------------------------------------------------
LEMMA InitDelivery == Init => CachesFollowLog /\ JoinedBefore /\ DeliveryInOrder
<1> SUFFICES ASSUME Init PROVE CachesFollowLog /\ JoinedBefore /\ DeliveryInOrder
  OBVIOUS
<1>1. \A k : B!OfKind(stream, k) = {}
  BY DEF Init, B!OfKind
<1> QED BY <1>1 DEF Init, CachesFollowLog, JoinedBefore, DeliveryInOrder

(* The inductive invariant of delivery: the caches are the catch-up of the *)
(* log, and what a player has and what it is owed are the same sequence.   *)
THEOREM DeliveryInductive == Spec => []DInv
<1>1. Init => CachesFollowLog /\ JoinedBefore /\ DeliveryInOrder
  BY InitDelivery
<1>2. DInv /\ IInv' /\ [Next]_vars => DInv'
  BY CachesStep, DeliveryStep DEF DInv
<1> QED BY <1>1, <1>2, Inductive, PTL DEF Spec, DInv

(* Every player is sent its catch-up and then every message published      *)
(* since it joined, each once and in order, whatever publishing,           *)
(* get_packets and the sends of a batch do in between; one that goes has   *)
(* got a prefix of that.                                                   *)
THEOREM DeliveredInOrder == Spec => []DeliveryInOrder
BY DeliveryInductive, PTL DEF DInv

-----------------------------------------------------------------------------
(* A step of the source is a step of the broadcast service, or none.       *)
LEMMA BroadcastStep ==
  ASSUME DInv, IInv', [Next]_vars
  PROVE  [B!Next]_(B!vars)
<1> USE DEF DInv, IInv
<1>1. ASSUME NEW u \in Publishers, NEW k \in Kinds, Receive(u, k),
             enqueueAll(Len(stream) + 1),
             UNCHANGED <<consumers, batch, received>>
      PROVE  B!Publish([kind |-> k]) /\ [kind |-> k] \in Messages
  <2>1. Len(stream) + 1 \in Payloads
    BY <1>1, MaxMsgsNat DEF Receive, TypeOK, Payloads
  <2>2. \A c \in Consumers :
          Feed(c)' = IF c \in consumers THEN Append(Feed(c), Len(stream) + 1)
                                        ELSE Feed(c)
    BY <1>1, <2>1, FeedGrows
  <2> QED BY <1>1, <2>2 DEF B!Publish, Receive, Messages
<1>2. ASSUME NEW c \in Consumers, create_consumer(c)
      PROVE  B!Join(c)
  <2>1. /\ Feed(c)' = B!CatchUp(stream) /\ received[c] = <<>>
        /\ \A d \in Consumers \ {c} : Feed(d)' = Feed(d)
    BY <1>2, CreateFeed
  <2>2. /\ c \notin consumers /\ consumers' = consumers \cup {c}
        /\ UNCHANGED <<stream, received>>
    BY <1>2 DEF create_consumer, PlayPlaces
  <2> QED BY <2>1, <2>2 DEF B!Join
<1>3. ASSUME NEW c \in Consumers, get_packets(c)
      PROVE  UNCHANGED B!vars
  BY <1>3, GetPacketsFeed DEF B!vars, get_packets
<1>4. ASSUME NEW c \in Consumers, send_message(c)
      PROVE  B!Deliver(c)
  <2>1. /\ \A d \in Consumers : Feed(d)' = Feed(d)
        /\ Len(received[c]) < Len(Feed(c))
        /\ Head(batch[c]) = Feed(c)[Len(received[c]) + 1]
    BY <1>4, SendFeed
  <2>2. /\ received' = [received EXCEPT ![c] = Append(@, Head(batch[c]))]
        /\ UNCHANGED <<stream, consumers>> /\ c \in consumers
    BY <1>4 DEF send_message, PlayPlaces
  <2> QED BY <2>1, <2>2 DEF B!Deliver
<1>5. ASSUME NEW c \in Consumers, SendFail(c) \/ RecvFail(c)
      PROVE  B!Leave(c)
  BY <1>5, EndFeed DEF B!Leave
<1>6. ASSUME UNCHANGED <<stream, consumers, queue, batch, received>>
      PROVE  UNCHANGED B!vars
  BY <1>6 DEF B!vars, Feed
<1>7. ASSUME NEW u \in Publishers, Publish(u)
      PROVE  \E m \in Messages : B!Publish(m)
  <2>1. CASE on_meta_data(u)
    BY <1>1, <2>1 DEF on_meta_data, Kinds
  <2>2. ASSUME NEW k \in {"video", "audio"}, on_av(u, k)
        PROVE  \E m \in Messages : B!Publish(m)
    BY <1>1, <2>2 DEF on_av, Kinds
  <2> QED BY <1>7, <2>1, <2>2 DEF Publish, on_audio, on_video
<1>8. ASSUME NEW u \in Publishers, StartPublish(u) \/ EndPublish(u)
      PROVE  UNCHANGED B!vars
  BY <1>6, <1>8 DEF StartPublish, EndPublish
<1>9. CASE UNCHANGED vars
  BY <1>6, <1>9 DEF vars
<1>10. ASSUME NEW c \in Consumers, Trickle(c) \/ recv_message_goes_on(c)
       PROVE  UNCHANGED B!vars
  BY <1>6, <1>10 DEF Trickle, recv_message_goes_on
<1> QED
  BY <1>2, <1>3, <1>4, <1>5, <1>7, <1>8, <1>9, <1>10 DEF Next, Play, B!Next

(* The source, its consumers and the two loops implement the broadcast     *)
(* service: nothing a player can see tells the queues, the batches, the    *)
(* caches and the counts from a log that is read in order.                 *)
THEOREM SourceImplementsBroadcast == Spec => ImplementsBroadcast
<1>1. Init => B!Init
  BY DEF Init, B!Init, Feed
<1>2. DInv /\ DInv' /\ [Next]_vars => [B!Next]_(B!vars)
  BY BroadcastStep DEF DInv
<1> QED BY <1>1, <1>2, DeliveryInductive, PTL DEF Spec, ImplementsBroadcast, B!Spec
=============================================================================
