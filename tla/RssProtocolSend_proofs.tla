----------------------- MODULE RssProtocolSend_proofs -----------------------
(***************************************************************************)
(* What send_message writes, recv_message returns, for any number of       *)
(* messages of any length with timestamps below 2^31, as long as no read   *)
(* moves the buffer under a pointer the receiver keeps.  The chunks of     *)
(* send_message are shown to be ones that the reader of RssProtocol_proofs *)
(* follows.                                                                *)
(***************************************************************************)
EXTENDS RssProtocolSend, RssProtocol_proofs

(* The connections the theorems are about: the receiver does not retry a   *)
(* read after a timeout, no chunk stream id has a byte that char makes     *)
(* negative, and timestamps are below 2^31, from where on the signed       *)
(* comparison of send_message leaves out the extended field.               *)
Supported ==
  /\ ~Pulse
  /\ \A x \in OutCids : PlainId(x)
  /\ \A ts \in Times : ts < W32 \div 2

AllCids == OutCids \cup {2}

\* A message that send_message may be given.
Sendable(m) ==
  /\ m.id \in Nat /\ m.id > 0
  /\ m.cid \in AllCids
  /\ m.ts \in 0 .. W32 - 1 /\ m.ts < W32 \div 2
  /\ m.len \in Nat
  /\ m.type \in TypeNames
  /\ m.v \in Nat
  /\ m.type = "set_chunk_size" => m.len > 0 /\ m.v >= MinChunkSize

SenderOK ==
  /\ out_chunk_size \in Nat /\ out_chunk_size >= MinChunkSize
  /\ nsent \in Nat
  /\ p \in Nat
  /\ sent \in Seq(MessageSet)
  /\ IF msg = Nothing THEN p = 0
                      ELSE Sendable(msg) /\ (p < msg.len \/ p = 0)

\* What the chunks of message m tell of their stream when n blocks are out.
Body(m) == [id |-> m.id, len |-> m.len, type |-> m.type, v |-> m.v]
OutOf(m, n) ==
  [used |-> TRUE, ts |-> m.ts, delta |-> m.ts, ext |-> m.ts >= RTMP_EXTENDED_TIMESTAMP,
   m |-> Body(m), off |-> n]

InProgress(x) == msg # Nothing /\ p > 0 /\ x = msg.cid

\* Snapshot z is what send_message has told its receiver.
Told(z) ==
  /\ z.size = out_chunk_size
  /\ z.n = Len(sent)
  /\ \A x \in AllCids : IF InProgress(x) THEN z.out[x] = OutOf(msg, p)
                                         ELSE z.out[x].off = z.out[x].m.len

IInv ==
  /\ SenderOK
  /\ RecvTypes
  /\ Prefix(sent)
  /\ rpc # "refused"
  /\ Running => \E z : Following(sent, AllCids, z, MinChunkSize) /\ Told(z)
  /\ ~Running => ChunkSizesAgree

LEMMA CidsPlain ==
  ASSUME Supported, NEW x \in AllCids
  PROVE  PlainId(x)
BY DEF Supported, AllCids, PlainId

LEMMA InitIInv ==
  ASSUME Supported, Init
  PROVE  IInv
<1> DEFINE m == [id |-> 0, len |-> 0, type |-> "none", v |-> 0]
           u == [used |-> FALSE, ts |-> 0, delta |-> 0, ext |-> FALSE, m |-> m, off |-> 0]
           z == [out |-> [x \in AllCids |-> u], size |-> ChunkSize0, n |-> 0]
<1>1. m \in MSet /\ m.len = 0
  BY DEF MSet, TypeNames
<1> HIDE DEF m
<1>2. u \in OutSet /\ u.used = FALSE /\ u.off = 0 /\ u.m = m /\ u.delta = 0 /\ u.ext = FALSE
  BY <1>1, WidthsNat DEF OutSet
<1> HIDE DEF u
<1>3. GoodOut(u)
  BY <1>1, <1>2, WidthsNat DEF GoodOut, RTMP_EXTENDED_TIMESTAMP
<1>4. IsSnapshot(z, AllCids) /\ z.size = ChunkSize0 /\ z.n = 0
      /\ \A x \in AllCids : z.out[x] = u
  BY <1>2, <1>3, ChunkSizesPos DEF IsSnapshot
<1> HIDE DEF z
<1>5. RecvTypes /\ Following(<<>>, AllCids, z, MinChunkSize)
  <2>1. z.size >= MinChunkSize /\ \A x \in AllCids : ~z.out[x].used
    BY <1>2, <1>4, ChunkSizesPos
  <2> QED BY <1>4, <2>1, FollowingStarts DEF Init
<1>6. Told(z)
  BY <1>1, <1>2, <1>4 DEF Told, Init, InProgress
<1>7. SenderOK
  BY ChunkSizesPos DEF SenderOK, Init
<1>8. Prefix(sent) /\ rpc # "refused" /\ Running /\ sent = <<>>
  BY DEF Init, RecvInit, Prefix, Running
<1> QED BY <1>5, <1>6, <1>7, <1>8 DEF IInv

(* The header that send_message puts in front of a part of the payload.    *)
header == IF p = 0 THEN header_fmt0 ELSE header_fmt3

ChunkOut ==
  [x |-> msg.cid, fmt |-> IF p = 0 THEN 0 ELSE 3, o |-> OutOf(msg, p),
   size |-> out_chunk_size]

LEMMA OutOfGood ==
  ASSUME NEW m, Sendable(m), NEW n \in Nat, n <= m.len
  PROVE  /\ GoodOut(OutOf(m, n))
         /\ OutOf(m, n).used /\ OutOf(m, n).m = Body(m) /\ OutOf(m, n).off = n
         /\ OutOf(m, n).ts = m.ts /\ OutOf(m, n).delta = m.ts
         /\ OutOf(m, n).ext = (m.ts >= RTMP_EXTENDED_TIMESTAMP)
         /\ Body(m).len = m.len /\ Body(m).type = m.type /\ Body(m).v = m.v
<1> DEFINE o == OutOf(m, n)
<1>1. /\ Body(m) \in MSet
      /\ Body(m).len = m.len /\ Body(m).type = m.type /\ Body(m).v = m.v
  BY DEF Sendable, Body, MSet
<1>2. m.ts \in 0 .. W32 - 1 /\ m.ts >= 0 /\ m.len \in Nat
  BY WidthsNat DEF Sendable
<1>3. PICK ext \in BOOLEAN : ext = (m.ts >= RTMP_EXTENDED_TIMESTAMP)
  <2>1. (m.ts >= RTMP_EXTENDED_TIMESTAMP) \in BOOLEAN
    OBVIOUS
  <2> QED BY <2>1, Zenon
<1>4. o = [used |-> TRUE, ts |-> m.ts, delta |-> m.ts, ext |-> ext, m |-> Body(m), off |-> n]
  BY <1>3 DEF OutOf
<1>5. /\ o \in OutSet /\ o.used = TRUE /\ o.m = Body(m) /\ o.off = n /\ o.ts = m.ts
      /\ o.delta = m.ts /\ o.ext = ext
  <2>1. PICK t \in 0 .. W32 - 1 : t = m.ts /\ t \in Int
    BY <1>2, WidthsNat
  <2>2. o = [used |-> TRUE, ts |-> t, delta |-> t, ext |-> ext, m |-> Body(m), off |-> n]
    BY <1>4, <2>1
  <2> QED BY <1>1, <2>1, <2>2 DEF OutSet
<1> HIDE DEF o
<1>6. GoodOut(o)
  BY <1>1, <1>2, <1>3, <1>5 DEF GoodOut
<1> QED BY <1>1, <1>3, <1>5, <1>6 DEF o

LEMMA SameBlocks ==
  ASSUME NEW m, NEW i, NEW j
  PROVE  Blocks(Body(m), i, j) = Blocks(m, i, j)
<1>1. Body(m).id = m.id /\ Body(m).v = m.v
  BY DEF Body
<1> QED BY <1>1 DEF Blocks

(* The header is the one the reader expects of the chunk.                  *)
LEMMA HeaderOut ==
  ASSUME Supported, SenderOK, msg # Nothing, NEW d, d = ChunkOut
  PROVE  header = ChunkHeader(d)
<1> DEFINE o == OutOf(msg, p)
           e == Optional(d.o.ext, ExtTimestamp(d.o.delta))
<1>1. Sendable(msg) /\ p \in Nat /\ p <= msg.len
  BY DEF SenderOK, Sendable
<1>2. d.x = msg.cid /\ d.fmt = (IF p = 0 THEN 0 ELSE 3) /\ d.o = o /\ d.size = out_chunk_size
  BY DEF ChunkOut
<1>3. /\ o.delta = msg.ts /\ o.ext = (msg.ts >= RTMP_EXTENDED_TIMESTAMP) /\ o.m = Body(msg)
      /\ Body(msg).len = msg.len /\ Body(msg).type = msg.type
  BY <1>1, OutOfGood
<1> HIDE DEF o
<1>4. msg.ts \in Nat /\ msg.ts < W32 \div 2 /\ W24 \in Nat /\ W24 > 1
  BY <1>1, WidthsNat DEF Sendable
<1>5. extended <=> msg.ts >= RTMP_EXTENDED_TIMESTAMP
  <2>1. Signed(msg.ts) = msg.ts
    BY <1>4, WidthsNat DEF Signed
  <2> QED BY <2>1 DEF extended
<1>6. e = ExtHeader
  BY <1>2, <1>3, <1>5 DEF Optional, ExtHeader
<1>7. PlainId(msg.cid)
  BY <1>1, CidsPlain DEF Sendable
<1> HIDE DEF e
<1>8. CASE p = 0
  <2>1. Field(o) = IF extended THEN RTMP_EXTENDED_TIMESTAMP ELSE msg.ts % W24
    <3>1. CASE extended
      BY <1>3, <1>5, <3>1 DEF Field
    <3>2. CASE ~extended
      <4>1. msg.ts \in 0 .. W24 - 1
        BY <1>4, <1>5, <3>2 DEF RTMP_EXTENDED_TIMESTAMP
      <4>2. msg.ts % W24 = msg.ts
        BY <1>4, <4>1, ModSmall
      <4> QED BY <1>3, <1>5, <3>2, <4>2 DEF Field
    <3> QED BY <3>1, <3>2
  <2>2. Optional(d.fmt < 3, MsgHeader(d.fmt, Field(d.o), d.o.m.len, d.o.m.type))
          = <<MsgHeader(0, IF extended THEN RTMP_EXTENDED_TIMESTAMP ELSE msg.ts % W24,
                        msg.len, msg.type)>>
    BY <1>2, <1>3, <1>8, <2>1 DEF Optional
  <2>3. d.fmt = 0
    BY <1>2, <1>8
  <2> QED BY <1>2, <1>6, <1>8, <2>2, <2>3 DEF ChunkHeader, header, header_fmt0, e
<1>9. CASE p # 0
  <2>1. d.fmt = 3
    BY <1>2, <1>9
  <2>2. Optional(d.fmt < 3, MsgHeader(d.fmt, Field(d.o), d.o.m.len, d.o.m.type)) = <<>>
    BY <2>1 DEF Optional
  <2>3. BasicHeader(3, msg.cid) \in Seq(TokenSet)
    <3>1. Says(BasicHeader(3, msg.cid), 3, msg.cid)
      BY <1>7, IdBytes
    <3> QED BY <3>1 DEF Says
  <2>4. BasicHeader(3, msg.cid) \o <<>> = BasicHeader(3, msg.cid)
    BY <2>3, EmptyPart
  <2>5. ChunkHeader(d) = (BasicHeader(3, msg.cid) \o <<>>) \o e
    BY <1>2, <2>1, <2>2 DEF ChunkHeader, e
  <2> QED BY <1>6, <1>9, <2>4, <2>5 DEF header, header_fmt3
<1> QED BY <1>8, <1>9

(* One turn of the loop of send_message writes one chunk.                  *)
LEMMA WritevStep ==
  ASSUME Supported, IInv, writev
  PROVE  IInv'
<1>1. SenderOK /\ RecvTypes /\ Prefix(sent) /\ msg # Nothing /\ Running /\ rpc # "refused"
  BY DEF IInv, writev
<1>2. PICK z : Following(sent, AllCids, z, MinChunkSize) /\ Told(z)
  BY <1>1 DEF IInv
<1>3. PICK g, d, m, k : g = sent /\ d = ChunkOut /\ m = msg /\ k = p
  OBVIOUS
<1>4. Sendable(m) /\ k \in Nat /\ k <= m.len /\ (k > 0 => k < m.len) /\ m.len \in Nat
      /\ out_chunk_size \in Nat /\ out_chunk_size >= 1 /\ out_chunk_size >= MinChunkSize
  BY <1>1, <1>3, ChunkSizesPos DEF SenderOK, Sendable
<1>5. d.x = m.cid /\ d.fmt = (IF k = 0 THEN 0 ELSE 3) /\ d.o = OutOf(m, k)
      /\ d.size = out_chunk_size
  BY <1>3 DEF ChunkOut
<1>6. /\ GoodOut(d.o) /\ d.o.used /\ d.o.m = Body(m) /\ d.o.off = k
      /\ d.o.ts = m.ts /\ d.o.delta = m.ts
      /\ d.o.m.len = m.len /\ d.o.m.type = m.type /\ d.o.m.v = m.v
  BY <1>4, <1>5, OutOfGood
<1>7. IsSnapshot(z, AllCids) /\ g \in Seq(MessageSet)
  BY <1>1, <1>2, <1>3, SnapshotNow DEF SenderOK
<1>8. z.size = out_chunk_size /\ z.n = Len(g)
      /\ \A x \in AllCids : IF k > 0 /\ x = m.cid THEN z.out[x] = OutOf(m, k)
                                                  ELSE z.out[x].off = z.out[x].m.len
  BY <1>1, <1>2, <1>3 DEF Told, InProgress
<1>9. IsChunk(d, z, AllCids)
  <2>1. d.x \in AllCids /\ PlainId(d.x) /\ d.fmt \in 0 .. 3
    BY <1>4, <1>5, CidsPlain DEF Sendable
  <2>2. CASE k = 0
    <3>1. z.out[d.x].off = z.out[d.x].m.len /\ d.fmt = 0
      BY <1>5, <1>8, <2>1, <2>2
    <3>2. Starts(d, z.out[d.x])
      BY <1>6, <2>2, <3>1 DEF Starts
    <3> QED BY <1>5, <1>6, <1>8, <2>1, <3>2 DEF IsChunk
  <2>3. CASE k # 0
    <3>1. z.out[d.x] = d.o /\ d.fmt = 3 /\ k < m.len
      BY <1>4, <1>5, <1>8, <2>1, <2>3
    <3>2. GoesOn(d, z.out[d.x])
      BY <1>6, <3>1 DEF GoesOn
    <3> QED BY <1>5, <1>6, <1>8, <2>1, <3>2 DEF IsChunk
  <2> QED BY <2>2, <2>3
<1>10. Writable(d)
  BY <1>7, <1>9, ChunkWritable
<1> DEFINE size == IF m.len - k < out_chunk_size THEN m.len - k ELSE out_chunk_size
           t == AfterChunk(d, z)
<1>11. /\ size \in Nat /\ k + size = End(d) /\ End(d) \in Nat
       /\ (k + size >= m.len <=> Whole(d))
       /\ ~Whole(d) => End(d) < m.len /\ End(d) > 0
       /\ Whole(d) => End(d) = m.len
  <2>1. PICK a \in Nat, c \in Nat : a = m.len /\ c = out_chunk_size /\ c >= 1
    BY <1>4
  <2>2. size = (IF a - k < c THEN a - k ELSE c) /\ End(d) = (IF a < k + c THEN a ELSE k + c)
    BY <1>5, <1>6, <2>1 DEF End
  <2>3. size \in Nat /\ k + size = End(d) /\ End(d) \in Nat
        /\ (k + size >= a <=> End(d) = a) /\ (End(d) # a => End(d) < a /\ End(d) > 0)
    <3> HIDE DEF size
    <3> QED BY <1>4, <2>1, <2>2
  <2> HIDE DEF size
  <2> QED BY <1>6, <2>1, <2>3 DEF Whole
<1>12. /\ net' = net \o header \o Blocks(m, k, k + size)
       /\ IF k + size >= m.len
            THEN /\ msg' = Nothing /\ p' = 0
                 /\ on_send_message(m)
                 /\ sent' = (IF m.len = 0 THEN g
                             ELSE Append(g, [cid |-> m.cid, ts |-> m.ts, type |-> m.type,
                                             payload |-> Blocks(m, 0, m.len)]))
            ELSE p' = k + size /\ UNCHANGED <<msg, out_chunk_size, sent>>
       /\ UNCHANGED <<buffer, chunk_streams, in_chunk_size, cur, rpc, moved, received, nsent>>
  BY <1>3 DEF writev, header
<1> HIDE DEF size
<1>13. sent' = Completed(g, d)
  <2>1. Whole(d) /\ m.len # 0 <=> Delivers(d)
    BY <1>4, <1>6 DEF Delivers
  <2>2. MessageOf(d) = [cid |-> m.cid, ts |-> m.ts, type |-> m.type,
                        payload |-> Blocks(m, 0, m.len)]
    BY <1>5, <1>6, SameBlocks DEF MessageOf
  <2> QED BY <1>3, <1>11, <1>12, <2>1, <2>2 DEF Completed
<1>14. out_chunk_size' = t.size /\ t.size \in Nat /\ t.size >= MinChunkSize
  <2>1. t.size = IF Delivers(d) /\ m.type = "set_chunk_size" THEN m.v ELSE out_chunk_size
    BY <1>6, <1>8 DEF AfterChunk
  <2>2. m.type = "set_chunk_size" => (Delivers(d) <=> Whole(d)) /\ m.v >= MinChunkSize
    BY <1>4, <1>6 DEF Delivers, Sendable
  <2>3. m.v \in Nat
    BY <1>4 DEF Sendable
  <2> HIDE DEF t
  <2>4. out_chunk_size' = (IF Whole(d) /\ m.type = "set_chunk_size" THEN m.v
                           ELSE out_chunk_size)
    BY <1>11, <1>12 DEF on_send_message
  <2>5. Delivers(d) => Whole(d)
    BY DEF Delivers
  <2> QED BY <1>4, <2>1, <2>2, <2>3, <2>4, <2>5
<1>15. net' = net \o ChunkTokens(d)
  <2> DEFINE e == Blocks(m, k, k + size)
  <2>1. header = ChunkHeader(d)
    BY <1>1, <1>3, HeaderOut
  <2>2. e = Blocks(d.o.m, d.o.off, End(d))
    BY <1>6, <1>11, SameBlocks
  <2>3. header \in Seq(TokenSet) /\ e \in Seq(TokenSet) /\ net \in Seq(TokenSet)
    <3>1. header \in Seq(TokenSet)
      BY <1>10, <2>1, HeaderSeq
    <3>2. d.o.m \in MSet /\ d.o.off \in Nat /\ End(d) \in Nat /\ d.o.off <= End(d)
      BY <1>10, EndBounds
    <3>3. e \in Seq(TokenSet)
      BY <2>2, <3>2, BlocksType
    <3> QED BY <1>1, <3>1, <3>3 DEF RecvTypes
  <2>4. ChunkTokens(d) = header \o e
    BY <2>1, <2>2 DEF ChunkTokens
  <2> HIDE DEF e
  <2>5. (net \o header) \o e = net \o (header \o e)
    BY <2>3, Assoc
  <2> QED BY <1>12, <2>4, <2>5 DEF e
<1>16. Following(Completed(g, d), AllCids, t, MinChunkSize)'
  <2>1. Following(g, AllCids, z, MinChunkSize)
    BY <1>2, <1>3
  <2>2. UNCHANGED <<buffer, chunk_streams, in_chunk_size, cur, rpc, moved, received>>
    BY <1>12
  <2> QED BY <1>1, <1>7, <1>9, <1>14, <1>15, <2>1, <2>2, SenderStep
<1>17. /\ t.out[d.x] = [d.o EXCEPT !.off = End(d)]
       /\ \A y \in AllCids \ {d.x} : t.out[y] = z.out[y]
  <2>1. PICK X : X = AllCids
    OBVIOUS
  <2>2. IsChunk(d, z, X) /\ IsSnapshot(z, X)
    BY <1>7, <1>9, <2>1
  <2>3. /\ AfterChunk(d, z).out[d.x] = [d.o EXCEPT !.off = End(d)]
        /\ \A y \in X \ {d.x} : AfterChunk(d, z).out[y] = z.out[y]
    BY <2>2, AfterSnapshot
  <2> QED BY <2>1, <2>3
<1>18. t.n = Len(sent')
  <2>1. Len(Completed(g, d)) = (IF Delivers(d) THEN z.n + 1 ELSE z.n)
    BY <1>7, <1>8, <1>10, CompletedLog
  <2> QED BY <1>13, <2>1 DEF AfterChunk
<1> HIDE DEF t
<1>19. Told(t)'
  <2> SUFFICES ASSUME NEW x \in AllCids
               PROVE  IF InProgress(x)' THEN t.out[x] = OutOf(msg', p')
                                        ELSE t.out[x].off = t.out[x].m.len
    BY <1>14, <1>18 DEF Told
  <2>1. CASE x # d.x
    <3>1. t.out[x] = z.out[x] /\ z.out[x].off = z.out[x].m.len
      BY <1>5, <1>8, <1>17, <2>1
    <3>2. ~InProgress(x)'
      BY <1>3, <1>5, <1>11, <1>12, <2>1 DEF InProgress
    <3> QED BY <3>1, <3>2
  <2>2. CASE x = d.x /\ Whole(d)
    <3>1. ~InProgress(x)'
      BY <1>11, <1>12, <2>2 DEF InProgress
    <3>2. t.out[x].off = End(d) /\ t.out[x].m = d.o.m
      BY <1>6, <1>17, <2>2 DEF GoodOut, OutSet
    <3> QED BY <1>6, <1>11, <2>2, <3>1, <3>2
  <2>3. CASE x = d.x /\ ~Whole(d)
    <3>1. msg' = m /\ p' = End(d) /\ p' > 0
      BY <1>3, <1>11, <1>12, <2>3
    <3>2. InProgress(x)'
      BY <1>1, <1>3, <1>5, <2>3, <3>1 DEF InProgress
    <3>3. [OutOf(m, k) EXCEPT !.off = End(d)] = OutOf(m, End(d))
      <4>1. PICK q, r, n : q = OutOf(m, k) /\ r = OutOf(m, n) /\ n = End(d)
        OBVIOUS
      <4>2. n \in Nat /\ n <= m.len
        BY <1>11, <2>3, <4>1, <1>4
      <4>3. /\ q \in OutSet /\ r \in OutSet /\ q.used /\ r.used /\ q.m = r.m /\ r.off = n
            /\ q.ts = r.ts /\ q.delta = r.delta /\ q.ext = r.ext
        BY <1>4, <4>1, <4>2, OutOfGood DEF GoodOut
      <4>4. [q EXCEPT !.off = n] = r
        BY <4>2, <4>3 DEF OutSet
      <4> QED BY <4>1, <4>4
    <3> QED BY <1>5, <1>17, <2>3, <3>1, <3>2, <3>3
  <2> QED BY <2>1, <2>2, <2>3
<1>20. SenderOK'
  <2>1. sent' \in Seq(MessageSet)
    BY <1>7, <1>10, <1>13, CompletedLog
  <2>2. CASE Whole(d)
    BY <1>1, <1>11, <1>12, <1>14, <2>1, <2>2 DEF SenderOK
  <2>3. CASE ~Whole(d)
    <3>1. msg' = m /\ p' = End(d) /\ p' < m.len /\ p' \in Nat
      BY <1>3, <1>11, <1>12, <2>3
    <3>2. Sendable(msg')
      BY <1>4, <3>1
    <3> QED BY <1>1, <1>3, <1>12, <1>14, <2>1, <3>1, <3>2 DEF SenderOK
  <2> QED BY <2>2, <2>3
<1>21. RecvTypes'
  <2>1. net' \in Seq(TokenSet)
    <3>1. ChunkTokens(d) \in Seq(TokenSet) /\ net \in Seq(TokenSet)
      BY <1>1, <1>10, ChunkShape DEF RecvTypes
    <3> QED BY <1>15, <3>1
  <2> QED BY <1>1, <1>12, <2>1 DEF RecvTypes
<1>22. Prefix(sent)'
  <2>1. Prefix(Completed(g, d))'
    BY <1>1, <1>3, <1>7, <1>10, <1>12, PrefixGrows
  <2> QED BY <1>13, <2>1 DEF Prefix
<1>23. Running' /\ rpc' # "refused"
  BY <1>1, <1>12 DEF Running
<1>24. Following(sent, AllCids, t, MinChunkSize)'
  BY <1>13, <1>16 DEF Following, Track
<1> QED BY <1>19, <1>20, <1>21, <1>22, <1>23, <1>24 DEF IInv

(* send_message is given a message.                                        *)
LEMMA CallStep ==
  ASSUME Supported, IInv, NEW m, Sendable(m), send_message(m)
  PROVE  IInv'
<1>1. /\ SenderOK /\ RecvTypes /\ Prefix(sent) /\ rpc # "refused" /\ Running
      /\ msg = Nothing /\ msg' = m /\ p' = 0 /\ nsent' = nsent + 1
      /\ UNCHANGED <<net, buffer, chunk_streams, in_chunk_size, cur, rpc, moved, received,
                     out_chunk_size, sent>>
  BY DEF IInv, send_message, recvVars
<1>2. PICK z : Following(sent, AllCids, z, MinChunkSize) /\ Told(z)
  BY <1>1 DEF IInv
<1>3. m # Nothing
  BY DEF Sendable, Nothing
<1>4. SenderOK'
  BY <1>1, <1>3 DEF SenderOK
<1>5. Told(z)'
  BY <1>1, <1>2 DEF Told, InProgress
<1>6. Following(sent, AllCids, z, MinChunkSize)'
  <2>1. PICK g : g = sent /\ g = sent'
    BY <1>1
  <2>2. Following(g, AllCids, z, MinChunkSize)'
    BY <1>1, <1>2, <2>1, StutterStep
  <2> QED BY <2>1, <2>2 DEF Following, Track
<1>7. RecvTypes' /\ Prefix(sent)' /\ Running' /\ rpc' # "refused"
  BY <1>1 DEF RecvTypes, Prefix, Running
<1> QED BY <1>4, <1>5, <1>6, <1>7 DEF IInv

(* A step of the receiver.  Its last one, when a read times out, leaves    *)
(* the chunk size as it was.                                               *)
LEMMA SendRecvStep ==
  ASSUME Supported, IInv, ~moved', Recv
  PROVE  IInv'
<1>1. recv_message /\ UNCHANGED <<out_chunk_size, msg, p, nsent, sent>>
  BY DEF Recv, sendVars
<1>2. SenderOK /\ RecvTypes /\ Prefix(sent) /\ Running
  BY <1>1, RecvRuns DEF IInv
<1>3. PICK g, z : g = sent /\ Following(sent, AllCids, z, MinChunkSize) /\ Told(z)
  BY <1>2 DEF IInv
<1>4. Following(g, AllCids, z, MinChunkSize) /\ Prefix(g) /\ g \in Seq(MessageSet)
      /\ MinChunkSize \in Nat
  BY <1>2, <1>3, ChunkSizesPos DEF SenderOK
<1>5. /\ RecvTypes' /\ Prefix(g)' /\ (Running' => Following(g, AllCids, z, MinChunkSize)')
      /\ rpc' # "refused"
      /\ rpc' = "closed" => Timeout
  <2>1. ~Pulse
    BY DEF Supported
  <2>2. /\ RecvTypes' /\ Prefix(g)' /\ (Running' => Following(g, AllCids, z, MinChunkSize)')
        /\ rpc' = "refused" => ~(MinChunkSize >= MinChunkSize)
        /\ rpc' = "closed" => Timeout
    BY <1>1, <1>2, <1>4, <2>1, RecvStep
  <2> QED BY <1>4, <2>2
<1>6. SenderOK' /\ Told(z)' /\ sent' = g
  BY <1>1, <1>2, <1>3 DEF SenderOK, Told, InProgress
<1>7. Prefix(sent)'
  BY <1>5, <1>6 DEF Prefix
<1>8. Running' => Following(sent, AllCids, z, MinChunkSize)'
  BY <1>5, <1>6 DEF Following, Track
<1>9. ASSUME ~Running' PROVE ChunkSizesAgree'
  <2>1. rpc' = "closed"
    BY <1>5, <1>9 DEF RecvTypes, Running
  <2>2. UNCHANGED <<net, buffer, in_chunk_size>>
    BY <1>5, <2>1 DEF Timeout
  <2>3. net = <<>> /\ buffer = <<>> => in_chunk_size = z.size
    BY <1>2, <1>4, SizesFollow
  <2>4. z.size = out_chunk_size
    BY <1>3 DEF Told
  <2> QED BY <1>1, <2>2, <2>3, <2>4 DEF ChunkSizesAgree
<1> QED BY <1>5, <1>6, <1>7, <1>8, <1>9 DEF IInv

LEMMA NextIInv ==
  ASSUME Supported, IInv, ~moved', [Next]_vars
  PROVE  IInv'
<1>0. nsent \in Nat
  BY DEF IInv, SenderOK
<1>1. ASSUME NEW x \in OutCids, NEW ts \in Times, NEW len \in Lens,
             send_message([id |-> nsent + 1, cid |-> x, ts |-> ts, len |-> len,
                           type |-> "media", v |-> 0])
      PROVE  IInv'
  <2>1. PICK m : m = [id |-> nsent + 1, cid |-> x, ts |-> ts, len |-> len,
                      type |-> "media", v |-> 0]
    OBVIOUS
  <2>2. Sendable(m)
    <3>1. x \in AllCids /\ ts \in 0 .. W32 - 1 /\ ts < W32 \div 2 /\ len \in Nat
      BY SendConstants DEF AllCids, Supported
    <3> QED BY <1>0, <2>1, <3>1 DEF Sendable, TypeNames
  <2> QED BY <1>1, <2>1, <2>2, CallStep
<1>2. ASSUME NEW n \in ChunkSizes,
             send_message([id |-> nsent + 1, cid |-> 2, ts |-> 0, len |-> 1,
                           type |-> "set_chunk_size", v |-> n])
      PROVE  IInv'
  <2>1. PICK m : m = [id |-> nsent + 1, cid |-> 2, ts |-> 0, len |-> 1,
                      type |-> "set_chunk_size", v |-> n]
    OBVIOUS
  <2>2. Sendable(m)
    <3>1. 2 \in AllCids /\ 0 \in 0 .. W32 - 1 /\ 0 < W32 \div 2 /\ n \in Nat
          /\ n >= MinChunkSize
      BY SendConstants, WidthsNat DEF AllCids
    <3> QED BY <1>0, <2>1, <3>1 DEF Sendable, TypeNames
  <2> QED BY <1>2, <2>1, <2>2, CallStep
<1>3. CASE writev
  BY <1>3, WritevStep
<1>4. CASE Recv
  BY <1>4, SendRecvStep
<1>5. CASE UNCHANGED vars
  <2>1. UNCHANGED <<net, buffer, chunk_streams, in_chunk_size, cur, rpc, moved, received,
                    out_chunk_size, msg, p, nsent, sent>>
    BY <1>5 DEF vars, recvVars, sendVars
  <2>2. /\ SenderOK' /\ RecvTypes' /\ Prefix(sent)' /\ (Running' <=> Running) /\ rpc' # "refused"
        /\ (ChunkSizesAgree' <=> ChunkSizesAgree)
    BY <2>1 DEF IInv, SenderOK, RecvTypes, Prefix, Running, ChunkSizesAgree
  <2>3. ASSUME NEW z, Following(sent, AllCids, z, MinChunkSize), Told(z)
        PROVE  (Following(sent, AllCids, z, MinChunkSize) /\ Told(z))'
    <3>1. PICK g : g = sent /\ g = sent'
      BY <2>1
    <3>2. Following(g, AllCids, z, MinChunkSize)'
      BY <2>1, <2>3, <3>1, StutterStep
    <3>3. Following(sent, AllCids, z, MinChunkSize)'
      BY <3>1, <3>2 DEF Following, Track
    <3>4. Told(z)'
      BY <2>1, <2>3 DEF Told, InProgress
    <3> QED BY <3>3, <3>4
  <2> QED BY <2>2, <2>3 DEF IInv
<1> QED BY <1>1, <1>2, <1>3, <1>4, <1>5 DEF Next, Send

LEMMA Inductive == Supported => (FairSpec /\ []~moved => []IInv)
<1> SUFFICES ASSUME Supported PROVE FairSpec /\ []~moved => []IInv
  OBVIOUS
<1>1. Init => IInv
  BY InitIInv
<1>2. IInv /\ (~moved)' /\ [Next]_vars => IInv'
  BY NextIInv
<1> QED BY <1>1, <1>2, PTL DEF FairSpec

-----------------------------------------------------------------------------
(* The chunk sizes of send_message and recv_message never fall below the   *)
(* minimum, on the connections of Supported and while no read moves the    *)
(* buffer.                                                                 *)
THEOREM TypeCorrect == Supported => (FairSpec /\ []~moved => []TypeOK)
<1>1. IInv => TypeOK
  BY DEF IInv, SenderOK, RecvTypes, TypeOK
<1> QED BY <1>1, Inductive, PTL

(* What send_message writes, in chunks of a size that may change between   *)
(* any two messages, recv_message puts together again: every message with  *)
(* its timestamp, type and payload, once and in order, and no chunk is     *)
(* refused: on the connections of Supported, and in behaviours in which no *)
(* read moves the buffer under a pointer the receiver keeps.               *)
THEOREM MessagesAsSent == Supported => (FairSpec /\ []~moved => []ReceivedAsSent)
<1>1. IInv => ReceivedAsSent
  <2> SUFFICES ASSUME IInv PROVE ReceivedAsSent
    OBVIOUS
  <2>1. received \in Seq(MessageSet) /\ sent \in Seq(MessageSet) /\ rpc # "error"
    BY DEF IInv, RecvTypes, SenderOK
  <2>2. Len(received) <= Len(sent) /\ \A n \in 1 .. Len(received) : received[n] = sent[n]
    BY DEF IInv, Prefix
  <2>3. received = SubSeq(sent, 1, Len(received))
    BY <2>1, <2>2, PrefixIsSubSeq
  <2> QED BY <2>1, <2>2, <2>3 DEF ReceivedAsSent
<1> QED BY <1>1, Inductive, PTL

(* on_send_message changes out_chunk_size at the chunk at which the        *)
(* receiver changes in_chunk_size: when nothing is in flight the two are   *)
(* the same, also after a read that timed out, under the same conditions   *)
(* as MessagesAsSent.                                                      *)
THEOREM SizesAgree == Supported => (FairSpec /\ []~moved => []ChunkSizesAgree)
<1>1. IInv => ChunkSizesAgree
  <2> SUFFICES ASSUME IInv, Running, net = <<>>, buffer = <<>>
               PROVE  in_chunk_size = out_chunk_size
    BY DEF IInv, ChunkSizesAgree
  <2>1. PICK g, z : g = sent /\ Following(sent, AllCids, z, MinChunkSize) /\ Told(z)
    BY DEF IInv
  <2>2. RecvTypes /\ Following(g, AllCids, z, MinChunkSize)
    BY <2>1 DEF IInv
  <2>3. in_chunk_size = z.size
    BY <2>2, SizesFollow
  <2> QED BY <2>1, <2>3 DEF Told
<1> QED BY <1>1, Inductive, PTL
=============================================================================
