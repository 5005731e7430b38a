------------------------- MODULE RssProtocol_proofs -------------------------
(***************************************************************************)
(* The reader of RssProtocol never loses its place in the stream, whoever  *)
(* writes it.                                                              *)
(*                                                                         *)
(* What is in flight is a sequence of chunks.  Each was written from what  *)
(* the sender knew of its chunk streams at that time (a snapshot), and the *)
(* reader knows what the sender knew before the first chunk in flight.     *)
(* Reading a chunk takes the reader from one snapshot to the next.         *)
(***************************************************************************)
EXTENDS RssProtocol, TLAPS

TypeNames == {"none", "media", "set_chunk_size"}

TokenSet == [t : {"none", "byte", "ext", "header", "block"}, b : Int, ts : Int, len : Int,
             type : TypeNames, id : Int, i : Int, v : Int]

ChunkSet == [count : Nat, msg : BOOLEAN, payload : Seq(TokenSet), ext : BOOLEAN,
             ts : 0 .. W32 - 1, delta : Int, len : Nat, type : TypeNames]

MessageSet == [cid : Int, ts : Int, type : TypeNames, payload : Seq(TokenSet)]

(* What a sender knows of a chunk stream: the timestamp and the delta or   *)
(* timestamp last sent, whether that took the extended field, the message  *)
(* and how much of it is written.                                          *)
MSet == [id : Int, len : Nat, type : TypeNames, v : Nat]
OutSet == [used : BOOLEAN, ts : 0 .. W32 - 1, delta : Int, ext : BOOLEAN, m : MSet, off : Nat]

GoodOut(o) ==
  /\ o \in OutSet
  /\ o.off <= o.m.len
  /\ o.delta >= 0
  /\ o.ext <=> o.delta >= RTMP_EXTENDED_TIMESTAMP
  /\ o.ext => o.delta = o.ts
  /\ ~o.used => o.m.len = 0

(* A chunk d: its stream d.x, its format, what the sender knew when it     *)
(* wrote it (d.o) and the chunk size.                                      *)
End(d) == IF d.o.m.len < d.o.off + d.size THEN d.o.m.len ELSE d.o.off + d.size
Whole(d) == End(d) = d.o.m.len
Delivers(d) == Whole(d) /\ d.o.m.len > 0

(* Ids whose bytes the reader adds as they were written.                   *)
PlainId(x) ==
  /\ x \in Nat /\ 2 <= x
  /\ x >= 64 => (x - 64) % 256 < 128 /\ (x - 64) \div 256 < 128

Field(o) == IF o.ext THEN RTMP_EXTENDED_TIMESTAMP ELSE o.delta

Optional(cond, tok) == IF cond THEN <<tok>> ELSE <<>>

ChunkHeader(d) ==
  BasicHeader(d.fmt, d.x)
    \o Optional(d.fmt < 3, MsgHeader(d.fmt, Field(d.o), d.o.m.len, d.o.m.type))
    \o Optional(d.o.ext, ExtTimestamp(d.o.delta))

ChunkTokens(d) == ChunkHeader(d) \o Blocks(d.o.m, d.o.off, End(d))

\* The first chunk of a message, on a stream that was at o.
Starts(d, o) ==
  /\ d.o.off = 0
  /\ o.off = o.m.len
  /\ d.fmt = 0 => d.o.delta = d.o.ts
  /\ d.fmt > 0 => o.used /\ d.o.ts = o.ts + d.o.delta /\ ~d.o.ext
  /\ d.fmt >= 2 => d.o.m.len = o.m.len /\ d.o.m.type = o.m.type
  /\ d.fmt = 3 => d.o.delta = o.delta /\ ~o.ext

\* A later chunk.
GoesOn(d, o) == d.fmt = 3 /\ d.o = o /\ o.off < o.m.len

(* A snapshot s: the streams of the sender, its chunk size and the number  *)
(* of messages it has completed.                                           *)
IsChunk(d, s, X) ==
  /\ d.x \in X /\ PlainId(d.x)
  /\ d.fmt \in 0 .. 3
  /\ GoodOut(d.o) /\ d.o.used
  /\ d.size = s.size
  /\ Starts(d, s.out[d.x]) \/ GoesOn(d, s.out[d.x])

IsSnapshot(s, X) ==
  /\ s.out \in [X -> OutSet]
  /\ \A x \in X : GoodOut(s.out[x])
  /\ s.size \in Nat
  /\ s.n \in Nat

AfterChunk(d, s) ==
  [out |-> [s.out EXCEPT ![d.x] = [d.o EXCEPT !.off = End(d)]],
   size |-> IF Delivers(d) /\ d.o.m.type = "set_chunk_size" THEN d.o.m.v ELSE s.size,
   n |-> IF Delivers(d) THEN s.n + 1 ELSE s.n]

MessageOf(d) ==
  [cid |-> d.x, ts |-> d.o.ts, type |-> d.o.m.type, payload |-> Blocks(d.o.m, 0, d.o.m.len)]

\* Chunk d takes the sender from snapshot s to snapshot t, with g completed
\* in the end.
Links(d, s, t, g, X) ==
  /\ IsChunk(d, s, X)
  /\ t = AfterChunk(d, s)
  /\ Delivers(d) => t.n <= Len(g) /\ g[t.n] = MessageOf(d)

\* The tokens of d are in w from place p on.
Placed(d, w, p) ==
  \A j \in 1 .. Len(ChunkTokens(d)) : w[p + j] = ChunkTokens(d)[j]

(* The tokens w are the chunks lo + 1 .. hi, the sender goes from snapshot *)
(* lo to snapshot hi in writing them and has completed the messages g.     *)
InFlight(w, g, X, lo, hi, ch, st, pos) ==
  /\ lo \in Nat /\ hi \in Nat /\ lo <= hi
  /\ w \in Seq(TokenSet)
  /\ Len(w) = pos[hi] - pos[lo]
  /\ st[hi].n = Len(g)
  /\ \A i \in lo .. hi : IsSnapshot(st[i], X) /\ pos[i] \in Nat
  /\ \A i, j \in lo .. hi : i <= j => pos[i] <= pos[j]
  /\ \A i \in lo + 1 .. hi :
       /\ Links(ch[i], st[i - 1], st[i], g, X)
       /\ pos[i] = pos[i - 1] + Len(ChunkTokens(ch[i]))
       /\ Placed(ch[i], w, pos[i - 1] - pos[lo])

-----------------------------------------------------------------------------
(* Sequences.                                                              *)

LEMMA SeqEqual ==
  ASSUME NEW S, NEW s \in Seq(S), NEW t \in Seq(S), Len(s) = Len(t),
         \A i \in 1 .. Len(s) : s[i] = t[i]
  PROVE  s = t
OBVIOUS

\* u is w without its first l elements.
Cut(u, w, l, S) ==
  /\ u \in Seq(S)
  /\ Len(u) = Len(w) - l
  /\ \A q \in 1 .. Len(w) - l : u[q] = w[l + q]

LEMMA CutAt ==
  ASSUME NEW S, NEW w \in Seq(S), NEW l \in Nat, l <= Len(w)
  PROVE  Cut(SubSeq(w, l + 1, Len(w)), w, l, S)
BY DEF Cut

\* w is a followed by b.
Joined(w, a, b, S) ==
  /\ w \in Seq(S)
  /\ Len(w) = Len(a) + Len(b)
  /\ \A i \in 1 .. Len(a) : w[i] = a[i]
  /\ \A i \in 1 .. Len(b) : w[Len(a) + i] = b[i]

LEMMA ConcatAt ==
  ASSUME NEW S, NEW a \in Seq(S), NEW b \in Seq(S)
  PROVE  Joined(a \o b, a, b, S)
BY DEF Joined

(* Where the parts of four sequences put together are.                     *)
Joined4(w, a, b, c, e, S) ==
  /\ w \in Seq(S)
  /\ Len(w) = Len(a) + Len(b) + Len(c) + Len(e)
  /\ \A i \in 1 .. Len(a) : w[i] = a[i]
  /\ \A i \in 1 .. Len(b) : w[Len(a) + i] = b[i]
  /\ \A i \in 1 .. Len(c) : w[Len(a) + Len(b) + i] = c[i]
  /\ \A i \in 1 .. Len(e) : w[Len(a) + Len(b) + Len(c) + i] = e[i]

LEMMA FourParts ==
  ASSUME NEW S, NEW a \in Seq(S), NEW b \in Seq(S), NEW c \in Seq(S), NEW e \in Seq(S)
  PROVE  Joined4((a \o b \o c) \o e, a, b, c, e, S)
         /\ Len(a \o b \o c) = Len(a) + Len(b) + Len(c)
<1> DEFINE u == a \o b
           v == u \o c
           w == v \o e
<1>1. Joined(u, a, b, S)
  BY ConcatAt
<1>2. Joined(v, u, c, S)
  <2> HIDE DEF u
  <2>1. u \in Seq(S)
    BY <1>1 DEF Joined
  <2> QED BY <2>1, ConcatAt
<1>3. Joined(w, v, e, S)
  <2> HIDE DEF v
  <2>1. v \in Seq(S)
    BY <1>2 DEF Joined
  <2> QED BY <2>1, ConcatAt
<1> HIDE DEF u, v, w
<1> USE DEF Joined
<1>4. Len(a) \in Nat /\ Len(b) \in Nat /\ Len(c) \in Nat /\ Len(e) \in Nat
  OBVIOUS
<1>5. ASSUME NEW i \in 1 .. Len(a) PROVE w[i] = a[i]
  BY <1>1, <1>2, <1>3, <1>4
<1>6. ASSUME NEW i \in 1 .. Len(b) PROVE w[Len(a) + i] = b[i]
  <2>1. Len(a) + i \in 1 .. Len(u) /\ Len(a) + i \in 1 .. Len(v)
    BY <1>1, <1>2, <1>4
  <2>2. w[Len(a) + i] = v[Len(a) + i] /\ v[Len(a) + i] = u[Len(a) + i]
    BY <1>2, <1>3, <2>1
  <2> QED BY <1>1, <2>2
<1>7. ASSUME NEW i \in 1 .. Len(c) PROVE w[Len(a) + Len(b) + i] = c[i]
  BY <1>1, <1>2, <1>3, <1>4
<1>8. ASSUME NEW i \in 1 .. Len(e) PROVE w[Len(a) + Len(b) + Len(c) + i] = e[i]
  BY <1>1, <1>2, <1>3, <1>4
<1>9. /\ w \in Seq(S)
      /\ Len(v) = Len(a) + Len(b) + Len(c)
      /\ Len(w) = Len(a) + Len(b) + Len(c) + Len(e)
  BY <1>1, <1>2, <1>3
<1>10. Joined4(w, a, b, c, e, S)
  BY <1>5, <1>6, <1>7, <1>8, <1>9 DEF Joined4
<1> QED BY <1>9, <1>10 DEF u, v, w

-----------------------------------------------------------------------------
(* Tokens.                                                                 *)

LEMMA TokenType == Token \in TokenSet
BY DEF Token, TokenSet, TypeNames

LEMMA ByteType ==
  ASSUME NEW b \in Int
  PROVE  Byte(b) \in TokenSet /\ Byte(b).b = b
BY TokenType DEF Byte, TokenSet

LEMMA ExtType ==
  ASSUME NEW ts \in Int
  PROVE  ExtTimestamp(ts) \in TokenSet /\ ExtTimestamp(ts).ts = ts
BY TokenType DEF ExtTimestamp, TokenSet

LEMMA HeaderType ==
  ASSUME NEW fmt \in 0 .. 2, NEW ts \in Int, NEW len \in Int, NEW type \in TypeNames
  PROVE  /\ MsgHeader(fmt, ts, len, type) \in TokenSet
         /\ MsgHeader(fmt, ts, len, type).ts = ts
         /\ fmt <= 1 => /\ MsgHeader(fmt, ts, len, type).len = len
                        /\ MsgHeader(fmt, ts, len, type).type = type
<1>1. PICK k \in TokenSet : k = Token
  BY TokenType
<1>2. CASE fmt <= 1
  <2>1. MsgHeader(fmt, ts, len, type)
          = [k EXCEPT !.t = "header", !.ts = ts, !.len = len, !.type = type]
    BY <1>1, <1>2 DEF MsgHeader
  <2> QED BY <2>1 DEF TokenSet
<1>3. CASE ~(fmt <= 1)
  <2>1. MsgHeader(fmt, ts, len, type) = [k EXCEPT !.t = "header", !.ts = ts]
    BY <1>1, <1>3 DEF MsgHeader
  <2> QED BY <1>3, <2>1 DEF TokenSet
<1> QED BY <1>2, <1>3

\* Block i of message m.
Block(m, i) == [Token EXCEPT !.t = "block", !.id = m.id, !.i = i, !.v = m.v]

LEMMA BlockType ==
  ASSUME NEW m \in MSet, NEW i \in Int
  PROVE  Block(m, i) \in TokenSet /\ Block(m, i).v = m.v
<1>1. m.id \in Int /\ m.v \in Int
  BY DEF MSet
<1>2. PICK k \in TokenSet, id \in Int, v \in Int : k = Token /\ id = m.id /\ v = m.v
  BY <1>1, TokenType
<1>3. Block(m, i) = [k EXCEPT !.t = "block", !.id = id, !.i = i, !.v = v]
  BY <1>2 DEF Block
<1> QED BY <1>2, <1>3 DEF TokenSet

LEMMA BlocksType ==
  ASSUME NEW m \in MSet, NEW i \in Nat, NEW j \in Nat, i <= j
  PROVE  /\ Blocks(m, i, j) \in Seq(TokenSet)
         /\ Len(Blocks(m, i, j)) = j - i
         /\ \A n \in 1 .. j - i : Blocks(m, i, j)[n].v = m.v
<1> DEFINE s == [n \in 1 .. j - i |-> Block(m, i + n)]
<1>1. \A n \in Int : Block(m, n) \in TokenSet /\ Block(m, n).v = m.v
  BY BlockType
<1>2. s = Blocks(m, i, j)
  BY DEF Blocks, Block
<1>3. s \in Seq(TokenSet) /\ Len(s) = j - i /\ \A n \in 1 .. j - i : s[n] = Block(m, i + n)
  BY <1>1
<1> HIDE DEF s
<1> QED BY <1>1, <1>2, <1>3

LEMMA BlocksJoin ==
  ASSUME NEW m \in MSet, NEW i \in Nat, NEW j \in Nat, NEW l \in Nat, i <= j, j <= l
  PROVE  Blocks(m, i, j) \o Blocks(m, j, l) = Blocks(m, i, l)
<1> DEFINE k(n) == Block(m, n)
           a == [n \in 1 .. j - i |-> k(i + n)]
           b == [n \in 1 .. l - j |-> k(j + n)]
           c == [n \in 1 .. l - i |-> k(i + n)]
<1>1. a = Blocks(m, i, j) /\ b = Blocks(m, j, l) /\ c = Blocks(m, i, l)
  BY DEF Blocks, Block
<1>2. \A n \in Int : k(n) \in TokenSet
  BY BlockType
<1> HIDE DEF k
<1>3. a \in Seq(TokenSet) /\ Len(a) = j - i /\ b \in Seq(TokenSet) /\ Len(b) = l - j
  BY <1>2
<1>4. c \in Seq(TokenSet) /\ Len(c) = l - i
  BY <1>2
<1>5. a \o b \in Seq(TokenSet) /\ Len(a \o b) = l - i
  BY <1>3
<1>6. ASSUME NEW n \in 1 .. l - i PROVE (a \o b)[n] = c[n]
  <2>1. CASE n <= j - i
    <3>1. (a \o b)[n] = a[n]
      BY <1>3, <2>1
    <3> QED BY <3>1, <2>1
  <2>2. CASE n > j - i
    <3>1. (a \o b)[n] = b[n - (j - i)]
      <4> HIDE DEF a, b
      <4> QED BY <1>3, <2>2
    <3>2. n - (j - i) \in 1 .. l - j /\ j + (n - (j - i)) = i + n
      BY <2>2
    <3>3. b[n - (j - i)] = k(i + n)
      BY <3>2
    <3> QED BY <3>1, <3>3
  <2> QED BY <2>1, <2>2
<1> HIDE DEF a, b, c
<1>7. a \o b = c
  BY <1>4, <1>5, <1>6, SeqEqual
<1> QED BY <1>1, <1>7

\* The basic header h says fmt and x.
Says(h, fmt, x) ==
  /\ x \in Int /\ x >= 2
  /\ h \in Seq(TokenSet)
  /\ Len(h) = (IF x < 64 THEN 1 ELSE IF x < 320 THEN 2 ELSE 3)
  /\ h[1].b \div 64 = fmt
  /\ h[1].b % 64 = (IF x < 64 THEN x ELSE IF x < 320 THEN 0 ELSE 1)
  /\ x >= 64 /\ x < 320 => 64 + Char(h[2].b) = x
  /\ x >= 320 => 64 + Char(h[2].b) + Char(h[3].b) * 256 = x

(* The bytes of an id are read as they were written.                       *)
LEMMA IdBytes ==
  ASSUME NEW fmt \in 0 .. 3, NEW x, PlainId(x)
  PROVE  Says(BasicHeader(fmt, x), fmt, x)
<1> USE DEF Says
<1>0. x \in Int /\ x >= 2
  BY DEF PlainId
<1>1. CASE x < 64
  <2>1. BasicHeader(fmt, x) = <<Byte(64 * fmt + x)>>
    BY <1>0, <1>1 DEF BasicHeader
  <2>2. 64 * fmt + x \in Int /\ (64 * fmt + x) \div 64 = fmt /\ (64 * fmt + x) % 64 = x
    BY <1>0, <1>1
  <2> QED BY <1>0, <1>1, <2>1, <2>2, ByteType
<1>2. CASE x >= 64 /\ x < 320
  <2>1. BasicHeader(fmt, x) = <<Byte(64 * fmt), Byte(x - 64)>>
    BY <1>0, <1>2 DEF BasicHeader
  <2>2. 64 * fmt \in Int /\ (64 * fmt) \div 64 = fmt /\ (64 * fmt) % 64 = 0
    OBVIOUS
  <2>3. x - 64 \in Int /\ x - 64 < 128
    BY <1>0, <1>2 DEF PlainId
  <2>4. Char(x - 64) = x - 64
    BY <2>3 DEF Char
  <2> QED BY <1>0, <1>2, <2>1, <2>2, <2>3, <2>4, ByteType
<1>3. CASE x >= 320
  <2> DEFINE u == (x - 64) % 256
             v == (x - 64) \div 256
  <2>1. BasicHeader(fmt, x) = <<Byte(64 * fmt + 1), Byte(u), Byte(v)>>
    BY <1>0, <1>3 DEF BasicHeader
  <2>2. /\ 64 * fmt + 1 \in Int /\ (64 * fmt + 1) \div 64 = fmt
        /\ (64 * fmt + 1) % 64 = 1
    OBVIOUS
  <2>3. u \in Int /\ v \in Int /\ u < 128 /\ v < 128 /\ x - 64 = 256 * v + u
    BY <1>0, <1>3 DEF PlainId
  <2>4. Char(u) = u /\ Char(v) = v
    BY <2>3 DEF Char
  <2>5. Byte(u) \in TokenSet /\ Byte(u).b = u /\ Byte(v) \in TokenSet /\ Byte(v).b = v
    BY <2>3, ByteType
  <2> HIDE DEF u, v
  <2> QED BY <1>0, <1>3, <2>1, <2>2, <2>3, <2>4, <2>5, ByteType
<1> QED BY <1>0, <1>1, <1>2, <1>3

-----------------------------------------------------------------------------
(* The tokens of a chunk.                                                  *)

BLen(d) == Len(BasicHeader(d.fmt, d.x))
HLen(d) == IF d.fmt < 3 THEN 1 ELSE 0
ELen(d) == IF d.o.ext THEN 1 ELSE 0

\* A chunk of a stream the sender knows.
Writable(d) ==
  /\ PlainId(d.x) /\ d.fmt \in 0 .. 3 /\ GoodOut(d.o) /\ d.o.used /\ d.size \in Nat

LEMMA EndBounds ==
  ASSUME NEW d, Writable(d)
  PROVE  End(d) \in Nat /\ d.o.off <= End(d) /\ End(d) <= d.o.m.len /\ d.o.off \in Nat
         /\ d.o.m \in MSet /\ d.o.m.len \in Nat /\ d.o.m.v \in Nat /\ d.o.m.type \in TypeNames
         /\ d.o.ts \in 0 .. W32 - 1 /\ d.o.delta \in Nat /\ d.o.ext \in BOOLEAN
         /\ Field(d.o) \in Nat
<1>1. /\ d.o.off \in Nat /\ d.o.m \in MSet /\ d.o.off <= d.o.m.len /\ d.size \in Nat
      /\ d.o.ts \in 0 .. W32 - 1 /\ d.o.delta \in Nat /\ d.o.ext \in BOOLEAN
  BY DEF Writable, GoodOut, OutSet
<1>2. d.o.m.len \in Nat /\ d.o.m.v \in Nat /\ d.o.m.type \in TypeNames
  BY <1>1 DEF MSet
<1>3. Field(d.o) \in Nat
  BY <1>1, WidthsNat DEF Field, RTMP_EXTENDED_TIMESTAMP
<1> QED BY <1>1, <1>2, <1>3 DEF End

LEMMA ChunkShape ==
  ASSUME NEW d, Writable(d)
  PROVE  /\ ChunkTokens(d) \in Seq(TokenSet)
         /\ BLen(d) = (IF d.x < 64 THEN 1 ELSE IF d.x < 320 THEN 2 ELSE 3)
         /\ Len(ChunkHeader(d)) = BLen(d) + HLen(d) + ELen(d)
         /\ Len(ChunkTokens(d)) = BLen(d) + HLen(d) + ELen(d) + (End(d) - d.o.off)
         /\ \A i \in 1 .. BLen(d) : ChunkTokens(d)[i] = BasicHeader(d.fmt, d.x)[i]
         /\ d.fmt < 3 => ChunkTokens(d)[BLen(d) + 1]
                           = MsgHeader(d.fmt, Field(d.o), d.o.m.len, d.o.m.type)
         /\ d.o.ext => ChunkTokens(d)[BLen(d) + HLen(d) + 1] = ExtTimestamp(d.o.delta)
         /\ \A n \in 1 .. End(d) - d.o.off :
              ChunkTokens(d)[BLen(d) + HLen(d) + ELen(d) + n]
                = Blocks(d.o.m, d.o.off, End(d))[n]
<1> DEFINE a == BasicHeader(d.fmt, d.x)
           b == Optional(d.fmt < 3, MsgHeader(d.fmt, Field(d.o), d.o.m.len, d.o.m.type))
           c == Optional(d.o.ext, ExtTimestamp(d.o.delta))
           e == Blocks(d.o.m, d.o.off, End(d))
           w == (a \o b \o c) \o e
<1>1. a \in Seq(TokenSet) /\ Len(a) = (IF d.x < 64 THEN 1 ELSE IF d.x < 320 THEN 2 ELSE 3)
  <2>1. PlainId(d.x) /\ d.fmt \in 0 .. 3
    BY DEF Writable
  <2>2. Says(a, d.fmt, d.x)
    BY <2>1, IdBytes
  <2> QED BY <2>2 DEF Says
<1>2. b \in Seq(TokenSet) /\ Len(b) = HLen(d) /\ d.fmt \in 0 .. 3
      /\ (d.fmt < 3 => b[1] = MsgHeader(d.fmt, Field(d.o), d.o.m.len, d.o.m.type))
  <2>1. d.fmt < 3 => MsgHeader(d.fmt, Field(d.o), d.o.m.len, d.o.m.type) \in TokenSet
    <3>1. d.fmt < 3 => d.fmt \in 0 .. 2
      BY DEF Writable
    <3> QED BY <3>1, EndBounds, HeaderType
  <2> QED BY <2>1 DEF Optional, HLen, Writable
<1>3. c \in Seq(TokenSet) /\ Len(c) = ELen(d) /\ (d.o.ext => c[1] = ExtTimestamp(d.o.delta))
  <2>1. ExtTimestamp(d.o.delta) \in TokenSet
    BY EndBounds, ExtType
  <2> QED BY <2>1 DEF Optional, ELen
<1>4. e \in Seq(TokenSet) /\ Len(e) = End(d) - d.o.off
  <2>1. d.o.m \in MSet /\ d.o.off \in Nat /\ End(d) \in Nat /\ d.o.off <= End(d)
    BY EndBounds
  <2> QED BY <2>1, BlocksType
<1>5. ChunkTokens(d) = w /\ ChunkHeader(d) = a \o b \o c /\ BLen(d) = Len(a)
  BY DEF ChunkTokens, ChunkHeader, BLen
<1> HIDE DEF a, b, c, e
<1>6a. Joined4(w, a, b, c, e, TokenSet) /\ Len(a \o b \o c) = Len(a) + Len(b) + Len(c)
  <2>1. a \in Seq(TokenSet) /\ b \in Seq(TokenSet) /\ c \in Seq(TokenSet) /\ e \in Seq(TokenSet)
    BY <1>1, <1>2, <1>3, <1>4
  <2> QED BY <2>1, FourParts
<1> HIDE DEF w
<1>6. /\ w \in Seq(TokenSet)
      /\ Len(a \o b \o c) = Len(a) + Len(b) + Len(c)
      /\ Len(w) = Len(a) + Len(b) + Len(c) + Len(e)
      /\ \A i \in 1 .. Len(a) : w[i] = a[i]
      /\ \A i \in 1 .. Len(b) : w[Len(a) + i] = b[i]
      /\ \A i \in 1 .. Len(c) : w[Len(a) + Len(b) + i] = c[i]
      /\ \A i \in 1 .. Len(e) : w[Len(a) + Len(b) + Len(c) + i] = e[i]
  BY <1>6a DEF Joined4
<1>7. d.fmt < 3 => w[BLen(d) + 1] = MsgHeader(d.fmt, Field(d.o), d.o.m.len, d.o.m.type)
  BY <1>2, <1>5, <1>6 DEF HLen
<1>8. d.o.ext => w[BLen(d) + HLen(d) + 1] = ExtTimestamp(d.o.delta)
  BY <1>2, <1>3, <1>5, <1>6 DEF ELen
<1>9. \A n \in 1 .. End(d) - d.o.off :
        w[BLen(d) + HLen(d) + ELen(d) + n] = e[n]
  BY <1>2, <1>3, <1>4, <1>5, <1>6
<1>10. \A i \in 1 .. BLen(d) : w[i] = a[i]
  BY <1>5, <1>6
<1>11. /\ Len(ChunkHeader(d)) = BLen(d) + HLen(d) + ELen(d)
       /\ Len(w) = BLen(d) + HLen(d) + ELen(d) + (End(d) - d.o.off)
       /\ BLen(d) = (IF d.x < 64 THEN 1 ELSE IF d.x < 320 THEN 2 ELSE 3)
  <2>1. Len(a) \in Nat /\ Len(b) \in Nat /\ Len(c) \in Nat /\ Len(e) \in Nat
    BY <1>1, <1>2, <1>3, <1>4
  <2> QED BY <1>1, <1>2, <1>3, <1>4, <1>5, <1>6, <2>1
<1> QED BY <1>5, <1>6, <1>7, <1>8, <1>9, <1>10, <1>11 DEF a, e

LEMMA HeaderSeq ==
  ASSUME NEW d, Writable(d)
  PROVE  ChunkHeader(d) \in Seq(TokenSet)
<1> DEFINE b == Optional(d.fmt < 3, MsgHeader(d.fmt, Field(d.o), d.o.m.len, d.o.m.type))
           c == Optional(d.o.ext, ExtTimestamp(d.o.delta))
<1>1. BasicHeader(d.fmt, d.x) \in Seq(TokenSet)
  <2>1. Says(BasicHeader(d.fmt, d.x), d.fmt, d.x)
    BY IdBytes DEF Writable
  <2> QED BY <2>1 DEF Says
<1>2. b \in Seq(TokenSet)
  <2>1. d.fmt < 3 => MsgHeader(d.fmt, Field(d.o), d.o.m.len, d.o.m.type) \in TokenSet
    <3>1. d.fmt < 3 => d.fmt \in 0 .. 2
      BY DEF Writable
    <3> QED BY <3>1, EndBounds, HeaderType
  <2> QED BY <2>1 DEF Optional
<1>3. c \in Seq(TokenSet)
  BY EndBounds, ExtType DEF Optional
<1> HIDE DEF b, c
<1>4. BasicHeader(d.fmt, d.x) \o b \o c \in Seq(TokenSet)
  BY <1>1, <1>2, <1>3
<1> QED BY <1>4 DEF ChunkHeader, b, c

LEMMA ChunkWritable ==
  ASSUME NEW d, NEW s, NEW X, IsChunk(d, s, X), IsSnapshot(s, X)
  PROVE  Writable(d)
BY DEF IsChunk, IsSnapshot, Writable

LEMMA AfterSnapshot ==
  ASSUME NEW d, NEW s, NEW X, IsChunk(d, s, X), IsSnapshot(s, X)
  PROVE  /\ IsSnapshot(AfterChunk(d, s), X)
         /\ AfterChunk(d, s).out[d.x] = [d.o EXCEPT !.off = End(d)]
         /\ \A y \in X \ {d.x} : AfterChunk(d, s).out[y] = s.out[y]
<1> DEFINE t == AfterChunk(d, s)
           o == [d.o EXCEPT !.off = End(d)]
<1>1. Writable(d)
  BY ChunkWritable
<1>2. End(d) \in Nat /\ End(d) <= d.o.m.len /\ d.o.m.v \in Nat
  BY <1>1, EndBounds
<1>3. GoodOut(o)
  <2>1. o \in OutSet /\ o.off = End(d) /\ o.m = d.o.m /\ o.delta = d.o.delta
        /\ o.ext = d.o.ext /\ o.ts = d.o.ts /\ o.used = d.o.used
    BY <1>1, <1>2 DEF Writable, GoodOut, OutSet
  <2> HIDE DEF o
  <2> QED BY <1>1, <1>2, <2>1 DEF Writable, GoodOut
<1>4. o \in OutSet
  BY <1>3 DEF GoodOut
<1> HIDE DEF o
<1>5. t.out = [s.out EXCEPT ![d.x] = o]
  BY DEF AfterChunk, o
<1>6. t.size \in Nat /\ t.n \in Nat
  BY <1>2 DEF AfterChunk, IsSnapshot
<1>7. d.x \in X /\ s.out \in [X -> OutSet] /\ \A x \in X : GoodOut(s.out[x])
  BY DEF IsChunk, IsSnapshot
<1> HIDE DEF t
<1>8. t.out \in [X -> OutSet] /\ t.out[d.x] = o /\ \A y \in X \ {d.x} : t.out[y] = s.out[y]
  BY <1>4, <1>5, <1>7
<1>9. IsSnapshot(t, X)
  BY <1>3, <1>6, <1>7, <1>8 DEF IsSnapshot
<1> QED BY <1>8, <1>9 DEF t, o

(* The first chunk in flight is at the head of the tokens.                 *)
LEMMA FirstChunk ==
  ASSUME NEW w, NEW g, NEW X, NEW lo, NEW hi, NEW ch, NEW st, NEW pos,
         InFlight(w, g, X, lo, hi, ch, st, pos), lo < hi
  PROVE  /\ Links(ch[lo + 1], st[lo], st[lo + 1], g, X)
         /\ IsSnapshot(st[lo], X) /\ Writable(ch[lo + 1])
         /\ Len(ChunkTokens(ch[lo + 1])) <= Len(w)
         /\ Placed(ch[lo + 1], w, 0)
<1>1. lo \in Nat /\ hi \in Nat /\ lo + 1 \in lo + 1 .. hi /\ (lo + 1) - 1 = lo
      /\ lo \in lo .. hi /\ lo + 1 \in lo .. hi /\ hi \in lo .. hi /\ lo + 1 <= hi
  BY DEF InFlight
<1>2. /\ Links(ch[lo + 1], st[lo], st[lo + 1], g, X)
      /\ pos[lo + 1] = pos[lo] + Len(ChunkTokens(ch[lo + 1]))
      /\ Placed(ch[lo + 1], w, pos[lo] - pos[lo])
      /\ IsSnapshot(st[lo], X)
      /\ pos[lo] \in Nat /\ pos[lo + 1] \in Nat /\ pos[hi] \in Nat
      /\ pos[lo + 1] <= pos[hi]
      /\ Len(w) = pos[hi] - pos[lo]
  BY <1>1 DEF InFlight
<1>3. Writable(ch[lo + 1])
  BY <1>2, ChunkWritable DEF Links
<1>4. Len(ChunkTokens(ch[lo + 1])) \in Nat
  BY <1>3, ChunkShape
<1>5. pos[lo] - pos[lo] = 0
  BY <1>2
<1> QED BY <1>2, <1>3, <1>4, <1>5

(* When it has been read, the rest is in flight.                           *)
LEMMA Consume ==
  ASSUME NEW w, NEW g, NEW X, NEW lo, NEW hi, NEW ch, NEW st, NEW pos,
         InFlight(w, g, X, lo, hi, ch, st, pos), lo < hi,
         NEW u, u = SubSeq(w, Len(ChunkTokens(ch[lo + 1])) + 1, Len(w))
  PROVE  InFlight(u, g, X, lo + 1, hi, ch, st, pos)
<1> DEFINE l == Len(ChunkTokens(ch[lo + 1]))
<1>0. lo \in Nat /\ hi \in Nat /\ lo + 1 \in lo + 1 .. hi /\ (lo + 1) - 1 = lo
      /\ lo \in lo .. hi /\ lo + 1 \in lo .. hi /\ hi \in lo .. hi /\ lo + 1 <= hi
  BY DEF InFlight
<1>1. l \in Nat /\ l <= Len(w)
  BY FirstChunk, ChunkShape
<1>2. pos[lo] \in Nat /\ pos[lo + 1] = pos[lo] + l /\ pos[hi] \in Nat /\ pos[lo + 1] \in Nat
      /\ w \in Seq(TokenSet) /\ Len(w) = pos[hi] - pos[lo]
  BY <1>0 DEF InFlight
<1> HIDE DEF l
<1>3. u = SubSeq(w, l + 1, Len(w))
  BY DEF l
<1>4. u \in Seq(TokenSet) /\ Len(u) = Len(w) - l /\ \A q \in 1 .. Len(w) - l : u[q] = w[l + q]
  <2>1. Cut(u, w, l, TokenSet)
    BY <1>1, <1>2, <1>3, CutAt
  <2> QED BY <2>1 DEF Cut
<1>5. Len(u) = pos[hi] - pos[lo + 1]
  BY <1>2, <1>4, <1>1
<1>6. ASSUME NEW i \in (lo + 1) + 1 .. hi
      PROVE  /\ Links(ch[i], st[i - 1], st[i], g, X)
             /\ pos[i] = pos[i - 1] + Len(ChunkTokens(ch[i]))
             /\ Placed(ch[i], u, pos[i - 1] - pos[lo + 1])
  <2>1. i \in lo + 1 .. hi /\ i - 1 \in lo + 1 .. hi /\ i - 1 \in lo .. hi /\ i \in lo .. hi
        /\ lo + 1 <= i - 1 /\ i <= hi /\ i - 1 <= hi
    BY <1>0
  <2>2. /\ Links(ch[i], st[i - 1], st[i], g, X)
        /\ pos[i] = pos[i - 1] + Len(ChunkTokens(ch[i]))
        /\ Placed(ch[i], w, pos[i - 1] - pos[lo])
        /\ pos[lo + 1] <= pos[i - 1] /\ pos[i] <= pos[hi]
        /\ pos[i - 1] \in Nat /\ pos[i] \in Nat
    BY <1>0, <2>1 DEF InFlight
  <2>3. Len(ChunkTokens(ch[i])) \in Nat
    <3>1. IsSnapshot(st[i - 1], X)
      BY <2>1 DEF InFlight
    <3> QED BY <2>2, <3>1, ChunkWritable, ChunkShape DEF Links
  <2>4. ASSUME NEW j \in 1 .. Len(ChunkTokens(ch[i]))
        PROVE  u[pos[i - 1] - pos[lo + 1] + j] = ChunkTokens(ch[i])[j]
    <3>1. w[pos[i - 1] - pos[lo] + j] = ChunkTokens(ch[i])[j]
      BY <2>2 DEF Placed
    <3>a. PICK a \in Nat, b \in Nat, c \in Nat, e \in Nat, h \in Nat, n \in Nat :
            /\ a = pos[i - 1] /\ b = pos[lo] /\ c = pos[lo + 1] /\ e = pos[i] /\ h = pos[hi]
            /\ n = Len(ChunkTokens(ch[i]))
      BY <1>2, <2>2, <2>3
    <3>b. c = b + l /\ c <= a /\ e = a + n /\ e <= h /\ Len(w) = h - b /\ j \in 1 .. n
      BY <1>2, <2>2, <3>a
    <3>c. (a - c) + j \in 1 .. Len(w) - l /\ l + ((a - c) + j) = (a - b) + j
      BY <1>1, <3>b
    <3>2. pos[i - 1] - pos[lo + 1] + j \in 1 .. Len(w) - l
      BY <3>a, <3>c
    <3>3. l + (pos[i - 1] - pos[lo + 1] + j) = pos[i - 1] - pos[lo] + j
      BY <3>a, <3>c
    <3> QED BY <1>4, <3>1, <3>2, <3>3
  <2> QED BY <2>2, <2>4 DEF Placed
<1>7. /\ \A i \in lo + 1 .. hi : IsSnapshot(st[i], X) /\ pos[i] \in Nat
      /\ \A i, j \in lo + 1 .. hi : i <= j => pos[i] <= pos[j]
      /\ st[hi].n = Len(g)
  <2>1. \A i \in lo + 1 .. hi : i \in lo .. hi
    BY <1>0
  <2> QED BY <2>1 DEF InFlight
<1> QED BY <1>0, <1>4, <1>5, <1>6, <1>7 DEF InFlight

LEMMA MessageType ==
  ASSUME NEW d, Writable(d)
  PROVE  MessageOf(d) \in MessageSet
<1>1. d.x \in Int /\ d.o.ts \in Int /\ d.o.m.type \in TypeNames
  BY EndBounds, WidthsNat DEF Writable, PlainId
<1>2. Blocks(d.o.m, 0, d.o.m.len) \in Seq(TokenSet)
  <2>1. d.o.m \in MSet /\ d.o.m.len \in Nat /\ 0 <= d.o.m.len
    BY EndBounds
  <2> QED BY <2>1, BlocksType
<1> QED BY <1>1, <1>2 DEF MessageOf, MessageSet

\* The messages completed after chunk d.
Completed(g, d) == IF Delivers(d) THEN Append(g, MessageOf(d)) ELSE g

LEMMA LogGrows ==
  ASSUME NEW S, NEW g \in Seq(S), NEW m \in S
  PROVE  /\ Append(g, m) \in Seq(S)
         /\ Len(Append(g, m)) = Len(g) + 1
         /\ Append(g, m)[Len(g) + 1] = m
         /\ \A n \in 1 .. Len(g) : Append(g, m)[n] = g[n]
OBVIOUS

LEMMA CompletedLog ==
  ASSUME NEW g \in Seq(MessageSet), NEW d, Writable(d)
  PROVE  /\ Completed(g, d) \in Seq(MessageSet)
         /\ Len(g) <= Len(Completed(g, d))
         /\ \A n \in 1 .. Len(g) : Completed(g, d)[n] = g[n]
         /\ Delivers(d) => /\ Len(Completed(g, d)) = Len(g) + 1
                           /\ Completed(g, d)[Len(g) + 1] = MessageOf(d)
         /\ ~Delivers(d) => Len(Completed(g, d)) = Len(g)
<1>1. CASE Delivers(d)
  <2>1. Completed(g, d) = Append(g, MessageOf(d)) /\ MessageOf(d) \in MessageSet
    BY <1>1, MessageType DEF Completed
  <2>2. Len(g) \in Nat
    OBVIOUS
  <2> QED BY <1>1, <2>1, <2>2, LogGrows
<1>2. CASE ~Delivers(d)
  BY <1>2 DEF Completed
<1> QED BY <1>1, <1>2

LEMMA LinkKept ==
  ASSUME NEW d, NEW s, NEW t, NEW g \in Seq(MessageSet), NEW X, Links(d, s, t, g, X),
         IsSnapshot(s, X), NEW h, Len(g) <= Len(h), Len(h) \in Nat,
         \A n \in 1 .. Len(g) : h[n] = g[n]
  PROVE  Links(d, s, t, h, X)
<1>1. ASSUME Delivers(d) PROVE t.n <= Len(h) /\ h[t.n] = MessageOf(d)
  <2>1. t.n = s.n + 1 /\ s.n \in Nat /\ t.n <= Len(g) /\ g[t.n] = MessageOf(d)
    BY <1>1 DEF Links, AfterChunk, IsSnapshot
  <2>2. Len(g) \in Nat
    OBVIOUS
  <2>3. t.n \in 1 .. Len(g)
    BY <2>1, <2>2
  <2> QED BY <2>1, <2>2, <2>3
<1> QED BY <1>1 DEF Links

(* The sender writes one more chunk.                                       *)
LEMMA Extend ==
  ASSUME NEW w, NEW g, NEW X, NEW lo, NEW hi, NEW ch, NEW st, NEW pos,
         InFlight(w, g, X, lo, hi, ch, st, pos), g \in Seq(MessageSet),
         NEW d, IsChunk(d, st[hi], X)
  PROVE  \E ch2, st2, pos2 :
           /\ InFlight(w \o ChunkTokens(d), Completed(g, d), X, lo, hi + 1, ch2, st2, pos2)
           /\ st2[hi + 1] = AfterChunk(d, st[hi])
           /\ \A i \in lo .. hi : st2[i] = st[i]
           /\ lo < hi => ch2[lo + 1] = ch[lo + 1]
<1> DEFINE h == Completed(g, d)
           k == ChunkTokens(d)
           l == Len(k)
           v == w \o k
           t == AfterChunk(d, st[hi])
           ch2 == [i \in Nat |-> IF i = hi + 1 THEN d ELSE ch[i]]
           st2 == [i \in Nat |-> IF i = hi + 1 THEN t ELSE st[i]]
           pos2 == [i \in Nat |-> IF i = hi + 1 THEN pos[hi] + l ELSE pos[i]]
<1>0. lo \in Nat /\ hi \in Nat /\ lo <= hi /\ lo \in lo .. hi /\ hi \in lo .. hi
      /\ hi + 1 \in Nat /\ hi + 1 # lo /\ w \in Seq(TokenSet)
      /\ pos[hi] \in Nat /\ pos[lo] \in Nat /\ pos[lo] <= pos[hi]
      /\ Len(w) = pos[hi] - pos[lo] /\ st[hi].n = Len(g) /\ IsSnapshot(st[hi], X)
  BY DEF InFlight
<1>1. Writable(d) /\ IsSnapshot(t, X)
  BY <1>0, ChunkWritable, AfterSnapshot
<1>2. k \in Seq(TokenSet) /\ l \in Nat
  BY <1>1, ChunkShape
<1>3. Joined(v, w, k, TokenSet)
  BY <1>0, <1>2, ConcatAt
<1>4. h \in Seq(MessageSet) /\ Len(h) \in Nat /\ Len(g) <= Len(h)
      /\ (\A n \in 1 .. Len(g) : h[n] = g[n])
      /\ (Delivers(d) => Len(h) = Len(g) + 1 /\ h[Len(g) + 1] = MessageOf(d))
      /\ (~Delivers(d) => Len(h) = Len(g))
  BY <1>1, CompletedLog
<1>5. Links(d, st[hi], t, h, X) /\ t.n = Len(h)
  <2>1. t.n = IF Delivers(d) THEN Len(g) + 1 ELSE Len(g)
    BY <1>0 DEF AfterChunk
  <2> HIDE DEF h, t
  <2>2. t.n = Len(h)
    BY <1>4, <2>1
  <2>3. Delivers(d) => t.n <= Len(h) /\ h[t.n] = MessageOf(d)
    BY <1>4, <2>1, <2>2
  <2> QED BY <2>2, <2>3 DEF Links, t
<1>6. /\ ch2[hi + 1] = d /\ st2[hi + 1] = t /\ pos2[hi + 1] = pos[hi] + l
      /\ \A i \in lo .. hi : ch2[i] = ch[i] /\ st2[i] = st[i] /\ pos2[i] = pos[i]
  BY <1>0
<1> HIDE DEF h, k, l, v, t, ch2, st2, pos2
<1>7. v \in Seq(TokenSet) /\ Len(v) = pos2[hi + 1] - pos2[lo] /\ Len(v) = Len(w) + l
      /\ (\A i \in 1 .. Len(w) : v[i] = w[i]) /\ (\A i \in 1 .. l : v[Len(w) + i] = k[i])
  <2>1. v \in Seq(TokenSet) /\ Len(v) = Len(w) + l
        /\ (\A i \in 1 .. Len(w) : v[i] = w[i]) /\ (\A i \in 1 .. l : v[Len(w) + i] = k[i])
    BY <1>3 DEF Joined, l
  <2>2. pos2[hi + 1] = pos[hi] + l /\ pos2[lo] = pos[lo]
    BY <1>0, <1>6
  <2> QED BY <1>0, <1>2, <2>1, <2>2
<1>8. \A i \in lo .. hi + 1 : IsSnapshot(st2[i], X) /\ pos2[i] \in Nat
  <2> SUFFICES ASSUME NEW i \in lo .. hi + 1 PROVE IsSnapshot(st2[i], X) /\ pos2[i] \in Nat
    OBVIOUS
  <2>1. CASE i = hi + 1
    BY <1>0, <1>1, <1>2, <1>6, <2>1
  <2>2. CASE i # hi + 1
    <3>1. i \in lo .. hi
      BY <1>0, <2>2
    <3> QED BY <1>6, <3>1 DEF InFlight
  <2> QED BY <2>1, <2>2
<1>9. \A i, j \in lo .. hi + 1 : i <= j => pos2[i] <= pos2[j]
  <2> SUFFICES ASSUME NEW i \in lo .. hi + 1, NEW j \in lo .. hi + 1, i <= j
               PROVE  pos2[i] <= pos2[j]
    OBVIOUS
  <2>1. CASE j # hi + 1
    <3>1. i \in lo .. hi /\ j \in lo .. hi
      BY <1>0, <2>1
    <3> QED BY <1>6, <3>1 DEF InFlight
  <2>2. CASE j = hi + 1 /\ i = hi + 1
    BY <1>8, <2>2
  <2>3. CASE j = hi + 1 /\ i # hi + 1
    <3>1. i \in lo .. hi /\ i <= hi
      BY <1>0, <2>3
    <3>2. pos[i] <= pos[hi] /\ pos[i] \in Nat
      BY <1>0, <3>1 DEF InFlight
    <3>3. pos2[i] = pos[i] /\ pos2[j] = pos[hi] + l
      BY <1>6, <2>3, <3>1
    <3> QED BY <1>0, <1>2, <3>2, <3>3
  <2> QED BY <2>1, <2>2, <2>3
<1>10. ASSUME NEW i \in lo + 1 .. hi + 1
       PROVE  /\ Links(ch2[i], st2[i - 1], st2[i], h, X)
              /\ pos2[i] = pos2[i - 1] + Len(ChunkTokens(ch2[i]))
              /\ Placed(ch2[i], v, pos2[i - 1] - pos2[lo])
  <2>0. pos2[lo] = pos[lo] /\ i \in Int
    BY <1>0, <1>6
  <2>1. CASE i = hi + 1
    <3>1. i - 1 = hi /\ st2[hi] = st[hi] /\ pos2[hi] = pos[hi]
      BY <1>0, <1>6, <2>1
    <3>2. Links(ch2[i], st2[i - 1], st2[i], h, X)
      BY <1>5, <1>6, <2>1, <3>1
    <3>3. pos2[i] = pos2[i - 1] + Len(ChunkTokens(ch2[i]))
      BY <1>6, <2>1, <3>1 DEF l, k
    <3>4. Placed(ch2[i], v, pos2[i - 1] - pos2[lo])
      <4>1. pos2[i - 1] - pos2[lo] = Len(w) /\ ch2[i] = d
        BY <1>0, <1>6, <2>0, <2>1, <3>1
      <4>2. Placed(d, v, Len(w))
        BY <1>7 DEF Placed, l, k
      <4> QED BY <4>1, <4>2
    <3> QED BY <3>2, <3>3, <3>4
  <2>2. CASE i # hi + 1
    <3>1. i \in lo + 1 .. hi /\ i \in lo .. hi /\ i - 1 \in lo .. hi /\ i <= hi
      BY <1>0, <2>2
    <3>2. ch2[i] = ch[i] /\ st2[i] = st[i] /\ st2[i - 1] = st[i - 1] /\ pos2[i] = pos[i]
          /\ pos2[i - 1] = pos[i - 1]
      BY <1>6, <3>1
    <3>3. /\ Links(ch[i], st[i - 1], st[i], g, X)
          /\ pos[i] = pos[i - 1] + Len(ChunkTokens(ch[i]))
          /\ Placed(ch[i], w, pos[i - 1] - pos[lo])
          /\ IsSnapshot(st[i - 1], X)
          /\ pos[i] \in Nat /\ pos[i - 1] \in Nat /\ pos[i] <= pos[hi]
          /\ pos[lo] <= pos[i - 1]
      BY <1>0, <3>1 DEF InFlight
    <3>4. Links(ch[i], st[i - 1], st[i], h, X)
      BY <1>4, <3>3, LinkKept
    <3>5. Len(ChunkTokens(ch[i])) \in Nat
      BY <3>3, ChunkWritable, ChunkShape DEF Links
    <3>6. ASSUME NEW j \in 1 .. Len(ChunkTokens(ch[i]))
          PROVE  v[pos[i - 1] - pos[lo] + j] = ChunkTokens(ch[i])[j]
      <4>a. PICK a \in Nat, b \in Nat, c \in Nat, e \in Nat, n \in Nat :
              /\ a = pos[i - 1] /\ b = pos[lo] /\ c = pos[hi] /\ e = pos[i]
              /\ n = Len(ChunkTokens(ch[i]))
        BY <1>0, <3>3, <3>5
      <4>b. e = a + n /\ e <= c /\ b <= a /\ Len(w) = c - b /\ j \in 1 .. n
        BY <1>0, <3>3, <4>a
      <4>c. (a - b) + j \in 1 .. Len(w)
        BY <4>b
      <4>1. v[(a - b) + j] = w[(a - b) + j]
        BY <1>7, <4>c
      <4>2. w[pos[i - 1] - pos[lo] + j] = ChunkTokens(ch[i])[j]
        BY <3>3 DEF Placed
      <4> QED BY <4>a, <4>1, <4>2
    <3> QED BY <2>0, <3>2, <3>3, <3>4, <3>6 DEF Placed
  <2> QED BY <2>1, <2>2
<1>11. InFlight(v, h, X, lo, hi + 1, ch2, st2, pos2)
  <2>1. st2[hi + 1].n = Len(h) /\ lo <= hi + 1
    BY <1>0, <1>5, <1>6
  <2> QED BY <1>0, <1>7, <1>8, <1>9, <1>10, <2>1 DEF InFlight
<1>12. (\A i \in lo .. hi : st2[i] = st[i]) /\ (lo < hi => ch2[lo + 1] = ch[lo + 1])
  <2>1. lo < hi => lo + 1 \in lo .. hi
    BY <1>0
  <2> QED BY <1>0, <1>6, <2>1
<1> QED BY <1>6, <1>11, <1>12 DEF v, h, k, t

-----------------------------------------------------------------------------
(* The reader.                                                             *)

RecvTypes ==
  /\ net \in Seq(TokenSet) /\ buffer \in Seq(TokenSet)
  /\ received \in Seq(MessageSet)
  /\ \A x \in DOMAIN chunk_streams : chunk_streams[x] \in ChunkSet
  /\ in_chunk_size \in Nat /\ in_chunk_size >= MinChunkSize
  /\ rpc \in {"basic", "basic2", "basic3", "header", "ext", "payload", "closed", "refused"}
  /\ moved = FALSE

\* Between two chunks, chunk stream c is as the sender's record o says.
Cached(c, o) ==
  /\ c.count > 0
  /\ c.ts = o.ts /\ c.delta = Field(o) /\ c.ext = o.ext
  /\ c.len = o.m.len /\ c.type = o.m.type
  /\ c.msg <=> o.off < o.m.len
  /\ c.msg => o.off > 0
  /\ c.payload = IF c.msg THEN Blocks(o.m, 0, o.off) ELSE <<>>

Knows(cs, s, Y) ==
  \A x \in Y : IF s.out[x].used THEN x \in DOMAIN cs /\ Cached(cs[x], s.out[x])
                                ELSE x \notin DOMAIN cs

\* In the middle of chunk d, before its message header, before its extended
\* timestamp, and before its payload.
HeaderPending(c, d) ==
  /\ d.fmt < 3 /\ d.o.off = 0
  /\ c.msg /\ c.payload = <<>>
  /\ d.fmt = 0 => d.o.delta = d.o.ts
  /\ d.fmt > 0 => c.ts = d.o.ts - d.o.delta /\ ~d.o.ext
  /\ d.fmt = 2 => c.len = d.o.m.len /\ c.type = d.o.m.type

ExtPending(c, d) ==
  /\ d.o.ext
  /\ c.msg /\ c.payload = Blocks(d.o.m, 0, d.o.off)
  /\ c.delta = Field(d.o) /\ c.ext
  /\ c.len = d.o.m.len /\ c.type = d.o.m.type

HeaderRead(c, d) ==
  /\ c.count > 0
  /\ c.msg /\ c.payload = Blocks(d.o.m, 0, d.o.off)
  /\ c.ts = d.o.ts /\ c.delta = Field(d.o) /\ c.ext = d.o.ext
  /\ c.len = d.o.m.len /\ c.type = d.o.m.type

\* The reader is at snapshot s, in front of chunk d or in it.
InChunk(d) ==
  /\ cur = [fmt |-> d.fmt, cid |-> d.x, size |-> cur.size]
  /\ d.x \in DOMAIN chunk_streams
  /\ rpc = "header" => cur.size = BLen(d) /\ HeaderPending(chunk_streams[d.x], d)
  /\ rpc = "ext" => cur.size = BLen(d) + HLen(d) /\ ExtPending(chunk_streams[d.x], d)
  /\ rpc = "payload" => /\ cur.size = BLen(d) + HLen(d) + ELen(d)
                        /\ HeaderRead(chunk_streams[d.x], d)

Reader(s, d, X) ==
  /\ in_chunk_size = s.size
  /\ Len(received) = s.n
  /\ DOMAIN chunk_streams \subseteq X
  /\ rpc \in {"basic", "basic2", "basic3"} => Knows(chunk_streams, s, X)
  /\ rpc = "basic2" => 64 <= d.x /\ d.x < 320
  /\ rpc = "basic3" => 320 <= d.x
  /\ rpc \in {"header", "ext", "payload"} => InChunk(d) /\ Knows(chunk_streams, s, X \ {d.x})

LEMMA FreshType == FreshChunk \in ChunkSet
BY WidthsNat DEF FreshChunk, ChunkSet, TypeNames

\* The chunk stream in which chunk d is entered, on the sender's record o.
Before(c, o) == c \in ChunkSet /\ IF o.used THEN Cached(c, o) ELSE c = FreshChunk

LEMMA NoBlocks ==
  ASSUME NEW m
  PROVE  Blocks(m, 0, 0) = <<>>
BY DEF Blocks

LEMMA CountUp ==
  ASSUME NEW e \in ChunkSet
  PROVE  LET f == [e EXCEPT !.count = @ + 1]
         IN  /\ f \in ChunkSet /\ f.msg = e.msg /\ f.ts = e.ts /\ f.payload = e.payload
             /\ f.len = e.len /\ f.type = e.type /\ f.delta = e.delta /\ f.ext = e.ext
             /\ f.count > 0
BY DEF ChunkSet

LEMMA ModSmall ==
  ASSUME NEW n \in Nat, NEW a \in 0 .. n - 1
  PROVE  a % n = a
OBVIOUS

(* A chunk that starts a message: the fields it leaves out are the ones    *)
(* that the chunk stream has.                                              *)
LEMMA EnterFirst ==
  ASSUME NEW d, NEW o, NEW c, Writable(d), GoodOut(o), Starts(d, o), Before(c, o), d.fmt < 3,
         NEW e, e = [c EXCEPT !.msg = TRUE]
  PROVE  /\ ~(c.count = 0 /\ d.fmt # 0) /\ ~(c.msg /\ d.fmt = 0)
         /\ e \in ChunkSet /\ HeaderPending(e, d)
<1>1. c \in ChunkSet /\ d.fmt \in 0 .. 3 /\ d.o.delta \in Nat /\ d.o.ts \in Nat
  BY EndBounds, WidthsNat DEF Before, Writable
<1>2. /\ e \in ChunkSet /\ e.msg /\ e.payload = c.payload /\ e.ts = c.ts
      /\ e.len = c.len /\ e.type = c.type
  BY <1>1 DEF ChunkSet
<1>3. CASE o.used
  <2>1. /\ c.count > 0 /\ c.ts = o.ts /\ c.len = o.m.len /\ c.type = o.m.type
        /\ c.msg <=> o.off < o.m.len
        /\ c.payload = IF c.msg THEN Blocks(o.m, 0, o.off) ELSE <<>>
    BY <1>3 DEF Before, Cached
  <2>2. o.off = o.m.len /\ o.off \in Nat /\ o.ts \in Nat
    BY WidthsNat DEF Starts, GoodOut, OutSet
  <2>3. ~c.msg /\ c.payload = <<>>
    BY <2>1, <2>2
  <2>4. HeaderPending(e, d)
    BY <1>1, <1>2, <2>1, <2>2, <2>3 DEF HeaderPending, Starts
  <2> QED BY <1>1, <1>2, <2>1, <2>3, <2>4
<1>4. CASE ~o.used
  <2>1. d.fmt = 0
    BY <1>1, <1>4 DEF Starts
  <2>2. c.payload = <<>> /\ c.msg = FALSE
    BY <1>4 DEF Before, FreshChunk
  <2>3. HeaderPending(e, d)
    BY <1>1, <1>2, <2>1, <2>2 DEF HeaderPending, Starts
  <2> QED BY <1>2, <2>1, <2>2, <2>3
<1> QED BY <1>3, <1>4

LEMMA EnterFirst3 ==
  ASSUME NEW d, NEW o, NEW c, Writable(d), GoodOut(o), Starts(d, o), Before(c, o), d.fmt = 3,
         NEW e, e = [forwarded(c) EXCEPT !.msg = TRUE],
         NEW f, f = [e EXCEPT !.count = @ + 1]
  PROVE  /\ c.count # 0 /\ ~c.ext
         /\ f \in ChunkSet /\ HeaderRead(f, d)
<1>1. c \in ChunkSet /\ o.used /\ d.o.delta \in Nat /\ d.o.ts \in 0 .. W32 - 1 /\ o.ts \in Nat
  BY EndBounds, WidthsNat DEF Before, Starts, GoodOut, OutSet
<1>2. /\ d.o.ts = o.ts + d.o.delta /\ ~d.o.ext /\ d.o.off = 0
      /\ d.o.m.len = o.m.len /\ d.o.m.type = o.m.type /\ d.o.delta = o.delta /\ ~o.ext
      /\ o.off = o.m.len
  BY DEF Starts
<1>3. /\ c.count > 0 /\ c.ts = o.ts /\ c.len = o.m.len /\ c.type = o.m.type
      /\ c.delta = o.delta /\ c.ext = o.ext
      /\ c.msg <=> o.off < o.m.len
      /\ c.payload = IF c.msg THEN Blocks(o.m, 0, o.off) ELSE <<>>
  BY <1>1, <1>2 DEF Before, Cached, Field
<1>4. o.off \in Nat /\ ~c.msg /\ c.payload = <<>> /\ ~c.ext
  BY <1>2, <1>3 DEF GoodOut, OutSet
<1>5. forwarded(c) = [c EXCEPT !.ts = (@ + c.delta) % W32]
  BY <1>4 DEF forwarded
<1>6. c.ts + c.delta = d.o.ts /\ (c.ts + c.delta) % W32 = d.o.ts
  <2>1. c.ts + c.delta = d.o.ts
    BY <1>1, <1>2, <1>3
  <2>2. d.o.ts % W32 = d.o.ts
    BY <1>1, ModSmall, WidthsNat
  <2> QED BY <2>1, <2>2
<1>7. PICK t \in 0 .. W32 - 1 : t = d.o.ts
  BY <1>1
<1>8. e = [[c EXCEPT !.ts = t] EXCEPT !.msg = TRUE]
  BY <1>1, <1>5, <1>6, <1>7 DEF ChunkSet
<1>9. /\ e \in ChunkSet /\ e.msg /\ e.ts = t /\ e.payload = c.payload /\ e.len = c.len
      /\ e.type = c.type /\ e.delta = c.delta /\ e.ext = c.ext /\ e.count = c.count
  BY <1>1, <1>8 DEF ChunkSet
<1>10. /\ f \in ChunkSet /\ f.msg /\ f.ts = t /\ f.payload = c.payload /\ f.len = c.len
       /\ f.type = c.type /\ f.delta = c.delta /\ f.ext = c.ext /\ f.count > 0
  BY <1>9, CountUp
<1>11. c.count \in Nat /\ d.o.ext = FALSE /\ c.ext = FALSE
  BY <1>1, <1>2, <1>4, EndBounds DEF ChunkSet
<1>12. Field(d.o) = d.o.delta /\ Blocks(d.o.m, 0, d.o.off) = <<>>
  BY <1>2, NoBlocks DEF Field
<1>13. HeaderRead(f, d)
  <2>1. f.count > 0 /\ f.msg /\ f.payload = Blocks(d.o.m, 0, d.o.off)
    BY <1>4, <1>10, <1>12
  <2>2. f.ts = d.o.ts /\ f.delta = Field(d.o) /\ f.len = d.o.m.len /\ f.type = d.o.m.type
    BY <1>2, <1>3, <1>7, <1>10, <1>12
  <2>3. f.ext = d.o.ext
    BY <1>10, <1>11
  <2> QED BY <2>1, <2>2, <2>3 DEF HeaderRead
<1> QED BY <1>3, <1>4, <1>10, <1>11, <1>13

(* A later chunk: it has only the extended timestamp, if the first had it. *)
LEMMA EnterLater ==
  ASSUME NEW d, NEW o, NEW c, Writable(d), GoodOut(o), GoesOn(d, o), Before(c, o),
         NEW e, e = [forwarded(c) EXCEPT !.msg = TRUE],
         NEW f, f = [e EXCEPT !.count = @ + 1]
  PROVE  /\ d.fmt = 3 /\ c.count # 0
         /\ e \in ChunkSet /\ f \in ChunkSet
         /\ c.ext => ExtPending(e, d)
         /\ ~c.ext => HeaderRead(f, d)
<1>1. c \in ChunkSet /\ d.fmt = 3 /\ d.o = o /\ o.off < o.m.len /\ o.used
  BY DEF Before, GoesOn, Writable
<1>2. /\ c.count > 0 /\ c.ts = o.ts /\ c.len = o.m.len /\ c.type = o.m.type
      /\ c.delta = Field(o) /\ c.ext = o.ext
      /\ c.msg
      /\ c.payload = Blocks(o.m, 0, o.off)
  BY <1>1 DEF Before, Cached
<1>3. forwarded(c) = c
  BY <1>2 DEF forwarded
<1>4. /\ e \in ChunkSet /\ e.msg /\ e.ts = c.ts /\ e.payload = c.payload /\ e.len = c.len
      /\ e.type = c.type /\ e.delta = c.delta /\ e.ext = c.ext /\ e.count = c.count
  BY <1>1, <1>3 DEF ChunkSet
<1>5. /\ f \in ChunkSet /\ f.msg /\ f.ts = c.ts /\ f.payload = c.payload /\ f.len = c.len
      /\ f.type = c.type /\ f.delta = c.delta /\ f.ext = c.ext /\ f.count > 0
  BY <1>4, CountUp
<1>6. c.count \in Nat
  BY <1>1 DEF ChunkSet
<1>7. c.ext => ExtPending(e, d)
  BY <1>1, <1>2, <1>4 DEF ExtPending
<1>8. HeaderRead(f, d)
  BY <1>1, <1>2, <1>5, <1>6 DEF HeaderRead
<1> QED BY <1>1, <1>2, <1>4, <1>5, <1>6, <1>7, <1>8

\* What is left to show for a step that stays in chunk d or enters it.
LEMMA ToInChunk ==
  ASSUME RecvTypes, NEW s, NEW d, NEW X, Reader(s, d, X), d.x \in X,
         Knows(chunk_streams, s, X \ {d.x}),
         NEW c \in ChunkSet, chunk_streams' = With(d.x, c),
         rpc' \in {"header", "ext", "payload"}, moved' = FALSE,
         cur' = [fmt |-> d.fmt, cid |-> d.x, size |-> cur'.size],
         rpc' = "header" => cur'.size = BLen(d) /\ HeaderPending(c, d),
         rpc' = "ext" => cur'.size = BLen(d) + HLen(d) /\ ExtPending(c, d),
         rpc' = "payload" => cur'.size = BLen(d) + HLen(d) + ELen(d) /\ HeaderRead(c, d),
         UNCHANGED <<net, buffer, in_chunk_size, received>>
  PROVE  RecvTypes' /\ Reader(s, d, X)'
<1>1. /\ DOMAIN chunk_streams' = DOMAIN chunk_streams \cup {d.x}
      /\ chunk_streams'[d.x] = c
      /\ \A y \in DOMAIN chunk_streams : y # d.x => chunk_streams'[y] = chunk_streams[y]
  BY DEF With
<1>2. RecvTypes'
  <2>1. \A x \in DOMAIN chunk_streams' : chunk_streams'[x] \in ChunkSet
    BY <1>1 DEF RecvTypes
  <2> QED BY <2>1 DEF RecvTypes
<1>3. Knows(chunk_streams', s, X \ {d.x})
  <2> SUFFICES ASSUME NEW y \in X \ {d.x}
               PROVE  IF s.out[y].used
                        THEN y \in DOMAIN chunk_streams' /\ Cached(chunk_streams'[y], s.out[y])
                        ELSE y \notin DOMAIN chunk_streams'
    BY DEF Knows
  <2>1. IF s.out[y].used THEN y \in DOMAIN chunk_streams /\ Cached(chunk_streams[y], s.out[y])
                         ELSE y \notin DOMAIN chunk_streams
    BY DEF Knows
  <2> QED BY <1>1, <2>1
<1>4. InChunk(d)'
  BY <1>1 DEF InChunk
<1>5. DOMAIN chunk_streams' \subseteq X
  BY <1>1 DEF Reader
<1>6. in_chunk_size' = s.size /\ Len(received') = s.n
  BY DEF Reader
<1> QED BY <1>2, <1>3, <1>4, <1>5, <1>6 DEF Reader

(* The head of read_message_header: the reader is in the chunk.            *)
LEMMA EnterHeader ==
  ASSUME RecvTypes, NEW s, NEW d, NEW X, IsSnapshot(s, X), IsChunk(d, s, X),
         Reader(s, d, X), Knows(chunk_streams, s, X),
         enter_message_header(d.fmt, d.x, BLen(d))
  PROVE  RecvTypes' /\ Reader(s, d, X)' /\ rpc' \in {"header", "ext", "payload"}
<1> DEFINE o == s.out[d.x]
           c == IF d.x \in DOMAIN chunk_streams THEN chunk_streams[d.x] ELSE FreshChunk
           e == [IF d.fmt = 3 THEN forwarded(c) ELSE c EXCEPT !.msg = TRUE]
           f == [e EXCEPT !.count = @ + 1]
           start_error == (c.count = 0 /\ d.fmt # 0) \/ (c.msg /\ d.fmt = 0)
<1>0. /\ Writable(d) /\ d.x \in X /\ GoodOut(o) /\ d.fmt \in 0 .. 3
      /\ Starts(d, o) \/ GoesOn(d, o)
      /\ Knows(chunk_streams, s, X \ {d.x})
  BY ChunkWritable DEF IsChunk, IsSnapshot, Knows
<1>1. Before(c, o)
  <2>1. IF o.used THEN d.x \in DOMAIN chunk_streams /\ Cached(chunk_streams[d.x], o)
                  ELSE d.x \notin DOMAIN chunk_streams
    BY <1>0 DEF Knows
  <2> HIDE DEF o
  <2> QED BY <2>1, FreshType DEF RecvTypes, Before
<1>2. /\ cur' = [fmt |-> d.fmt, cid |-> d.x, size |-> BLen(d)]
      /\ moved' = FALSE
      /\ IF start_error
           THEN rpc' = "error" /\ chunk_streams' = With(d.x, c)
           ELSE IF d.fmt < 3
             THEN rpc' = "header" /\ chunk_streams' = With(d.x, e)
             ELSE IF c.ext
               THEN rpc' = "ext" /\ chunk_streams' = With(d.x, e)
               ELSE rpc' = "payload" /\ chunk_streams' = With(d.x, f)
      /\ UNCHANGED <<net, buffer, in_chunk_size, received>>
  BY DEF enter_message_header
<1>3. cur'.size = BLen(d) /\ cur' = [fmt |-> d.fmt, cid |-> d.x, size |-> cur'.size]
  BY <1>2
<1>4. d.fmt < 3 => HLen(d) = 1
  BY DEF HLen
<1>5. d.fmt = 3 => HLen(d) = 0 /\ e = [forwarded(c) EXCEPT !.msg = TRUE]
  BY DEF HLen
<1>6. d.fmt < 3 => e = [c EXCEPT !.msg = TRUE]
  <2>1. d.fmt < 3 => d.fmt # 3
    BY <1>0
  <2> HIDE DEF c
  <2> QED BY <2>1
<1>7. f = [e EXCEPT !.count = @ + 1]
  OBVIOUS
<1>8. BLen(d) \in Nat
  BY <1>0, ChunkShape
<1> HIDE DEF o, c, e, f
<1>9. CASE Starts(d, o) /\ d.fmt < 3
  <2>1. ~start_error /\ e \in ChunkSet /\ HeaderPending(e, d)
    BY <1>0, <1>1, <1>6, <1>9, EnterFirst
  <2>2. rpc' = "header" /\ chunk_streams' = With(d.x, e)
    BY <1>2, <1>9, <2>1
  <2> QED BY <1>0, <1>2, <1>3, <2>1, <2>2, ToInChunk
<1>10. CASE Starts(d, o) /\ d.fmt = 3
  <2>1. c.count # 0 /\ ~c.ext /\ f \in ChunkSet /\ HeaderRead(f, d)
    BY <1>0, <1>1, <1>5, <1>7, <1>10, EnterFirst3
  <2>2. ~start_error
    BY <1>10, <2>1
  <2>3. rpc' = "payload" /\ chunk_streams' = With(d.x, f)
    BY <1>2, <1>10, <2>1, <2>2
  <2>4. ~d.o.ext
    BY <1>10 DEF Starts
  <2>5. cur'.size = BLen(d) + HLen(d) + ELen(d)
    BY <1>3, <1>5, <1>8, <1>10, <2>4 DEF ELen
  <2> QED BY <1>0, <1>2, <1>3, <2>1, <2>3, <2>5, ToInChunk
<1>11. CASE GoesOn(d, o)
  <2>1. /\ d.fmt = 3 /\ c.count # 0
        /\ e \in ChunkSet /\ f \in ChunkSet
        /\ c.ext => ExtPending(e, d)
        /\ ~c.ext => HeaderRead(f, d)
    <3>1. d.fmt = 3
      BY <1>11 DEF GoesOn
    <3> QED BY <1>0, <1>1, <1>5, <1>7, <1>11, <3>1, EnterLater
  <2>2. ~start_error
    BY <2>1
  <2>3. CASE c.ext
    <3>1. rpc' = "ext" /\ chunk_streams' = With(d.x, e)
      BY <1>2, <2>1, <2>2, <2>3
    <3>2. cur'.size = BLen(d) + HLen(d)
      BY <1>3, <1>5, <1>8, <2>1
    <3> QED BY <1>0, <1>2, <1>3, <2>1, <2>3, <3>1, <3>2, ToInChunk
  <2>4. CASE ~c.ext
    <3>1. rpc' = "payload" /\ chunk_streams' = With(d.x, f)
      BY <1>2, <2>1, <2>2, <2>4
    <3>2. ~d.o.ext
      <4>1. f.ext = c.ext /\ f.ext = d.o.ext
        <5>1. f.ext = e.ext
          BY <1>7, <2>1, CountUp
        <5>2. f.ext = d.o.ext
          BY <2>1, <2>4 DEF HeaderRead
        <5>3. e.ext = c.ext
          BY <1>1, <1>5, <2>1 DEF forwarded, Before, ChunkSet
        <5> QED BY <5>1, <5>2, <5>3
      <4> QED BY <2>4, <4>1
    <3>3. cur'.size = BLen(d) + HLen(d) + ELen(d)
      BY <1>3, <1>5, <1>8, <2>1, <3>2 DEF ELen
    <3> QED BY <1>0, <1>2, <1>3, <2>1, <2>4, <3>1, <3>3, ToInChunk
  <2> QED BY <2>3, <2>4
<1> QED BY <1>0, <1>9, <1>10, <1>11

(* The reader follows the chunks in flight.                                *)
Track(g, X, lo, hi, ch, st, pos) ==
  /\ InFlight(buffer \o net, g, X, lo, hi, ch, st, pos)
  /\ Reader(st[lo], ch[lo + 1], X)
  /\ rpc # "basic" => lo < hi

LEMMA AtHead ==
  ASSUME RecvTypes, NEW g, NEW X, NEW lo, NEW hi, NEW ch, NEW st, NEW pos,
         Track(g, X, lo, hi, ch, st, pos), lo < hi,
         NEW i \in Nat, 1 <= i, i <= Len(ChunkTokens(ch[lo + 1])), i <= Len(buffer)
  PROVE  buffer[i] = ChunkTokens(ch[lo + 1])[i]
<1>1. /\ Placed(ch[lo + 1], buffer \o net, 0) /\ Writable(ch[lo + 1])
  BY FirstChunk DEF Track
<1>2. Len(ChunkTokens(ch[lo + 1])) \in Nat
  BY <1>1, ChunkShape
<1>3. i \in 1 .. Len(ChunkTokens(ch[lo + 1])) /\ 0 + i = i
  BY <1>2
<1>4. (buffer \o net)[i] = ChunkTokens(ch[lo + 1])[i]
  BY <1>1, <1>3 DEF Placed
<1>5. (buffer \o net)[i] = buffer[i]
  BY DEF RecvTypes
<1> QED BY <1>4, <1>5

LEMMA SomethingLeft ==
  ASSUME RecvTypes, NEW g, NEW X, NEW lo, NEW hi, NEW ch, NEW st, NEW pos,
         Track(g, X, lo, hi, ch, st, pos)
  PROVE  /\ Len(buffer) > 0 => lo < hi
         /\ net = <<>> /\ buffer = <<>> => lo = hi
<1>1. /\ lo \in Nat /\ hi \in Nat /\ lo <= hi /\ pos[lo] \in Nat /\ pos[hi] \in Nat
      /\ Len(buffer \o net) = pos[hi] - pos[lo]
  BY DEF Track, InFlight
<1>2. Len(buffer \o net) = Len(buffer) + Len(net) /\ Len(buffer) \in Nat /\ Len(net) \in Nat
  BY DEF RecvTypes
<1>3. Len(buffer) > 0 => lo < hi
  BY <1>1, <1>2
<1>4. ASSUME net = <<>>, buffer = <<>>, lo # hi
      PROVE  FALSE
  <2>1. Len(buffer) = 0 /\ Len(net) = 0
    BY <1>4
  <2>2. Len(ChunkTokens(ch[lo + 1])) <= Len(buffer \o net) /\ Writable(ch[lo + 1])
    BY <1>1, <1>4, FirstChunk DEF Track
  <2>3. Len(ChunkTokens(ch[lo + 1])) \in Nat /\ Len(ChunkTokens(ch[lo + 1])) > 0
    <3> DEFINE d == ch[lo + 1]
    <3>1. /\ Len(ChunkTokens(d)) = BLen(d) + HLen(d) + ELen(d) + (End(d) - d.o.off)
          /\ BLen(d) = (IF d.x < 64 THEN 1 ELSE IF d.x < 320 THEN 2 ELSE 3)
      BY <2>2, ChunkShape
    <3>2. End(d) \in Nat /\ d.o.off \in Nat /\ d.o.off <= End(d)
      BY <2>2, EndBounds
    <3> HIDE DEF d
    <3>3. HLen(d) \in 0 .. 1 /\ ELen(d) \in 0 .. 1 /\ BLen(d) \in 1 .. 3
      BY <3>1 DEF HLen, ELen
    <3>4. Len(ChunkTokens(d)) \in Nat /\ Len(ChunkTokens(d)) > 0
      BY <3>1, <3>2, <3>3
    <3> QED BY <3>4 DEF d
  <2> QED BY <1>2, <2>1, <2>2, <2>3
<1> QED BY <1>3, <1>4

\* What a step of the reader inside a chunk has to keep.
LEMMA SameFlight ==
  ASSUME NEW g, NEW X, NEW lo, NEW hi, NEW ch, NEW st, NEW pos,
         Track(g, X, lo, hi, ch, st, pos), UNCHANGED <<net, buffer>>, lo < hi,
         Reader(st[lo], ch[lo + 1], X)'
  PROVE  Track(g, X, lo, hi, ch, st, pos)'
BY DEF Track

LEMMA ReadBasic ==
  ASSUME RecvTypes, NEW g, NEW X, NEW lo, NEW hi, NEW ch, NEW st, NEW pos,
         Track(g, X, lo, hi, ch, st, pos),
         read_basic_header \/ read_basic_header2 \/ read_basic_header3
  PROVE  RecvTypes' /\ Track(g, X, lo, hi, ch, st, pos)'
<1> DEFINE s == st[lo]
           d == ch[lo + 1]
           h == BasicHeader(d.fmt, d.x)
<1>1. Running /\ Len(buffer) >= required_size /\ rpc \in {"basic", "basic2", "basic3"}
  BY DEF read_basic_header, read_basic_header2, read_basic_header3, Ensured
<1>2. /\ Len(buffer) \in Nat /\ Len(buffer) >= 1
      /\ rpc = "basic2" => Len(buffer) >= 2
      /\ rpc = "basic3" => Len(buffer) >= 3
  BY <1>1 DEF required_size, RecvTypes
<1>3. lo < hi
  BY <1>2, SomethingLeft
<1>4. IsChunk(d, s, X) /\ IsSnapshot(s, X) /\ Writable(d) /\ Reader(s, d, X)
      /\ Knows(chunk_streams, s, X)
  <2>1. Reader(s, d, X)
    BY DEF Track
  <2>2. Knows(chunk_streams, s, X)
    BY <1>1, <2>1 DEF Reader
  <2> QED BY <1>3, <2>1, <2>2, FirstChunk DEF Track, Links
<1>5. /\ d.x \in Int /\ d.fmt \in 0 .. 3
      /\ h[1].b \div 64 = d.fmt
      /\ h[1].b % 64 = (IF d.x < 64 THEN d.x ELSE IF d.x < 320 THEN 0 ELSE 1)
      /\ d.x >= 64 /\ d.x < 320 => 64 + Char(h[2].b) = d.x
      /\ d.x >= 320 => 64 + Char(h[2].b) + Char(h[3].b) * 256 = d.x
      /\ d.x >= 2
  <2>1. PlainId(d.x) /\ d.fmt \in 0 .. 3
    BY <1>4 DEF Writable
  <2>2. Says(h, d.fmt, d.x)
    BY <2>1, IdBytes
  <2> QED BY <2>1, <2>2 DEF Says
<1>6. /\ BLen(d) = (IF d.x < 64 THEN 1 ELSE IF d.x < 320 THEN 2 ELSE 3)
      /\ BLen(d) <= Len(ChunkTokens(d))
      /\ \A i \in 1 .. BLen(d) : ChunkTokens(d)[i] = h[i]
  <2>1. /\ BLen(d) = (IF d.x < 64 THEN 1 ELSE IF d.x < 320 THEN 2 ELSE 3)
        /\ Len(ChunkTokens(d)) = BLen(d) + HLen(d) + ELen(d) + (End(d) - d.o.off)
        /\ \A i \in 1 .. BLen(d) : ChunkTokens(d)[i] = h[i]
    BY <1>4, ChunkShape
  <2>2. End(d) \in Nat /\ d.o.off \in Nat /\ d.o.off <= End(d)
    BY <1>4, EndBounds
  <2> HIDE DEF d
  <2>3. HLen(d) \in 0 .. 1 /\ ELen(d) \in 0 .. 1 /\ BLen(d) \in 1 .. 3
    BY <2>1 DEF HLen, ELen
  <2> QED BY <2>1, <2>2, <2>3
<1>7. ASSUME NEW i \in 1 .. 3, i <= BLen(d), i <= Len(buffer)
      PROVE  buffer[i] = h[i]
  <2>1. i <= Len(ChunkTokens(d)) /\ i \in 1 .. BLen(d) /\ i \in Nat /\ 1 <= i
    <3>1. BLen(d) \in Nat /\ Len(ChunkTokens(d)) \in Nat
      BY <1>4, <1>6, ChunkShape
    <3> QED BY <1>6, <1>7, <3>1
  <2>2. buffer[i] = ChunkTokens(d)[i]
    BY <1>3, <1>7, <2>1, AtHead
  <2> QED BY <1>6, <2>1, <2>2
<1>8. buffer[1] = h[1]
  BY <1>2, <1>6, <1>7
<1>9. moved = FALSE
  BY DEF RecvTypes
<1> HIDE DEF h
<1>10. ASSUME rpc' \in {"basic2", "basic3"},
              rpc' = "basic2" => 64 <= d.x /\ d.x < 320,
              rpc' = "basic3" => 320 <= d.x,
              UNCHANGED <<net, buffer, chunk_streams, cur, moved, in_chunk_size, received>>
       PROVE  RecvTypes' /\ Reader(s, d, X)'
  <2> HIDE DEF s, d
  <2>1. RecvTypes'
    BY <1>10 DEF RecvTypes
  <2>2. Reader(s, d, X)'
    BY <1>4, <1>10 DEF Reader
  <2> QED BY <2>1, <2>2
<1>11. ASSUME enter_message_header(d.fmt, d.x, BLen(d))
       PROVE  RecvTypes' /\ Reader(s, d, X)'
  <2> HIDE DEF s, d
  <2> QED BY <1>4, <1>11, EnterHeader
<1>12. RecvTypes' /\ Reader(s, d, X)' /\ UNCHANGED <<net, buffer>>
  <2>1. CASE read_basic_header
    <3>1. /\ rpc = "basic"
          /\ CASE buffer[1].b % 64 = 0 -> /\ rpc' = "basic2"
                                          /\ UNCHANGED <<net, buffer, chunk_streams, cur, moved,
                                                         in_chunk_size, received>>
               [] buffer[1].b % 64 = 1 -> /\ rpc' = "basic3"
                                          /\ UNCHANGED <<net, buffer, chunk_streams, cur, moved,
                                                         in_chunk_size, received>>
               [] OTHER -> enter_message_header(buffer[1].b \div 64, buffer[1].b % 64, 1)
      BY <2>1 DEF read_basic_header
    <3>2. CASE d.x < 64
      <4>1. buffer[1].b % 64 = d.x /\ buffer[1].b \div 64 = d.fmt /\ BLen(d) = 1
            /\ d.x # 0 /\ d.x # 1
        BY <1>5, <1>6, <1>8, <3>2
      <4>2. enter_message_header(d.fmt, d.x, BLen(d))
        BY <3>1, <4>1
      <4>3. UNCHANGED <<net, buffer>>
        BY <4>2 DEF enter_message_header
      <4> QED BY <1>11, <4>2, <4>3
    <3>3. CASE d.x >= 64 /\ d.x < 320
      <4>1. buffer[1].b % 64 = 0
        BY <1>5, <1>8, <3>3
      <4>2. rpc' = "basic2" /\ UNCHANGED <<net, buffer, chunk_streams, cur, moved,
                                          in_chunk_size, received>>
        BY <3>1, <4>1
      <4> QED BY <1>5, <1>10, <3>3, <4>2
    <3>4. CASE d.x >= 320
      <4>1. buffer[1].b % 64 = 1
        BY <1>5, <1>8, <3>4
      <4>2. rpc' = "basic3" /\ UNCHANGED <<net, buffer, chunk_streams, cur, moved,
                                          in_chunk_size, received>>
        BY <3>1, <4>1
      <4> QED BY <1>5, <1>10, <3>4, <4>2
    <3> QED BY <1>5, <3>2, <3>3, <3>4
  <2>2. CASE read_basic_header2
    <3>1. rpc = "basic2" /\ enter_message_header(buffer[1].b \div 64, 64 + Char(buffer[2].b), 2)
      BY <1>9, <2>2 DEF read_basic_header2, Bytes
    <3>2. 64 <= d.x /\ d.x < 320
      BY <1>4, <3>1 DEF Reader
    <3>3. BLen(d) = 2 /\ buffer[2] = h[2]
      BY <1>2, <1>5, <1>6, <1>7, <3>1, <3>2
    <3>4. enter_message_header(d.fmt, d.x, BLen(d))
      <4>1. buffer[1].b \div 64 = d.fmt /\ 64 + Char(buffer[2].b) = d.x
        BY <1>5, <1>8, <3>2, <3>3
      <4> QED BY <3>1, <3>3, <4>1
    <3>5. UNCHANGED <<net, buffer>>
      BY <3>4 DEF enter_message_header
    <3> QED BY <1>11, <3>4, <3>5
  <2>3. CASE read_basic_header3
    <3>1. rpc = "basic3" /\ enter_message_header(buffer[1].b \div 64,
                              64 + Char(buffer[2].b) + Char(buffer[3].b) * 256, 3)
      BY <1>9, <2>3 DEF read_basic_header3, Bytes
    <3>2. 320 <= d.x
      BY <1>4, <3>1 DEF Reader
    <3>3. BLen(d) = 3 /\ buffer[2] = h[2] /\ buffer[3] = h[3]
      BY <1>2, <1>5, <1>6, <1>7, <3>1, <3>2
    <3>4. enter_message_header(d.fmt, d.x, BLen(d))
      <4>1. /\ buffer[1].b \div 64 = d.fmt
            /\ 64 + Char(buffer[2].b) + Char(buffer[3].b) * 256 = d.x
        BY <1>5, <1>8, <3>2, <3>3
      <4> QED BY <3>1, <3>3, <4>1
    <3>5. UNCHANGED <<net, buffer>>
      BY <3>4 DEF enter_message_header
    <3> QED BY <1>11, <3>4, <3>5
  <2> QED BY <2>1, <2>2, <2>3
<1> QED BY <1>3, <1>12, SameFlight

(* The fields of a message header, put into chunk stream c.                *)
HeaderInto(c, fmt, h) ==
  LET ext == is_extended(h.ts)
      ts == CASE ext -> RTMP_EXTENDED_TIMESTAMP
              [] fmt = 0 -> h.ts
              [] OTHER -> (c.ts + h.ts) % W32
  IN [c EXCEPT !.delta = h.ts, !.ext = ext, !.ts = ts,
               !.len = IF fmt <= 1 THEN h.len ELSE @,
               !.type = IF fmt <= 1 THEN h.type ELSE @,
               !.count = IF ext THEN @ ELSE @ + 1]

LEMMA HeaderEffect ==
  ASSUME NEW d, Writable(d), NEW c \in ChunkSet, HeaderPending(c, d),
         NEW h, h = MsgHeader(d.fmt, Field(d.o), d.o.m.len, d.o.m.type),
         NEW r, r = HeaderInto(c, d.fmt, h)
  PROVE  /\ r \in ChunkSet
         /\ is_extended(h.ts) <=> d.o.ext
         /\ d.o.ext => ExtPending(r, d)
         /\ ~d.o.ext => HeaderRead(r, d)
<1>1. d.fmt \in 0 .. 2
  BY DEF Writable, HeaderPending
<1>2. /\ d.o.m.len \in Nat /\ d.o.m.type \in TypeNames /\ d.o.ts \in 0 .. W32 - 1
      /\ d.o.delta \in Nat /\ d.o.ext \in BOOLEAN /\ Field(d.o) \in Nat
      /\ (d.o.ext <=> d.o.delta >= RTMP_EXTENDED_TIMESTAMP)
      /\ (d.o.ext => d.o.delta = d.o.ts)
  BY EndBounds DEF Writable, GoodOut
<1>3. /\ h.ts = Field(d.o)
      /\ d.fmt <= 1 => h.len = d.o.m.len /\ h.type = d.o.m.type
  BY <1>1, <1>2, HeaderType
<1>4. RTMP_EXTENDED_TIMESTAMP \in 0 .. W32 - 1
  BY WidthsNat DEF RTMP_EXTENDED_TIMESTAMP
<1>5. is_extended(h.ts) <=> d.o.ext
  BY <1>2, <1>3, <1>4 DEF is_extended, Field
<1>6. /\ d.o.off = 0 /\ c.msg /\ c.payload = <<>>
      /\ d.fmt = 0 => d.o.delta = d.o.ts
      /\ d.fmt > 0 => c.ts = d.o.ts - d.o.delta /\ ~d.o.ext
      /\ d.fmt = 2 => c.len = d.o.m.len /\ c.type = d.o.m.type
      /\ c.ts \in Int /\ c.count \in Nat
  BY DEF HeaderPending, ChunkSet
<1> DEFINE ts == IF d.o.ext THEN RTMP_EXTENDED_TIMESTAMP ELSE d.o.ts
           count == IF d.o.ext THEN c.count ELSE c.count + 1
<1>7. (CASE is_extended(h.ts) -> RTMP_EXTENDED_TIMESTAMP
         [] d.fmt = 0 -> h.ts
         [] OTHER -> (c.ts + h.ts) % W32) = ts
  <2>1. CASE d.o.ext
    <3>1. h.ts = RTMP_EXTENDED_TIMESTAMP
      BY <1>3, <2>1 DEF Field
    <3> QED BY <1>5, <2>1, <3>1
  <2>2. CASE ~d.o.ext /\ d.fmt = 0
    BY <1>3, <1>5, <1>6, <2>2 DEF Field
  <2>3. CASE ~d.o.ext /\ d.fmt # 0
    <3>1. c.ts + h.ts = d.o.ts
      BY <1>1, <1>2, <1>3, <1>6, <2>3 DEF Field
    <3>2. d.o.ts % W32 = d.o.ts
      BY <1>2, ModSmall, WidthsNat
    <3> QED BY <1>5, <2>3, <3>1, <3>2
  <2> QED BY <2>1, <2>2, <2>3
<1>8. (IF d.fmt <= 1 THEN h.len ELSE c.len) = d.o.m.len
  BY <1>1, <1>3, <1>6
<1>9. (IF d.fmt <= 1 THEN h.type ELSE c.type) = d.o.m.type
  BY <1>1, <1>3, <1>6
<1>10. (IF is_extended(h.ts) THEN c.count ELSE c.count + 1) = count
  BY <1>5
<1>11. is_extended(h.ts) = d.o.ext
  BY <1>2, <1>5 DEF is_extended
<1>12. ts \in 0 .. W32 - 1 /\ count \in Nat /\ (~d.o.ext => count > 0 /\ ts = d.o.ts)
  BY <1>2, <1>4, <1>6
<1> HIDE DEF ts, count
<1>13. r = [c EXCEPT !.delta = Field(d.o), !.ext = d.o.ext, !.ts = ts, !.len = d.o.m.len,
                     !.type = d.o.m.type, !.count = count]
  BY <1>3, <1>7, <1>8, <1>9, <1>10, <1>11 DEF HeaderInto
<1>14. /\ r \in ChunkSet /\ r.msg = c.msg /\ r.payload = c.payload
       /\ r.delta = Field(d.o) /\ r.ext = d.o.ext /\ r.ts = ts /\ r.len = d.o.m.len
       /\ r.type = d.o.m.type /\ r.count = count
  <2>1. PICK f \in Int, x \in BOOLEAN, l \in Nat, t \in TypeNames :
          f = Field(d.o) /\ x = d.o.ext /\ l = d.o.m.len /\ t = d.o.m.type
    BY <1>2
  <2>2. r = [c EXCEPT !.delta = f, !.ext = x, !.ts = ts, !.len = l, !.type = t,
                      !.count = count]
    BY <1>13, <2>1
  <2>3. ts \in 0 .. W32 - 1 /\ count \in Nat
    BY <1>12
  <2>4. /\ r \in ChunkSet /\ r.msg = c.msg /\ r.payload = c.payload
        /\ r.delta = f /\ r.ext = x /\ r.ts = ts /\ r.len = l /\ r.type = t
        /\ r.count = count
    <3>1. PICK u \in 0 .. W32 - 1, n \in Nat : u = ts /\ n = count
      BY <2>3
    <3>2. r = [c EXCEPT !.delta = f, !.ext = x, !.ts = u, !.len = l, !.type = t, !.count = n]
      BY <2>2, <3>1
    <3> QED BY <3>1, <3>2 DEF ChunkSet
  <2> QED BY <2>1, <2>4
<1>15. r.payload = Blocks(d.o.m, 0, d.o.off)
  BY <1>6, <1>14, NoBlocks
<1>16. d.o.ext => ExtPending(r, d)
  BY <1>6, <1>14, <1>15 DEF ExtPending
<1>17. ~d.o.ext => HeaderRead(r, d)
  BY <1>6, <1>12, <1>14, <1>15 DEF HeaderRead
<1> QED BY <1>5, <1>14, <1>16, <1>17

LEMMA ReadHeader ==
  ASSUME RecvTypes, NEW g, NEW X, NEW lo, NEW hi, NEW ch, NEW st, NEW pos,
         Track(g, X, lo, hi, ch, st, pos), read_message_header
  PROVE  RecvTypes' /\ Track(g, X, lo, hi, ch, st, pos)'
<1> DEFINE s == st[lo]
           d == ch[lo + 1]
           h == MsgHeader(d.fmt, Field(d.o), d.o.m.len, d.o.m.type)
           r == HeaderInto(chunk_streams[d.x], d.fmt, h)
<1>1. rpc = "header" /\ Len(buffer) >= cur.size + 1
  BY DEF read_message_header, Ensured, required_size
<1>2. lo < hi /\ Reader(s, d, X)
  BY <1>1 DEF Track
<1>3. IsChunk(d, s, X) /\ Writable(d) /\ d.x \in X
  BY <1>2, FirstChunk DEF Track, Links, IsChunk
<1> HIDE DEF s, d
<1>4. /\ cur = [fmt |-> d.fmt, cid |-> d.x, size |-> cur.size] /\ cur.size = BLen(d)
      /\ d.x \in DOMAIN chunk_streams /\ HeaderPending(chunk_streams[d.x], d)
      /\ Knows(chunk_streams, s, X \ {d.x})
  BY <1>1, <1>2 DEF Reader, InChunk
<1>5. cur.fmt = d.fmt /\ cur.cid = d.x /\ chunk = chunk_streams[d.x]
      /\ chunk_streams[d.x] \in ChunkSet
  <2>1. cur.fmt = d.fmt /\ cur.cid = d.x
    BY <1>4
  <2> QED BY <1>4, <2>1 DEF chunk, RecvTypes
<1>6. BLen(d) \in Nat /\ HLen(d) = 1 /\ d.fmt < 3 /\ ELen(d) \in 0 .. 1
      /\ Len(ChunkTokens(d)) = BLen(d) + HLen(d) + ELen(d) + (End(d) - d.o.off)
      /\ ChunkTokens(d)[BLen(d) + 1] = h
  <2>1. d.fmt < 3
    BY <1>4 DEF HeaderPending
  <2> QED BY <1>3, <2>1, ChunkShape DEF HLen, ELen
<1>7. BLen(d) + 1 <= Len(ChunkTokens(d))
  <2>1. End(d) \in Nat /\ d.o.off \in Nat /\ d.o.off <= End(d)
    BY <1>3, EndBounds
  <2> QED BY <1>6, <2>1
<1>8. buffer[cur.size + 1] = h
  <2>1. buffer[BLen(d) + 1] = ChunkTokens(d)[BLen(d) + 1]
    <3>1. BLen(d) + 1 \in Nat /\ 1 <= BLen(d) + 1 /\ BLen(d) + 1 <= Len(buffer)
      BY <1>1, <1>4, <1>6
    <3> QED BY <1>2, <1>7, <3>1, AtHead DEF d
  <2> QED BY <1>4, <1>6, <2>1
<1>9. /\ chunk_streams' = With(d.x, r)
      /\ cur' = [cur EXCEPT !.size = @ + 1]
      /\ rpc' = (IF is_extended(h.ts) THEN "ext" ELSE "payload")
      /\ UNCHANGED <<net, buffer, in_chunk_size, moved, received>>
  <2> HIDE DEF h
  <2> QED BY <1>5, <1>8 DEF read_message_header, HeaderInto
<1> HIDE DEF h
<1>10. /\ r \in ChunkSet
       /\ is_extended(h.ts) <=> d.o.ext
       /\ d.o.ext => ExtPending(r, d)
       /\ ~d.o.ext => HeaderRead(r, d)
  BY <1>3, <1>4, <1>5, HeaderEffect DEF h
<1>11. cur' = [fmt |-> d.fmt, cid |-> d.x, size |-> cur'.size] /\ cur'.size = BLen(d) + 1
  BY <1>4, <1>9
<1> HIDE DEF r
<1>12. /\ rpc' \in {"ext", "payload"}
       /\ rpc' = "ext" => cur'.size = BLen(d) + HLen(d) /\ ExtPending(r, d)
       /\ rpc' = "payload" => cur'.size = BLen(d) + HLen(d) + ELen(d) /\ HeaderRead(r, d)
  <2>1. ~d.o.ext => ELen(d) = 0
    BY DEF ELen
  <2> QED BY <1>6, <1>9, <1>10, <1>11, <2>1
<1>13. moved' = FALSE
  BY <1>9 DEF RecvTypes
<1>14. RecvTypes' /\ Reader(s, d, X)'
  BY <1>2, <1>3, <1>4, <1>9, <1>10, <1>11, <1>12, <1>13, ToInChunk
<1> QED BY <1>2, <1>9, <1>14, SameFlight DEF s, d

(* An extended timestamp, put into chunk stream c.                         *)
ExtInto(c, ts) == [c EXCEPT !.ts = ts, !.count = @ + 1]

LEMMA ExtEffect ==
  ASSUME NEW d, Writable(d), NEW c \in ChunkSet, ExtPending(c, d),
         NEW r, r = ExtInto(c, d.o.delta)
  PROVE  r \in ChunkSet /\ HeaderRead(r, d)
<1>1. d.o.delta = d.o.ts /\ d.o.ts \in 0 .. W32 - 1 /\ d.o.ext \in BOOLEAN /\ d.o.ext
  BY EndBounds DEF Writable, GoodOut, ExtPending
<1>2. PICK u \in 0 .. W32 - 1 : u = d.o.ts
  BY <1>1
<1>3. PICK n \in Nat : n = c.count + 1
  BY DEF ChunkSet
<1>4. /\ r \in ChunkSet /\ r.msg = c.msg /\ r.ts = u /\ r.payload = c.payload
      /\ r.len = c.len /\ r.type = c.type /\ r.delta = c.delta /\ r.ext = c.ext
      /\ r.count > 0
  <2>1. r = [c EXCEPT !.ts = u, !.count = n]
    BY <1>1, <1>2, <1>3 DEF ExtInto
  <2>2. n > 0
    BY <1>3 DEF ChunkSet
  <2> QED BY <2>1, <2>2 DEF ChunkSet
<1>5. c.ext \in BOOLEAN
  BY DEF ChunkSet
<1> QED BY <1>1, <1>2, <1>4, <1>5 DEF ExtPending, HeaderRead

LEMMA ReadExt ==
  ASSUME RecvTypes, NEW g, NEW X, NEW lo, NEW hi, NEW ch, NEW st, NEW pos,
         Track(g, X, lo, hi, ch, st, pos), read_extended_timestamp
  PROVE  RecvTypes' /\ Track(g, X, lo, hi, ch, st, pos)'
<1> DEFINE s == st[lo]
           d == ch[lo + 1]
           r == ExtInto(chunk_streams[d.x], d.o.delta)
           n == BLen(d) + HLen(d)
<1>1. rpc = "ext" /\ Len(buffer) >= cur.size + 1
  BY DEF read_extended_timestamp, Ensured, required_size
<1>2. lo < hi /\ Reader(s, d, X)
  BY <1>1 DEF Track
<1>3. IsChunk(d, s, X) /\ Writable(d) /\ d.x \in X
  BY <1>2, FirstChunk DEF Track, Links, IsChunk
<1> HIDE DEF s, d
<1>4. /\ cur = [fmt |-> d.fmt, cid |-> d.x, size |-> cur.size] /\ cur.size = n
      /\ d.x \in DOMAIN chunk_streams /\ ExtPending(chunk_streams[d.x], d)
      /\ Knows(chunk_streams, s, X \ {d.x})
  BY <1>1, <1>2 DEF Reader, InChunk
<1>5. cur.fmt = d.fmt /\ cur.cid = d.x /\ chunk = chunk_streams[d.x]
      /\ chunk_streams[d.x] \in ChunkSet
  <2>1. cur.fmt = d.fmt /\ cur.cid = d.x
    BY <1>4
  <2> QED BY <1>4, <2>1 DEF chunk, RecvTypes
<1>6. n \in Nat /\ ELen(d) = 1
      /\ Len(ChunkTokens(d)) = n + ELen(d) + (End(d) - d.o.off)
      /\ ChunkTokens(d)[n + 1] = ExtTimestamp(d.o.delta)
  <2>1. d.o.ext
    BY <1>4 DEF ExtPending
  <2>2. BLen(d) \in Nat /\ HLen(d) \in Nat
    BY <1>3, ChunkShape DEF HLen
  <2> QED BY <1>3, <2>1, <2>2, ChunkShape DEF ELen
<1> HIDE DEF n
<1>7. n + 1 <= Len(ChunkTokens(d))
  <2>1. End(d) \in Nat /\ d.o.off \in Nat /\ d.o.off <= End(d)
    BY <1>3, EndBounds
  <2> QED BY <1>6, <2>1
<1>8. buffer[cur.size + 1].ts = d.o.delta
  <2>1. n + 1 \in Nat /\ 1 <= n + 1 /\ n + 1 <= Len(buffer)
    BY <1>1, <1>4, <1>6
  <2>2. buffer[n + 1] = ExtTimestamp(d.o.delta)
    BY <1>2, <1>6, <1>7, <2>1, AtHead DEF d
  <2>3. ExtTimestamp(d.o.delta).ts = d.o.delta
    BY <1>3, EndBounds, ExtType
  <2> QED BY <1>4, <2>2, <2>3
<1>9. /\ chunk_streams' = With(d.x, r)
      /\ cur' = [cur EXCEPT !.size = @ + 1]
      /\ rpc' = "payload" /\ moved' = FALSE
      /\ UNCHANGED <<net, buffer, in_chunk_size, received>>
  <2>1. moved = FALSE
    BY DEF RecvTypes
  <2> QED BY <1>5, <1>8, <2>1 DEF read_extended_timestamp, ExtInto
<1>10. r \in ChunkSet /\ HeaderRead(r, d)
  BY <1>3, <1>4, <1>5, ExtEffect
<1>11. cur' = [fmt |-> d.fmt, cid |-> d.x, size |-> cur'.size] /\ cur'.size = n + 1
  BY <1>4, <1>9
<1> HIDE DEF r
<1>12. cur'.size = BLen(d) + HLen(d) + ELen(d)
  BY <1>6, <1>11 DEF n
<1>13. RecvTypes' /\ Reader(s, d, X)'
  BY <1>2, <1>3, <1>4, <1>9, <1>10, <1>11, <1>12, ToInChunk
<1> QED BY <1>2, <1>9, <1>13, SameFlight DEF s, d

-----------------------------------------------------------------------------
(* The payload.                                                            *)

LEMMA CutHead ==
  ASSUME NEW S, NEW a \in Seq(S), NEW b \in Seq(S), NEW l \in Nat, l <= Len(a)
  PROVE  SubSeq(a, l + 1, Len(a)) \o b = SubSeq(a \o b, l + 1, Len(a \o b))
<1> DEFINE w == a \o b
           u == SubSeq(a, l + 1, Len(a))
           v == SubSeq(w, l + 1, Len(w))
           x == u \o b
<1>1. Joined(w, a, b, S) /\ Cut(u, a, l, S)
  BY ConcatAt, CutAt
<1>2. Cut(v, w, l, S)
  <2> HIDE DEF w
  <2>1. w \in Seq(S) /\ l <= Len(w)
    BY <1>1 DEF Joined
  <2> QED BY <2>1, CutAt
<1>3. Joined(x, u, b, S)
  <2> HIDE DEF u
  <2>1. u \in Seq(S)
    BY <1>1 DEF Cut
  <2> QED BY <2>1, ConcatAt
<1> HIDE DEF u, v, w, x
<1> USE DEF Joined, Cut
<1>4. Len(a) \in Nat /\ Len(b) \in Nat
  OBVIOUS
<1>5. x \in Seq(S) /\ v \in Seq(S) /\ Len(x) = Len(v) /\ Len(x) = (Len(a) - l) + Len(b)
  BY <1>1, <1>2, <1>3, <1>4
<1>6. ASSUME NEW i \in 1 .. Len(x) PROVE x[i] = v[i]
  <2>1. v[i] = w[l + i]
    BY <1>1, <1>2, <1>4, <1>5
  <2>2. CASE i <= Len(a) - l
    <3>1. i \in 1 .. Len(u) /\ l + i \in 1 .. Len(a) /\ i \in 1 .. Len(a) - l
      BY <1>1, <1>4, <2>2
    <3> QED BY <1>1, <1>3, <2>1, <3>1
  <2>3. CASE i > Len(a) - l
    <3>0. i - (Len(a) - l) \in 1 .. Len(b)
      <4>1. i \in Int /\ i <= (Len(a) - l) + Len(b)
        BY <1>4, <1>5
      <4> QED BY <1>4, <2>3, <4>1
    <3>1. PICK j \in 1 .. Len(b) : j = i - (Len(a) - l)
      BY <3>0
    <3>2. i = Len(u) + j /\ l + i = Len(a) + j
      BY <1>1, <1>4, <3>1
    <3>3. x[Len(u) + j] = b[j] /\ w[Len(a) + j] = b[j]
      BY <1>1, <1>3
    <3> QED BY <2>1, <3>2, <3>3
  <2> QED BY <1>4, <2>2, <2>3
<1>7. x = v
  BY <1>5, <1>6, SeqEqual
<1> QED BY <1>7 DEF x, v, u, w

(* Payload put into chunk stream c, and the chunk stream after it.         *)
PayloadInto(c, got) == [c EXCEPT !.payload = @ \o got]
Settled(c) == IF Len(c.payload) = c.len THEN completed(c) ELSE c

\* What the chunk stream holds when the payload of chunk d has been read.
PayloadRead(c, d) ==
  /\ c \in ChunkSet
  /\ c.count > 0 /\ c.msg
  /\ c.payload = Blocks(d.o.m, 0, End(d)) /\ Len(c.payload) = End(d)
  /\ c.ts = d.o.ts /\ c.delta = Field(d.o) /\ c.ext = d.o.ext
  /\ c.len = d.o.m.len /\ c.type = d.o.m.type

LEMMA PayloadEffect ==
  ASSUME NEW d, Writable(d), NEW c \in ChunkSet, HeaderRead(c, d),
         NEW p, p = PayloadInto(c, Blocks(d.o.m, d.o.off, End(d)))
  PROVE  PayloadRead(p, d)
<1>1. d.o.m \in MSet /\ d.o.off \in Nat /\ End(d) \in Nat /\ d.o.off <= End(d)
  BY EndBounds
<1>2. Blocks(d.o.m, 0, d.o.off) \o Blocks(d.o.m, d.o.off, End(d)) = Blocks(d.o.m, 0, End(d))
  <2>1. PICK m \in MSet, i \in Nat, j \in Nat : m = d.o.m /\ i = d.o.off /\ j = End(d)
    BY <1>1
  <2>2. 0 <= i /\ i <= j
    BY <1>1, <2>1
  <2>3. Blocks(m, 0, i) \o Blocks(m, i, j) = Blocks(m, 0, j)
    BY <2>2, BlocksJoin
  <2> QED BY <2>1, <2>3
<1>3. Blocks(d.o.m, 0, End(d)) \in Seq(TokenSet) /\ Len(Blocks(d.o.m, 0, End(d))) = End(d)
  BY <1>1, BlocksType
<1>4. PICK q \in Seq(TokenSet) : q = Blocks(d.o.m, 0, End(d))
  BY <1>3
<1>5. c.payload \o Blocks(d.o.m, d.o.off, End(d)) = q
  BY <1>2, <1>4 DEF HeaderRead
<1>6. p = [c EXCEPT !.payload = q]
  BY <1>5 DEF PayloadInto
<1>7. /\ p \in ChunkSet /\ p.payload = q /\ p.count = c.count /\ p.msg = c.msg /\ p.ts = c.ts
      /\ p.delta = c.delta /\ p.ext = c.ext /\ p.len = c.len /\ p.type = c.type
  BY <1>6 DEF ChunkSet
<1>8. c.ext \in BOOLEAN /\ d.o.ext \in BOOLEAN
  BY EndBounds DEF ChunkSet
<1> QED BY <1>3, <1>4, <1>7, <1>8 DEF PayloadRead, HeaderRead

LEMMA SettledCached ==
  ASSUME NEW d, Writable(d), d.size > 0, NEW c, PayloadRead(c, d),
         NEW r, r = Settled(c), NEW o, o = [d.o EXCEPT !.off = End(d)]
  PROVE  /\ r \in ChunkSet /\ Cached(r, o)
         /\ Len(c.payload) = c.len <=> Whole(d)
<1>1. /\ End(d) \in Nat /\ d.o.off \in Nat /\ d.o.off <= End(d) /\ End(d) <= d.o.m.len
      /\ d.o.m.len \in Nat
  BY EndBounds
<1>2. /\ o.off = End(d) /\ o.m = d.o.m /\ o.ts = d.o.ts /\ o.delta = d.o.delta
      /\ o.ext = d.o.ext
  BY <1>1 DEF Writable, GoodOut, OutSet
<1>3. Field(o) = Field(d.o)
  BY <1>2 DEF Field
<1>4. Len(c.payload) = c.len <=> Whole(d)
  BY DEF PayloadRead, Whole
<1>5. CASE Whole(d)
  <2>1. r = [c EXCEPT !.msg = FALSE, !.payload = <<>>]
    BY <1>4, <1>5 DEF Settled, completed
  <2>2. /\ r \in ChunkSet /\ r.payload = <<>> /\ r.count = c.count /\ ~r.msg /\ r.ts = c.ts
        /\ r.delta = c.delta /\ r.ext = c.ext /\ r.len = c.len /\ r.type = c.type
    <3>1. c \in ChunkSet
      BY DEF PayloadRead
    <3>0. <<>> \in Seq(TokenSet)
      OBVIOUS
    <3>2. PICK q \in Seq(TokenSet) : q = <<>>
      BY <3>0
    <3>3. r = [c EXCEPT !.msg = FALSE, !.payload = q]
      BY <2>1, <3>2
    <3> QED BY <3>1, <3>2, <3>3 DEF ChunkSet
  <2>3. ~(o.off < o.m.len)
    BY <1>1, <1>2, <1>5 DEF Whole
  <2>4. c.ext = d.o.ext
    BY DEF PayloadRead
  <2> QED BY <1>2, <1>3, <1>4, <2>2, <2>3, <2>4 DEF Cached, PayloadRead
<1>6. CASE ~Whole(d)
  <2>1. r = c
    BY <1>4, <1>6 DEF Settled
  <2>2. End(d) < d.o.m.len /\ End(d) > 0
    <3>1. d.size \in Nat
      BY DEF Writable
    <3> QED BY <1>1, <1>6, <3>1 DEF Whole, End
  <2> QED BY <1>2, <1>3, <1>4, <2>1, <2>2 DEF Cached, PayloadRead
<1> QED BY <1>4, <1>5, <1>6

\* The messages returned so far are the first of g.
Prefix(g) ==
  /\ Len(received) <= Len(g)
  /\ \A n \in 1 .. Len(received) : received[n] = g[n]

(* The payload of the chunk is in the buffer, as the sender cut it.        *)
AtPayload(s, d, X) ==
  /\ IsChunk(d, s, X) /\ IsSnapshot(s, X) /\ Writable(d)
  /\ Reader(s, d, X) /\ InChunk(d) /\ HeaderRead(chunk, d)
  /\ Knows(chunk_streams, s, X \ {d.x})
  /\ cur.cid = d.x /\ chunk \in ChunkSet
  /\ cur.size \in Nat /\ payload_size = End(d) - d.o.off
  /\ cur.size + payload_size = Len(ChunkTokens(d))
  /\ Len(ChunkTokens(d)) <= Len(buffer)
  /\ SubSeq(buffer, cur.size + 1, cur.size + payload_size) = Blocks(d.o.m, d.o.off, End(d))

LEMMA PayloadAt ==
  ASSUME RecvTypes, NEW g, NEW X, NEW lo, NEW hi, NEW ch, NEW st, NEW pos,
         Track(g, X, lo, hi, ch, st, pos), rpc = "payload", Ensured,
         NEW d, d = ch[lo + 1]
  PROVE  lo < hi /\ AtPayload(st[lo], d, X)
<1> DEFINE s == st[lo]
           e == Blocks(d.o.m, d.o.off, End(d))
<1>1. Len(buffer) >= cur.size + payload_size
  BY DEF Ensured, required_size
<1>2. lo < hi /\ Reader(s, d, X)
  BY DEF Track
<1>3. IsChunk(d, s, X) /\ Writable(d) /\ IsSnapshot(s, X)
  BY <1>2, FirstChunk DEF Track, Links
<1> HIDE DEF s
<1>4. /\ cur = [fmt |-> d.fmt, cid |-> d.x, size |-> cur.size]
      /\ cur.size = BLen(d) + HLen(d) + ELen(d)
      /\ d.x \in DOMAIN chunk_streams /\ HeaderRead(chunk_streams[d.x], d)
      /\ Knows(chunk_streams, s, X \ {d.x}) /\ InChunk(d)
      /\ in_chunk_size = s.size /\ d.size = s.size /\ s.size \in Nat
  BY <1>2, <1>3 DEF Reader, InChunk, IsChunk, IsSnapshot
<1>5. cur.cid = d.x /\ chunk = chunk_streams[d.x] /\ chunk \in ChunkSet /\ HeaderRead(chunk, d)
  <2>1. cur.cid = d.x
    BY <1>4
  <2> QED BY <1>4, <2>1 DEF chunk, RecvTypes
<1>6. /\ d.o.m \in MSet /\ d.o.off \in Nat /\ End(d) \in Nat /\ d.o.off <= End(d)
      /\ d.o.m.len \in Nat /\ d.o.off <= d.o.m.len
  BY <1>3, EndBounds DEF Writable, GoodOut
<1>7. cur.size \in Nat
  <2>1. BLen(d) \in Nat /\ HLen(d) \in Nat /\ ELen(d) \in Nat
    BY <1>3, ChunkShape DEF HLen, ELen
  <2> QED BY <1>4, <2>1
<1>8. payload_size = End(d) - d.o.off
  <2>1. Len(Blocks(d.o.m, 0, d.o.off)) = d.o.off
    <3>1. PICK m \in MSet, i \in Nat : m = d.o.m /\ i = d.o.off
      BY <1>6
    <3>2. Len(Blocks(m, 0, i)) = i - 0
      BY BlocksType
    <3> QED BY <3>1, <3>2
  <2>2. chunk.len = d.o.m.len /\ Len(chunk.payload) = d.o.off
    BY <1>5, <2>1 DEF HeaderRead
  <2>3. PICK a \in Nat, b \in Nat, z \in Nat : a = d.o.m.len /\ b = d.o.off /\ z = s.size
    BY <1>4, <1>6
  <2>4. End(d) = (IF a < b + z THEN a ELSE b + z)
    BY <1>4, <2>3 DEF End
  <2>5. payload_size = (IF a - b < z THEN a - b ELSE z)
    BY <1>4, <2>2, <2>3 DEF payload_size
  <2> QED BY <2>3, <2>4, <2>5
<1>9. cur.size + payload_size = Len(ChunkTokens(d)) /\ Len(ChunkTokens(d)) <= Len(buffer)
  <2>1. Len(ChunkTokens(d)) = cur.size + (End(d) - d.o.off)
    BY <1>3, <1>4, ChunkShape
  <2> QED BY <1>1, <1>8, <2>1
<1>10. SubSeq(buffer, cur.size + 1, cur.size + payload_size) = e
  <2>1. PICK n \in Nat, z \in Nat : n = cur.size /\ z = payload_size
    BY <1>6, <1>7, <1>8
  <2>2. e \in Seq(TokenSet) /\ Len(e) = z
    BY <1>6, <1>8, <2>1, BlocksType
  <2>3. n + z <= Len(buffer) /\ buffer \in Seq(TokenSet) /\ Len(buffer) \in Nat
        /\ Len(ChunkTokens(d)) = n + z
    <3>1. buffer \in Seq(TokenSet)
      BY DEF RecvTypes
    <3>2. n + z = cur.size + payload_size
      BY <2>1
    <3> QED BY <1>9, <3>1, <3>2
  <2>4. /\ SubSeq(buffer, n + 1, n + z) \in Seq(TokenSet)
        /\ Len(SubSeq(buffer, n + 1, n + z)) = z
        /\ \A i \in 1 .. z : SubSeq(buffer, n + 1, n + z)[i] = buffer[n + i]
    BY <2>3
  <2>5. ASSUME NEW i \in 1 .. z PROVE buffer[n + i] = e[i]
    <3>1. n + i \in Nat /\ 1 <= n + i /\ n + i <= Len(ChunkTokens(ch[lo + 1]))
          /\ n + i <= Len(buffer)
      BY <2>3
    <3>2. buffer[n + i] = ChunkTokens(ch[lo + 1])[n + i]
      BY <1>2, <3>1, AtHead
    <3>3. ChunkTokens(d)[n + i] = e[i]
      <4>1. i \in 1 .. End(d) - d.o.off
        BY <1>8, <2>1
      <4>2. ChunkTokens(d)[BLen(d) + HLen(d) + ELen(d) + i] = e[i]
        BY <1>3, <4>1, ChunkShape
      <4> QED BY <1>4, <2>1, <4>2
    <3> QED BY <3>2, <3>3
  <2> HIDE DEF e
  <2>6. SubSeq(buffer, n + 1, n + z) = e
    BY <2>2, <2>4, <2>5, SeqEqual
  <2> QED BY <2>1, <2>6
<1> QED BY <1>2, <1>3, <1>4, <1>5, <1>7, <1>8, <1>9, <1>10 DEF s, AtPayload

(* A chunk with its payload has been read: the reader is at the next       *)
(* snapshot, and what the chunk completed has been returned.               *)
LEMMA ReadPayload ==
  ASSUME RecvTypes, NEW g \in Seq(MessageSet), Prefix(g),
         NEW X, NEW lo, NEW hi, NEW ch, NEW st, NEW pos,
         Track(g, X, lo, hi, ch, st, pos), read_message_payload
  PROVE  /\ RecvTypes' /\ Prefix(g)'
         /\ Running' => Track(g, X, lo + 1, hi, ch, st, pos)'
         /\ lo < hi /\ rpc' # "closed"
         /\ rpc' = "refused" => ~(st[lo + 1].size >= MinChunkSize)
<1> DEFINE d == ch[lo + 1]
           s == st[lo]
           t == AfterChunk(d, s)
           p == PayloadInto(chunk, Blocks(d.o.m, d.o.off, End(d)))
           r == Settled(p)
           whole == Len(p.payload) = p.len
           message == whole /\ p.len > 0
           ok == message => valid_packet(p)
           l == Len(ChunkTokens(d))
<1>1. rpc = "payload" /\ Ensured
  BY DEF read_message_payload
<1>2. /\ lo < hi /\ IsChunk(d, s, X) /\ IsSnapshot(s, X) /\ Writable(d)
      /\ Reader(s, d, X) /\ InChunk(d) /\ HeaderRead(chunk, d)
      /\ Knows(chunk_streams, s, X \ {d.x})
      /\ cur.cid = d.x /\ chunk \in ChunkSet
      /\ cur.size \in Nat /\ payload_size = End(d) - d.o.off
      /\ cur.size + payload_size = l
      /\ l <= Len(buffer)
      /\ SubSeq(buffer, cur.size + 1, cur.size + payload_size)
           = Blocks(d.o.m, d.o.off, End(d))
  <2>1. lo < hi /\ AtPayload(st[lo], ch[lo + 1], X)
    BY <1>1, PayloadAt
  <2> QED BY <2>1 DEF AtPayload
<1>3. Links(d, s, st[lo + 1], g, X) /\ lo \in Nat /\ hi \in Nat
  BY <1>2, FirstChunk DEF Track, InFlight
<1> HIDE DEF d, s
<1>4. /\ buffer' = SubSeq(buffer, l + 1, Len(buffer))
      /\ chunk_streams' = With(d.x, r)
      /\ received' = (IF message /\ ok THEN Append(received, Message(d.x, p)) ELSE received)
      /\ in_chunk_size' = (IF message /\ ok THEN on_recv_message(p) ELSE in_chunk_size)
      /\ rpc' = (IF ok THEN "basic" ELSE "refused")
      /\ moved' = FALSE
      /\ UNCHANGED net
  BY <1>2 DEF read_message_payload, PayloadInto, Settled
<1>5. PayloadRead(p, d)
  BY <1>2, PayloadEffect
<1>6. d.x \in X /\ d.size = s.size /\ in_chunk_size = s.size /\ d.size > 0 /\ s.size \in Nat
      /\ s.n \in Nat /\ Len(received) = s.n /\ DOMAIN chunk_streams \subseteq X
      /\ in_chunk_size >= MinChunkSize
  <2>1. d.x \in X /\ d.size = s.size /\ in_chunk_size = s.size /\ s.size \in Nat
        /\ s.n \in Nat /\ Len(received) = s.n /\ DOMAIN chunk_streams \subseteq X
    BY <1>2 DEF IsChunk, IsSnapshot, Reader
  <2>2. in_chunk_size >= MinChunkSize
    BY DEF RecvTypes
  <2> QED BY <2>1, <2>2, ChunkSizesPos
<1> HIDE DEF l, p
<1>7. r \in ChunkSet /\ Cached(r, [d.o EXCEPT !.off = End(d)]) /\ (whole <=> Whole(d))
  BY <1>2, <1>5, <1>6, SettledCached
<1>8. message <=> Delivers(d)
  BY <1>5, <1>7 DEF Delivers, PayloadRead
<1>9. st[lo + 1] = t /\ (Delivers(d) => t.n <= Len(g) /\ g[t.n] = MessageOf(d))
  BY <1>3 DEF Links
<1>10. /\ IsSnapshot(t, X)
       /\ t.out[d.x] = [d.o EXCEPT !.off = End(d)]
       /\ \A y \in X \ {d.x} : t.out[y] = s.out[y]
  BY <1>2, AfterSnapshot
<1>11. /\ t.n = (IF Delivers(d) THEN s.n + 1 ELSE s.n)
       /\ t.size = (IF Delivers(d) /\ d.o.m.type = "set_chunk_size" THEN d.o.m.v ELSE s.size)
  BY DEF AfterChunk
<1>12. t.out[d.x].used
  BY <1>2, <1>10 DEF Writable, GoodOut, OutSet
<1> HIDE DEF t, r
<1>13. message => Message(d.x, p) = MessageOf(d)
  <2>1. ASSUME message PROVE p.payload = Blocks(d.o.m, 0, d.o.m.len)
    BY <1>5, <1>7, <2>1 DEF PayloadRead, Whole
  <2> QED BY <1>5, <2>1 DEF Message, MessageOf, PayloadRead
<1>14. ASSUME message PROVE p.payload[1].v = d.o.m.v /\ d.o.m.v \in Nat
  <2>1. End(d) \in Nat /\ End(d) > 0 /\ d.o.m \in MSet /\ d.o.m.v \in Nat
    BY <1>2, <1>8, <1>14, EndBounds DEF Delivers, Whole
  <2>2. PICK m \in MSet, j \in Nat : m = d.o.m /\ j = End(d)
    BY <2>1
  <2>3. 1 \in 1 .. j - 0 /\ 0 <= j
    BY <2>1, <2>2
  <2>4. Blocks(m, 0, j)[1].v = m.v
    BY <2>3, BlocksType
  <2> QED BY <1>5, <2>1, <2>2, <2>4 DEF PayloadRead
<1>15. DOMAIN chunk_streams' = DOMAIN chunk_streams \cup {d.x} /\ chunk_streams'[d.x] = r
       /\ \A y \in DOMAIN chunk_streams : y # d.x => chunk_streams'[y] = chunk_streams[y]
  <2>1. chunk_streams' = With(d.x, r)
    BY <1>4
  <2> QED BY <2>1 DEF With
<1>16. RecvTypes'
  <2>1. buffer' \in Seq(TokenSet) /\ net' \in Seq(TokenSet)
    <3>1. buffer \in Seq(TokenSet) /\ net \in Seq(TokenSet) /\ l \in Nat
      BY <1>2, ChunkShape DEF RecvTypes, l
    <3>2. buffer' = SubSeq(buffer, l + 1, Len(buffer)) /\ net' = net
      BY <1>4
    <3>3. SubSeq(buffer, l + 1, Len(buffer)) \in Seq(TokenSet)
      BY <3>1
    <3> QED BY <3>1, <3>2, <3>3
  <2>2. received' \in Seq(MessageSet)
    <3>1. received \in Seq(MessageSet) /\ MessageOf(d) \in MessageSet
      BY <1>2, MessageType DEF RecvTypes
    <3> QED BY <1>4, <1>13, <3>1
  <2>3. \A x \in DOMAIN chunk_streams' : chunk_streams'[x] \in ChunkSet
    BY <1>7, <1>15 DEF RecvTypes
  <2>4. in_chunk_size' \in Nat /\ in_chunk_size' >= MinChunkSize
    <3>1. CASE message /\ ok /\ p.type = "set_chunk_size"
      BY <1>4, <1>14, <3>1 DEF on_recv_message, valid_packet
    <3>2. CASE ~(message /\ ok /\ p.type = "set_chunk_size")
      <4>1. in_chunk_size' = in_chunk_size
        BY <1>4, <3>2 DEF on_recv_message
      <4> QED BY <1>6, <4>1
    <3> QED BY <3>1, <3>2
  <2> QED BY <1>4, <2>1, <2>2, <2>3, <2>4 DEF RecvTypes
<1>17. Prefix(g)'
  <2>0. received \in Seq(MessageSet) /\ MessageOf(d) \in MessageSet
    BY <1>2, MessageType DEF RecvTypes
  <2>1. CASE message /\ ok
    <3>1. received' = Append(received, MessageOf(d))
      BY <1>4, <1>13, <2>1
    <3>2. t.n = Len(received) + 1 /\ t.n <= Len(g) /\ g[t.n] = MessageOf(d)
      BY <1>6, <1>8, <1>9, <1>11, <2>1
    <3>3. /\ Len(received') = Len(received) + 1
          /\ received'[Len(received) + 1] = MessageOf(d)
          /\ \A n \in 1 .. Len(received) : received'[n] = received[n]
      BY <2>0, <3>1, LogGrows
    <3>4. ASSUME NEW n \in 1 .. Len(received') PROVE received'[n] = g[n]
      <4>0. Len(received) \in Nat
        BY <2>0
      <4>1. CASE n = Len(received) + 1
        BY <3>2, <3>3, <4>1
      <4>2. CASE n # Len(received) + 1
        <5>1. n \in 1 .. Len(received)
          BY <3>3, <4>0, <4>2
        <5> QED BY <3>3, <5>1 DEF Prefix
      <4> QED BY <4>1, <4>2
    <3> QED BY <3>2, <3>3, <3>4 DEF Prefix
  <2>2. CASE ~(message /\ ok)
    BY <1>4, <2>2 DEF Prefix
  <2> QED BY <2>1, <2>2
<1>18. ASSUME ok PROVE Track(g, X, lo + 1, hi, ch, st, pos)'
  <2>1. InFlight(buffer' \o net', g, X, lo + 1, hi, ch, st, pos)
    <3>1. buffer \in Seq(TokenSet) /\ net \in Seq(TokenSet) /\ l \in Nat
      BY <1>2, ChunkShape DEF RecvTypes, l
    <3>2. buffer' \o net' = SubSeq(buffer \o net, l + 1, Len(buffer \o net))
      <4>1. SubSeq(buffer, l + 1, Len(buffer)) \o net
              = SubSeq(buffer \o net, l + 1, Len(buffer \o net))
        BY <1>2, <3>1, CutHead
      <4> QED BY <1>4, <4>1
    <3>3. InFlight(buffer \o net, g, X, lo, hi, ch, st, pos)
      BY DEF Track
    <3> QED BY <1>2, <3>2, <3>3, Consume DEF l, d
  <2>2. rpc' = "basic"
    BY <1>4, <1>18
  <2>3. in_chunk_size' = t.size
    <3>1. CASE message
      BY <1>4, <1>5, <1>6, <1>8, <1>11, <1>14, <1>18, <3>1 DEF on_recv_message, PayloadRead
    <3>2. CASE ~message
      BY <1>4, <1>6, <1>8, <1>11, <3>2
    <3> QED BY <3>1, <3>2
  <2>4. Len(received') = t.n
    <3>1. received \in Seq(MessageSet) /\ MessageOf(d) \in MessageSet
      BY <1>2, MessageType DEF RecvTypes
    <3> QED BY <1>4, <1>6, <1>8, <1>11, <1>13, <1>18, <3>1, LogGrows
  <2>6. Knows(chunk_streams', t, X)
    <3> SUFFICES ASSUME NEW y \in X
                 PROVE  IF t.out[y].used
                          THEN y \in DOMAIN chunk_streams' /\ Cached(chunk_streams'[y], t.out[y])
                          ELSE y \notin DOMAIN chunk_streams'
      BY DEF Knows
    <3>1. CASE y = d.x
      BY <1>7, <1>10, <1>12, <1>15, <3>1
    <3>2. CASE y # d.x
      <4>1. t.out[y] = s.out[y]
        BY <1>10, <3>2
      <4>2. IF s.out[y].used THEN y \in DOMAIN chunk_streams /\ Cached(chunk_streams[y], s.out[y])
                             ELSE y \notin DOMAIN chunk_streams
        BY <1>2, <3>2 DEF Knows
      <4> QED BY <1>15, <3>2, <4>1, <4>2
    <3> QED BY <3>1, <3>2
  <2>7. Reader(st[lo + 1], ch[(lo + 1) + 1], X)'
    BY <1>6, <1>9, <2>2, <2>3, <2>4, <1>15, <2>6 DEF Reader
  <2> QED BY <2>1, <2>2, <2>7 DEF Track
<1>19. Running' => ok
  BY <1>4 DEF Running
<1>20. ASSUME ~ok PROVE ~(st[lo + 1].size >= MinChunkSize)
  <2>1. message /\ p.type = "set_chunk_size" /\ ~(p.payload[1].v >= MinChunkSize)
    BY <1>20 DEF valid_packet
  <2>2. d.o.m.type = "set_chunk_size"
    BY <1>5, <2>1 DEF PayloadRead
  <2> QED BY <1>8, <1>9, <1>11, <1>14, <2>1, <2>2
<1>21. (rpc' = "refused" => ~ok) /\ rpc' # "closed"
  BY <1>4
<1> QED BY <1>2, <1>16, <1>17, <1>18, <1>19, <1>20, <1>21

-----------------------------------------------------------------------------
(* All the steps of the reader.                                            *)

LEMMA Resplit ==
  ASSUME NEW S, NEW a \in Seq(S), NEW b \in Seq(S), NEW n \in 1 .. Len(b)
  PROVE  /\ (a \o SubSeq(b, 1, n)) \o SubSeq(b, n + 1, Len(b)) = a \o b
         /\ a \o SubSeq(b, 1, n) \in Seq(S) /\ SubSeq(b, n + 1, Len(b)) \in Seq(S)
<1> DEFINE h == SubSeq(b, 1, n)
           k == SubSeq(b, n + 1, Len(b))
           u == a \o h
           v == u \o k
           w == a \o b
<1>0. Len(a) \in Nat /\ Len(b) \in Nat /\ n \in Nat /\ n <= Len(b)
  OBVIOUS
<1>1. h \in Seq(S) /\ Len(h) = n /\ \A i \in 1 .. n : h[i] = b[i]
  BY <1>0
<1>2. Cut(k, b, n, S)
  BY <1>0, CutAt
<1>3. Joined(w, a, b, S)
  BY ConcatAt
<1> HIDE DEF h, k, w
<1>4. Joined(u, a, h, S)
  BY <1>1, ConcatAt
<1> HIDE DEF u
<1>5. Joined(v, u, k, S)
  <2>1. u \in Seq(S) /\ k \in Seq(S)
    BY <1>2, <1>4 DEF Joined, Cut
  <2> QED BY <2>1, ConcatAt
<1> HIDE DEF v
<1> USE DEF Joined, Cut
<1>6. v \in Seq(S) /\ w \in Seq(S) /\ Len(v) = Len(w) /\ Len(w) = Len(a) + Len(b)
      /\ Len(u) = Len(a) + n /\ Len(k) = Len(b) - n
  BY <1>0, <1>1, <1>2, <1>3, <1>4, <1>5
<1>7. ASSUME NEW i \in 1 .. Len(v) PROVE v[i] = w[i]
  <2>0. i \in Int /\ 1 <= i /\ i <= Len(a) + Len(b)
    BY <1>0, <1>6
  <2>1. CASE i <= Len(a)
    BY <1>0, <1>3, <1>4, <1>5, <1>6, <2>0, <2>1
  <2>2. CASE i > Len(a) /\ i <= Len(a) + n
    <3>0. i - Len(a) \in 1 .. n /\ i - Len(a) \in 1 .. Len(b)
      BY <1>0, <2>0, <2>2
    <3>1. PICK j \in 1 .. n : j = i - Len(a) /\ j \in 1 .. Len(b)
      BY <3>0
    <3>2. i = Len(a) + j /\ i \in 1 .. Len(u)
      BY <1>0, <1>6, <2>0, <2>2, <3>1
    <3>3. v[i] = u[i]
      BY <1>5, <3>2
    <3>4. u[Len(a) + j] = h[j] /\ h[j] = b[j] /\ w[Len(a) + j] = b[j]
      BY <1>1, <1>3, <1>4, <3>1
    <3> QED BY <3>2, <3>3, <3>4
  <2>3. CASE i > Len(a) + n
    <3>0. i - (Len(a) + n) \in 1 .. Len(b) - n /\ i - Len(a) \in 1 .. Len(b)
      BY <1>0, <2>0, <2>3
    <3>1. PICK j \in 1 .. Len(b) - n : j = i - (Len(a) + n)
      BY <3>0
    <3>2. i = Len(u) + j /\ i = Len(a) + (n + j) /\ n + j \in 1 .. Len(b)
      BY <1>0, <1>6, <2>0, <3>1
    <3>3. v[Len(u) + j] = k[j] /\ k[j] = b[n + j]
      BY <1>2, <1>5, <1>6
    <3>4. w[Len(a) + (n + j)] = b[n + j]
      BY <1>3, <3>2
    <3> QED BY <3>2, <3>3, <3>4
  <2> QED BY <1>0, <2>0, <2>1, <2>2, <2>3
<1>8. v = w
  BY <1>6, <1>7, SeqEqual
<1> QED BY <1>2, <1>4, <1>8 DEF v, w, u, h, k

LEMMA EnsureBytes ==
  ASSUME RecvTypes, ~moved', NEW g, NEW X, NEW lo, NEW hi, NEW ch, NEW st, NEW pos,
         Track(g, X, lo, hi, ch, st, pos), NEW n \in 1 .. Len(net), ensure_buffer_bytes(n)
  PROVE  RecvTypes' /\ Track(g, X, lo, hi, ch, st, pos)'
<1>1. /\ buffer' = buffer \o SubSeq(net, 1, n)
      /\ net' = SubSeq(net, n + 1, Len(net))
      /\ moved' = moved
      /\ UNCHANGED <<chunk_streams, in_chunk_size, cur, rpc, received>>
  BY DEF ensure_buffer_bytes, RecvTypes
<1>2. buffer' \o net' = buffer \o net /\ buffer' \in Seq(TokenSet) /\ net' \in Seq(TokenSet)
  <2>1. buffer \in Seq(TokenSet) /\ net \in Seq(TokenSet)
    BY DEF RecvTypes
  <2> QED BY <1>1, <2>1, Resplit
<1>3. RecvTypes'
  BY <1>1, <1>2 DEF RecvTypes
<1>4. Reader(st[lo], ch[lo + 1], X)'
  BY <1>1 DEF Track, Reader, InChunk
<1> QED BY <1>1, <1>2, <1>3, <1>4 DEF Track

\* The chunk sizes of the snapshots in flight are low or more.
AtLeast(low, lo, hi, st) == \A i \in lo .. hi : st[i].size >= low

\* The reader follows a sender whose snapshot is z now.
Following(g, X, z, low) ==
  \E lo, hi, ch, st, pos :
    Track(g, X, lo, hi, ch, st, pos) /\ st[hi] = z /\ AtLeast(low, lo, hi, st)

LEMMA RecvRuns ==
  ASSUME recv_message
  PROVE  Running
<1>1. Timeout \/ (\E n \in 1 .. Len(net) : ensure_buffer_bytes(n)) => Running
  BY DEF Timeout, ensure_buffer_bytes, Starved
<1>2. read_basic_header => Running
  BY DEF read_basic_header, Ensured
<1>3. read_basic_header2 \/ read_basic_header3 => Running
  BY DEF read_basic_header2, read_basic_header3, Ensured
<1>4. (read_message_header => Running) /\ (read_extended_timestamp => Running)
  <2>1. read_message_header => Running
    BY DEF read_message_header, Ensured
  <2>2. read_extended_timestamp => Running
    BY DEF read_extended_timestamp, Ensured
  <2> QED BY <2>1, <2>2
<1>5. read_message_payload => Running
  BY DEF read_message_payload, Ensured
<1> QED BY <1>1, <1>2, <1>3, <1>4, <1>5 DEF recv_message, Read

(* A step of recv_message keeps the reader in its place, and returns the   *)
(* next message if it returns one.                                         *)
LEMMA RecvStep ==
  ASSUME RecvTypes, ~Pulse, ~moved', NEW g \in Seq(MessageSet), Prefix(g), NEW X, NEW z,
         NEW low \in Nat, Running => Following(g, X, z, low), recv_message
  PROVE  /\ RecvTypes' /\ Prefix(g)' /\ (Running' => Following(g, X, z, low)')
         /\ rpc' = "refused" => ~(low >= MinChunkSize)
         /\ rpc' = "closed" => Timeout
<1>1. Running
  BY RecvRuns
<1>2. PICK lo, hi, ch, st, pos :
        Track(g, X, lo, hi, ch, st, pos) /\ st[hi] = z /\ AtLeast(low, lo, hi, st)
  BY <1>1 DEF Following
<1>3. CASE Timeout
  BY <1>3 DEF Timeout, RecvTypes, Prefix, Running
\* A step that stays in the chunk.
<1>4. ASSUME RecvTypes', Track(g, X, lo, hi, ch, st, pos)', received' = received,
             rpc' \notin {"closed", "refused", "error"}
      PROVE  /\ RecvTypes' /\ Prefix(g)' /\ (Running' => Following(g, X, z, low)')
             /\ rpc' = "refused" => ~(low >= MinChunkSize)
             /\ rpc' = "closed" => Timeout
  BY <1>2, <1>4 DEF Following, Prefix
<1>5. ASSUME NEW n \in 1 .. Len(net), ensure_buffer_bytes(n)
      PROVE  /\ RecvTypes' /\ Track(g, X, lo, hi, ch, st, pos)' /\ received' = received
             /\ rpc' \notin {"closed", "refused", "error"}
  <2>1. RecvTypes' /\ Track(g, X, lo, hi, ch, st, pos)'
    BY <1>2, <1>5, EnsureBytes
  <2>2. received' = received /\ rpc' = rpc
    BY <1>5 DEF ensure_buffer_bytes
  <2> QED BY <1>1, <2>1, <2>2 DEF Running
<1>6. ASSUME read_basic_header \/ read_basic_header2 \/ read_basic_header3
      PROVE  /\ RecvTypes' /\ Track(g, X, lo, hi, ch, st, pos)' /\ received' = received
             /\ rpc' \notin {"closed", "refused", "error"}
  <2>1. RecvTypes' /\ Track(g, X, lo, hi, ch, st, pos)'
    BY <1>2, <1>6, ReadBasic
  <2>2. rpc' # "error"
    BY <2>1 DEF RecvTypes
  <2>3. received' = received /\ rpc' \notin {"closed", "refused"}
    <3>1. \A fmt, cid, n : enter_message_header(fmt, cid, n)
                             => received' = received /\ rpc' \notin {"closed", "refused"}
      BY DEF enter_message_header
    <3>2. CASE read_basic_header
      BY <3>1, <3>2 DEF read_basic_header
    <3>3. CASE read_basic_header2
      BY <3>1, <3>3 DEF read_basic_header2
    <3>4. CASE read_basic_header3
      BY <3>1, <3>4 DEF read_basic_header3
    <3> QED BY <1>6, <3>2, <3>3, <3>4
  <2> QED BY <2>1, <2>2, <2>3
<1>7. ASSUME read_message_header
      PROVE  /\ RecvTypes' /\ Track(g, X, lo, hi, ch, st, pos)' /\ received' = received
             /\ rpc' \notin {"closed", "refused", "error"}
  <2>1. RecvTypes' /\ Track(g, X, lo, hi, ch, st, pos)'
    BY <1>2, <1>7, ReadHeader
  <2>2. received' = received /\ rpc' \in {"ext", "payload"}
    BY <1>7 DEF read_message_header
  <2> QED BY <2>1, <2>2
<1>8. ASSUME read_extended_timestamp
      PROVE  /\ RecvTypes' /\ Track(g, X, lo, hi, ch, st, pos)' /\ received' = received
             /\ rpc' \notin {"closed", "refused", "error"}
  <2>1. RecvTypes' /\ Track(g, X, lo, hi, ch, st, pos)'
    BY <1>2, <1>8, ReadExt
  <2>2. received' = received /\ rpc' = "payload"
    BY <1>8 DEF read_extended_timestamp
  <2> QED BY <2>1, <2>2
<1>9. CASE read_message_payload
  <2>1. /\ RecvTypes' /\ Prefix(g)'
        /\ Running' => Track(g, X, lo + 1, hi, ch, st, pos)'
        /\ lo < hi /\ rpc' # "closed"
        /\ rpc' = "refused" => ~(st[lo + 1].size >= MinChunkSize)
    BY <1>2, <1>9, ReadPayload
  <2>2. lo \in Nat /\ hi \in Nat
    BY <1>2 DEF Track, InFlight
  <2>3. AtLeast(low, lo + 1, hi, st) /\ st[lo + 1].size >= low /\ st[lo + 1].size \in Nat
    <3>1. lo + 1 \in lo .. hi /\ \A i \in lo + 1 .. hi : i \in lo .. hi
      BY <2>1, <2>2
    <3>2. IsSnapshot(st[lo + 1], X)
      BY <1>2, <3>1 DEF Track, InFlight
    <3> QED BY <1>2, <3>1, <3>2 DEF AtLeast, IsSnapshot
  <2>4. rpc' = "refused" => ~(low >= MinChunkSize)
    BY <2>1, <2>3, ChunkSizesPos
  <2> QED BY <1>2, <2>1, <2>3, <2>4 DEF Following
<1> QED BY <1>3, <1>4, <1>5, <1>6, <1>7, <1>8, <1>9 DEF recv_message, Read

-----------------------------------------------------------------------------
(* What a sender has to show, and what its receiver then has.              *)

LEMMA Assoc ==
  ASSUME NEW S, NEW a \in Seq(S), NEW b \in Seq(S), NEW c \in Seq(S)
  PROVE  (a \o b) \o c = a \o (b \o c)
<1> DEFINE u == a \o b
           v == u \o c
           x == b \o c
           w == a \o x
<1>1. Joined(u, a, b, S) /\ Joined(x, b, c, S)
  BY ConcatAt
<1> HIDE DEF u, x
<1>2. u \in Seq(S) /\ x \in Seq(S)
  BY <1>1 DEF Joined
<1>3. Joined(v, u, c, S) /\ Joined(w, a, x, S)
  BY <1>2, ConcatAt
<1> HIDE DEF v, w
<1> USE DEF Joined
<1>4. Len(a) \in Nat /\ Len(b) \in Nat /\ Len(c) \in Nat
  OBVIOUS
<1>5. /\ v \in Seq(S) /\ w \in Seq(S)
      /\ Len(v) = Len(a) + Len(b) + Len(c) /\ Len(w) = Len(a) + Len(b) + Len(c)
      /\ Len(u) = Len(a) + Len(b) /\ Len(x) = Len(b) + Len(c)
  BY <1>1, <1>3, <1>4
<1>6. ASSUME NEW i \in 1 .. Len(v) PROVE v[i] = w[i]
  <2>0. i \in Int /\ 1 <= i /\ i <= Len(a) + Len(b) + Len(c)
    BY <1>4, <1>5
  <2>1. CASE i <= Len(a)
    BY <1>1, <1>3, <1>4, <1>5, <2>0, <2>1
  <2>2. CASE i > Len(a) /\ i <= Len(a) + Len(b)
    <3>0. i - Len(a) \in 1 .. Len(b)
      BY <1>4, <2>0, <2>2
    <3>1. PICK j \in 1 .. Len(b) : j = i - Len(a)
      BY <3>0
    <3>2. i = Len(a) + j /\ i \in 1 .. Len(u) /\ j \in 1 .. Len(x)
      BY <1>4, <1>5, <2>0, <2>2, <3>1
    <3>3. v[i] = u[i]
      BY <1>3, <3>2
    <3>4. u[Len(a) + j] = b[j] /\ w[Len(a) + j] = x[j] /\ x[j] = b[j]
      BY <1>1, <1>3, <3>1, <3>2
    <3> QED BY <3>2, <3>3, <3>4
  <2>3. CASE i > Len(a) + Len(b)
    <3>0. i - (Len(a) + Len(b)) \in 1 .. Len(c)
      BY <1>4, <2>0, <2>3
    <3>1. PICK j \in 1 .. Len(c) : j = i - (Len(a) + Len(b))
      BY <3>0
    <3>2. i = Len(u) + j /\ i = Len(a) + (Len(b) + j) /\ Len(b) + j \in 1 .. Len(x)
      BY <1>4, <1>5, <2>0, <3>1
    <3>3. v[Len(u) + j] = c[j] /\ x[Len(b) + j] = c[j]
      BY <1>1, <1>3
    <3>4. w[Len(a) + (Len(b) + j)] = x[Len(b) + j]
      BY <1>3, <3>2
    <3> QED BY <3>2, <3>3, <3>4
  <2> QED BY <1>4, <2>0, <2>1, <2>2, <2>3
<1>7. v = w
  BY <1>5, <1>6, SeqEqual
<1> QED BY <1>7 DEF v, w, u, x

LEMMA EmptyPart ==
  ASSUME NEW S, NEW a \in Seq(S)
  PROVE  a \o <<>> = a
OBVIOUS

(* Nothing is in flight at the start.                                      *)
LEMMA FollowingStarts ==
  ASSUME RecvInit, NEW X, NEW z, IsSnapshot(z, X), z.size = ChunkSize0, z.n = 0,
         \A x \in X : ~z.out[x].used, NEW low, z.size >= low
  PROVE  RecvTypes /\ Following(<<>>, X, z, low)
<1> DEFINE st == [i \in Nat |-> z]
           pos == [i \in Nat |-> 0]
           f == [i \in Nat |-> 0]
<1>1. RecvTypes
  BY ChunkSizesPos DEF RecvInit, RecvTypes
<1>2. buffer \o net = <<>> /\ rpc = "basic"
  BY DEF RecvInit
<1>3. \A i \in 0 .. 0 : st[i] = z /\ pos[i] = 0
  OBVIOUS
<1>4. InFlight(<<>>, <<>>, X, 0, 0, f, st, pos)
  <2> HIDE DEF st, pos, f
  <2>1. st[0] = z /\ pos[0] = 0
    BY <1>3
  <2> QED BY <1>3, <2>1 DEF InFlight
<1>5. Reader(z, f[0 + 1], X)
  <2>1. in_chunk_size = z.size /\ Len(received) = z.n /\ DOMAIN chunk_streams = {}
    BY DEF RecvInit
  <2>2. Knows(chunk_streams, z, X)
    BY <2>1 DEF Knows
  <2> QED BY <1>2, <2>1, <2>2 DEF Reader
<1>6. Track(<<>>, X, 0, 0, f, st, pos) /\ st[0] = z /\ AtLeast(low, 0, 0, st)
  BY <1>2, <1>3, <1>4, <1>5 DEF Track, AtLeast
<1> HIDE DEF st, pos, f
<1> QED BY <1>1, <1>6 DEF Following

(* The sender writes chunk d: the reader still follows it.                 *)
LEMMA SenderStep ==
  ASSUME RecvTypes, NEW g \in Seq(MessageSet), NEW X, NEW z, NEW low, Following(g, X, z, low),
         NEW d, IsChunk(d, z, X), AfterChunk(d, z).size >= low, net' = net \o ChunkTokens(d),
         UNCHANGED <<buffer, chunk_streams, in_chunk_size, cur, rpc, moved, received>>
  PROVE  Following(Completed(g, d), X, AfterChunk(d, z), low)'
<1>1. PICK lo, hi, ch, st, pos :
        Track(g, X, lo, hi, ch, st, pos) /\ st[hi] = z /\ AtLeast(low, lo, hi, st)
  BY DEF Following
<1> DEFINE w == buffer \o net
           k == ChunkTokens(d)
           h == Completed(g, d)
           t == AfterChunk(d, z)
<1>2. InFlight(w, g, X, lo, hi, ch, st, pos) /\ lo \in Nat /\ hi \in Nat /\ lo <= hi
  BY <1>1 DEF Track, InFlight
<1>3. PICK ch2, st2, pos2 :
        /\ InFlight(w \o k, h, X, lo, hi + 1, ch2, st2, pos2)
        /\ st2[hi + 1] = t
        /\ \A i \in lo .. hi : st2[i] = st[i]
        /\ lo < hi => ch2[lo + 1] = ch[lo + 1]
  <2>1. IsChunk(d, st[hi], X) /\ st[hi] = z
    BY <1>1
  <2> HIDE DEF w
  <2> QED BY <1>2, <2>1, Extend
<1>4. buffer' \o net' = w \o k
  <2>1. buffer \in Seq(TokenSet) /\ net \in Seq(TokenSet)
    BY DEF RecvTypes
  <2>2. IsSnapshot(z, X)
    <3>1. hi \in lo .. hi
      BY <1>2
    <3> QED BY <1>1, <1>2, <3>1 DEF InFlight
  <2>3. k \in Seq(TokenSet)
    BY <2>2, ChunkWritable, ChunkShape
  <2> HIDE DEF k
  <2>4. (buffer \o net) \o k = buffer \o (net \o k)
    BY <2>1, <2>3, Assoc
  <2> QED BY <2>4 DEF k
<1>5. Reader(st2[lo], ch2[lo + 1], X)'
  <2>1. Reader(st[lo], ch[lo + 1], X)'
    BY <1>1 DEF Track, Reader, InChunk
  <2>0. st2[lo] = st[lo]
    BY <1>2, <1>3
  <2>2. CASE lo < hi
    BY <1>3, <2>0, <2>1, <2>2
  <2>3. CASE ~(lo < hi)
    <3>1. rpc' = "basic"
      BY <1>1, <2>3 DEF Track
    <3> QED BY <2>0, <2>1, <3>1 DEF Reader
  <2> QED BY <2>2, <2>3
<1>6. lo < hi + 1
  BY <1>2
<1>7. AtLeast(low, lo, hi + 1, st2)
  <2> SUFFICES ASSUME NEW i \in lo .. hi + 1 PROVE st2[i].size >= low
    BY DEF AtLeast
  <2>1. i = hi + 1 \/ i \in lo .. hi
    BY <1>2
  <2> QED BY <1>1, <1>3, <2>1 DEF AtLeast
<1> HIDE DEF h, t
<1>8. Track(h, X, lo, hi + 1, ch2, st2, pos2)'
  BY <1>3, <1>4, <1>5, <1>6 DEF Track
<1> QED BY <1>3, <1>7, <1>8 DEF Following, h, t

LEMMA SnapshotNow ==
  ASSUME NEW g, NEW X, NEW z, NEW low, Following(g, X, z, low)
  PROVE  IsSnapshot(z, X)
<1>1. PICK lo, hi, ch, st, pos :
        InFlight(buffer \o net, g, X, lo, hi, ch, st, pos) /\ st[hi] = z
  BY DEF Following, Track
<1>2. hi \in lo .. hi
  BY <1>1 DEF InFlight
<1> QED BY <1>1, <1>2 DEF InFlight

(* With nothing in flight the two ends have the same chunk size.           *)
LEMMA SizesFollow ==
  ASSUME RecvTypes, NEW g, NEW X, NEW z, NEW low, Following(g, X, z, low),
         net = <<>>, buffer = <<>>
  PROVE  in_chunk_size = z.size
<1>1. PICK lo, hi, ch, st, pos : Track(g, X, lo, hi, ch, st, pos) /\ st[hi] = z
  BY DEF Following
<1>2. lo = hi
  BY <1>1, SomethingLeft
<1> QED BY <1>1, <1>2 DEF Track, Reader

(* Between two chunks a cached message has some of its payload.            *)
LEMMA CachedFollow ==
  ASSUME RecvTypes, NEW g, NEW X, NEW z, NEW low,
         rpc = "basic" => Following(g, X, z, low)
  PROVE  CachedMsgIsPartial
<1> SUFFICES ASSUME rpc = "basic", NEW x \in DOMAIN chunk_streams, chunk_streams[x].msg
             PROVE  chunk_streams[x].payload # <<>>
  BY DEF CachedMsgIsPartial, AtChunk
<1>1. PICK lo, hi, ch, st, pos : Track(g, X, lo, hi, ch, st, pos) /\ st[hi] = z
  BY DEF Following
<1> DEFINE o == st[lo].out[x]
<1>2. IsSnapshot(st[lo], X)
  <2>1. lo \in lo .. hi
    BY <1>1 DEF Track, InFlight
  <2> QED BY <1>1, <2>1 DEF Track, InFlight
<1>3. x \in X /\ Knows(chunk_streams, st[lo], X)
  BY <1>1 DEF Track, Reader
<1>4. Cached(chunk_streams[x], o)
  BY <1>3 DEF Knows
<1>5. GoodOut(o)
  BY <1>2, <1>3 DEF IsSnapshot
<1> HIDE DEF o
<1>6. chunk_streams[x].payload = Blocks(o.m, 0, o.off) /\ o.off > 0
  BY <1>4 DEF Cached
<1>7. o.m \in MSet /\ o.off \in Nat
  BY <1>5 DEF GoodOut, OutSet
<1>8. PICK m \in MSet, i \in Nat : m = o.m /\ i = o.off
  BY <1>7
<1>9. Len(Blocks(m, 0, i)) = i - 0
  <2>1. 0 \in Nat /\ 0 <= i
    OBVIOUS
  <2> QED BY <2>1, BlocksType
<1> QED BY <1>6, <1>8, <1>9

LEMMA PrefixIsSubSeq ==
  ASSUME NEW S, NEW a \in Seq(S), NEW b \in Seq(S), Len(a) <= Len(b),
         \A n \in 1 .. Len(a) : a[n] = b[n]
  PROVE  a = SubSeq(b, 1, Len(a))
<1> DEFINE c == SubSeq(b, 1, Len(a))
<1>1. Len(a) \in Nat /\ Len(b) \in Nat
  OBVIOUS
<1>2. c \in Seq(S) /\ Len(c) = Len(a) /\ \A n \in 1 .. Len(a) : c[n] = b[n]
  BY <1>1
<1> HIDE DEF c
<1>3. a = c
  BY <1>2, SeqEqual
<1> QED BY <1>3 DEF c

LEMMA PrefixGrows ==
  ASSUME RecvTypes, NEW g \in Seq(MessageSet), Prefix(g), NEW d, Writable(d),
         UNCHANGED received
  PROVE  Prefix(Completed(g, d))'
<1> DEFINE h == Completed(g, d)
<1>1. Len(g) <= Len(h) /\ Len(h) \in Nat /\ \A n \in 1 .. Len(g) : h[n] = g[n]
  BY CompletedLog
<1>2. Len(g) \in Nat /\ Len(received) \in Nat
  BY DEF RecvTypes
<1> HIDE DEF h
<1>3. Prefix(h)'
  BY <1>1, <1>2 DEF Prefix
<1> QED BY <1>3 DEF h

(* Nothing moves: the reader still follows.                                *)
LEMMA StutterStep ==
  ASSUME UNCHANGED <<net, buffer, chunk_streams, in_chunk_size, cur, rpc, moved, received>>,
         NEW g, NEW X, NEW z, NEW low, Following(g, X, z, low)
  PROVE  Following(g, X, z, low)'
<1>1. PICK lo, hi, ch, st, pos :
        Track(g, X, lo, hi, ch, st, pos) /\ st[hi] = z /\ AtLeast(low, lo, hi, st)
  BY DEF Following
<1>2. Reader(st[lo], ch[lo + 1], X)'
  BY <1>1 DEF Track, Reader, InChunk
<1>3. Track(g, X, lo, hi, ch, st, pos)'
  BY <1>1, <1>2 DEF Track
<1> QED BY <1>1, <1>3 DEF Following
=============================================================================
