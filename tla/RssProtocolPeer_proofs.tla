----------------------- MODULE RssProtocolPeer_proofs -----------------------
(***************************************************************************)
(* recv_message returns what the client sent, for any number of messages,  *)
(* any timestamps, lengths and chunk sizes and every chunk stream id that  *)
(* the code can read, as long as no read moves the buffer under a pointer  *)
(* the reader keeps.  The client is shown to write the chunks that the     *)
(* reader of RssProtocol_proofs follows.                                   *)
(***************************************************************************)
EXTENDS RssProtocolPeer, RssProtocol_proofs

(* The connections the theorems are about: reads are not retried after a   *)
(* timeout (the play loop does retry), the client sends no delta of        *)
(* 2^24 - 1 or more, and no chunk stream id has a byte above 127, which    *)
(* char makes negative.  Outside of them the code returns other messages   *)
(* than the client sent.                                                   *)
Supported ==
  /\ ~Pulse /\ ~BigDeltas
  /\ \A x \in Cids : PlainId(x)

Snapshot == [out |-> out, size |-> out_size, n |-> Len(sent)]

SenderOK ==
  /\ out \in [Streams -> OutSet]
  /\ \A x \in Streams : GoodOut(out[x])
  /\ out_size \in Nat
  /\ nsent \in Nat
  /\ sent \in Seq(MessageSet)

(* The reader has returned the first of the messages completed, and, while *)
(* it runs, follows the client through the chunks in flight.               *)
IInv ==
  /\ SenderOK
  /\ RecvTypes
  /\ Prefix(sent)
  /\ Running => Following(sent, Streams, Snapshot, 0)

LEMMA StreamsPlain ==
  ASSUME Supported, NEW x \in Streams
  PROVE  PlainId(x)
BY DEF Supported, Streams, CidControl, PlainId

LEMMA InitIInv ==
  ASSUME Supported, Init
  PROVE  IInv
<1>1. GoodOut(Unused) /\ Unused \in OutSet /\ Unused.used = FALSE
  <2>1. Unused.m \in MSet
    BY DEF Unused, MSet, TypeNames
  <2>2. Unused \in OutSet /\ Unused.used = FALSE /\ Unused.off = 0 /\ Unused.m.len = 0
        /\ Unused.delta = 0 /\ Unused.ext = FALSE
    BY <2>1, WidthsNat DEF Unused, OutSet
  <2> QED BY <2>2, WidthsNat DEF GoodOut, RTMP_EXTENDED_TIMESTAMP
<1>2. SenderOK /\ \A x \in Streams : ~out[x].used
  BY <1>1, ChunkSizesPos DEF Init, SenderOK
<1>3. IsSnapshot(Snapshot, Streams) /\ Snapshot.size = ChunkSize0 /\ Snapshot.n = 0
      /\ Snapshot.out = out
  BY <1>2 DEF Init, SenderOK, Snapshot, IsSnapshot
<1>4. RecvTypes /\ Following(<<>>, Streams, Snapshot, 0)
  <2>1. PICK z : z = Snapshot
    OBVIOUS
  <2>2. RecvTypes /\ Following(<<>>, Streams, z, 0)
    <3>1. z.size >= 0
      BY <1>3, <2>1, ChunkSizesPos
    <3> QED BY <1>2, <1>3, <2>1, <3>1, FollowingStarts DEF Init
  <2> QED BY <2>1, <2>2
<1>5. Prefix(sent)
  BY DEF Init, RecvInit, Prefix
<1> QED BY <1>2, <1>4, <1>5 DEF IInv, Init

(* The client writes chunk d.                                              *)
LEMMA WriteStep ==
  ASSUME Supported, IInv, NEW x \in Streams, NEW header, NEW o, NEW fmt \in 0 .. 3,
         NEW d, d = [x |-> x, fmt |-> fmt, o |-> o, size |-> out_size],
         GoodOut(o), o.used, Starts(d, out[x]) \/ GoesOn(d, out[x]),
         o.m.type = "set_chunk_size" => o.m.len > 0,
         header = ChunkHeader(d), Write(x, header, o), nsent' \in Nat
  PROVE  IInv'
<1>1. d.x = x /\ d.fmt = fmt /\ d.o = o /\ d.size = out_size
  OBVIOUS
<1>2. PICK g, z : g = sent /\ z = Snapshot
  OBVIOUS
<1>3. /\ SenderOK /\ RecvTypes /\ Prefix(g) /\ g \in Seq(MessageSet)
      /\ Running => Following(g, Streams, z, 0)
  BY <1>2 DEF IInv, SenderOK
<1>4. IsSnapshot(z, Streams) /\ z.out = out /\ z.size = out_size /\ z.n = Len(g)
  BY <1>2, <1>3 DEF Snapshot, IsSnapshot, SenderOK
<1>5. IsChunk(d, z, Streams)
  BY <1>1, <1>4, StreamsPlain DEF IsChunk
<1>6. Writable(d)
  BY <1>4, <1>5, ChunkWritable
<1>7. /\ net' = net \o header \o Blocks(o.m, o.off, End(d))
      /\ out' = [out EXCEPT ![x] = [o EXCEPT !.off = End(d)]]
      /\ sent' = Completed(g, d)
      /\ out_size' = (IF Delivers(d) /\ o.m.type = "set_chunk_size" THEN o.m.v ELSE out_size)
      /\ UNCHANGED <<buffer, chunk_streams, in_chunk_size, cur, rpc, moved, received>>
  <2> DEFINE end == Min2(o.m.len, o.off + out_size)
             whole == end = o.m.len
  <2>1. end = End(d) /\ (whole <=> Whole(d)) /\ (Delivers(d) <=> whole /\ o.m.len > 0)
    BY <1>1 DEF Min2, End, Whole, Delivers
  <2>2. whole => Blocks(o.m, 0, end) = Blocks(o.m, 0, o.m.len)
    OBVIOUS
  <2>3. /\ net' = net \o header \o Blocks(o.m, o.off, end)
        /\ out' = [out EXCEPT ![x] = [o EXCEPT !.off = end]]
        /\ sent' = (IF whole /\ o.m.len > 0
                      THEN Append(sent, [cid |-> x, ts |-> o.ts, type |-> o.m.type,
                                         payload |-> Blocks(o.m, 0, end)])
                      ELSE sent)
        /\ out_size' = (IF whole /\ o.m.type = "set_chunk_size" THEN o.m.v ELSE out_size)
        /\ UNCHANGED <<buffer, chunk_streams, in_chunk_size, cur, rpc, moved, received>>
    BY DEF Write
  <2> HIDE DEF end
  <2>4. sent' = Completed(g, d)
    BY <1>1, <1>2, <2>1, <2>2, <2>3 DEF Completed, MessageOf
  <2>5. out_size' = (IF Delivers(d) /\ o.m.type = "set_chunk_size" THEN o.m.v ELSE out_size)
    BY <2>1, <2>3
  <2> QED BY <2>1, <2>3, <2>4, <2>5
<1>8. net' = net \o ChunkTokens(d)
  <2> DEFINE e == Blocks(o.m, o.off, End(d))
  <2>1. header \in Seq(TokenSet) /\ e \in Seq(TokenSet) /\ net \in Seq(TokenSet)
    <3>1. header \in Seq(TokenSet)
      BY <1>6, HeaderSeq
    <3>2. o.m \in MSet /\ o.off \in Nat /\ End(d) \in Nat /\ o.off <= End(d)
      BY <1>1, <1>6, EndBounds
    <3>3. e \in Seq(TokenSet)
      BY <3>2, BlocksType
    <3> QED BY <1>3, <3>1, <3>3 DEF RecvTypes
  <2>2. ChunkTokens(d) = header \o e
    BY <1>1 DEF ChunkTokens
  <2> HIDE DEF e
  <2>3. (net \o header) \o e = net \o (header \o e)
    BY <2>1, Assoc
  <2> QED BY <1>7, <2>2, <2>3 DEF e
<1>9. Snapshot' = AfterChunk(d, z)
  <2>1. Len(Completed(g, d)) = (IF Delivers(d) THEN z.n + 1 ELSE z.n)
    BY <1>3, <1>4, <1>6, CompletedLog
  <2> QED BY <1>1, <1>4, <1>7, <2>1 DEF Snapshot, AfterChunk
<1>10. SenderOK'
  <2>1. IsSnapshot(AfterChunk(d, z), Streams)
    BY <1>4, <1>5, AfterSnapshot
  <2>2. out' = AfterChunk(d, z).out /\ out_size' = AfterChunk(d, z).size
    BY <1>9 DEF Snapshot
  <2>3. sent' \in Seq(MessageSet)
    BY <1>3, <1>6, <1>7, CompletedLog
  <2> QED BY <2>1, <2>2, <2>3 DEF SenderOK, IsSnapshot
<1>11. RecvTypes'
  <2>1. net' \in Seq(TokenSet)
    <3>1. ChunkTokens(d) \in Seq(TokenSet) /\ net \in Seq(TokenSet)
      BY <1>3, <1>6, ChunkShape DEF RecvTypes
    <3> QED BY <1>8, <3>1
  <2> QED BY <1>3, <1>7, <2>1 DEF RecvTypes
<1>12. Prefix(sent)'
  <2>1. Prefix(Completed(g, d))'
    BY <1>3, <1>6, <1>7, PrefixGrows
  <2> QED BY <1>7, <2>1 DEF Prefix
<1>13. ASSUME Running' PROVE Following(sent, Streams, Snapshot, 0)'
  <2>1. Running
    BY <1>7, <1>13 DEF Running
  <2>2. Following(Completed(g, d), Streams, AfterChunk(d, z), 0)'
    <3>1. AfterChunk(d, z).size >= 0
      <4>1. IsSnapshot(AfterChunk(d, z), Streams)
        BY <1>4, <1>5, AfterSnapshot
      <4> QED BY <4>1 DEF IsSnapshot
    <3> QED BY <1>3, <1>5, <1>7, <1>8, <2>1, <3>1, SenderStep
  <2> QED BY <1>7, <1>9, <2>2 DEF Following, Track
<1> QED BY <1>10, <1>11, <1>12, <1>13 DEF IInv

(* The first chunk of a message.                                           *)
LEMMA StartStep ==
  ASSUME Supported, IInv, NEW x \in Streams, NEW m \in MSet, NEW ts \in 0 .. W32 - 1,
         NEW fmt \in 0 .. 3, m.type = "set_chunk_size" => m.len > 0, Start(x, m, ts, fmt)
  PROVE  IInv'
<1> DEFINE o == out[x]
           delta == IF fmt = 0 THEN ts ELSE ts - o.ts
           ext == delta >= RTMP_EXTENDED_TIMESTAMP
           n == [used |-> TRUE, ts |-> ts, delta |-> delta, ext |-> ext, m |-> m, off |-> 0]
           d == [x |-> x, fmt |-> fmt, o |-> n, size |-> out_size]
           header == FirstHeader(x, fmt, delta, m)
<1>1. SenderOK /\ GoodOut(o) /\ nsent \in Nat
  BY DEF IInv, SenderOK
<1>2. /\ o.used \in BOOLEAN /\ o.ts \in Int /\ o.delta \in Nat /\ o.ext \in BOOLEAN
      /\ o.off \in Nat /\ o.m.len \in Nat /\ o.off <= o.m.len
      /\ (o.ext <=> o.delta >= RTMP_EXTENDED_TIMESTAMP)
  <2>1. o \in OutSet
    BY <1>1 DEF GoodOut
  <2>2. o.m \in MSet
    BY <2>1 DEF OutSet
  <2> HIDE DEF o
  <2>3. o.m.len \in Nat
    BY <2>2 DEF MSet
  <2> QED BY <1>1, <2>1, <2>3, WidthsNat DEF GoodOut, OutSet
<1>3. /\ ~Partial(x)
      /\ fmt \in Formats(x, m, ts)
      /\ fmt \in {0, 3} \/ delta < RTMP_EXTENDED_TIMESTAMP
      /\ nsent' = nsent + 1
      /\ Write(x, header, n)
  BY DEF Start, Supported
<1>4. o.off = o.m.len
  BY <1>2, <1>3 DEF Partial
<1>5. /\ fmt > 0 => o.used /\ ts - o.ts >= 0
      /\ fmt >= 2 => m.len = o.m.len /\ m.type = o.m.type
      /\ fmt = 3 => ts - o.ts = o.delta /\ ~o.ext
  <2> HIDE DEF o
  <2>1. \/ fmt = 0
        \/ fmt = 1 /\ o.used /\ ts - o.ts >= 0
        \/ fmt = 2 /\ o.used /\ ts - o.ts >= 0 /\ m.len = o.m.len /\ m.type = o.m.type
        \/ /\ fmt = 3 /\ o.used /\ ts - o.ts = o.delta /\ m.len = o.m.len /\ m.type = o.m.type
           /\ ~o.ext
    BY <1>3 DEF Formats, o
  <2> QED BY <1>2, <2>1
<1>6. RTMP_EXTENDED_TIMESTAMP \in Nat /\ RTMP_EXTENDED_TIMESTAMP > 0
  BY WidthsNat DEF RTMP_EXTENDED_TIMESTAMP
<1>7. delta \in Nat /\ (fmt > 0 => ~ext) /\ (fmt = 0 => delta = ts)
      /\ (fmt > 0 => ts = o.ts + delta) /\ (fmt = 3 => delta = o.delta)
  <2> HIDE DEF o
  <2>1. ts \in Int /\ ts >= 0
    BY WidthsNat
  <2>2. CASE fmt = 0
    BY <2>1, <2>2
  <2>3. CASE fmt > 0
    <3>1. delta = ts - o.ts
      BY <2>3
    <3> HIDE DEF delta
    <3> QED BY <1>2, <1>3, <1>5, <1>6, <2>1, <2>3, <3>1
  <2> QED BY <2>2, <2>3
<1> HIDE DEF o, delta
<1>8. ext \in BOOLEAN
  OBVIOUS
<1> HIDE DEF ext
<1>9. /\ n.used = TRUE /\ n.ts = ts /\ n.delta = delta /\ n.ext = ext /\ n.m = m /\ n.off = 0
      /\ n \in OutSet
  BY <1>7, <1>8 DEF OutSet
<1>10. GoodOut(n)
  <2>1. m.len \in Nat
    BY DEF MSet
  <2> HIDE DEF n
  <2>2. n.ext <=> n.delta >= RTMP_EXTENDED_TIMESTAMP
    BY <1>9 DEF ext
  <2>3. n.ext => n.delta = n.ts
    BY <1>7, <1>9
  <2> QED BY <1>7, <1>9, <2>1, <2>2, <2>3 DEF GoodOut
<1> HIDE DEF n
<1>11. d.x = x /\ d.fmt = fmt /\ d.o = n /\ d.size = out_size
  OBVIOUS
<1>12. Starts(d, out[x])
  <2> HIDE DEF d
  <2>1. Starts(d, o)
    BY <1>4, <1>5, <1>7, <1>9, <1>11 DEF Starts
  <2> QED BY <2>1 DEF o
<1>13. header = ChunkHeader(d)
  <2> HIDE DEF d
  <2>1. Field(n) = (IF ext THEN RTMP_EXTENDED_TIMESTAMP ELSE delta)
    BY <1>9 DEF Field
  <2>2. (fmt < 3 /\ ext) <=> ext
    BY <1>7
  <2>3. Optional(d.fmt < 3, MsgHeader(d.fmt, Field(d.o), d.o.m.len, d.o.m.type))
          = IF fmt < 3 THEN <<MsgHeader(fmt, IF ext THEN RTMP_EXTENDED_TIMESTAMP ELSE delta,
                                        m.len, m.type)>> ELSE <<>>
    BY <1>9, <1>11, <2>1 DEF Optional
  <2>4. Optional(d.o.ext, ExtTimestamp(d.o.delta))
          = IF fmt < 3 /\ ext THEN <<ExtTimestamp(delta)>> ELSE <<>>
    BY <1>9, <1>11, <2>2 DEF Optional
  <2> QED BY <1>11, <2>3, <2>4 DEF ChunkHeader, FirstHeader, ext
<1> HIDE DEF d, header
<1>14. nsent' \in Nat
  BY <1>1, <1>3
<1>15. n.used /\ (n.m.type = "set_chunk_size" => n.m.len > 0)
  BY <1>9
<1>16. d = [x |-> x, fmt |-> fmt, o |-> n, size |-> out_size]
  BY DEF d
<1> QED BY <1>3, <1>10, <1>12, <1>13, <1>14, <1>15, <1>16, WriteStep

(* The rest of it.                                                         *)
LEMMA ContinueStep ==
  ASSUME Supported, IInv, NEW x \in Streams, Continue(x)
  PROVE  IInv'
<1> DEFINE o == out[x]
           e == IF o.ext THEN <<ExtTimestamp(o.delta)>> ELSE <<>>
           d == [x |-> x, fmt |-> 3, o |-> o, size |-> out_size]
           header == BasicHeader(3, x) \o e
<1>1. SenderOK /\ GoodOut(o) /\ nsent \in Nat /\ out_size \in Nat
  BY DEF IInv, SenderOK
<1>2. Partial(x) /\ Write(x, header, o) /\ nsent' = nsent
  BY DEF Continue
<1>3. o.off < o.m.len /\ o.off \in Nat /\ o.m.len \in Nat
  <2>1. o.off < o.m.len
    BY <1>2 DEF Partial
  <2>2. o.off \in Nat /\ o.m \in MSet
    BY <1>1 DEF GoodOut, OutSet
  <2> HIDE DEF o
  <2> QED BY <2>1, <2>2 DEF MSet
<1>4. o.used /\ o.m.len > 0
  BY <1>1, <1>3 DEF GoodOut
<1> HIDE DEF o, e
<1>5. d.x = x /\ d.fmt = 3 /\ d.o = o /\ d.size = out_size
  OBVIOUS
<1>6. GoesOn(d, out[x])
  <2> HIDE DEF d
  <2> QED BY <1>3, <1>5 DEF GoesOn, o
<1>7. header = ChunkHeader(d)
  <2> HIDE DEF d
  <2>1. PlainId(x)
    BY StreamsPlain
  <2>2. BasicHeader(3, x) \in Seq(TokenSet)
    <3>1. Says(BasicHeader(3, x), 3, x)
      BY <2>1, IdBytes
    <3> QED BY <3>1 DEF Says
  <2>3. Optional(d.fmt < 3, MsgHeader(d.fmt, Field(d.o), d.o.m.len, d.o.m.type)) = <<>>
    BY <1>5 DEF Optional
  <2>4. Optional(d.o.ext, ExtTimestamp(d.o.delta)) = e
    BY <1>5 DEF Optional, e
  <2>5. BasicHeader(3, x) \o <<>> = BasicHeader(3, x)
    BY <2>2, EmptyPart
  <2>6. ChunkHeader(d) = (BasicHeader(3, x) \o <<>>) \o e
    BY <1>5, <2>3, <2>4 DEF ChunkHeader
  <2> QED BY <2>5, <2>6
<1> HIDE DEF header
<1>8. GoodOut(o) /\ nsent' \in Nat /\ 3 \in 0 .. 3
  BY <1>1, <1>2
<1> HIDE DEF d
<1>9. d = [x |-> x, fmt |-> 3, o |-> o, size |-> out_size]
  BY DEF d
<1> QED BY <1>2, <1>4, <1>6, <1>7, <1>8, <1>9, WriteStep

LEMMA PeerRecvStep ==
  ASSUME Supported, IInv, ~moved', Recv
  PROVE  IInv'
<1>1. PICK g, z : g = sent /\ z = Snapshot
  OBVIOUS
<1>2. /\ SenderOK /\ RecvTypes /\ Prefix(g) /\ g \in Seq(MessageSet)
      /\ Running => Following(g, Streams, z, 0)
  BY <1>1 DEF IInv, SenderOK
<1>3. recv_message /\ UNCHANGED <<out, out_size, nsent, sent>>
  BY DEF Recv, peerVars
<1>4. RecvTypes' /\ Prefix(g)' /\ (Running' => Following(g, Streams, z, 0)')
  BY <1>2, <1>3, RecvStep DEF Supported
<1>5. SenderOK' /\ sent' = g /\ Snapshot' = z
  BY <1>1, <1>2, <1>3 DEF SenderOK, Snapshot
<1>6. Prefix(sent)'
  BY <1>4, <1>5 DEF Prefix
<1>7. Running' => Following(sent, Streams, Snapshot, 0)'
  BY <1>4, <1>5 DEF Following, Track
<1> QED BY <1>4, <1>5, <1>6, <1>7 DEF IInv

LEMMA NextIInv ==
  ASSUME Supported, IInv, ~moved', [Next]_vars
  PROVE  IInv'
<1>0. nsent \in Nat
  BY DEF IInv, SenderOK
<1>1. CASE SendMedia
  <2>1. PICK x \in Cids, len \in Lens, ts \in Times, fmt \in 0 .. 3 :
          Start(x, [id |-> nsent + 1, len |-> len, type |-> "media", v |-> 0], ts, fmt)
    BY <1>1 DEF SendMedia
  <2>2. PICK m : m = [id |-> nsent + 1, len |-> len, type |-> "media", v |-> 0]
    OBVIOUS
  <2>3. m \in MSet /\ m.type # "set_chunk_size"
    BY <1>0, <2>2, PeerConstants DEF MSet, TypeNames
  <2>4. x \in Streams /\ ts \in 0 .. W32 - 1
    BY PeerConstants DEF Streams
  <2> QED BY <2>1, <2>2, <2>3, <2>4, StartStep
<1>2. CASE SendChunkSize
  <2>1. PICK n \in ChunkSizes :
          Start(CidControl, [id |-> nsent + 1, len |-> 1, type |-> "set_chunk_size",
                             v |-> n], 0, 0)
    BY <1>2 DEF SendChunkSize
  <2>2. PICK m : m = [id |-> nsent + 1, len |-> 1, type |-> "set_chunk_size", v |-> n]
    OBVIOUS
  <2>3. m \in MSet /\ m.len > 0
    BY <1>0, <2>2, PeerConstants DEF MSet, TypeNames
  <2>4. CidControl \in Streams /\ 0 \in 0 .. W32 - 1 /\ 0 \in 0 .. 3
    BY WidthsNat DEF Streams
  <2> QED BY <2>1, <2>2, <2>3, <2>4, StartStep
<1>3. ASSUME NEW x \in Streams, Continue(x) PROVE IInv'
  BY <1>3, ContinueStep
<1>4. CASE Recv
  BY <1>4, PeerRecvStep
<1>5. CASE UNCHANGED vars
  <2>1. UNCHANGED <<net, buffer, chunk_streams, in_chunk_size, cur, rpc, moved, received,
                    out, out_size, nsent, sent>>
    BY <1>5 DEF vars, recvVars, peerVars
  <2>2. SenderOK' /\ RecvTypes' /\ Prefix(sent)' /\ (Running' <=> Running) /\ Snapshot' = Snapshot
    BY <2>1 DEF IInv, SenderOK, RecvTypes, Prefix, Running, Snapshot
  <2>3. ASSUME Following(sent, Streams, Snapshot, 0)
        PROVE  Following(sent, Streams, Snapshot, 0)'
    <3>1. PICK g, z : g = sent /\ g = sent' /\ z = Snapshot /\ z = Snapshot'
      BY <2>1, <2>2
    <3>2. Following(g, Streams, z, 0)'
      BY <2>1, <2>3, <3>1, StutterStep
    <3> QED BY <3>1, <3>2 DEF Following, Track
  <2> QED BY <2>2, <2>3 DEF IInv
<1> QED BY <1>1, <1>2, <1>3, <1>4, <1>5 DEF Next

LEMMA Inductive == Supported => (Spec /\ []~moved => []IInv)
<1> SUFFICES ASSUME Supported PROVE Spec /\ []~moved => []IInv
  OBVIOUS
<1>1. Init => IInv
  BY InitIInv
<1>2. IInv /\ (~moved)' /\ [Next]_vars => IInv'
  BY NextIInv
<1> QED BY <1>1, <1>2, PTL DEF Spec

-----------------------------------------------------------------------------
(* RssProtocol::in_chunk_size never falls below the minimum, recv_message  *)
(* is always in one of its reads, and a timestamp fits its four bytes, on  *)
(* the connections of Supported and while no read moves the buffer.        *)
THEOREM TypeCorrect == Supported => (Spec /\ []~moved => []TypeOK)
<1>1. IInv => TypeOK
  BY DEF IInv, RecvTypes, ChunkSet, TypeOK
<1> QED BY <1>1, Inductive, PTL

(* recv_message returns the messages of the client, each once, complete,   *)
(* with its timestamp and payload, in the order in which they were         *)
(* completed, and meets no chunk that read_message_header refuses: on the  *)
(* connections of Supported, and in behaviours in which no read moves the  *)
(* buffer under the pointer that read_basic_header and read_message_header *)
(* keep.  Between any two tokens, and only there, a read may stop.         *)
THEOREM MessagesAsSent == Supported => (Spec /\ []~moved => []ReceivedAsSent)
<1>1. IInv => ReceivedAsSent
  <2> SUFFICES ASSUME IInv PROVE ReceivedAsSent
    OBVIOUS
  <2>1. received \in Seq(MessageSet) /\ sent \in Seq(MessageSet) /\ rpc # "error"
    BY DEF IInv, RecvTypes, SenderOK
  <2>2. Len(received) <= Len(sent) /\ \A n \in 1 .. Len(received) : received[n] = sent[n]
    BY DEF IInv, Prefix
  <2>3. received = SubSeq(sent, 1, Len(received))
    BY <2>1, <2>2, PrefixIsSubSeq
  <2> QED BY <2>1, <2>2, <2>3 DEF ReceivedAsSent
<1> QED BY <1>1, Inductive, PTL

(* read_message_payload cuts the chunks with the size the client cut them  *)
(* with: the two agree whenever nothing is in flight, under the same       *)
(* conditions as MessagesAsSent.                                           *)
THEOREM SizesAgree == Supported => (Spec /\ []~moved => []ChunkSizesAgree)
<1>1. IInv => ChunkSizesAgree
  <2> SUFFICES ASSUME IInv, Running, net = <<>>, buffer = <<>> PROVE in_chunk_size = out_size
    BY DEF ChunkSizesAgree
  <2>1. PICK g, z : g = sent /\ z = Snapshot
    OBVIOUS
  <2>2. RecvTypes /\ Following(g, Streams, z, 0)
    BY <2>1 DEF IInv
  <2>3. in_chunk_size = z.size
    BY <2>2, SizesFollow
  <2> QED BY <2>1, <2>3 DEF Snapshot
<1> QED BY <1>1, Inductive, PTL

(* Between two chunks a message in RssChunkStream::msg has been given some *)
(* of its payload, under the same conditions; without ~Pulse this fails.   *)
THEOREM CachedIsPartial == Supported => (Spec /\ []~moved => []CachedMsgIsPartial)
<1>1. IInv => CachedMsgIsPartial
  <2> SUFFICES ASSUME IInv PROVE CachedMsgIsPartial
    OBVIOUS
  <2>1. PICK g, z : g = sent /\ z = Snapshot
    OBVIOUS
  <2>2. RecvTypes /\ (rpc = "basic" => Following(g, Streams, z, 0))
    BY <2>1 DEF IInv, Running
  <2> QED BY <2>2, CachedFollow
<1> QED BY <1>1, Inductive, PTL
=============================================================================
