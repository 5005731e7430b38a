---------------------------- MODULE RssProtocol ----------------------------
(***************************************************************************)
(* The receiving half of RssProtocol (rss_core_protocol.cpp): recv_message *)
(* over the chunk streams of one connection, with the RssBuffer it reads   *)
(* through.                                                                *)
(*                                                                         *)
(* The wire is a sequence of tokens.  A token is a field group that the    *)
(* code asks the buffer for as a whole: a byte of the basic header, the    *)
(* message header, the extended timestamp, or one block of payload.  A     *)
(* read may stop between any two tokens, the reader may be switched out    *)
(* there, and a read may time out there.  Field widths are kept, scaled:   *)
(* a timestamp field of 3 bytes counts up to W24 and one of 4 bytes up to  *)
(* W32.                                                                    *)
(***************************************************************************)
EXTENDS Integers, Sequences

CONSTANTS
  W24, W32,     \* 2^24 and 2^32, scaled
  ChunkSize0,   \* RTMP_DEFAULT_CHUNK_SIZE, in blocks
  MinChunkSize, \* RTMP_MIN_CHUNK_SIZE, in blocks
  Pulse,        \* TRUE for the play loop, which calls again after a timeout
  BufferMoves   \* TRUE when the buffer may be moved in memory as it grows

ASSUME WidthsNat == W24 \in Nat \ {0, 1} /\ W32 \in Nat /\ W24 < W32
ASSUME ChunkSizesPos ==
  MinChunkSize \in Nat \ {0} /\ ChunkSize0 \in Nat /\ ChunkSize0 >= MinChunkSize
ASSUME ModesBool == Pulse \in BOOLEAN /\ BufferMoves \in BOOLEAN

VARIABLES
  net,            \* tokens the peer has written, on their way or unread
  buffer,         \* RssBuffer::data
  chunk_streams,  \* RssProtocol::chunk_streams
  in_chunk_size,  \* RssProtocol::in_chunk_size
  cur,            \* the locals of recv_interlaced_message: fmt, cid, header size
  rpc,            \* the read the receiver is in
  moved,          \* the pointer into the buffer it holds may be dangling
  received        \* history: the messages recv_message returned

recvVars == <<net, buffer, chunk_streams, in_chunk_size, cur, rpc, moved,
              received>>

RTMP_EXTENDED_TIMESTAMP == W24 - 1

-----------------------------------------------------------------------------
(* The wire.                                                               *)

(* Every token has every field: what a token does not carry reads as zero, *)
(* which is what a receiver that has lost its place in the stream sees.    *)
Token == [t |-> "none", b |-> 0, ts |-> 0, len |-> 0, type |-> "none",
          id |-> 0, i |-> 0, v |-> 0]

Byte(b) == [Token EXCEPT !.t = "byte", !.b = b]
ExtTimestamp(ts) == [Token EXCEPT !.t = "ext", !.ts = ts]

\* A message header with the fields that a chunk of format fmt carries.
MsgHeader(fmt, ts, len, type) ==
  IF fmt <= 1 THEN [Token EXCEPT !.t = "header", !.ts = ts, !.len = len, !.type = type]
              ELSE [Token EXCEPT !.t = "header", !.ts = ts]

(* Blocks i + 1 .. j of the payload of message m; v is what the message    *)
(* says, the new size for a set_chunk_size message.                        *)
Blocks(m, i, j) ==
  [n \in 1 .. j - i |-> [Token EXCEPT !.t = "block", !.id = m.id, !.i = i + n,
                                      !.v = m.v]]

(* The bytes of a basic header, as the RTMP specification encodes them.    *)
BasicHeader(fmt, cid) ==
  CASE cid < 64 -> <<Byte(64 * fmt + cid)>>
    [] cid \in 64 .. 319 -> <<Byte(64 * fmt), Byte(cid - 64)>>
    [] OTHER -> <<Byte(64 * fmt + 1), Byte((cid - 64) % 256),
                  Byte((cid - 64) \div 256)>>

\* A byte read through the char pointer of the code.
Char(b) == IF b < 128 THEN b ELSE b - 256

-----------------------------------------------------------------------------
(* RssChunkStream: the cached header, and msg with what was read of it.    *)

FreshChunk ==
  [count |-> 0, msg |-> FALSE, payload |-> <<>>, ext |-> FALSE,
   ts |-> 0, delta |-> 0, len |-> 0, type |-> "none"]

\* The chunk stream of the chunk being read, created on first use.
chunk == IF cur.cid \in DOMAIN chunk_streams THEN chunk_streams[cur.cid]
                                             ELSE FreshChunk

\* chunk_streams with the chunk stream cid replaced.
With(cid, c) == [x \in DOMAIN chunk_streams \cup {cid} |->
                   IF x = cid THEN c ELSE chunk_streams[x]]

NoCur == [fmt |-> 0, cid |-> 0, size |-> 0]

RecvInit ==
  /\ net = <<>>
  /\ buffer = <<>>
  /\ chunk_streams = [x \in {} |-> FreshChunk]
  /\ in_chunk_size = ChunkSize0
  /\ cur = NoCur
  /\ rpc = "basic"
  /\ moved = FALSE
  /\ received = <<>>

-----------------------------------------------------------------------------
\* The payload blocks that the chunk must carry.
payload_size ==
  LET rest == chunk.len - Len(chunk.payload)
  IN IF rest < in_chunk_size THEN rest ELSE in_chunk_size

\* One byte beyond the chunk asked for with its payload.
required_size_past ==
  CASE rpc = "basic"   -> 1
    [] rpc = "basic2"  -> 2
    [] rpc = "basic3"  -> 3
    [] rpc = "payload" -> cur.size + payload_size + 1
    [] OTHER -> cur.size + 1

\* required_size of the ensure_buffer_bytes call the receiver is in.
required_size ==
  CASE rpc = "basic"   -> 1
    [] rpc = "basic2"  -> 2
    [] rpc = "basic3"  -> 3
    [] rpc = "header"  -> cur.size + 1
    [] rpc = "ext"     -> cur.size + 1
    [] rpc = "payload" -> cur.size + payload_size
    [] OTHER -> 0

Running == rpc \notin {"closed", "refused", "error"}
Ensured == Running /\ Len(buffer) >= required_size
Starved == Running /\ Len(buffer) < required_size

(* One st_read of ensure_buffer_bytes returns n tokens.  Appending them    *)
(* may move the buffer under the pointer that read_basic_header and        *)
(* read_message_header keep across the call.                               *)
ensure_buffer_bytes(n) ==
  /\ Starved
  /\ buffer' = buffer \o SubSeq(net, 1, n)
  /\ net' = SubSeq(net, n + 1, Len(net))
  /\ moved' \in {moved, moved \/ (BufferMoves /\ rpc \in {"basic2", "basic3", "ext"})}
  /\ UNCHANGED <<chunk_streams, in_chunk_size, cur, rpc, received>>

(* The read times out: what the peer wrote has not arrived in time.        *)
(* recv_message returns ERROR_SOCKET_TIMEOUT: the play loop calls it again *)
(* and it starts over with the bytes that are still in the buffer,         *)
(* everybody else closes the connection.                                   *)
Timeout ==
  /\ Starved
  /\ rpc' = IF Pulse THEN "basic" ELSE "closed"
  /\ cur' = NoCur /\ moved' = FALSE
  /\ UNCHANGED <<net, buffer, chunk_streams, in_chunk_size, received>>

\* The timestamp moves with every chunk of format 3.
forwarded_always(c) == [c EXCEPT !.ts = (@ + c.delta) % W32]

(* A chunk of format 3 has no message header: for a new message, and with  *)
(* no extended timestamp to come, the last delta applies once more.        *)
forwarded(c) ==
  IF ~c.msg /\ ~c.ext THEN [c EXCEPT !.ts = (@ + c.delta) % W32] ELSE c

(* The outcome of the checks at the head of read_message_header: a fresh   *)
(* chunk stream starts with fmt 0, a partial message does not go on with   *)
(* fmt 0.  chunk->msg is created before anything more is read.             *)
enter_message_header(fmt, cid, bh_size) ==
  LET c == IF cid \in DOMAIN chunk_streams THEN chunk_streams[cid] ELSE FreshChunk
      start_error == (c.count = 0 /\ fmt # 0) \/ (c.msg /\ fmt = 0)
      e == [IF fmt = 3 THEN forwarded(c) ELSE c EXCEPT !.msg = TRUE]
  IN /\ cur' = [fmt |-> fmt, cid |-> cid, size |-> bh_size]
     /\ moved' = FALSE
     /\ IF start_error
          THEN rpc' = "error" /\ chunk_streams' = With(cid, c)
          ELSE IF fmt < 3
            THEN rpc' = "header" /\ chunk_streams' = With(cid, e)
            ELSE IF c.ext
              THEN rpc' = "ext" /\ chunk_streams' = With(cid, e)
              ELSE /\ rpc' = "payload"
                   /\ chunk_streams' = With(cid, [e EXCEPT !.count = @ + 1])
     /\ UNCHANGED <<net, buffer, in_chunk_size, received>>

(* read_basic_header: the first byte, and the ids of one byte.             *)
read_basic_header ==
  LET b == buffer[1].b
  IN /\ rpc = "basic" /\ Ensured
     /\ CASE b % 64 = 0 -> /\ rpc' = "basic2"
                           /\ UNCHANGED <<net, buffer, chunk_streams, cur, moved,
                                          in_chunk_size, received>>
          [] b % 64 = 1 -> /\ rpc' = "basic3"
                           /\ UNCHANGED <<net, buffer, chunk_streams, cur, moved,
                                          in_chunk_size, received>>
          [] OTHER -> enter_message_header(b \div 64, b % 64, 1)

(* read_basic_header: the ids of two and of three bytes.  A dangling       *)
(* pointer reads any byte.                                                 *)
Bytes(i) == IF moved THEN {buffer[i].b, 0} ELSE {buffer[i].b}

read_basic_header2 ==
  /\ rpc = "basic2" /\ Ensured
  /\ \E x \in Bytes(2) :
       enter_message_header(buffer[1].b \div 64, 64 + Char(x), 2)

read_basic_header3 ==
  /\ rpc = "basic3" /\ Ensured
  /\ \E x \in Bytes(2), y \in Bytes(3) :
       enter_message_header(buffer[1].b \div 64, 64 + Char(x) + Char(y) * 256, 3)

\* The test for an extended timestamp.
is_extended(field) == field >= RTMP_EXTENDED_TIMESTAMP

(* read_message_header: the fields of fmt 0, 1 and 2.                      *)
read_message_header ==
  LET h == buffer[cur.size + 1]
      fmt == cur.fmt
      ext == is_extended(h.ts)
      ts == CASE ext -> RTMP_EXTENDED_TIMESTAMP
              [] fmt = 0 -> h.ts
              [] OTHER -> (chunk.ts + h.ts) % W32
      c == [chunk EXCEPT !.delta = h.ts, !.ext = ext, !.ts = ts,
                         !.len = IF fmt <= 1 THEN h.len ELSE @,
                         !.type = IF fmt <= 1 THEN h.type ELSE @,
                         !.count = IF ext THEN @ ELSE @ + 1]
  IN /\ rpc = "header" /\ Ensured
     /\ chunk_streams' = With(cur.cid, c)
     /\ cur' = [cur EXCEPT !.size = @ + 1]
     /\ rpc' = IF ext THEN "ext" ELSE "payload"
     /\ UNCHANGED <<net, buffer, in_chunk_size, moved, received>>

(* read_message_header: the extended timestamp, which replaces timestamp.  *)
(* A dangling pointer reads any value.                                     *)
read_extended_timestamp ==
  /\ rpc = "ext" /\ Ensured
  /\ \E ts \in {buffer[cur.size + 1].ts} \cup (IF moved THEN {0} ELSE {}) :
       chunk_streams' = With(cur.cid, [chunk EXCEPT !.ts = ts, !.count = @ + 1])
  /\ cur' = [cur EXCEPT !.size = @ + 1]
  /\ rpc' = "payload"
  /\ moved' = FALSE
  /\ UNCHANGED <<net, buffer, in_chunk_size, received>>

\* The message that chunk stream c has completed.
Message(cid, c) == [cid |-> cid, ts |-> c.ts, type |-> c.type,
                    payload |-> c.payload]

\* The message is handed on and stays in its chunk stream.
completed_keeps_msg(c) == [c EXCEPT !.payload = <<>>]

\* A chunk stream whose message has been handed on.
completed(c) == [c EXCEPT !.msg = FALSE, !.payload = <<>>]

\* A chunk size that decode does not compare with the minimum.
valid_packet_unchecked(c) == TRUE

(* RssSetChunkSizePacket::decode refuses a size below the minimum.         *)
valid_packet(c) ==
  c.type = "set_chunk_size" => c.payload[1].v >= MinChunkSize

\* A new chunk size that is not put into effect.
on_recv_message_ignored(c) == in_chunk_size

(* on_recv_message: the chunk size after the completed message of c.       *)
on_recv_message(c) ==
  IF c.type = "set_chunk_size" THEN c.payload[1].v ELSE in_chunk_size

(* read_message_payload, and the tail of recv_message: the chunk leaves    *)
(* the buffer; a complete message is dropped when it is empty, and else    *)
(* goes through on_recv_message and is returned, unless that fails.        *)
read_message_payload ==
  LET got == SubSeq(buffer, cur.size + 1, cur.size + payload_size)
      c == [chunk EXCEPT !.payload = @ \o got]
      whole == Len(c.payload) = c.len
      message == whole /\ c.len > 0
      ok == message => valid_packet(c)
  IN /\ rpc = "payload" /\ Ensured
     /\ buffer' = SubSeq(buffer, cur.size + payload_size + 1, Len(buffer))
     /\ chunk_streams' = With(cur.cid, IF whole THEN completed(c) ELSE c)
     /\ received' = IF message /\ ok THEN Append(received, Message(cur.cid, c))
                                     ELSE received
     /\ in_chunk_size' = IF message /\ ok THEN on_recv_message(c)
                                          ELSE in_chunk_size
     /\ rpc' = IF ok THEN "basic" ELSE "refused"
     /\ cur' = NoCur /\ moved' = FALSE
     /\ UNCHANGED net

(* The steps of recv_message when bytes keep coming.                       *)
Read ==
  \/ \E n \in 1 .. Len(net) : ensure_buffer_bytes(n)
  \/ read_basic_header
  \/ read_basic_header2
  \/ read_basic_header3
  \/ read_message_header
  \/ read_extended_timestamp
  \/ read_message_payload

recv_message == Read \/ Timeout

\* The state of the reader when it asks for the next chunk.
AtChunk == rpc = "basic"

(* "when exists cache msg, means got an partial message": between two      *)
(* chunks, a cached message has been given some of its payload.            *)
CachedMsgIsPartial ==
  AtChunk => \A x \in DOMAIN chunk_streams :
               chunk_streams[x].msg => chunk_streams[x].payload # <<>>
=============================================================================
