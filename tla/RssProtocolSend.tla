-------------------------- MODULE RssProtocolSend --------------------------
(***************************************************************************)
(* The sending half of RssProtocol, send_message, and a receiver that      *)
(* follows the same chunk rules (the one of RssProtocol).  A connection    *)
(* sends from one thread only, so the chunks of two messages never         *)
(* interleave; the thread may be switched out in each writev.              *)
(***************************************************************************)
EXTENDS RssProtocol

CONSTANTS
  OutCids,     \* get_perfer_cid() of the messages sent
  Times,       \* their timestamps
  Lens,        \* their payload lengths, in blocks
  ChunkSizes,  \* the sizes set_chunk_size announces
  MaxMsgs,     \* bound: messages sent
  MaxNet       \* bound: tokens in flight when a chunk is written

\* The server announces one chunk size, a constant above the minimum.
ASSUME SendConstants ==
  /\ OutCids \subseteq Nat /\ Lens \subseteq Nat /\ ChunkSizes \subseteq Nat
  /\ Times \subseteq 0 .. W32 - 1
  /\ \A n \in ChunkSizes : n >= MinChunkSize

VARIABLES
  out_chunk_size,  \* RssProtocol::out_chunk_size
  msg,             \* the message in send_message, or Nothing
  p,               \* how much of its payload has been written
  nsent,           \* messages given to send_message
  sent             \* history: messages written completely

sendVars == <<out_chunk_size, msg, p, nsent, sent>>
vars == <<recvVars, sendVars>>

Nothing == [id |-> 0]

Init ==
  /\ RecvInit
  /\ out_chunk_size = ChunkSize0
  /\ msg = Nothing
  /\ p = 0
  /\ nsent = 0
  /\ sent = <<>>

\* The value of an int32_t.
Signed(ts) == IF ts >= W32 \div 2 THEN ts - W32 ELSE ts

\* The test of send_message for the extended timestamp.
extended == Signed(msg.ts) >= RTMP_EXTENDED_TIMESTAMP

ExtHeader == IF extended THEN <<ExtTimestamp(msg.ts)>> ELSE <<>>

\* out_header_fmt0 and out_header_fmt3.
header_fmt0 ==
  BasicHeader(0, msg.cid)
    \o <<MsgHeader(0, IF extended THEN RTMP_EXTENDED_TIMESTAMP ELSE msg.ts % W24,
                   msg.len, msg.type)>>
    \o ExtHeader
header_fmt3_short == BasicHeader(3, msg.cid)
header_fmt3 == BasicHeader(3, msg.cid) \o ExtHeader

(* send_message is called.                                                 *)
send_message(m) ==
  /\ msg = Nothing /\ nsent < MaxMsgs
  /\ Running
  /\ msg' = m
  /\ p' = 0
  /\ nsent' = nsent + 1
  /\ UNCHANGED <<recvVars, out_chunk_size, sent>>

\* Every message taken for a set_chunk_size message.
on_send_message_any(m) == out_chunk_size' = m.v

\* A new chunk size that is not put into effect.
on_send_message_ignored(m) == out_chunk_size' = out_chunk_size

(* on_send_message: a set_chunk_size message takes effect once it is out.  *)
on_send_message(m) ==
  out_chunk_size' = IF m.type = "set_chunk_size" THEN m.v ELSE out_chunk_size

(* One turn of the loop of send_message: a header, the next part of the    *)
(* payload, one writev; after the last one the hook, and msg is deleted.   *)
writev ==
  LET size == IF msg.len - p < out_chunk_size THEN msg.len - p ELSE out_chunk_size
      whole == p + size >= msg.len
  IN /\ msg # Nothing
     /\ Running /\ Len(net) < MaxNet
     /\ net' = net \o (IF p = 0 THEN header_fmt0 ELSE header_fmt3)
                   \o Blocks(msg, p, p + size)
     /\ IF whole
          THEN /\ msg' = Nothing /\ p' = 0
               /\ on_send_message(msg)
               /\ sent' = IF msg.len = 0 THEN sent
                          ELSE Append(sent, [cid |-> msg.cid, ts |-> msg.ts,
                                             type |-> msg.type,
                                             payload |-> Blocks(msg, 0, msg.len)])
          ELSE /\ p' = p + size
               /\ UNCHANGED <<msg, out_chunk_size, sent>>
     /\ UNCHANGED <<buffer, chunk_streams, in_chunk_size, cur, rpc, moved,
                    received, nsent>>

Send ==
  \/ \E x \in OutCids, ts \in Times, len \in Lens :
       send_message([id |-> nsent + 1, cid |-> x, ts |-> ts, len |-> len,
                     type |-> "media", v |-> 0])
  \/ \E n \in ChunkSizes :
       send_message([id |-> nsent + 1, cid |-> 2, ts |-> 0, len |-> 1,
                     type |-> "set_chunk_size", v |-> n])

Recv == recv_message /\ UNCHANGED sendVars

Next == Send \/ writev \/ Recv

(* The sending thread is run again after each writev, bytes in flight      *)
(* arrive, and the receiver reads what has arrived.  No timeout is assumed. *)
FairSpec ==
  /\ Init /\ [][Next]_vars
  /\ WF_vars(writev)
  /\ WF_vars(Read /\ UNCHANGED sendVars)

-----------------------------------------------------------------------------
(* Type correctness; a chunk size is never below the minimum.              *)
TypeOK ==
  /\ out_chunk_size \in Nat /\ out_chunk_size >= MinChunkSize
  /\ in_chunk_size \in Nat /\ in_chunk_size >= MinChunkSize
  /\ p \in Nat
  /\ moved \in BOOLEAN

(* The receiver gets every message as it was given to send_message: its    *)
(* timestamp, type and payload, in order, across changes of the chunk size *)
(* and with headers of format 3 after the first chunk.                     *)
ReceivedAsSent ==
  /\ rpc # "error"
  /\ Len(received) <= Len(sent)
  /\ received = SubSeq(sent, 1, Len(received))

(* The receiver switches to a new chunk size at the chunk where send_message *)
(* does, so the two agree whenever nothing is in flight.                   *)
ChunkSizesAgree ==
  net = <<>> /\ buffer = <<>> => in_chunk_size = out_chunk_size

(* A message written completely is received, unless a read timed out.      *)
SentIsReceived ==
  \A n \in 1 .. MaxMsgs :
    Len(sent) >= n ~> (Len(received) >= n \/ rpc = "closed")
=============================================================================
