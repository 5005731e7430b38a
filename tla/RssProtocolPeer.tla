-------------------------- MODULE RssProtocolPeer --------------------------
(***************************************************************************)
(* RssProtocol receiving from a client.  The client is not in this         *)
(* repository; it writes chunks the way the RTMP specification allows:     *)
(* each message starts with any format whose fields it may leave out, the  *)
(* rest of it follows in chunks of format 3, messages of different chunk   *)
(* streams interleave, and the chunk size changes with a set_chunk_size    *)
(* message.                                                                *)
(***************************************************************************)
EXTENDS RssProtocol

CONSTANTS
  Cids,        \* chunk streams that carry media
  Times,       \* the timestamps of messages
  Lens,        \* payload lengths, in blocks
  ChunkSizes,  \* the sizes a client announces
  BigDeltas,   \* TRUE for a client that sends deltas with extended timestamps
  MaxMsgs,     \* bound: messages sent
  MaxNet       \* bound: tokens in flight when the client starts a chunk

ASSUME PeerConstants ==
  /\ Cids \subseteq Nat /\ Lens \subseteq Nat /\ ChunkSizes \subseteq Nat
  /\ Times \subseteq 0 .. W32 - 1
  /\ BigDeltas \in BOOLEAN

VARIABLES
  out,       \* the client's chunk streams
  out_size,  \* the client's chunk size
  nsent,     \* messages started
  sent       \* history: messages completely written, in that order

peerVars == <<out, out_size, nsent, sent>>
vars == <<recvVars, peerVars>>

CidControl == 2
Streams == Cids \cup {CidControl}

Unused == [used |-> FALSE, ts |-> 0, delta |-> 0, ext |-> FALSE,
           m |-> [id |-> 0, len |-> 0, type |-> "none", v |-> 0], off |-> 0]

\* The rest of the payload of a message is still to be written.
Partial(x) == out[x].off < out[x].m.len

Init ==
  /\ RecvInit
  /\ out = [x \in Streams |-> Unused]
  /\ out_size = ChunkSize0
  /\ nsent = 0
  /\ sent = <<>>

(* The formats a new message may start with.                               *)
Formats(x, m, ts) ==
  LET o == out[x]
      delta == ts - o.ts
  IN {0} \cup (IF o.used /\ delta >= 0 THEN {1} ELSE {})
         \cup (IF o.used /\ delta >= 0 /\ m.len = o.m.len /\ m.type = o.m.type
                 THEN {2} ELSE {})
         \cup (IF /\ o.used /\ delta = o.delta /\ m.len = o.m.len
                  /\ m.type = o.m.type /\ ~o.ext
                 THEN {3} ELSE {})

\* The header of the first chunk; val is the timestamp or the delta.
FirstHeader(x, fmt, val, m) ==
  LET ext == val >= RTMP_EXTENDED_TIMESTAMP
      field == IF ext THEN RTMP_EXTENDED_TIMESTAMP ELSE val
  IN BasicHeader(fmt, x)
       \o (IF fmt < 3 THEN <<MsgHeader(fmt, field, m.len, m.type)>> ELSE <<>>)
       \o (IF fmt < 3 /\ ext THEN <<ExtTimestamp(val)>> ELSE <<>>)

Min2(a, b) == IF a < b THEN a ELSE b

\* Writing the first n blocks of o's message beyond its offset.
Write(x, header, o) ==
  LET end == Min2(o.m.len, o.off + out_size)
      whole == end = o.m.len
  IN /\ net' = net \o header \o Blocks(o.m, o.off, end)
     /\ out' = [out EXCEPT ![x] = [o EXCEPT !.off = end]]
     /\ sent' = IF whole /\ o.m.len > 0
                  THEN Append(sent, [cid |-> x, ts |-> o.ts, type |-> o.m.type,
                                     payload |-> Blocks(o.m, 0, end)])
                  ELSE sent
     /\ out_size' = IF whole /\ o.m.type = "set_chunk_size" THEN o.m.v
                                                            ELSE out_size
     /\ UNCHANGED <<buffer, chunk_streams, in_chunk_size, cur, rpc, moved,
                    received>>

(* The client starts a message.                                            *)
Start(x, m, ts, fmt) ==
  LET o == out[x]
      delta == IF fmt = 0 THEN ts ELSE ts - o.ts
  IN /\ Len(net) < MaxNet /\ nsent < MaxMsgs
     /\ ~Partial(x)
     /\ fmt \in Formats(x, m, ts)
     /\ fmt \in {0, 3} \/ BigDeltas \/ delta < RTMP_EXTENDED_TIMESTAMP
     /\ nsent' = nsent + 1
     /\ Write(x, FirstHeader(x, fmt, delta, m),
              [used |-> TRUE, ts |-> ts, delta |-> delta,
               ext |-> delta >= RTMP_EXTENDED_TIMESTAMP, m |-> m, off |-> 0])

(* The client goes on with a message, in a chunk of format 3.              *)
Continue(x) ==
  LET o == out[x]
      ext == IF o.ext THEN <<ExtTimestamp(o.delta)>> ELSE <<>>
  IN /\ Len(net) < MaxNet
     /\ Partial(x)
     /\ Write(x, BasicHeader(3, x) \o ext, o)
     /\ UNCHANGED nsent

SendMedia ==
  \E x \in Cids, len \in Lens, ts \in Times, fmt \in 0 .. 3 :
    Start(x, [id |-> nsent + 1, len |-> len, type |-> "media", v |-> 0], ts, fmt)

SendChunkSize ==
  \E n \in ChunkSizes :
    Start(CidControl, [id |-> nsent + 1, len |-> 1, type |-> "set_chunk_size",
                       v |-> n], 0, 0)

Recv == recv_message /\ UNCHANGED peerVars

Next ==
  \/ SendMedia
  \/ SendChunkSize
  \/ \E x \in Streams : Continue(x)
  \/ Recv

Spec == Init /\ [][Next]_vars

-----------------------------------------------------------------------------
(* Type correctness, and what decode promises read_message_payload: a     *)
(* chunk size of at least the minimum, so that every chunk makes progress. *)
TypeOK ==
  /\ in_chunk_size \in Nat /\ in_chunk_size >= MinChunkSize
  /\ rpc \in {"basic", "basic2", "basic3", "header", "ext", "payload",
              "closed", "refused", "error"}
  /\ moved \in BOOLEAN
  /\ \A x \in DOMAIN chunk_streams : chunk_streams[x].ts \in 0 .. W32 - 1

(* What recv_message returns is what the client sent: each message once,   *)
(* complete, with its timestamp and payload, in the order in which the     *)
(* messages were completed, whatever formats start them, however chunk     *)
(* streams interleave, the reads split the bytes and the chunk size        *)
(* changes.                                                                *)
ReceivedAsSent ==
  /\ rpc # "error"
  /\ Len(received) <= Len(sent)
  /\ received = SubSeq(sent, 1, Len(received))

(* The two ends agree on the chunk size whenever nothing is in flight on a *)
(* connection that goes on: read_message_payload cuts the chunks where the *)
(* client does.                                                            *)
ChunkSizesAgree ==
  Running /\ net = <<>> /\ buffer = <<>> => in_chunk_size = out_size
=============================================================================
