----------------------------- MODULE RssClient -----------------------------
(***************************************************************************)
(* The session of one connection: RssClient::do_cycle with the services of *)
(* RssRtmp it calls, against a client that is not in this repository.      *)
(*                                                                         *)
(* The thread runs a straight program of reads and sends that grows when   *)
(* the client has been identified; todo is what is left of it.  A read     *)
(* waits, so the client may send ahead, wait for answers, send what nobody *)
(* asked for, fall silent or close at any point.                           *)
(***************************************************************************)
EXTENDS Integers, Sequences, FiniteSets

CONSTANTS
  Kinds,     \* the clients that connect
  Noise,     \* messages that a client may send unasked
  MaxNoise,  \* bound: how many of them
  Medias     \* bound: media messages of a publisher

VARIABLES
  todo,      \* what the thread has still to do; empty when it has ended
  saved,     \* transaction ids in the thread's local variables
  accepted,  \* media given to the source
  unfreed,   \* messages taken from the protocol and never freed
  kind, eager, \* the client, and whether it sends ahead
  made,      \* how many requests it has made
  reqs,      \* what the client has sent, in order
  inbox,     \* what of it the thread has not read
  outs,      \* packets the thread has sent
  noise,     \* noise sent
  silent, closed

serverVars == <<todo, saved, accepted, unfreed, outs>>
clientVars == <<kind, eager, made, reqs, noise, silent, closed>>
vars == <<serverVars, clientVars, inbox>>

-----------------------------------------------------------------------------
(* The thread's program.  A send names the local variable that holds the   *)
(* transaction id it answers, an expect the one that keeps it.             *)

Send(what, var) == [op |-> "send", what |-> what, var |-> var]
Expect(packet, var) == [op |-> "expect", what |-> packet, var |-> var]
Step(op, what) == [op |-> op, what |-> what, var |-> "none"]

handshake == <<Step("read", "c0c1"), Send("s0s1s2", "none"), Step("read", "c2")>>

connect_app == <<Expect("connect", "none")>>

response_connect_app == <<Send("connect_result", "connect")>>

(* RssClient::do_cycle up to the identification of the client.             *)
do_cycle ==
  handshake \o connect_app
    \o <<Send("window_ack_size", "none"), Send("peer_bandwidth", "none")>>
    \o response_connect_app
    \o <<Send("onBWDone", "none"), Step("identify", "client")>>

set_chunk_size == <<Send("set_chunk_size", "none")>>

start_play ==
  <<Send("StreamBegin", "none"), Send("Play.Reset", "none"),
    Send("Play.Start", "none"), Send("SampleAccess", "none"),
    Send("Data.Start", "none")>>

\* FCPublish not answered.
fc_publish_unanswered == <<Expect("FMLEStart", "fc_publish_tid")>>

(* The three exchanges of start_publish.                                   *)
fc_publish ==
  <<Expect("FMLEStart", "fc_publish_tid"),
    Send("FMLEStart_result", "fc_publish_tid")>>

\* createStream answered with the transaction of FCPublish.
create_stream_stale_tid ==
  <<Expect("createStream", "create_stream_tid"),
    Send("createStream_result", "fc_publish_tid")>>

create_stream ==
  <<Expect("createStream", "create_stream_tid"),
    Send("createStream_result", "create_stream_tid")>>

\* One more message awaited before publishing begins.
publish_waits ==
  <<Expect("publish", "none"), Expect("other", "none"),
    Send("onFCPublish", "none"), Send("Publish.Start", "none")>>

publish ==
  <<Expect("publish", "none"),
    Send("onFCPublish", "none"), Send("Publish.Start", "none")>>

start_publish == fc_publish \o create_stream \o publish

\* The status of the unpublished stream left out.
fmle_unpublish_short ==
  <<Send("onFCUnpublish", "none"), Send("FMLEStart_result", "unpublish_tid")>>

fmle_unpublish ==
  <<Send("onFCUnpublish", "none"), Send("FMLEStart_result", "unpublish_tid"),
    Send("Unpublish.Success", "none")>>

(* What follows createStream: the answer, and the wait for play.           *)
identify_create_stream_client ==
  <<Send("createStream_result", "req_tid"), Step("identify", "create_stream")>>

(* What follows releaseStream: the answer; the type is publish.            *)
identify_fmle_publish_client ==
  <<Send("FMLEStart_result", "req_tid")>> \o set_chunk_size \o start_publish
    \o <<Step("publish", "media")>>

-----------------------------------------------------------------------------
(* Messages, and what decode_packet makes of them.                         *)

packet(name) ==
  CASE name \in {"releaseStream", "FCPublish", "FCUnpublish"} -> "FMLEStart"
    [] name \in {"connect", "connect_badurl"} -> "connect"
    [] name \in {"createStream", "play", "publish"} -> name
    [] OTHER -> "other"

is_command(name) == name \notin {"media", "ack"}

\* decode_packet fails.
undecodable(name) == name = "bad"

\* Noise is what no step of the session waits for.
ASSUME ClientConstants ==
  /\ Kinds \subseteq {"play", "fmle", "flash", "encrypted", "badurl"}
  /\ \A x \in Noise : packet(x) = "other" /\ x # "media"
  /\ MaxNoise \in Nat /\ Medias \in Nat

Locals == {"none", "connect", "req_tid", "fc_publish_tid", "create_stream_tid",
           "unpublish_tid"}

Init ==
  /\ todo = do_cycle
  \* RssConnectAppResPacket always answers transaction 1.
  /\ saved = [v \in Locals |-> IF v = "connect" THEN 1 ELSE 0]
  /\ accepted = <<>>
  /\ unfreed = 0
  /\ kind \in Kinds
  /\ eager \in BOOLEAN
  /\ made = 0
  /\ reqs = <<>>
  /\ inbox = <<>>
  /\ outs = <<>>
  /\ noise = 0
  /\ silent = FALSE
  /\ closed = FALSE

Alive == todo # <<>>
At(op) == Alive /\ Head(todo).op = op

-----------------------------------------------------------------------------
(* The client.                                                             *)

(* A request, and the packet it cannot do without.                         *)
Req(name, needs) == [name |-> name, needs |-> needs]

Greeting == <<Req("c0c1", ""), Req("c2", "s0s1s2")>>

Script(k) ==
  CASE k = "play" ->
         Greeting \o <<Req("connect", "s0s1s2"),
                       Req("createStream", "connect_result"),
                       Req("play", "createStream_result")>>
    [] k = "fmle" ->
         Greeting \o <<Req("connect", "s0s1s2"),
                       Req("releaseStream", "connect_result"),
                       Req("FCPublish", "connect_result"),
                       Req("createStream", "connect_result"),
                       Req("publish", "createStream_result")>>
                  \o [i \in 1 .. Medias |-> Req("media", "createStream_result")]
                  \o <<Req("FCUnpublish", "Publish.Start")>>
    [] k = "flash" ->
         Greeting \o <<Req("connect", "s0s1s2"),
                       Req("createStream", "connect_result"),
                       Req("publish", "createStream_result"),
                       Req("media", "Publish.Start")>>
    [] k = "encrypted" -> <<Req("c0c1_encrypted", "")>>
    [] k = "badurl" -> Greeting \o <<Req("connect_badurl", "s0s1s2")>>

Sent == {outs[i].what : i \in DOMAIN outs}

\* The request has been answered, if it is one that gets an answer.
Answered(m) ==
  CASE m.name \in {"connect", "releaseStream", "FCPublish", "createStream"} ->
         \E i \in DOMAIN outs : outs[i].tid = m.tid
    [] m.name = "publish" -> "Publish.Start" \in Sent
    [] OTHER -> TRUE

(* The client has a request to send; one that does not send ahead waits    *)
(* until all requests before it have been answered.                        *)
Ready ==
  /\ made < Len(Script(kind))
  /\ Script(kind)[made + 1].needs \in Sent \cup {""}
  /\ ~eager => \A i \in DOMAIN reqs : Answered(reqs[i])
  /\ ~silent /\ ~closed

\* Commands are numbered from the connect request on; the greeting has
\* numbers that no answer carries.
Tid(n) == IF n <= 2 THEN n - 3 ELSE n - 2

Request ==
  LET m == [name |-> Script(kind)[made + 1].name, tid |-> Tid(made + 1)]
  IN /\ Ready
     /\ made' = made + 1
     /\ reqs' = Append(reqs, m)
     /\ inbox' = Append(inbox, m)
     /\ UNCHANGED <<serverVars, kind, eager, noise, silent, closed>>

\* A client sends messages of its own accord once the greeting is over.
SendNoise ==
  /\ noise < MaxNoise /\ ~silent /\ ~closed
  /\ made >= 2
  /\ noise' = noise + 1
  /\ \E x \in Noise : /\ reqs' = Append(reqs, [name |-> x, tid |-> 0])
                      /\ inbox' = Append(inbox, [name |-> x, tid |-> 0])
  /\ UNCHANGED <<serverVars, kind, eager, made, silent, closed>>

FallSilent ==
  /\ ~silent
  /\ silent' = TRUE
  /\ UNCHANGED <<serverVars, inbox, kind, eager, made, reqs, noise, closed>>

Close ==
  /\ ~closed
  /\ closed' = TRUE
  /\ UNCHANGED <<serverVars, inbox, kind, eager, made, reqs, noise, silent>>

-----------------------------------------------------------------------------
(* The thread.  Every failure makes do_cycle return.                       *)

msg == Head(inbox)

\* The thread takes a message from the protocol.
Take == inbox # <<>> /\ inbox' = Tail(inbox)

Ended == todo' = <<>>

(* send_message; it may fail when the client has closed.                   *)
send_message ==
  /\ At("send")
  /\ \/ /\ todo' = Tail(todo)
        /\ outs' = Append(outs, [what |-> Head(todo).what,
                                 tid |-> saved[Head(todo).var]])
     \/ closed /\ Ended /\ UNCHANGED outs
  /\ UNCHANGED <<saved, accepted, unfreed, inbox, clientVars>>

(* read_fully of the handshake; only plain text goes on.                   *)
read_fully ==
  /\ At("read") /\ Take
  /\ IF msg.name = "c0c1_encrypted" THEN Ended ELSE todo' = Tail(todo)
  /\ UNCHANGED <<saved, accepted, unfreed, outs, clientVars>>

(* rss_rtmp_expect_message: other packets are dropped; and connect_app     *)
(* returns what discovery_app makes of the address.                        *)
rss_rtmp_expect_message ==
  /\ At("expect") /\ Take
  /\ CASE undecodable(msg.name) -> Ended /\ UNCHANGED saved
       [] packet(msg.name) = Head(todo).what ->
            /\ IF msg.name = "connect_badurl" THEN Ended ELSE todo' = Tail(todo)
            /\ saved' = IF Head(todo).var = "none" THEN saved
                        ELSE [saved EXCEPT ![Head(todo).var] = msg.tid]
       [] OTHER -> UNCHANGED <<todo, saved>>
  /\ UNCHANGED <<accepted, unfreed, outs, clientVars>>

(* identify_client: createStream and releaseStream tell what the client    *)
(* is, the rest is ignored.                                                *)
identify_client ==
  /\ At("identify") /\ Head(todo).what = "client" /\ Take
  /\ CASE undecodable(msg.name) -> Ended /\ UNCHANGED saved
       [] packet(msg.name) = "createStream" ->
            /\ todo' = identify_create_stream_client
            /\ saved' = [saved EXCEPT !["req_tid"] = msg.tid]
       [] packet(msg.name) = "FMLEStart" ->
            /\ todo' = identify_fmle_publish_client
            /\ saved' = [saved EXCEPT !["req_tid"] = msg.tid]
       [] OTHER -> UNCHANGED <<todo, saved>>
  /\ UNCHANGED <<accepted, unfreed, outs, clientVars>>

(* The loop of identify_create_stream_client: a play command makes the     *)
(* client a player, the rest is ignored.                                   *)
identify_play ==
  /\ At("identify") /\ Head(todo).what = "create_stream" /\ Take
  /\ CASE undecodable(msg.name) -> Ended
       [] packet(msg.name) = "play" ->
            todo' = set_chunk_size \o start_play \o <<Step("play", "control")>>
       [] OTHER -> UNCHANGED todo
  /\ UNCHANGED <<saved, accepted, unfreed, outs, clientVars>>

\* A message that is freed twice.
streaming_play_frees_twice ==
  /\ At("play") /\ Take
  /\ unfreed' = unfreed - 1
  /\ UNCHANGED <<todo, saved, accepted, outs, clientVars>>

(* A turn of streaming_play with a message from the client: the test that  *)
(* should free it asks for a message that is NULL.                         *)
streaming_play ==
  /\ At("play") /\ Take
  /\ unfreed' = unfreed + 1
  /\ UNCHANGED <<todo, saved, accepted, outs, clientVars>>

(* A turn of streaming_publish.                                            *)
streaming_publish ==
  /\ At("publish") /\ Take
  /\ accepted' = IF msg.name = "media" THEN Append(accepted, msg.tid) ELSE accepted
  /\ CASE is_command(msg.name) /\ undecodable(msg.name) -> Ended /\ UNCHANGED saved
       [] packet(msg.name) = "FMLEStart" ->
            /\ todo' = fmle_unpublish
            /\ saved' = [saved EXCEPT !["unpublish_tid"] = msg.tid]
       [] OTHER -> UNCHANGED <<todo, saved>>
  /\ UNCHANGED <<unfreed, outs, clientVars>>

Receiving == Alive /\ ~At("send")

(* The peer has closed and everything before that has been read.           *)
Eof ==
  /\ Receiving /\ inbox = <<>> /\ closed
  /\ Ended
  /\ UNCHANGED <<saved, accepted, unfreed, outs, inbox, clientVars>>

\* A publish loop that goes on after a timeout, as the play loop does.
RecvTimeout_pulse ==
  /\ Receiving /\ inbox = <<>> /\ ~Ready
  /\ ~At("play") /\ ~At("read") /\ ~At("publish")
  /\ Ended
  /\ UNCHANGED <<saved, accepted, unfreed, outs, inbox, clientVars>>

(* Nothing comes for the time of the receive timeout.  The play loop goes  *)
(* on; the handshake reads through a socket object of its own, which has   *)
(* no timeout.                                                             *)
RecvTimeout ==
  /\ Receiving /\ inbox = <<>> /\ ~Ready
  /\ ~At("play") /\ ~At("read")
  /\ Ended
  /\ UNCHANGED <<saved, accepted, unfreed, outs, inbox, clientVars>>

Thread ==
  \/ send_message \/ read_fully \/ rss_rtmp_expect_message
  \/ identify_client \/ identify_play
  \/ streaming_play \/ streaming_publish
  \/ Eof \/ RecvTimeout

Next ==
  \/ Request \/ SendNoise \/ FallSilent \/ Close
  \/ send_message \/ read_fully \/ rss_rtmp_expect_message
  \/ identify_client \/ identify_play
  \/ streaming_play \/ streaming_publish
  \/ Eof \/ RecvTimeout

(* The thread is run when it can go on, and a client that has something to *)
(* send, and neither falls silent nor closes, sends it.                    *)
FairSpec == Init /\ [][Next]_vars /\ WF_vars(Thread) /\ WF_vars(Request)

-----------------------------------------------------------------------------
(* Type correctness; no message is freed more often than it is received.   *)
TypeOK ==
  /\ saved \in [Locals -> Nat]
  /\ \A i \in DOMAIN todo : todo[i].op \in {"send", "read", "expect", "identify",
                                           "play", "publish"}
  /\ unfreed \in Nat

(* The request that a response packet is for.                              *)
Answers(what) ==
  CASE what = "connect_result" -> "connect"
    [] what = "FMLEStart_result" -> "FMLEStart"
    [] OTHER -> "createStream"

(* A response carries the transaction id of a request of its kind that the *)
(* client made, and no request is answered twice: transaction ids are kept *)
(* in local variables while the thread waits for other messages.           *)
AnswersMatch ==
  LET R == {i \in DOMAIN outs : outs[i].what \in
                {"connect_result", "FMLEStart_result", "createStream_result"}}
  IN /\ \A i \in R : \E j \in DOMAIN reqs :
          reqs[j].tid = outs[i].tid /\ packet(reqs[j].name) = Answers(outs[i].what)
     /\ \A i, j \in R : outs[i].tid = outs[j].tid => i = j

\* The tids of the media messages among ms, in their order.
MediaOf(ms) ==
  LET places == {i \in DOMAIN ms : ms[i].name = "media"}
      ith(i) == CHOOSE k \in places : Cardinality({j \in places : j <= k}) = i
  IN  [i \in 1 .. Cardinality(places) |-> ms[ith(i)].tid]

(* Media sent after the publish request all reach the source, in order,    *)
(* although the thread drops what it does not expect until it has sent its *)
(* answers.                                                                *)
MediaKept ==
  Alive /\ kind = "fmle" => accepted \o MediaOf(inbox) = MediaOf(reqs)

\* The client has fallen silent, closed or sent something undecodable.
Misbehaved ==
  silent \/ closed \/ \E i \in DOMAIN reqs : undecodable(reqs[i].name)

(* A player that follows the protocol gets to the play loop, a FMLE        *)
(* publisher to the publish loop, whether they send ahead or wait: thread  *)
(* and client never wait for each other.                                   *)
Served ==
  /\ kind = "play" => <>(At("play") \/ Misbehaved)
  /\ kind = "fmle" => <>(At("publish") \/ Misbehaved)

(* A publisher that stops gets the answers of fmle_unpublish.              *)
UnpublishAnswered ==
  (\E i \in DOMAIN reqs : reqs[i].name = "FCUnpublish")
    ~> ("Unpublish.Success" \in Sent \/ closed
          \/ \E i \in DOMAIN reqs : undecodable(reqs[i].name))

(* The thread of a client that falls silent after the handshake ends,      *)
(* unless the client plays.                                                *)
SilentIsDropped ==
  silent /\ Alive /\ ~At("read") /\ "s0s1s2" \in Sent
    ~> (~Alive \/ At("play"))
=============================================================================
