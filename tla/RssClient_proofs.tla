-------------------------- MODULE RssClient_proofs --------------------------
(***************************************************************************)
(* The session, for any kinds of clients, any noise and any number of      *)
(* media messages.                                                         *)
(*                                                                         *)
(* The messages of a client are numbered in the order of its script.  The  *)
(* invariant knows the first one that is unread; a response that the       *)
(* thread is about to send is for one that has been read and not answered. *)
(***************************************************************************)
EXTENDS RssClient, FiniteSetTheorems, TLAPS

Results == {"connect_result", "FMLEStart_result", "createStream_result"}

OpNames == {"send", "read", "expect", "identify", "play", "publish"}

Whats ==
  Results \cup
  {"c0c1", "c2", "s0s1s2", "connect", "window_ack_size", "peer_bandwidth", "onBWDone",
   "client", "set_chunk_size", "StreamBegin", "Play.Reset", "Play.Start", "SampleAccess",
   "Data.Start", "control", "FMLEStart", "createStream", "publish", "onFCPublish",
   "Publish.Start", "onFCUnpublish", "Unpublish.Success", "create_stream", "media"}

Ops == [op : OpNames, what : Whats, var : Locals]

Names ==
  Noise \cup
  {"c0c1", "c2", "c0c1_encrypted", "connect", "connect_badurl", "createStream", "play",
   "releaseStream", "FCPublish", "publish", "media", "FCUnpublish"}

Messages == [name : Names, tid : Int]

(* What the thread waits for when request n of a FMLE publisher is the     *)
(* first unread one.                                                       *)
Want(n) ==
  CASE n = 1 -> Step("read", "c0c1")
    [] n = 2 -> Step("read", "c2")
    [] n = 3 -> Expect("connect", "none")
    [] n = 4 -> Step("identify", "client")
    [] n = 5 -> Expect("FMLEStart", "fc_publish_tid")
    [] n = 6 -> Expect("createStream", "create_stream_tid")
    [] n = 7 -> Expect("publish", "none")
    [] OTHER -> Step("publish", "media")

-----------------------------------------------------------------------------
(* Programs.                                                               *)

IsResult(a) == a.op = "send" /\ a.what \in Results

\* Between steps k and l of s the thread only sends.
Run(s, k, l) == k < l /\ \A j \in k + 1 .. l - 1 : s[j].op = "send"

\* A result follows what it is the answer to, and is the only one that does.
Paired(s) ==
  \A k, l \in DOMAIN s : Run(s, k, l) /\ IsResult(s[l]) =>
    /\ s[k].op \in {"send", "expect"}
    /\ ~IsResult(s[k])
    /\ s[k].op = "expect" =>
         /\ s[k].what = Answers(s[l].what)
         /\ s[l].var = IF s[k].what = "connect" THEN "connect" ELSE s[k].var
         /\ s[l].var # "none"

Expects(s) ==
  \A k \in DOMAIN s : s[k].op = "expect" =>
    /\ s[k].what # "other" /\ s[k].var # "connect"
    /\ s[k].what = "connect" => s[k].var = "none"

\* The requests of a FMLE publisher are awaited one after the other.
Chained(s) ==
  \A k \in DOMAIN s : \A n \in {1, 2, 3, 5, 6, 7} : s[k] = Want(n) =>
    \E l \in DOMAIN s : Run(s, k, l) /\ s[l] = Want(n + 1)

Program(s) == s \in Seq(Ops) /\ Paired(s) /\ Expects(s) /\ Chained(s)

\* The thread waits for a next.
Awaits(s, a) ==
  \E k \in DOMAIN s : Run(s, 0, k) /\ s[k] = a

-----------------------------------------------------------------------------
(* The messages of a client of kind k.                                     *)

Scripted(k, n) == [name |-> Script(k)[n].name, tid |-> Tid(n)]

\* ms are the requests lo .. hi, in order, with noise after the greeting.
Numbered(k, ms, lo, hi) ==
  /\ ms \in Seq(Messages)
  /\ \A i \in DOMAIN ms : \/ ms[i].tid = 0 /\ ms[i].name \in Noise /\ hi >= 2
                          \/ \E n \in lo .. hi : ms[i] = Scripted(k, n)
  /\ \A n \in lo .. hi : \E i \in DOMAIN ms : ms[i] = Scripted(k, n)
  /\ \A i, j \in DOMAIN ms : i < j /\ ms[j].tid # 0 => ms[i].tid < ms[j].tid

\* Request n is one that a packet of kind what answers.
AnswerTo(k, what, tid, n) ==
  /\ tid = Tid(n)
  /\ packet(Script(k)[n].name) = Answers(what)

\* How many of the first n - 1 requests of a FMLE publisher are media.
Before(n) == IF n <= 8 THEN 0 ELSE IF n <= 8 + Medias THEN n - 8 ELSE Medias

-----------------------------------------------------------------------------
Outs == [what : Whats, tid : Nat]

Types ==
  /\ Program(todo)
  /\ saved \in [Locals -> Nat] /\ saved["connect"] = 1
  /\ accepted \in Seq(Int)
  /\ unfreed \in Nat
  /\ outs \in Seq(Outs)
  /\ kind \in Kinds
  /\ made \in 0 .. Len(Script(kind))

\* Responses os have been sent: each for a request before u, no two for one.
SentMatch(k, os, u) ==
  /\ \A i \in DOMAIN os : os[i].what \in Results =>
       \E n \in 1 .. u - 1 : AnswerTo(k, os[i].what, os[i].tid, n)
  /\ \A i, j \in DOMAIN os :
       os[i].what \in Results /\ os[j].what \in Results /\ os[i].tid = os[j].tid => i = j

\* The response that comes before the next read of s, if one does, is for a
\* request before u that has not been answered.
OwedMatch(k, s, sv, os, u) ==
  \A l \in DOMAIN s : Run(s, 0, l) /\ IsResult(s[l]) =>
    /\ \E n \in 1 .. u - 1 : AnswerTo(k, s[l].what, sv[s[l].var], n)
    /\ \A i \in DOMAIN os : os[i].what \in Results => os[i].tid # sv[s[l].var]

\* The thread awaits request u of a FMLE publisher, and has accepted the
\* media before it.
InStep(k, s, acc, u) ==
  k = "fmle" /\ s # <<>> =>
    /\ IF u <= 8 + Medias THEN Awaits(s, Want(u))
                          ELSE \A l \in DOMAIN s : s[l].op = "send"
    /\ acc = [i \in 1 .. Before(u) |-> Tid(7 + i)]

\* u is the first request that the thread has not read.
IInv ==
  /\ Types
  /\ Numbered(kind, reqs, 1, made)
  /\ \E u \in 1 .. made + 1 :
       /\ Numbered(kind, inbox, u, made)
       /\ SentMatch(kind, outs, u)
       /\ OwedMatch(kind, todo, saved, outs, u)
       /\ InStep(kind, todo, accepted, u)

-----------------------------------------------------------------------------
(* What the definitions by cases say.                                      *)

LEMMA PacketIs ==
  /\ packet("c0c1") = "other" /\ packet("c2") = "other" /\ packet("c0c1_encrypted") = "other"
  /\ packet("connect") = "connect" /\ packet("connect_badurl") = "connect"
  /\ packet("createStream") = "createStream" /\ packet("play") = "play"
  /\ packet("publish") = "publish" /\ packet("media") = "other"
  /\ packet("releaseStream") = "FMLEStart" /\ packet("FCPublish") = "FMLEStart"
  /\ packet("FCUnpublish") = "FMLEStart" /\ packet("bad") = "other"
BY DEF packet

LEMMA AnswersIs ==
  /\ Answers("connect_result") = "connect"
  /\ Answers("FMLEStart_result") = "FMLEStart"
  /\ Answers("createStream_result") = "createStream"
BY DEF Answers

LEMMA WantIs ==
  /\ Want(1) = Step("read", "c0c1") /\ Want(2) = Step("read", "c2")
  /\ Want(3) = Expect("connect", "none") /\ Want(4) = Step("identify", "client")
  /\ Want(5) = Expect("FMLEStart", "fc_publish_tid")
  /\ Want(6) = Expect("createStream", "create_stream_tid")
  /\ Want(7) = Expect("publish", "none")
  /\ \A n \in Nat : n > 7 => Want(n) = Step("publish", "media")
<1>1. \A n \in Nat : n > 7 => Want(n) = Step("publish", "media")
  BY DEF Want
<1> QED BY <1>1 DEF Want

-----------------------------------------------------------------------------
(* The programs of the thread.                                             *)

LEMMA OpsAre ==
  ASSUME NEW what \in Whats, NEW var \in Locals, NEW op \in OpNames
  PROVE  Send(what, var) \in Ops /\ Expect(what, var) \in Ops /\ Step(op, what) \in Ops
BY DEF Ops, OpNames, Locals, Step, Send, Expect

LEMMA DoCycleJoined ==
  ASSUME NEW T, NEW a \in T, NEW b \in T, NEW c \in T, NEW d \in T, NEW e \in T,
         NEW f \in T, NEW g \in T, NEW h \in T, NEW i \in T,
         NEW s, s = <<a, b, c>> \o <<d>> \o <<e, f>> \o <<g>> \o <<h, i>>
  PROVE  /\ s \in Seq(T) /\ Len(s) = 9
         /\ s[1] = a /\ s[2] = b /\ s[3] = c /\ s[4] = d /\ s[5] = e
         /\ s[6] = f /\ s[7] = g /\ s[8] = h /\ s[9] = i
OBVIOUS

LEMMA DoCycle ==
  ASSUME NEW s, s = do_cycle
  PROVE  /\ s \in Seq(Ops) /\ Len(s) = 9
         /\ s[1] = Step("read", "c0c1")
         /\ s[2] = Send("s0s1s2", "none")
         /\ s[3] = Step("read", "c2")
         /\ s[4] = Expect("connect", "none")
         /\ s[5] = Send("window_ack_size", "none")
         /\ s[6] = Send("peer_bandwidth", "none")
         /\ s[7] = Send("connect_result", "connect")
         /\ s[8] = Send("onBWDone", "none")
         /\ s[9] = Step("identify", "client")
<1>1. PICK a, b, c, d, e, f, g, h, i :
        /\ a = Step("read", "c0c1")
        /\ b = Send("s0s1s2", "none")
        /\ c = Step("read", "c2")
        /\ d = Expect("connect", "none")
        /\ e = Send("window_ack_size", "none")
        /\ f = Send("peer_bandwidth", "none")
        /\ g = Send("connect_result", "connect")
        /\ h = Send("onBWDone", "none")
        /\ i = Step("identify", "client")
  OBVIOUS
<1>2. a \in Ops /\ b \in Ops /\ c \in Ops /\ d \in Ops /\ e \in Ops
        /\ f \in Ops /\ g \in Ops /\ h \in Ops /\ i \in Ops
  BY <1>1 DEF Ops, OpNames, Whats, Results, Locals, Step, Send, Expect
<1>3. s = <<a, b, c>> \o <<d>> \o <<e, f>> \o <<g>> \o <<h, i>>
  BY <1>1 DEF do_cycle, handshake, connect_app, response_connect_app
<1> QED BY <1>1, <1>2, <1>3, DoCycleJoined

LEMMA FmleProgramJoined ==
  ASSUME NEW T, NEW a \in T, NEW b \in T, NEW c \in T, NEW d \in T, NEW e \in T,
         NEW f \in T, NEW g \in T, NEW h \in T, NEW i \in T, NEW j \in T,
         NEW s, s = <<a>> \o <<b>> \o (<<c, d>> \o <<e, f>> \o <<g, h, i>>) \o <<j>>
  PROVE  /\ s \in Seq(T) /\ Len(s) = 10
         /\ s[1] = a /\ s[2] = b /\ s[3] = c /\ s[4] = d /\ s[5] = e
         /\ s[6] = f /\ s[7] = g /\ s[8] = h /\ s[9] = i /\ s[10] = j
OBVIOUS

LEMMA FmleProgram ==
  ASSUME NEW s, s = identify_fmle_publish_client
  PROVE  /\ s \in Seq(Ops) /\ Len(s) = 10
         /\ s[1] = Send("FMLEStart_result", "req_tid")
         /\ s[2] = Send("set_chunk_size", "none")
         /\ s[3] = Expect("FMLEStart", "fc_publish_tid")
         /\ s[4] = Send("FMLEStart_result", "fc_publish_tid")
         /\ s[5] = Expect("createStream", "create_stream_tid")
         /\ s[6] = Send("createStream_result", "create_stream_tid")
         /\ s[7] = Expect("publish", "none")
         /\ s[8] = Send("onFCPublish", "none")
         /\ s[9] = Send("Publish.Start", "none")
         /\ s[10] = Step("publish", "media")
<1>1. PICK a, b, c, d, e, f, g, h, i, j :
        /\ a = Send("FMLEStart_result", "req_tid")
        /\ b = Send("set_chunk_size", "none")
        /\ c = Expect("FMLEStart", "fc_publish_tid")
        /\ d = Send("FMLEStart_result", "fc_publish_tid")
        /\ e = Expect("createStream", "create_stream_tid")
        /\ f = Send("createStream_result", "create_stream_tid")
        /\ g = Expect("publish", "none")
        /\ h = Send("onFCPublish", "none")
        /\ i = Send("Publish.Start", "none")
        /\ j = Step("publish", "media")
  OBVIOUS
<1>2. a \in Ops /\ b \in Ops /\ c \in Ops /\ d \in Ops /\ e \in Ops
        /\ f \in Ops /\ g \in Ops /\ h \in Ops /\ i \in Ops /\ j \in Ops
  BY <1>1 DEF Ops, OpNames, Whats, Results, Locals, Step, Send, Expect
<1>3. s = <<a>> \o <<b>> \o (<<c, d>> \o <<e, f>> \o <<g, h, i>>) \o <<j>>
  BY <1>1 DEF identify_fmle_publish_client, set_chunk_size, start_publish, fc_publish, create_stream, publish
<1> QED BY <1>1, <1>2, <1>3, FmleProgramJoined

LEMMA CreateStreamProgramJoined ==
  ASSUME NEW T, NEW a \in T, NEW b \in T,
         NEW s, s = <<a, b>>
  PROVE  /\ s \in Seq(T) /\ Len(s) = 2
         /\ s[1] = a /\ s[2] = b
OBVIOUS

LEMMA CreateStreamProgram ==
  ASSUME NEW s, s = identify_create_stream_client
  PROVE  /\ s \in Seq(Ops) /\ Len(s) = 2
         /\ s[1] = Send("createStream_result", "req_tid")
         /\ s[2] = Step("identify", "create_stream")
<1>1. PICK a, b :
        /\ a = Send("createStream_result", "req_tid")
        /\ b = Step("identify", "create_stream")
  OBVIOUS
<1>2. a \in Ops /\ b \in Ops
  BY <1>1 DEF Ops, OpNames, Whats, Results, Locals, Step, Send, Expect
<1>3. s = <<a, b>>
  BY <1>1 DEF identify_create_stream_client
<1> QED BY <1>1, <1>2, <1>3, CreateStreamProgramJoined

\* What identify_play leaves to do for a player.
play_program == set_chunk_size \o start_play \o <<Step("play", "control")>>

LEMMA PlayProgramJoined ==
  ASSUME NEW T, NEW a \in T, NEW b \in T, NEW c \in T, NEW d \in T, NEW e \in T,
         NEW f \in T, NEW g \in T,
         NEW s, s = <<a>> \o <<b, c, d, e, f>> \o <<g>>
  PROVE  /\ s \in Seq(T) /\ Len(s) = 7
         /\ s[1] = a /\ s[2] = b /\ s[3] = c /\ s[4] = d /\ s[5] = e
         /\ s[6] = f /\ s[7] = g
OBVIOUS

LEMMA PlayProgram ==
  ASSUME NEW s, s = play_program
  PROVE  /\ s \in Seq(Ops) /\ Len(s) = 7
         /\ s[1] = Send("set_chunk_size", "none")
         /\ s[2] = Send("StreamBegin", "none")
         /\ s[3] = Send("Play.Reset", "none")
         /\ s[4] = Send("Play.Start", "none")
         /\ s[5] = Send("SampleAccess", "none")
         /\ s[6] = Send("Data.Start", "none")
         /\ s[7] = Step("play", "control")
<1>1. PICK a, b, c, d, e, f, g :
        /\ a = Send("set_chunk_size", "none")
        /\ b = Send("StreamBegin", "none")
        /\ c = Send("Play.Reset", "none")
        /\ d = Send("Play.Start", "none")
        /\ e = Send("SampleAccess", "none")
        /\ f = Send("Data.Start", "none")
        /\ g = Step("play", "control")
  OBVIOUS
<1>2. a \in Ops /\ b \in Ops /\ c \in Ops /\ d \in Ops /\ e \in Ops
        /\ f \in Ops /\ g \in Ops
  BY <1>1 DEF Ops, OpNames, Whats, Results, Locals, Step, Send, Expect
<1>3. s = <<a>> \o <<b, c, d, e, f>> \o <<g>>
  BY <1>1 DEF play_program, set_chunk_size, start_play
<1> QED BY <1>1, <1>2, <1>3, PlayProgramJoined

LEMMA UnpublishProgramJoined ==
  ASSUME NEW T, NEW a \in T, NEW b \in T, NEW c \in T,
         NEW s, s = <<a, b, c>>
  PROVE  /\ s \in Seq(T) /\ Len(s) = 3
         /\ s[1] = a /\ s[2] = b /\ s[3] = c
OBVIOUS

LEMMA UnpublishProgram ==
  ASSUME NEW s, s = fmle_unpublish
  PROVE  /\ s \in Seq(Ops) /\ Len(s) = 3
         /\ s[1] = Send("onFCUnpublish", "none")
         /\ s[2] = Send("FMLEStart_result", "unpublish_tid")
         /\ s[3] = Send("Unpublish.Success", "none")
<1>1. PICK a, b, c :
        /\ a = Send("onFCUnpublish", "none")
        /\ b = Send("FMLEStart_result", "unpublish_tid")
        /\ c = Send("Unpublish.Success", "none")
  OBVIOUS
<1>2. a \in Ops /\ b \in Ops /\ c \in Ops
  BY <1>1 DEF Ops, OpNames, Whats, Results, Locals, Step, Send, Expect
<1>3. s = <<a, b, c>>
  BY <1>1 DEF fmle_unpublish
<1> QED BY <1>1, <1>2, <1>3, UnpublishProgramJoined

LEMMA DoCycleProgram ==
  ASSUME NEW s, s = do_cycle
  PROVE  Program(s)
<1>1. /\ s \in Seq(Ops) /\ DOMAIN s = 1 .. 9
      /\ s[1].op = "read" /\ s[2].op = "send" /\ s[3].op = "read" /\ s[4].op = "expect"
      /\ s[5].op = "send" /\ s[6].op = "send" /\ s[7].op = "send" /\ s[8].op = "send"
      /\ s[9].op = "identify"
      /\ s[2].what \notin Results /\ s[5].what \notin Results /\ s[6].what \notin Results
      /\ s[7].what = "connect_result" /\ s[8].what \notin Results
      /\ s[4].what = "connect" /\ s[4].var = "none" /\ s[7].var = "connect"
  BY DoCycle DEF Step, Send, Expect, Results
<1>2. ASSUME NEW k \in 1 .. 9, NEW l \in 1 .. 9, Run(s, k, l), IsResult(s[l])
      PROVE  l = 7 /\ k \in {4, 5, 6}
  <2>1. l = 7
    BY <1>1, <1>2 DEF IsResult
  <2>2. k >= 4
    BY <1>1, <1>2, <2>1 DEF Run
  <2> QED BY <2>1, <2>2, <1>2 DEF Run
<1>3. Paired(s)
  BY <1>1, <1>2, AnswersIs DEF Paired, IsResult
<1>4. Expects(s)
  BY <1>1 DEF Expects
<1>5. Chained(s)
  <2> SUFFICES ASSUME NEW k \in DOMAIN s, NEW n \in {1, 2, 3, 5, 6, 7}, s[k] = Want(n)
               PROVE  \E l \in DOMAIN s : Run(s, k, l) /\ s[l] = Want(n + 1)
    BY DEF Chained
  <2>1. (k = 1 /\ n = 1) \/ (k = 3 /\ n = 2) \/ (k = 4 /\ n = 3)
    BY <1>1, DoCycle, WantIs DEF Step, Send, Expect
  <2>2. CASE k = 1 /\ n = 1
    BY <1>1, <2>2, DoCycle, WantIs DEF Run
  <2>3. CASE k = 3 /\ n = 2
    BY <1>1, <2>3, DoCycle, WantIs DEF Run
  <2>4. CASE k = 4 /\ n = 3
    BY <1>1, <2>4, DoCycle, WantIs DEF Run
  <2> QED BY <2>1, <2>2, <2>3, <2>4
<1> QED BY <1>1, <1>3, <1>4, <1>5 DEF Program

LEMMA FmleIsProgram ==
  ASSUME NEW s, s = identify_fmle_publish_client
  PROVE  Program(s)
<1>1. /\ s \in Seq(Ops) /\ DOMAIN s = 1 .. 10
      /\ s[1].op = "send" /\ s[2].op = "send" /\ s[3].op = "expect" /\ s[4].op = "send"
      /\ s[5].op = "expect" /\ s[6].op = "send" /\ s[7].op = "expect" /\ s[8].op = "send"
      /\ s[9].op = "send" /\ s[10].op = "publish"
      /\ s[2].what \notin Results /\ s[8].what \notin Results /\ s[9].what \notin Results
      /\ s[4].what = "FMLEStart_result" /\ s[6].what = "createStream_result"
      /\ s[3].what = "FMLEStart" /\ s[5].what = "createStream" /\ s[7].what = "publish"
      /\ s[3].var = "fc_publish_tid" /\ s[4].var = "fc_publish_tid"
      /\ s[5].var = "create_stream_tid" /\ s[6].var = "create_stream_tid"
      /\ s[7].var = "none"
  BY FmleProgram DEF Step, Send, Expect, Results
<1>2. ASSUME NEW k \in 1 .. 10, NEW l \in 1 .. 10, Run(s, k, l), IsResult(s[l])
      PROVE  (k = 3 /\ l = 4) \/ (k = 5 /\ l = 6)
  <2>1. l = 4 \/ l = 6
    BY <1>1, <1>2 DEF IsResult, Run
  <2>2. CASE l = 4
    BY <1>1, <1>2, <2>2 DEF Run
  <2>3. CASE l = 6
    BY <1>1, <1>2, <2>3 DEF Run
  <2> QED BY <2>1, <2>2, <2>3
<1>3. Paired(s)
  BY <1>1, <1>2, AnswersIs DEF Paired, IsResult
<1>4. Expects(s)
  BY <1>1 DEF Expects
<1>5. Chained(s)
  <2> SUFFICES ASSUME NEW k \in DOMAIN s, NEW n \in {1, 2, 3, 5, 6, 7}, s[k] = Want(n)
               PROVE  \E l \in DOMAIN s : Run(s, k, l) /\ s[l] = Want(n + 1)
    BY DEF Chained
  <2>1. (k = 3 /\ n = 5) \/ (k = 5 /\ n = 6) \/ (k = 7 /\ n = 7)
    BY <1>1, FmleProgram, WantIs DEF Step, Send, Expect
  <2>2. CASE k = 3 /\ n = 5
    BY <1>1, <2>2, FmleProgram, WantIs DEF Run
  <2>3. CASE k = 5 /\ n = 6
    BY <1>1, <2>3, FmleProgram, WantIs DEF Run
  <2>4. CASE k = 7 /\ n = 7
    BY <1>1, <2>4, FmleProgram, WantIs DEF Run
  <2> QED BY <2>1, <2>2, <2>3, <2>4
<1> QED BY <1>1, <1>3, <1>4, <1>5 DEF Program

LEMMA CreateStreamIsProgram ==
  ASSUME NEW s, s = identify_create_stream_client
  PROVE  Program(s)
<1>1. /\ s \in Seq(Ops) /\ DOMAIN s = 1 .. 2
      /\ s[1].op = "send" /\ s[2].op = "identify" /\ s[2].what = "create_stream"
  BY CreateStreamProgram DEF Step, Send
<1>2. Paired(s)
  BY <1>1 DEF Paired, IsResult, Run
<1>3. Expects(s)
  BY <1>1 DEF Expects
<1>4. Chained(s)
  <2> SUFFICES ASSUME NEW k \in DOMAIN s, NEW n \in {1, 2, 3, 5, 6, 7}, s[k] = Want(n)
               PROVE  FALSE
    BY DEF Chained
  <2> QED BY <1>1, WantIs DEF Step, Send, Expect
<1> QED BY <1>1, <1>2, <1>3, <1>4 DEF Program

LEMMA PlayIsProgram ==
  ASSUME NEW s, s = play_program
  PROVE  Program(s)
<1>1. /\ s \in Seq(Ops) /\ DOMAIN s = 1 .. 7
      /\ s[7].op = "play"
      /\ \A k \in 1 .. 6 : s[k].op = "send" /\ s[k].what \notin Results
  <2>1. s \in Seq(Ops) /\ Len(s) = 7 /\ s[7].op = "play"
    BY PlayProgram DEF Step
  <2>2. /\ s[1].op = "send" /\ s[1].what \notin Results
        /\ s[2].op = "send" /\ s[2].what \notin Results
        /\ s[3].op = "send" /\ s[3].what \notin Results
        /\ s[4].op = "send" /\ s[4].what \notin Results
        /\ s[5].op = "send" /\ s[5].what \notin Results
        /\ s[6].op = "send" /\ s[6].what \notin Results
    BY PlayProgram DEF Send, Results
  <2> HIDE DEF Results
  <2> QED BY <2>1, <2>2
<1>2. Paired(s)
  BY <1>1 DEF Paired, IsResult, Run
<1>3. Expects(s)
  BY <1>1 DEF Expects
<1>4. Chained(s)
  <2> SUFFICES ASSUME NEW k \in DOMAIN s, NEW n \in {1, 2, 3, 5, 6, 7}, s[k] = Want(n)
               PROVE  FALSE
    BY DEF Chained
  <2> QED BY <1>1, WantIs DEF Step, Send, Expect
<1> QED BY <1>1, <1>2, <1>3, <1>4 DEF Program

LEMMA UnpublishIsProgram ==
  ASSUME NEW s, s = fmle_unpublish
  PROVE  Program(s)
<1>1. /\ s \in Seq(Ops) /\ DOMAIN s = 1 .. 3
      /\ s[1].op = "send" /\ s[2].op = "send" /\ s[3].op = "send"
      /\ s[1].what \notin Results /\ s[3].what \notin Results
  BY UnpublishProgram DEF Send, Results
<1>2. Paired(s)
  BY <1>1 DEF Paired, IsResult, Run
<1>3. Expects(s)
  BY <1>1 DEF Expects
<1>4. Chained(s)
  <2> SUFFICES ASSUME NEW k \in DOMAIN s, NEW n \in {1, 2, 3, 5, 6, 7}, s[k] = Want(n)
               PROVE  FALSE
    BY DEF Chained
  <2> QED BY <1>1, WantIs DEF Step, Send, Expect
<1> QED BY <1>1, <1>2, <1>3, <1>4 DEF Program

LEMMA EndedIsProgram ==
  Program(<<>>)
BY DEF Program, Paired, Expects, Chained

LEMMA TailIsProgram ==
  ASSUME NEW s, Program(s), s # <<>>
  PROVE  /\ Program(Tail(s))
         /\ DOMAIN Tail(s) = 1 .. Len(s) - 1
         /\ \A k \in 1 .. Len(s) - 1 : Tail(s)[k] = s[k + 1]
         /\ Len(s) \in Nat /\ Len(s) > 0
         /\ Head(s) = s[1] /\ s[1] \in Ops
<1>1. s \in Seq(Ops)
  BY DEF Program
<1>2. /\ Len(s) \in Nat /\ Len(s) > 0
      /\ Head(s) = s[1] /\ s[1] \in Ops
      /\ DOMAIN s = 1 .. Len(s)
  BY <1>1
<1>3. PICK n \in Nat : n = Len(s)
  BY <1>2
<1>4. PICK t : t = Tail(s)
  OBVIOUS
<1>5. /\ t \in Seq(Ops)
      /\ DOMAIN t = 1 .. n - 1
      /\ \A k \in 1 .. n - 1 : t[k] = s[k + 1]
  BY <1>1, <1>2, <1>3, <1>4
<1>6. ASSUME NEW k \in 1 .. n - 1, NEW l \in 1 .. n - 1
      PROVE  Run(t, k, l) <=> Run(s, k + 1, l + 1)
  <2>1. ASSUME Run(t, k, l) PROVE Run(s, k + 1, l + 1)
    <3> SUFFICES ASSUME NEW j \in k + 2 .. l PROVE s[j].op = "send"
      BY <2>1 DEF Run
    <3>1. j - 1 \in k + 1 .. l - 1 /\ j - 1 \in 1 .. n - 1 /\ (j - 1) + 1 = j
      OBVIOUS
    <3> QED BY <2>1, <3>1, <1>5 DEF Run
  <2>2. ASSUME Run(s, k + 1, l + 1) PROVE Run(t, k, l)
    <3> SUFFICES ASSUME NEW j \in k + 1 .. l - 1 PROVE t[j].op = "send"
      BY <2>2 DEF Run
    <3>1. j + 1 \in k + 1 + 1 .. l + 1 - 1 /\ j \in 1 .. n - 1
      OBVIOUS
    <3> QED BY <2>2, <3>1, <1>5 DEF Run
  <2> QED BY <2>1, <2>2
<1>7. Paired(t)
  <2> SUFFICES ASSUME NEW k \in DOMAIN t, NEW l \in DOMAIN t, Run(t, k, l), IsResult(t[l])
               PROVE  /\ t[k].op \in {"send", "expect"}
                      /\ ~IsResult(t[k])
                      /\ t[k].op = "expect" =>
                           /\ t[k].what = Answers(t[l].what)
                           /\ t[l].var = IF t[k].what = "connect" THEN "connect" ELSE t[k].var
                           /\ t[l].var # "none"
    BY DEF Paired
  <2>1. /\ k \in 1 .. n - 1 /\ l \in 1 .. n - 1
        /\ k + 1 \in DOMAIN s /\ l + 1 \in DOMAIN s
        /\ t[k] = s[k + 1] /\ t[l] = s[l + 1]
    BY <1>2, <1>3, <1>5
  <2>2. Run(s, k + 1, l + 1)
    BY <1>6, <2>1
  <2> QED BY <2>1, <2>2 DEF Paired, Program
<1>8. Expects(t)
  <2> SUFFICES ASSUME NEW k \in DOMAIN t, t[k].op = "expect"
               PROVE  /\ t[k].what # "other" /\ t[k].var # "connect"
                      /\ t[k].what = "connect" => t[k].var = "none"
    BY DEF Expects
  <2>1. k + 1 \in DOMAIN s /\ t[k] = s[k + 1]
    BY <1>2, <1>3, <1>5
  <2> QED BY <2>1 DEF Expects, Program
<1>9. Chained(t)
  <2> SUFFICES ASSUME NEW k \in DOMAIN t, NEW m \in {1, 2, 3, 5, 6, 7}, t[k] = Want(m)
               PROVE  \E l \in DOMAIN t : Run(t, k, l) /\ t[l] = Want(m + 1)
    BY DEF Chained
  <2>1. k \in 1 .. n - 1 /\ k + 1 \in DOMAIN s /\ t[k] = s[k + 1]
    BY <1>2, <1>3, <1>5
  <2>2. PICK l \in DOMAIN s : Run(s, k + 1, l) /\ s[l] = Want(m + 1)
    BY <2>1 DEF Chained, Program
  <2>3. l - 1 \in 1 .. n - 1 /\ (l - 1) + 1 = l
    BY <2>1, <2>2, <1>2, <1>3 DEF Run
  <2>4. Run(t, k, l - 1) /\ t[l - 1] = s[l]
    BY <2>1, <2>2, <2>3, <1>5, <1>6
  <2> QED BY <2>2, <2>3, <2>4, <1>5
<1> QED BY <1>2, <1>3, <1>4, <1>5, <1>7, <1>8, <1>9 DEF Program

-----------------------------------------------------------------------------
(* The scripts of the clients.                                             *)

Needs == {"", "s0s1s2", "connect_result", "createStream_result", "Publish.Start"}

Requests == [name : Names, needs : Needs]

\* What the proofs need to know of a script.
Sound(s) ==
  /\ Len(s) \in Nat
  /\ \A n \in 1 .. Len(s) :
       /\ s[n].name \in Names
       /\ n <= 2 => packet(s[n].name) = "other"
       /\ packet(s[n].name) = "connect" => n = 3

LEMMA FiveJoined ==
  ASSUME NEW T, NEW a \in T, NEW b \in T, NEW c \in T, NEW d \in T, NEW e \in T,
         NEW s, s = <<a, b>> \o <<c, d, e>>
  PROVE  /\ s \in Seq(T) /\ Len(s) = 5
         /\ s[1] = a /\ s[2] = b /\ s[3] = c /\ s[4] = d /\ s[5] = e
OBVIOUS

LEMMA PlayScript ==
  Sound(Script("play"))
<1>1. PICK a, b, c, d, e :
        /\ a = Req("c0c1", "") /\ b = Req("c2", "s0s1s2") /\ c = Req("connect", "s0s1s2")
        /\ d = Req("createStream", "connect_result") /\ e = Req("play", "createStream_result")
  OBVIOUS
<1>2. /\ a \in Requests /\ b \in Requests /\ c \in Requests /\ d \in Requests
      /\ e \in Requests
  BY <1>1 DEF Requests, Names, Needs, Req
<1>3. PICK s : s = Script("play")
  OBVIOUS
<1>4. s = <<a, b>> \o <<c, d, e>>
  BY <1>1, <1>3 DEF Script, Greeting
<1>5. /\ s \in Seq(Requests) /\ Len(s) = 5
      /\ s[1] = a /\ s[2] = b /\ s[3] = c /\ s[4] = d /\ s[5] = e
  BY <1>2, <1>4, FiveJoined
<1>6. /\ a.name = "c0c1" /\ b.name = "c2" /\ c.name = "connect"
      /\ d.name = "createStream" /\ e.name = "play"
  BY <1>1 DEF Req
<1>7. Sound(s)
  BY <1>5, <1>6, PacketIs DEF Sound, Names
<1> QED BY <1>3, <1>7

LEMMA SixJoined ==
  ASSUME NEW T, NEW a \in T, NEW b \in T, NEW c \in T, NEW d \in T, NEW e \in T, NEW f \in T,
         NEW s, s = <<a, b>> \o <<c, d, e, f>>
  PROVE  /\ s \in Seq(T) /\ Len(s) = 6
         /\ s[1] = a /\ s[2] = b /\ s[3] = c /\ s[4] = d /\ s[5] = e /\ s[6] = f
OBVIOUS

LEMMA FlashScript ==
  Sound(Script("flash"))
<1>1. PICK a, b, c, d, e, f :
        /\ a = Req("c0c1", "") /\ b = Req("c2", "s0s1s2") /\ c = Req("connect", "s0s1s2")
        /\ d = Req("createStream", "connect_result")
        /\ e = Req("publish", "createStream_result") /\ f = Req("media", "Publish.Start")
  OBVIOUS
<1>2. /\ a \in Requests /\ b \in Requests /\ c \in Requests /\ d \in Requests
      /\ e \in Requests /\ f \in Requests
  BY <1>1 DEF Requests, Names, Needs, Req
<1>3. PICK s : s = Script("flash")
  OBVIOUS
<1>4. s = <<a, b>> \o <<c, d, e, f>>
  BY <1>1, <1>3 DEF Script, Greeting
<1>5. /\ s \in Seq(Requests) /\ Len(s) = 6
      /\ s[1] = a /\ s[2] = b /\ s[3] = c /\ s[4] = d /\ s[5] = e /\ s[6] = f
  BY <1>2, <1>4, SixJoined
<1>6. /\ a.name = "c0c1" /\ b.name = "c2" /\ c.name = "connect"
      /\ d.name = "createStream" /\ e.name = "publish" /\ f.name = "media"
  BY <1>1 DEF Req
<1>7. Sound(s)
  BY <1>5, <1>6, PacketIs DEF Sound, Names
<1> QED BY <1>3, <1>7

LEMMA EncryptedScript ==
  Sound(Script("encrypted"))
<1>1. PICK a : a = Req("c0c1_encrypted", "")
  OBVIOUS
<1>2. PICK s : s = Script("encrypted")
  OBVIOUS
<1>3. s = <<a>>
  BY <1>1, <1>2 DEF Script
<1>4. Len(s) = 1 /\ s[1] = a
  BY <1>3
<1>5. a.name = "c0c1_encrypted"
  BY <1>1 DEF Req
<1>6. Sound(s)
  BY <1>4, <1>5, PacketIs DEF Sound, Names
<1> QED BY <1>2, <1>6

LEMMA ThreeJoined ==
  ASSUME NEW T, NEW a \in T, NEW b \in T, NEW c \in T, NEW s, s = <<a, b>> \o <<c>>
  PROVE  s \in Seq(T) /\ Len(s) = 3 /\ s[1] = a /\ s[2] = b /\ s[3] = c
OBVIOUS

LEMMA BadurlScript ==
  Sound(Script("badurl"))
<1>1. PICK a, b, c :
        a = Req("c0c1", "") /\ b = Req("c2", "s0s1s2") /\ c = Req("connect_badurl", "s0s1s2")
  OBVIOUS
<1>2. a \in Requests /\ b \in Requests /\ c \in Requests
  BY <1>1 DEF Requests, Names, Needs, Req
<1>3. PICK s : s = Script("badurl")
  OBVIOUS
<1>4. s = <<a, b>> \o <<c>>
  BY <1>1, <1>3 DEF Script, Greeting
<1>5. s \in Seq(Requests) /\ Len(s) = 3 /\ s[1] = a /\ s[2] = b /\ s[3] = c
  BY <1>2, <1>4, ThreeJoined
<1>6. a.name = "c0c1" /\ b.name = "c2" /\ c.name = "connect_badurl"
  BY <1>1 DEF Req
<1>7. Sound(s)
  BY <1>5, <1>6, PacketIs DEF Sound, Names
<1> QED BY <1>3, <1>7

LEMMA SevenJoined ==
  ASSUME NEW T, NEW a \in T, NEW b \in T, NEW c \in T, NEW d \in T, NEW e \in T, NEW f \in T,
         NEW g \in T, NEW s, s = <<a, b>> \o <<c, d, e, f, g>>
  PROVE  /\ s \in Seq(T) /\ Len(s) = 7
         /\ s[1] = a /\ s[2] = b /\ s[3] = c /\ s[4] = d /\ s[5] = e /\ s[6] = f /\ s[7] = g
OBVIOUS

\* r is t after s.
Joined(r, s, t, T) ==
  /\ r \in Seq(T)
  /\ Len(r) = Len(s) + Len(t) /\ Len(s) \in Nat /\ Len(t) \in Nat
  /\ \A i \in 1 .. Len(s) : r[i] = s[i]
  /\ \A i \in 1 .. Len(t) : r[Len(s) + i] = t[i]

LEMMA Joins ==
  ASSUME NEW T, NEW s \in Seq(T), NEW t \in Seq(T)
  PROVE  Joined(s \o t, s, t, T)
BY DEF Joined

\* The names of a FMLE publisher's requests.
FmleName(n) ==
  IF n = 1 THEN "c0c1" ELSE IF n = 2 THEN "c2" ELSE IF n = 3 THEN "connect"
  ELSE IF n = 4 THEN "releaseStream" ELSE IF n = 5 THEN "FCPublish"
  ELSE IF n = 6 THEN "createStream" ELSE IF n = 7 THEN "publish"
  ELSE IF n <= 7 + Medias THEN "media" ELSE "FCUnpublish"

LEMMA FmleScript ==
  /\ Sound(Script("fmle"))
  /\ Len(Script("fmle")) = 8 + Medias
  /\ \A n \in 1 .. 8 + Medias : Script("fmle")[n].name = FmleName(n)
<1>1. PICK a, b, c, d, e, f, g, h, m :
        /\ a = Req("c0c1", "") /\ b = Req("c2", "s0s1s2") /\ c = Req("connect", "s0s1s2")
        /\ d = Req("releaseStream", "connect_result") /\ e = Req("FCPublish", "connect_result")
        /\ f = Req("createStream", "connect_result")
        /\ g = Req("publish", "createStream_result") /\ h = Req("FCUnpublish", "Publish.Start")
        /\ m = Req("media", "createStream_result")
  OBVIOUS
<1>2. /\ a \in Requests /\ b \in Requests /\ c \in Requests /\ d \in Requests
      /\ e \in Requests /\ f \in Requests /\ g \in Requests /\ h \in Requests
      /\ m \in Requests
  BY <1>1 DEF Requests, Names, Needs, Req
<1>3. PICK s : s = Script("fmle")
  OBVIOUS
<1>4. PICK p : p = <<a, b>> \o <<c, d, e, f, g>>
  OBVIOUS
<1>5. PICK ms : ms = [i \in 1 .. Medias |-> m]
  OBVIOUS
<1>6. PICK q : q = p \o ms
  OBVIOUS
<1>7. s = q \o <<h>>
  BY <1>1, <1>3, <1>4, <1>5, <1>6 DEF Script, Greeting
<1>8. PICK M \in Nat : M = Medias
  BY ClientConstants DEF ClientConstants
<1>9. /\ p \in Seq(Requests) /\ Len(p) = 7
      /\ p[1] = a /\ p[2] = b /\ p[3] = c /\ p[4] = d /\ p[5] = e /\ p[6] = f /\ p[7] = g
  BY <1>2, <1>4, SevenJoined
<1>10. ms \in Seq(Requests) /\ Len(ms) = M /\ \A i \in 1 .. M : ms[i] = m
  BY <1>2, <1>5, <1>8
<1>11. /\ q \in Seq(Requests) /\ Len(q) = Len(p) + Len(ms)
       /\ \A i \in 1 .. Len(p) : q[i] = p[i]
       /\ \A i \in 1 .. Len(ms) : q[Len(p) + i] = ms[i]
  <2>1. Joined(q, p, ms, Requests)
    BY <1>6, <1>9, <1>10, Joins
  <2> QED BY <2>1 DEF Joined
<1>12. PICK hs : hs = <<h>>
  OBVIOUS
<1>13. hs \in Seq(Requests) /\ Len(hs) = 1 /\ hs[1] = h
  BY <1>2, <1>12
<1>14. /\ s \in Seq(Requests) /\ Len(s) = Len(q) + Len(hs)
       /\ \A i \in 1 .. Len(q) : s[i] = q[i]
       /\ \A i \in 1 .. Len(hs) : s[Len(q) + i] = hs[i]
  <2>1. Joined(s, q, hs, Requests)
    BY <1>7, <1>11, <1>12, <1>13, Joins
  <2> QED BY <2>1 DEF Joined
<1>15. /\ a.name = "c0c1" /\ b.name = "c2" /\ c.name = "connect"
       /\ d.name = "releaseStream" /\ e.name = "FCPublish" /\ f.name = "createStream"
       /\ g.name = "publish" /\ h.name = "FCUnpublish" /\ m.name = "media"
  BY <1>1 DEF Req
<1>16. /\ Len(s) = 8 + M
       /\ s[1] = a /\ s[2] = b /\ s[3] = c /\ s[4] = d /\ s[5] = e /\ s[6] = f /\ s[7] = g
       /\ \A n \in 8 .. 7 + M : s[n] = m
       /\ s[8 + M] = h
  <2>1. Len(q) = 7 + M /\ Len(s) = 8 + M
    BY <1>9, <1>10, <1>11, <1>13, <1>14
  <2>2. ASSUME NEW n \in 8 .. 7 + M PROVE s[n] = m
    <3>1. n - 7 \in 1 .. M /\ 7 + (n - 7) = n
      BY <1>8
    <3>2. PICK j \in 1 .. M : j = n - 7
      BY <3>1
    <3>3. q[7 + j] = ms[j] /\ ms[j] = m
      BY <3>2, <1>9, <1>10, <1>11
    <3> QED BY <3>1, <3>2, <3>3, <1>14, <2>1
  <2>3. s[8 + M] = h
    BY <2>1, <1>13, <1>14
  <2> QED BY <2>1, <2>2, <2>3, <1>9, <1>11, <1>14
<1>17. ASSUME NEW n \in 1 .. 8 + M PROVE s[n].name = FmleName(n)
  <2>1. n \in 1 .. 7 \/ n \in 8 .. 7 + M \/ n = 8 + M
    OBVIOUS
  <2> QED BY <2>1, <1>8, <1>15, <1>16 DEF FmleName
<1>18. Sound(s)
  BY <1>8, <1>15, <1>16, <1>17, PacketIs DEF Sound, Names, FmleName
<1> QED BY <1>3, <1>8, <1>16, <1>17, <1>18

LEMMA Scripts ==
  ASSUME NEW k \in Kinds
  PROVE  Sound(Script(k))
<1>1. k \in {"play", "fmle", "flash", "encrypted", "badurl"}
  BY ClientConstants DEF ClientConstants
<1> QED BY <1>1, PlayScript, FmleScript, FlashScript, EncryptedScript, BadurlScript

-----------------------------------------------------------------------------
(* Numbered messages.                                                      *)

LEMMA Tids ==
  /\ \A n \in Nat : Tid(n) \in Int /\ Tid(n) # 0
  /\ \A n \in Nat : n <= 2 => Tid(n) < 0
  /\ \A n \in Nat : n >= 3 => Tid(n) \in Nat /\ Tid(n) > 0
  /\ \A m, n \in Nat : m < n => Tid(m) < Tid(n)
BY DEF Tid

LEMMA ScriptedIs ==
  ASSUME NEW k
  PROVE  \A n : Scripted(k, n).tid = Tid(n) /\ Scripted(k, n).name = Script(k)[n].name
BY DEF Scripted

LEMMA SeqTail ==
  ASSUME NEW T, NEW s \in Seq(T), s # <<>>
  PROVE  /\ Tail(s) \in Seq(T)
         /\ DOMAIN Tail(s) = 1 .. Len(s) - 1
         /\ \A i \in 1 .. Len(s) - 1 : Tail(s)[i] = s[i + 1]
         /\ Len(s) \in Nat /\ Len(s) > 0 /\ DOMAIN s = 1 .. Len(s)
         /\ Head(s) = s[1] /\ s[1] \in T
OBVIOUS

LEMMA SeqAppend ==
  ASSUME NEW T, NEW s \in Seq(T), NEW x \in T
  PROVE  /\ Append(s, x) \in Seq(T)
         /\ Len(s) \in Nat /\ DOMAIN s = 1 .. Len(s)
         /\ DOMAIN Append(s, x) = 1 .. Len(s) + 1
         /\ \A i \in 1 .. Len(s) : Append(s, x)[i] = s[i]
         /\ Append(s, x)[Len(s) + 1] = x
OBVIOUS

LEMMA TakeNoise ==
  ASSUME NEW k \in Kinds, NEW ms, NEW lo \in Nat, NEW hi \in Nat, 0 < lo, lo <= hi + 1,
         Numbered(k, ms, lo, hi), ms # <<>>, Head(ms).tid = 0
  PROVE  /\ Head(ms) \in Messages /\ Head(ms).name \in Noise
         /\ lo >= 3
         /\ Numbered(k, Tail(ms), lo, hi)
<1>1. ms \in Seq(Messages)
  BY DEF Numbered
<1>2. PICK t : t = Tail(ms)
  OBVIOUS
<1>3. PICK L \in Nat : L = Len(ms)
  BY <1>1, SeqTail
<1>4. /\ t \in Seq(Messages) /\ DOMAIN t = 1 .. L - 1
      /\ \A i \in 1 .. L - 1 : t[i] = ms[i + 1]
      /\ L > 0 /\ DOMAIN ms = 1 .. L /\ Head(ms) = ms[1] /\ ms[1] \in Messages
  BY <1>1, <1>2, <1>3, SeqTail
<1>5. \A n \in lo .. hi : n \in Nat /\ Scripted(k, n).tid = Tid(n) /\ Tid(n) # 0
  BY ScriptedIs, Tids
<1>a. ASSUME NEW i \in 1 .. L, i # 1, ms[i].tid # 0 PROVE ms[1].tid < ms[i].tid
  <2>1. 1 \in DOMAIN ms /\ i \in DOMAIN ms /\ 1 < i
    BY <1>4, <1>a
  <2> QED BY <2>1, <1>a DEF Numbered
<1>6. ms[1].name \in Noise /\ hi >= 2
  BY <1>4, <1>5 DEF Numbered
<1>7. lo >= 3
  <2> SUFFICES ASSUME lo <= 2 PROVE FALSE
    OBVIOUS
  <2>1. lo \in lo .. hi
    BY <1>6
  <2>2. PICK i \in 1 .. L : ms[i] = Scripted(k, lo)
    BY <2>1, <1>4 DEF Numbered
  <2>3. ms[i].tid = Tid(lo) /\ Tid(lo) < 0
    BY <2>2, ScriptedIs, Tids
  <2>4. i # 1
    BY <2>3, <1>4
  <2>5. ms[1].tid < ms[i].tid
    BY <2>3, <2>4, <1>a
  <2> QED BY <2>3, <2>5, <1>4, Tids
<1>8. ASSUME NEW i \in 1 .. L - 1
      PROVE  \/ t[i].tid = 0 /\ t[i].name \in Noise /\ hi >= 2
             \/ \E n \in lo .. hi : t[i] = Scripted(k, n)
  <2>1. i + 1 \in DOMAIN ms
    BY <1>4
  <2> QED BY <2>1, <1>4 DEF Numbered
<1>9. ASSUME NEW n \in lo .. hi PROVE \E i \in 1 .. L - 1 : t[i] = Scripted(k, n)
  <2>1. PICK i \in 1 .. L : ms[i] = Scripted(k, n)
    BY <1>4 DEF Numbered
  <2>2. i # 1
    BY <2>1, <1>4, <1>5
  <2>3. i - 1 \in 1 .. L - 1 /\ (i - 1) + 1 = i
    BY <2>2
  <2> QED BY <2>1, <2>3, <1>4
<1>10. ASSUME NEW i \in 1 .. L - 1, NEW j \in 1 .. L - 1, i < j, t[j].tid # 0
       PROVE  t[i].tid < t[j].tid
  <2>1. i + 1 \in DOMAIN ms /\ j + 1 \in DOMAIN ms /\ i + 1 < j + 1
    BY <1>4, <1>10
  <2> QED BY <2>1, <1>4, <1>10 DEF Numbered
<1>11. Numbered(k, t, lo, hi)
  BY <1>4, <1>8, <1>9, <1>10 DEF Numbered
<1> QED BY <1>2, <1>4, <1>6, <1>7, <1>11

LEMMA TakeScripted ==
  ASSUME NEW k \in Kinds, NEW ms, NEW lo \in Nat, NEW hi \in Nat, 0 < lo, lo <= hi + 1,
         Numbered(k, ms, lo, hi), ms # <<>>, Head(ms).tid # 0
  PROVE  /\ Head(ms) \in Messages
         /\ lo <= hi /\ Head(ms) = Scripted(k, lo)
         /\ Numbered(k, Tail(ms), lo + 1, hi)
<1>1. ms \in Seq(Messages)
  BY DEF Numbered
<1>2. PICK t : t = Tail(ms)
  OBVIOUS
<1>3. PICK L \in Nat : L = Len(ms)
  BY <1>1, SeqTail
<1>4. /\ t \in Seq(Messages) /\ DOMAIN t = 1 .. L - 1
      /\ \A i \in 1 .. L - 1 : t[i] = ms[i + 1]
      /\ L > 0 /\ DOMAIN ms = 1 .. L /\ Head(ms) = ms[1] /\ ms[1] \in Messages
  BY <1>1, <1>2, <1>3, SeqTail
<1>5. \A n \in lo .. hi : n \in Nat /\ Scripted(k, n).tid = Tid(n) /\ Tid(n) # 0
  BY ScriptedIs, Tids
<1>a. ASSUME NEW i \in 1 .. L, i # 1, ms[i].tid # 0 PROVE ms[1].tid < ms[i].tid
  <2>1. 1 \in DOMAIN ms /\ i \in DOMAIN ms /\ 1 < i
    BY <1>4, <1>a
  <2> QED BY <2>1, <1>a DEF Numbered
<1>6. PICK n \in lo .. hi : ms[1] = Scripted(k, n)
  BY <1>4 DEF Numbered
<1>7. n = lo
  <2> SUFFICES ASSUME lo < n PROVE FALSE
    OBVIOUS
  <2>1. lo \in lo .. hi
    OBVIOUS
  <2>2. PICK i \in 1 .. L : ms[i] = Scripted(k, lo)
    BY <2>1, <1>4 DEF Numbered
  <2>3. ms[i].tid = Tid(lo) /\ ms[1].tid = Tid(n) /\ Tid(lo) < Tid(n) /\ Tid(lo) # 0
        /\ Tid(lo) \in Int /\ Tid(n) \in Int
    BY <2>1, <2>2, <1>5, <1>6, Tids
  <2>4. i # 1
    BY <2>3
  <2>5. ms[1].tid < ms[i].tid
    BY <2>3, <2>4, <1>a
  <2> QED BY <2>3, <2>5
<1>8. ASSUME NEW i \in 1 .. L - 1
      PROVE  \/ t[i].tid = 0 /\ t[i].name \in Noise /\ hi >= 2
             \/ \E m \in lo + 1 .. hi : t[i] = Scripted(k, m)
  <2>1. i + 1 \in 1 .. L /\ t[i] = ms[i + 1]
    BY <1>4
  <2>2. CASE t[i].tid = 0 /\ t[i].name \in Noise /\ hi >= 2
    BY <2>2
  <2>3. CASE ~(t[i].tid = 0 /\ t[i].name \in Noise /\ hi >= 2)
    <3>1. PICK m \in lo .. hi : ms[i + 1] = Scripted(k, m)
      BY <2>1, <2>3, <1>4 DEF Numbered
    <3>2. ms[i + 1].tid = Tid(m) /\ Tid(m) # 0 /\ ms[1].tid = Tid(lo)
          /\ Tid(m) \in Int /\ Tid(lo) \in Int
      BY <3>1, <1>5, <1>6, <1>7, Tids
    <3>3. ms[1].tid < ms[i + 1].tid
      BY <2>1, <3>2, <1>a
    <3>4. m # lo
      BY <3>2, <3>3
    <3> QED BY <2>1, <3>1, <3>4
  <2> QED BY <2>2, <2>3
<1>9. ASSUME NEW m \in lo + 1 .. hi PROVE \E i \in 1 .. L - 1 : t[i] = Scripted(k, m)
  <2>1. m \in lo .. hi /\ m > lo
    OBVIOUS
  <2>2. PICK i \in 1 .. L : ms[i] = Scripted(k, m)
    BY <2>1, <1>4 DEF Numbered
  <2>3. ms[i].tid = Tid(m) /\ ms[1].tid = Tid(lo) /\ Tid(lo) < Tid(m)
        /\ Tid(m) \in Int /\ Tid(lo) \in Int
    BY <2>1, <2>2, <1>5, <1>6, <1>7, Tids
  <2>4. i # 1
    BY <2>3
  <2>5. i - 1 \in 1 .. L - 1 /\ (i - 1) + 1 = i
    BY <2>4
  <2> QED BY <2>2, <2>5, <1>4
<1>10. ASSUME NEW i \in 1 .. L - 1, NEW j \in 1 .. L - 1, i < j, t[j].tid # 0
       PROVE  t[i].tid < t[j].tid
  <2>1. i + 1 \in DOMAIN ms /\ j + 1 \in DOMAIN ms /\ i + 1 < j + 1
    BY <1>4, <1>10
  <2> QED BY <2>1, <1>4, <1>10 DEF Numbered
<1>11. Numbered(k, t, lo + 1, hi)
  BY <1>4, <1>8, <1>9, <1>10 DEF Numbered
<1> QED BY <1>2, <1>4, <1>6, <1>7, <1>11

LEMMA MoreScripted ==
  ASSUME NEW k \in Kinds, NEW ms, NEW lo \in Nat, NEW hi \in Nat, 0 < lo, lo <= hi + 1,
         Numbered(k, ms, lo, hi), hi < Len(Script(k))
  PROVE  Numbered(k, Append(ms, Scripted(k, hi + 1)), lo, hi + 1)
<1>1. ms \in Seq(Messages)
  BY DEF Numbered
<1>2. PICK m : m = Scripted(k, hi + 1)
  OBVIOUS
<1>3. m \in Messages /\ m.tid = Tid(hi + 1)
  <2>1. Script(k)[hi + 1].name \in Names
    BY Scripts DEF Sound
  <2>2. Tid(hi + 1) \in Int
    BY Tids
  <2> QED BY <1>2, <2>1, <2>2 DEF Scripted, Messages
<1>4. PICK t : t = Append(ms, m)
  OBVIOUS
<1>5. PICK L \in Nat : L = Len(ms)
  BY <1>1, SeqTail
<1>6. /\ t \in Seq(Messages) /\ DOMAIN ms = 1 .. L /\ DOMAIN t = 1 .. L + 1
      /\ \A i \in 1 .. L : t[i] = ms[i]
      /\ t[L + 1] = m
  BY <1>1, <1>3, <1>4, <1>5, SeqAppend
<1>7. ASSUME NEW i \in 1 .. L + 1
      PROVE  \/ t[i].tid = 0 /\ t[i].name \in Noise /\ hi + 1 >= 2
             \/ \E n \in lo .. hi + 1 : t[i] = Scripted(k, n)
  <2>1. CASE i = L + 1
    BY <2>1, <1>2, <1>6
  <2>2. CASE i # L + 1
    <3>1. i \in 1 .. L
      BY <2>2
    <3>2. \/ t[i].tid = 0 /\ t[i].name \in Noise /\ hi >= 2
          \/ \E n \in lo .. hi : t[i] = Scripted(k, n)
      BY <3>1, <1>6 DEF Numbered
    <3>3. \A n \in lo .. hi : n \in lo .. hi + 1
      OBVIOUS
    <3> QED BY <3>2, <3>3
  <2> QED BY <2>1, <2>2
<1>8. ASSUME NEW n \in lo .. hi + 1 PROVE \E i \in 1 .. L + 1 : t[i] = Scripted(k, n)
  <2>1. CASE n = hi + 1
    BY <2>1, <1>2, <1>6
  <2>2. CASE n # hi + 1
    <3>1. n \in lo .. hi
      BY <2>2
    <3>2. PICK i \in 1 .. L : ms[i] = Scripted(k, n)
      BY <3>1, <1>6 DEF Numbered
    <3> QED BY <3>2, <1>6
  <2> QED BY <2>1, <2>2
<1>9. ASSUME NEW i \in 1 .. L + 1, NEW j \in 1 .. L + 1, i < j, t[j].tid # 0
      PROVE  t[i].tid < t[j].tid
  <2>0. i \in 1 .. L
    BY <1>9
  <2>1. CASE j = L + 1
    <3>1. t[j].tid = Tid(hi + 1)
      BY <2>1, <1>3, <1>6
    <3>2. \/ t[i].tid = 0 /\ hi >= 2
          \/ \E n \in lo .. hi : t[i] = Scripted(k, n)
      BY <2>0, <1>6 DEF Numbered
    <3>3. CASE t[i].tid = 0 /\ hi >= 2
      BY <3>1, <3>3, Tids
    <3>4. CASE \E n \in lo .. hi : t[i] = Scripted(k, n)
      <4>1. PICK n \in lo .. hi : t[i] = Scripted(k, n)
        BY <3>4
      <4>2. t[i].tid = Tid(n) /\ n \in Nat /\ n < hi + 1
        BY <4>1, ScriptedIs
      <4> QED BY <3>1, <4>2, Tids
    <3> QED BY <3>2, <3>3, <3>4
  <2>2. CASE j # L + 1
    <3>1. j \in 1 .. L
      BY <2>2
    <3> QED BY <2>0, <3>1, <1>6, <1>9 DEF Numbered
  <2> QED BY <2>1, <2>2
<1>10. Numbered(k, t, lo, hi + 1)
  BY <1>6, <1>7, <1>8, <1>9 DEF Numbered
<1> QED BY <1>2, <1>4, <1>10

LEMMA MoreNoise ==
  ASSUME NEW k \in Kinds, NEW ms, NEW lo \in Nat, NEW hi \in Nat,
         Numbered(k, ms, lo, hi), hi >= 2, NEW x \in Noise
  PROVE  Numbered(k, Append(ms, [name |-> x, tid |-> 0]), lo, hi)
<1>1. ms \in Seq(Messages)
  BY DEF Numbered
<1>2. PICK m : m = [name |-> x, tid |-> 0]
  OBVIOUS
<1>3. m \in Messages /\ m.tid = 0 /\ m.name \in Noise
  BY <1>2 DEF Messages, Names
<1>4. PICK t : t = Append(ms, m)
  OBVIOUS
<1>5. PICK L \in Nat : L = Len(ms)
  BY <1>1, SeqTail
<1>6. /\ t \in Seq(Messages) /\ DOMAIN ms = 1 .. L /\ DOMAIN t = 1 .. L + 1
      /\ \A i \in 1 .. L : t[i] = ms[i]
      /\ t[L + 1] = m
  BY <1>1, <1>3, <1>4, <1>5, SeqAppend
<1>7. ASSUME NEW i \in 1 .. L + 1
      PROVE  \/ t[i].tid = 0 /\ t[i].name \in Noise /\ hi >= 2
             \/ \E n \in lo .. hi : t[i] = Scripted(k, n)
  <2>1. CASE i = L + 1
    BY <2>1, <1>3, <1>6
  <2>2. CASE i # L + 1
    <3>1. i \in 1 .. L
      BY <2>2
    <3> QED BY <3>1, <1>6 DEF Numbered
  <2> QED BY <2>1, <2>2
<1>8. ASSUME NEW n \in lo .. hi PROVE \E i \in 1 .. L + 1 : t[i] = Scripted(k, n)
  <2>1. PICK i \in 1 .. L : ms[i] = Scripted(k, n)
    BY <1>6 DEF Numbered
  <2> QED BY <2>1, <1>6
<1>9. ASSUME NEW i \in 1 .. L + 1, NEW j \in 1 .. L + 1, i < j, t[j].tid # 0
      PROVE  t[i].tid < t[j].tid
  <2>1. j # L + 1
    BY <1>3, <1>6, <1>9
  <2>2. i \in 1 .. L /\ j \in 1 .. L
    BY <2>1, <1>9
  <2> QED BY <2>2, <1>6, <1>9 DEF Numbered
<1>10. Numbered(k, t, lo, hi)
  BY <1>6, <1>7, <1>8, <1>9 DEF Numbered
<1> QED BY <1>2, <1>4, <1>10

-----------------------------------------------------------------------------
(* A step of the thread's program.                                         *)

LEMMA WantOps ==
  \A n \in Nat : n > 0 => Want(n).op # "send"
<1> TAKE n \in Nat
<1> HAVE n > 0
<1>1. n \in {1, 2, 3, 4, 5, 6, 7} \/ n > 7
  OBVIOUS
<1> QED BY <1>1, WantIs DEF Step, Expect

LEMMA TailRuns ==
  ASSUME NEW s, Program(s), s # <<>>, NEW l \in 1 .. Len(s) - 1
  PROVE  /\ Run(Tail(s), 0, l) <=> Run(s, 1, l + 1)
         /\ s[1].op = "send" => (Run(s, 0, l + 1) <=> Run(s, 1, l + 1))
<1>1. PICK n \in Nat : n = Len(s)
  BY TailIsProgram
<1>2. PICK t : t = Tail(s)
  OBVIOUS
<1>3. \A j \in 1 .. n - 1 : t[j] = s[j + 1]
  BY <1>1, <1>2, TailIsProgram
<1>4. ASSUME Run(t, 0, l) PROVE Run(s, 1, l + 1)
  <2> SUFFICES ASSUME NEW j \in 2 .. l PROVE s[j].op = "send"
    BY <1>1 DEF Run
  <2>1. j - 1 \in 0 + 1 .. l - 1 /\ j - 1 \in 1 .. n - 1 /\ (j - 1) + 1 = j
    BY <1>1
  <2> QED BY <1>3, <1>4, <2>1 DEF Run
<1>5. ASSUME Run(s, 1, l + 1) PROVE Run(t, 0, l)
  <2> SUFFICES ASSUME NEW j \in 0 + 1 .. l - 1 PROVE t[j].op = "send"
    BY <1>1 DEF Run
  <2>1. j + 1 \in 1 + 1 .. l + 1 - 1 /\ j \in 1 .. n - 1
    BY <1>1
  <2> QED BY <1>3, <1>5, <2>1 DEF Run
<1>6. ASSUME s[1].op = "send", Run(s, 1, l + 1) PROVE Run(s, 0, l + 1)
  <2> SUFFICES ASSUME NEW j \in 0 + 1 .. l + 1 - 1 PROVE s[j].op = "send"
    BY <1>1 DEF Run
  <2>1. j = 1 \/ j \in 1 + 1 .. l + 1 - 1
    BY <1>1
  <2> QED BY <1>6, <2>1 DEF Run
<1>7. ASSUME Run(s, 0, l + 1) PROVE Run(s, 1, l + 1)
  <2> SUFFICES ASSUME NEW j \in 1 + 1 .. l + 1 - 1 PROVE s[j].op = "send"
    BY <1>1 DEF Run
  <2>1. j \in 0 + 1 .. l + 1 - 1
    BY <1>1
  <2> QED BY <1>7, <2>1 DEF Run
<1> QED BY <1>2, <1>4, <1>5, <1>6, <1>7

\* Nothing is sent before a step that receives.
LEMMA NothingOwed ==
  ASSUME NEW s, Program(s), s # <<>>, s[1].op # "send"
  PROVE  \A l \in DOMAIN s : Run(s, 0, l) => l = 1 /\ ~IsResult(s[l])
<1>1. DOMAIN s = 1 .. Len(s) /\ Len(s) \in Nat
  BY DEF Program
<1> SUFFICES ASSUME NEW l \in 1 .. Len(s), Run(s, 0, l) PROVE l = 1
  BY <1>1 DEF IsResult
<1>2. ASSUME l # 1 PROVE 1 \in 0 + 1 .. l - 1
  BY <1>1, <1>2
<1> QED BY <1>2 DEF Run

LEMMA OwedNone ==
  ASSUME NEW k, NEW s, NEW sv, NEW os, NEW u,
         s = <<>> \/ (Program(s) /\ s[1].op # "send")
  PROVE  OwedMatch(k, s, sv, os, u)
<1>1. CASE s = <<>>
  BY <1>1 DEF OwedMatch
<1>2. CASE s # <<>>
  BY <1>2, NothingOwed DEF OwedMatch
<1> QED BY <1>1, <1>2

\* What the thread of a FMLE publisher receives is what it waits for.
LEMMA Waiting ==
  ASSUME NEW s, NEW acc, NEW u \in Nat, 0 < u, Program(s), s # <<>>, s[1].op # "send",
         InStep("fmle", s, acc, u)
  PROVE  u <= 8 + Medias /\ s[1] = Want(u)
<1>1. 1 \in DOMAIN s
  BY DEF Program
<1>2. u <= 8 + Medias
  BY <1>1 DEF InStep
<1>3. PICK l \in DOMAIN s : Run(s, 0, l) /\ s[l] = Want(u)
  BY <1>2 DEF InStep, Awaits
<1> QED BY <1>2, <1>3, NothingOwed

LEMMA WantReads ==
  ASSUME NEW n \in Nat, 0 < n, n <= 8 + Medias
  PROVE  /\ Want(n).op = "read" => n \in {1, 2}
         /\ Want(n).op = "expect" => n \in {3, 5, 6, 7}
         /\ Want(n).op = "identify" => n = 4 /\ Want(n).what = "client"
         /\ Want(n).op = "publish" => n >= 8
         /\ Want(n).op # "play"
<1>1. n \in {1, 2, 3, 4, 5, 6, 7} \/ n > 7
  OBVIOUS
<1> QED BY <1>1, WantIs DEF Step, Expect

\* After a request that is read, the next one is awaited.
LEMMA NextAwaited ==
  ASSUME NEW s, Program(s), s # <<>>, NEW acc, NEW n \in {1, 2, 3, 5, 6, 7}, s[1] = Want(n),
         InStep("fmle", s, acc, n)
  PROVE  InStep("fmle", Tail(s), acc, n + 1)
<1>1. 1 \in DOMAIN s
  BY DEF Program
<1>2. PICK l \in DOMAIN s : Run(s, 1, l) /\ s[l] = Want(n + 1)
  BY <1>1 DEF Program, Chained
<1>3. PICK L \in Nat : L = Len(s)
  BY TailIsProgram
<1>4. PICK t : t = Tail(s)
  OBVIOUS
<1>5. DOMAIN s = 1 .. L
  BY <1>3 DEF Program
<1>6. l - 1 \in 1 .. L - 1 /\ (l - 1) + 1 = l
  BY <1>2, <1>5 DEF Run
<1>7. PICK j \in 1 .. L - 1 : j = l - 1 /\ j + 1 = l
  BY <1>6
<1>8. Run(t, 0, j) /\ t[j] = Want(n + 1) /\ j \in DOMAIN t
  BY <1>2, <1>3, <1>4, <1>7, TailRuns, TailIsProgram
<1>9. Awaits(t, Want(n + 1))
  BY <1>8 DEF Awaits
<1>10. Medias \in Nat
  BY ClientConstants DEF ClientConstants
<1>11. n + 1 <= 8 + Medias /\ n <= 8 + Medias /\ Before(n + 1) = 0 /\ Before(n) = 0
  BY <1>10 DEF Before
<1>12. acc = [i \in 1 .. 0 |-> Tid(7 + i)]
  BY <1>11 DEF InStep
<1> QED BY <1>4, <1>9, <1>11, <1>12 DEF InStep

-----------------------------------------------------------------------------
(* Responses.                                                              *)

LEMMA SentLater ==
  ASSUME NEW k, NEW os, NEW u \in Nat, SentMatch(k, os, u)
  PROVE  SentMatch(k, os, u + 1)
<1>1. \A n \in 1 .. u - 1 : n \in 1 .. u + 1 - 1
  OBVIOUS
<1> QED BY <1>1 DEF SentMatch

\* Request u has not been answered while it is unread.
LEMMA NotAnswered ==
  ASSUME NEW k, NEW os, NEW u \in Nat, SentMatch(k, os, u)
  PROVE  \A i \in DOMAIN os : os[i].what \in Results => os[i].tid # Tid(u)
<1> SUFFICES ASSUME NEW i \in DOMAIN os, os[i].what \in Results
             PROVE  os[i].tid # Tid(u)
  OBVIOUS
<1>1. PICK n \in 1 .. u - 1 : AnswerTo(k, os[i].what, os[i].tid, n)
  BY DEF SentMatch
<1>2. os[i].tid = Tid(n) /\ n \in Nat /\ n < u
  BY <1>1 DEF AnswerTo
<1>3. Tid(n) < Tid(u) /\ Tid(n) \in Int /\ Tid(u) \in Int
  BY <1>2, Tids
<1> QED BY <1>2, <1>3

\* A response that is owed is sent.
LEMMA SentOwed ==
  ASSUME NEW k, NEW s, Program(s), s # <<>>, s[1].op = "send",
         NEW sv, NEW os \in Seq(Outs), NEW u \in Nat, NEW r \in Outs,
         r.what = s[1].what, r.tid = sv[s[1].var],
         SentMatch(k, os, u), OwedMatch(k, s, sv, os, u)
  PROVE  /\ SentMatch(k, Append(os, r), u)
         /\ OwedMatch(k, Tail(s), sv, Append(os, r), u)
<1>1. PICK ps : ps = Append(os, r)
  OBVIOUS
<1>2. PICK M \in Nat : M = Len(os)
  OBVIOUS
<1>3. /\ DOMAIN os = 1 .. M /\ DOMAIN ps = 1 .. M + 1
      /\ \A i \in 1 .. M : ps[i] = os[i]
      /\ ps[M + 1] = r
  BY <1>1, <1>2, SeqAppend
<1>4. 1 \in DOMAIN s /\ Run(s, 0, 1)
  BY DEF Program, Run
<1>5. r.what \in Results =>
        /\ \E n \in 1 .. u - 1 : AnswerTo(k, r.what, r.tid, n)
        /\ \A i \in 1 .. M : os[i].what \in Results => os[i].tid # r.tid
  BY <1>3, <1>4 DEF OwedMatch, IsResult
<1>6. SentMatch(k, ps, u)
  <2>1. ASSUME NEW i \in 1 .. M + 1, ps[i].what \in Results
        PROVE  \E n \in 1 .. u - 1 : AnswerTo(k, ps[i].what, ps[i].tid, n)
    <3>1. CASE i = M + 1
      BY <3>1, <2>1, <1>3, <1>5
    <3>2. CASE i # M + 1
      <4>1. i \in 1 .. M
        BY <3>2
      <4> QED BY <4>1, <2>1, <1>3 DEF SentMatch
    <3> QED BY <3>1, <3>2
  <2>2. ASSUME NEW i \in 1 .. M + 1, NEW j \in 1 .. M + 1,
               ps[i].what \in Results, ps[j].what \in Results, ps[i].tid = ps[j].tid
        PROVE  i = j
    <3>1. CASE i \in 1 .. M /\ j \in 1 .. M
      BY <3>1, <2>2, <1>3 DEF SentMatch
    <3>2. CASE i = M + 1 /\ j \in 1 .. M
      BY <3>2, <2>2, <1>3, <1>5
    <3>3. CASE i \in 1 .. M /\ j = M + 1
      BY <3>3, <2>2, <1>3, <1>5
    <3> QED BY <3>1, <3>2, <3>3
  <2> QED BY <2>1, <2>2, <1>3 DEF SentMatch
<1>7. PICK t : t = Tail(s)
  OBVIOUS
<1>8. PICK L \in Nat : L = Len(s)
  BY TailIsProgram
<1>9. DOMAIN t = 1 .. L - 1 /\ DOMAIN s = 1 .. L /\ \A l \in 1 .. L - 1 : t[l] = s[l + 1]
  BY <1>7, <1>8, TailIsProgram DEF Program
<1>10. OwedMatch(k, t, sv, ps, u)
  <2> SUFFICES ASSUME NEW l \in 1 .. L - 1, Run(t, 0, l), IsResult(t[l])
               PROVE  /\ \E n \in 1 .. u - 1 : AnswerTo(k, t[l].what, sv[t[l].var], n)
                      /\ \A i \in 1 .. M + 1 :
                           ps[i].what \in Results => ps[i].tid # sv[t[l].var]
    BY <1>3, <1>9 DEF OwedMatch
  <2>1. Run(s, 1, l + 1) /\ Run(s, 0, l + 1)
    BY <1>7, <1>8, TailRuns
  <2>2. l + 1 \in DOMAIN s /\ t[l] = s[l + 1]
    BY <1>9
  <2>3. ~IsResult(s[1])
    BY <1>4, <2>1, <2>2 DEF Program, Paired
  <2>4. r.what \notin Results
    BY <2>3 DEF IsResult
  <2>5. /\ \E n \in 1 .. u - 1 : AnswerTo(k, t[l].what, sv[t[l].var], n)
        /\ \A i \in 1 .. M : os[i].what \in Results => os[i].tid # sv[t[l].var]
    BY <2>1, <2>2, <1>3 DEF OwedMatch
  <2>6. ASSUME NEW i \in 1 .. M + 1, ps[i].what \in Results PROVE ps[i].tid # sv[t[l].var]
    <3>1. i \in 1 .. M
      BY <2>4, <2>6, <1>3
    <3> QED BY <3>1, <2>5, <2>6, <1>3
  <2> QED BY <2>5, <2>6
<1> QED BY <1>1, <1>6, <1>7, <1>10

LEMMA StillAwaited ==
  ASSUME NEW k, NEW s, Program(s), s # <<>>, s[1].op = "send", NEW acc, NEW u \in Nat, 0 < u,
         InStep(k, s, acc, u)
  PROVE  InStep(k, Tail(s), acc, u)
<1> SUFFICES ASSUME k = "fmle", Tail(s) # <<>>
             PROVE  IF u <= 8 + Medias THEN Awaits(Tail(s), Want(u))
                    ELSE \A l \in DOMAIN Tail(s) : Tail(s)[l].op = "send"
  BY DEF InStep
<1>1. PICK L \in Nat : L = Len(s)
  BY TailIsProgram
<1>2. PICK t : t = Tail(s)
  OBVIOUS
<1>3. DOMAIN t = 1 .. L - 1 /\ DOMAIN s = 1 .. L /\ \A l \in 1 .. L - 1 : t[l] = s[l + 1]
  BY <1>1, <1>2, TailIsProgram DEF Program
<1>4. CASE u <= 8 + Medias
  <2>1. PICK l \in 1 .. L : Run(s, 0, l) /\ s[l] = Want(u)
    BY <1>3, <1>4 DEF InStep, Awaits
  <2>2. l # 1
    BY <2>1, WantOps
  <2>3. PICK j \in 1 .. L - 1 : j + 1 = l
    <3>1. l - 1 \in 1 .. L - 1 /\ (l - 1) + 1 = l
      BY <2>2
    <3> QED BY <3>1
  <2>4. Run(t, 0, j) /\ t[j] = Want(u)
    BY <2>1, <2>3, <1>1, <1>2, <1>3, TailRuns
  <2> QED BY <2>4, <1>2, <1>3, <1>4 DEF Awaits
<1>5. CASE ~(u <= 8 + Medias)
  <2>1. \A l \in 1 .. L : s[l].op = "send"
    BY <1>3, <1>5 DEF InStep
  <2>2. \A l \in 1 .. L - 1 : t[l].op = "send"
    BY <2>1, <1>3
  <2> QED BY <2>2, <1>2, <1>3, <1>5
<1> QED BY <1>4, <1>5

\* After an expected request its result is owed, if one follows.
LEMMA OwedAfterExpect ==
  ASSUME NEW k \in Kinds, NEW s, Program(s), s # <<>>, s[1].op = "expect",
         NEW u \in Nat, u \in 1 .. Len(Script(k)), packet(Script(k)[u].name) = s[1].what,
         NEW sv \in [Locals -> Nat], sv["connect"] = 1,
         s[1].var # "none" => sv[s[1].var] = Tid(u),
         NEW os, SentMatch(k, os, u)
  PROVE  OwedMatch(k, Tail(s), sv, os, u + 1)
<1>1. PICK t : t = Tail(s)
  OBVIOUS
<1>2. PICK L \in Nat : L = Len(s)
  BY TailIsProgram
<1>3. DOMAIN t = 1 .. L - 1 /\ DOMAIN s = 1 .. L /\ \A l \in 1 .. L - 1 : t[l] = s[l + 1]
  BY <1>1, <1>2, TailIsProgram DEF Program
<1> SUFFICES ASSUME NEW l \in 1 .. L - 1, Run(t, 0, l), IsResult(t[l])
             PROVE  /\ \E n \in 1 .. u + 1 - 1 : AnswerTo(k, t[l].what, sv[t[l].var], n)
                    /\ \A i \in DOMAIN os :
                         os[i].what \in Results => os[i].tid # sv[t[l].var]
  BY <1>1, <1>3 DEF OwedMatch
<1>4. Run(s, 1, l + 1) /\ 1 \in DOMAIN s /\ l + 1 \in DOMAIN s /\ t[l] = s[l + 1]
  BY <1>1, <1>2, <1>3, TailRuns
<1>5. /\ s[1].what = Answers(t[l].what)
      /\ t[l].var = IF s[1].what = "connect" THEN "connect" ELSE s[1].var
      /\ t[l].var # "none"
  BY <1>4 DEF Program, Paired
<1>6. sv[t[l].var] = Tid(u)
  <2>1. CASE s[1].what = "connect"
    <3>1. u = 3
      BY <2>1, Scripts DEF Sound
    <3> QED BY <2>1, <3>1, <1>5 DEF Tid
  <2>2. CASE s[1].what # "connect"
    BY <2>2, <1>5
  <2> QED BY <2>1, <2>2
<1>7. AnswerTo(k, t[l].what, sv[t[l].var], u)
  BY <1>5, <1>6 DEF AnswerTo
<1> QED BY <1>6, <1>7, NotAnswered

\* After a step that keeps no transaction id no result is owed.
LEMMA OwedAfterRead ==
  ASSUME NEW k, NEW s, Program(s), s # <<>>, s[1].op \notin {"send", "expect"},
         NEW sv, NEW os, NEW u
  PROVE  OwedMatch(k, Tail(s), sv, os, u)
<1>1. PICK t : t = Tail(s)
  OBVIOUS
<1>2. PICK L \in Nat : L = Len(s)
  BY TailIsProgram
<1>3. DOMAIN t = 1 .. L - 1 /\ DOMAIN s = 1 .. L /\ \A l \in 1 .. L - 1 : t[l] = s[l + 1]
  BY <1>1, <1>2, TailIsProgram DEF Program
<1> SUFFICES ASSUME NEW l \in 1 .. L - 1, Run(t, 0, l), IsResult(t[l]) PROVE FALSE
  BY <1>1, <1>3 DEF OwedMatch
<1>4. Run(s, 1, l + 1) /\ 1 \in DOMAIN s /\ l + 1 \in DOMAIN s /\ t[l] = s[l + 1]
  BY <1>1, <1>2, <1>3, TailRuns
<1> QED BY <1>4 DEF Program, Paired

\* A program whose first result answers request u, which was just read.
LEMMA OwedFresh ==
  ASSUME NEW k, NEW s, NEW j \in DOMAIN s, NEW sv, NEW os, NEW u \in Nat, 0 < u,
         \A l \in DOMAIN s : Run(s, 0, l) /\ IsResult(s[l]) => l = j,
         packet(Script(k)[u].name) = Answers(s[j].what),
         sv[s[j].var] = Tid(u), SentMatch(k, os, u)
  PROVE  OwedMatch(k, s, sv, os, u + 1)
<1>1. AnswerTo(k, s[j].what, sv[s[j].var], u)
  BY DEF AnswerTo
<1>2. u \in 1 .. u + 1 - 1
  OBVIOUS
<1> QED BY <1>1, <1>2, NotAnswered DEF OwedMatch

-----------------------------------------------------------------------------
(* The requests of a FMLE publisher, and what the thread makes of them.    *)

LEMMA FmleReads ==
  ASSUME NEW n \in Nat, 0 < n, n <= 8 + Medias, NEW x, x = Script("fmle")[n].name
  PROVE  /\ n \in {3, 5, 6, 7} => packet(x) = Want(n).what
         /\ n = 4 => packet(x) = "FMLEStart"
         /\ n >= 8 /\ n <= 7 + Medias => x = "media"
         /\ n = 8 + Medias => x = "FCUnpublish"
<1>1. Medias \in Nat
  BY ClientConstants DEF ClientConstants
<1>2. x = FmleName(n)
  BY <1>1, FmleScript
<1>3. n \in {3, 5, 6, 7} => packet(x) = Want(n).what
  <2>1. CASE n = 3
    BY <2>1, <1>2, PacketIs, WantIs DEF FmleName, Expect
  <2>2. CASE n = 5
    BY <2>2, <1>2, PacketIs, WantIs DEF FmleName, Expect
  <2>3. CASE n = 6
    BY <2>3, <1>2, PacketIs, WantIs DEF FmleName, Expect
  <2>4. CASE n = 7
    BY <2>4, <1>2, PacketIs, WantIs DEF FmleName, Expect
  <2> QED BY <2>1, <2>2, <2>3, <2>4
<1>4. n = 4 => packet(x) = "FMLEStart"
  BY <1>2, PacketIs DEF FmleName
<1>5. n >= 8 /\ n <= 7 + Medias => x = "media"
  BY <1>1, <1>2 DEF FmleName
<1>6. n = 8 + Medias => x = "FCUnpublish"
  BY <1>1, <1>2 DEF FmleName
<1> QED BY <1>3, <1>4, <1>5, <1>6

\* u and v are the first unread requests before and after msg is taken.
Taken(u, v) ==
  /\ u \in Nat /\ v \in Nat /\ 0 < u
  /\ v \in 1 .. made + 1
  /\ msg \in Messages
  /\ \/ msg.tid = 0 /\ msg.name \in Noise /\ packet(msg.name) = "other"
          /\ msg.name # "media" /\ u >= 3 /\ v = u
     \/ msg = Scripted(kind, u) /\ v = u + 1 /\ u <= made
  /\ Numbered(kind, Tail(inbox), v, made)
  /\ SentMatch(kind, outs, u) /\ SentMatch(kind, outs, v)
  /\ OwedMatch(kind, todo, saved, outs, u)
  /\ InStep(kind, todo, accepted, u)

LEMMA TakeIs ==
  ASSUME IInv, inbox # <<>>
  PROVE  \E u, v : Taken(u, v)
<1>1. PICK u \in 1 .. made + 1 :
        /\ Numbered(kind, inbox, u, made)
        /\ SentMatch(kind, outs, u)
        /\ OwedMatch(kind, todo, saved, outs, u)
        /\ InStep(kind, todo, accepted, u)
  BY DEF IInv
<1>2. kind \in Kinds /\ made \in Nat /\ u \in Nat /\ 0 < u /\ u <= made + 1
  <2>1. kind \in Kinds /\ made \in 0 .. Len(Script(kind))
    BY DEF IInv, Types
  <2>2. Len(Script(kind)) \in Nat
    BY <2>1, Scripts DEF Sound
  <2> QED BY <2>1, <2>2
<1>3. CASE Head(inbox).tid = 0
  <2>1. /\ Head(inbox) \in Messages /\ Head(inbox).name \in Noise
        /\ u >= 3
        /\ Numbered(kind, Tail(inbox), u, made)
    BY <1>1, <1>2, <1>3, TakeNoise
  <2>2. packet(Head(inbox).name) = "other" /\ Head(inbox).name # "media"
    BY <2>1, ClientConstants DEF ClientConstants
  <2>3. Taken(u, u)
    BY <1>1, <1>2, <1>3, <2>1, <2>2 DEF Taken, msg
  <2> QED BY <2>3
<1>4. CASE Head(inbox).tid # 0
  <2>1. /\ Head(inbox) \in Messages
        /\ u <= made /\ Head(inbox) = Scripted(kind, u)
        /\ Numbered(kind, Tail(inbox), u + 1, made)
    BY <1>1, <1>2, <1>4, TakeScripted
  <2>2. SentMatch(kind, outs, u + 1)
    BY <1>1, <1>2, SentLater
  <2>3. Taken(u, u + 1)
    BY <1>1, <1>2, <2>1, <2>2 DEF Taken, msg
  <2> QED BY <2>3
<1> QED BY <1>3, <1>4

LEMMA TakenScripted ==
  ASSUME IInv, NEW u, NEW v, Taken(u, v), msg = Scripted(kind, u), u <= made
  PROVE  /\ u \in 1 .. Len(Script(kind)) /\ kind \in Kinds
         /\ msg.tid = Tid(u) /\ msg.name = Script(kind)[u].name
         /\ Sound(Script(kind))
         /\ packet(msg.name) # "other" => Tid(u) \in Nat
<1>1. kind \in Kinds /\ made \in 0 .. Len(Script(kind))
  BY DEF IInv, Types
<1>2. Sound(Script(kind))
  BY <1>1, Scripts
<1>3. u \in 1 .. Len(Script(kind)) /\ u \in Nat
  BY <1>1, <1>2 DEF Taken, Sound
<1>4. msg.tid = Tid(u) /\ msg.name = Script(kind)[u].name
  BY ScriptedIs
<1>5. packet(msg.name) # "other" => u >= 3
  BY <1>2, <1>3, <1>4 DEF Sound
<1> QED BY <1>1, <1>2, <1>3, <1>4, <1>5, Tids

LEMMA InitIInv ==
  ASSUME Init
  PROVE  IInv
<1>1. Program(todo)
  BY DoCycleProgram DEF Init
<1>2. Sound(Script(kind))
  BY Scripts DEF Init
<1>3. Types
  <2>1. saved \in [Locals -> Nat] /\ saved["connect"] = 1
    BY DEF Init, Locals
  <2>2. made \in 0 .. Len(Script(kind))
    BY <1>2 DEF Init, Sound
  <2> QED BY <1>1, <2>1, <2>2 DEF Init, Types
<1>4. made = 0 /\ reqs = <<>> /\ inbox = <<>> /\ outs = <<>> /\ accepted = <<>> /\ todo = do_cycle
  BY DEF Init
<1>5. Numbered(kind, <<>>, 1, 0)
  BY DEF Numbered
<1>6. SentMatch(kind, <<>>, 1)
  BY DEF SentMatch
<1>7. /\ todo[1] = Step("read", "c0c1") /\ 1 \in DOMAIN todo /\ todo # <<>>
  BY <1>4, DoCycle
<1>8. OwedMatch(kind, todo, saved, outs, 1)
  BY <1>1, <1>7, OwedNone DEF Step
<1>9. InStep(kind, todo, accepted, 1)
  <2>1. Awaits(todo, Want(1))
    BY <1>7, WantIs DEF Awaits, Run
  <2>2. Before(1) = 0 /\ 1 <= 8 + Medias
    BY ClientConstants DEF Before, ClientConstants
  <2>3. accepted = [i \in 1 .. 0 |-> Tid(7 + i)]
    BY <1>4
  <2> QED BY <2>1, <2>2, <2>3 DEF InStep
<1>10. 1 \in 1 .. made + 1
  BY <1>4
<1> QED BY <1>3, <1>4, <1>5, <1>6, <1>8, <1>9, <1>10 DEF IInv

LEMMA RequestStep ==
  ASSUME IInv, Request
  PROVE  IInv'
<1>1. PICK u \in 1 .. made + 1 :
        /\ Numbered(kind, inbox, u, made)
        /\ SentMatch(kind, outs, u)
        /\ OwedMatch(kind, todo, saved, outs, u)
        /\ InStep(kind, todo, accepted, u)
  BY DEF IInv
<1>2. kind \in Kinds /\ made \in Nat /\ made < Len(Script(kind)) /\ Len(Script(kind)) \in Nat
  <2>1. kind \in Kinds /\ made \in 0 .. Len(Script(kind))
    BY DEF IInv, Types
  <2>2. Len(Script(kind)) \in Nat
    BY <2>1, Scripts DEF Sound
  <2>3. Ready
    BY DEF Request
  <2>4. made < Len(Script(kind))
    BY <2>3 DEF Ready
  <2> QED BY <2>1, <2>2, <2>4
<1>3. /\ made' = made + 1
      /\ reqs' = Append(reqs, Scripted(kind, made + 1))
      /\ inbox' = Append(inbox, Scripted(kind, made + 1))
      /\ kind' = kind /\ todo' = todo /\ saved' = saved /\ accepted' = accepted
      /\ unfreed' = unfreed /\ outs' = outs
  BY DEF Request, Scripted, serverVars
<1>4. Types'
  BY <1>2, <1>3 DEF IInv, Types
<1>5. Numbered(kind, reqs', 1, made + 1)
  BY <1>2, <1>3, MoreScripted DEF IInv
<1>6. Numbered(kind, inbox', u, made + 1)
  BY <1>1, <1>2, <1>3, MoreScripted
<1>7. u \in 1 .. made' + 1
  BY <1>2, <1>3
<1> QED BY <1>1, <1>3, <1>4, <1>5, <1>6, <1>7 DEF IInv

LEMMA NoiseStep ==
  ASSUME IInv, SendNoise
  PROVE  IInv'
<1>1. PICK u \in 1 .. made + 1 :
        /\ Numbered(kind, inbox, u, made)
        /\ SentMatch(kind, outs, u)
        /\ OwedMatch(kind, todo, saved, outs, u)
        /\ InStep(kind, todo, accepted, u)
  BY DEF IInv
<1>2. kind \in Kinds /\ made \in Nat /\ made >= 2
  <2>1. kind \in Kinds /\ made \in 0 .. Len(Script(kind))
    BY DEF IInv, Types
  <2>2. Len(Script(kind)) \in Nat
    BY <2>1, Scripts DEF Sound
  <2> QED BY <2>1, <2>2 DEF SendNoise
<1>3. PICK x \in Noise : /\ reqs' = Append(reqs, [name |-> x, tid |-> 0])
                         /\ inbox' = Append(inbox, [name |-> x, tid |-> 0])
  BY DEF SendNoise
<1>4. /\ made' = made /\ kind' = kind /\ todo' = todo /\ saved' = saved
      /\ accepted' = accepted /\ unfreed' = unfreed /\ outs' = outs
  BY DEF SendNoise, serverVars
<1>5. Types'
  BY <1>4 DEF IInv, Types
<1>6. Numbered(kind, reqs', 1, made)
  BY <1>2, <1>3, MoreNoise DEF IInv
<1>7. Numbered(kind, inbox', u, made)
  BY <1>1, <1>2, <1>3, MoreNoise
<1> QED BY <1>1, <1>4, <1>5, <1>6, <1>7 DEF IInv

LEMMA ClientStops ==
  ASSUME IInv, FallSilent \/ Close \/ UNCHANGED vars
  PROVE  IInv'
<1>1. /\ made' = made /\ kind' = kind /\ todo' = todo /\ saved' = saved
      /\ accepted' = accepted /\ unfreed' = unfreed /\ outs' = outs
      /\ reqs' = reqs /\ inbox' = inbox
  BY DEF FallSilent, Close, vars, serverVars, clientVars
<1> QED BY <1>1 DEF IInv, Types

-----------------------------------------------------------------------------
(* The steps of the thread.                                                *)

LEMMA Resume ==
  ASSUME IInv, UNCHANGED clientVars, Program(todo'),
         saved' \in [Locals -> Nat], saved'["connect"] = 1,
         accepted' \in Seq(Int), unfreed' \in Nat, outs' \in Seq(Outs),
         NEW v \in 1 .. made + 1,
         Numbered(kind, inbox', v, made), SentMatch(kind, outs', v),
         OwedMatch(kind, todo', saved', outs', v), InStep(kind, todo', accepted', v)
  PROVE  IInv'
<1>1. kind' = kind /\ made' = made /\ reqs' = reqs
  BY DEF clientVars
<1>2. Types'
  BY <1>1 DEF IInv, Types
<1>3. Numbered(kind, reqs, 1, made)
  BY DEF IInv
<1> QED BY <1>1, <1>2, <1>3 DEF IInv

LEMMA Over ==
  ASSUME NEW k, NEW sv, NEW os, NEW acc, NEW v
  PROVE  /\ Program(<<>>)
         /\ OwedMatch(k, <<>>, sv, os, v) /\ InStep(k, <<>>, acc, v)
<1>1. InStep(k, <<>>, acc, v)
  BY DEF InStep
<1> QED BY <1>1, EndedIsProgram, OwedNone

LEMMA SendStep ==
  ASSUME IInv, send_message
  PROVE  IInv'
<1>1. PICK u \in 1 .. made + 1 :
        /\ Numbered(kind, inbox, u, made)
        /\ SentMatch(kind, outs, u)
        /\ OwedMatch(kind, todo, saved, outs, u)
        /\ InStep(kind, todo, accepted, u)
  BY DEF IInv
<1>2. /\ Program(todo) /\ todo # <<>> /\ Head(todo).op = "send"
      /\ saved \in [Locals -> Nat] /\ saved["connect"] = 1
      /\ accepted \in Seq(Int) /\ unfreed \in Nat /\ outs \in Seq(Outs)
      /\ saved' = saved /\ accepted' = accepted /\ unfreed' = unfreed /\ inbox' = inbox
      /\ UNCHANGED clientVars
  BY DEF IInv, Types, send_message, At, Alive
<1>3. /\ Head(todo) = todo[1] /\ todo[1] \in Ops /\ Program(Tail(todo))
  BY <1>2, TailIsProgram
<1>4. u \in Nat /\ 0 < u
  <2>1. kind \in Kinds /\ made \in 0 .. Len(Script(kind))
    BY DEF IInv, Types
  <2>2. Len(Script(kind)) \in Nat
    BY <2>1, Scripts DEF Sound
  <2> QED BY <2>1, <2>2
<1>5. CASE /\ todo' = Tail(todo)
           /\ outs' = Append(outs, [what |-> Head(todo).what, tid |-> saved[Head(todo).var]])
  <2>1. PICK r : r = [what |-> todo[1].what, tid |-> saved[todo[1].var]]
    OBVIOUS
  <2>2. todo[1].what \in Whats /\ todo[1].var \in Locals
    BY <1>3 DEF Ops
  <2>3. r \in Outs /\ r.what = todo[1].what /\ r.tid = saved[todo[1].var]
    BY <2>1, <2>2, <1>2 DEF Outs
  <2>4. outs' = Append(outs, r) /\ outs' \in Seq(Outs)
    BY <1>2, <1>3, <1>5, <2>1, <2>3
  <2>5. /\ SentMatch(kind, Append(outs, r), u)
        /\ OwedMatch(kind, Tail(todo), saved, Append(outs, r), u)
    BY <1>1, <1>2, <1>3, <1>4, <2>3, SentOwed
  <2>6. InStep(kind, Tail(todo), accepted, u)
    BY <1>1, <1>2, <1>3, <1>4, StillAwaited
  <2> QED BY <1>1, <1>2, <1>3, <1>5, <2>4, <2>5, <2>6, Resume
<1>6. CASE closed /\ Ended /\ UNCHANGED outs
  <2>1. todo' = <<>> /\ outs' = outs
    BY <1>6 DEF Ended
  <2> QED BY <1>1, <1>2, <2>1, Over, Resume
<1> QED BY <1>5, <1>6 DEF send_message

LEMMA StopStep ==
  ASSUME IInv, Eof \/ RecvTimeout
  PROVE  IInv'
<1>1. PICK u \in 1 .. made + 1 : Numbered(kind, inbox, u, made) /\ SentMatch(kind, outs, u)
  BY DEF IInv
<1>2. /\ todo' = <<>> /\ UNCHANGED clientVars
      /\ saved' = saved /\ accepted' = accepted /\ unfreed' = unfreed /\ outs' = outs
      /\ inbox' = inbox
  BY DEF Eof, RecvTimeout, Ended
<1>3. /\ saved \in [Locals -> Nat] /\ saved["connect"] = 1
      /\ accepted \in Seq(Int) /\ unfreed \in Nat /\ outs \in Seq(Outs)
  BY DEF IInv, Types
<1> QED BY <1>1, <1>2, <1>3, Over, Resume

\* The thread takes a message in a step that receives.
LEMMA Receive ==
  ASSUME IInv, NEW op, op # "send", At(op), Take
  PROVE  /\ Program(todo) /\ todo # <<>> /\ Head(todo) = todo[1] /\ todo[1].op = op
         /\ todo[1] \in Ops /\ Program(Tail(todo))
         /\ inbox' = Tail(inbox)
         /\ saved \in [Locals -> Nat] /\ saved["connect"] = 1
         /\ accepted \in Seq(Int) /\ unfreed \in Nat /\ outs \in Seq(Outs)
         /\ \E u, v : Taken(u, v)
<1>1. inbox # <<>> /\ inbox' = Tail(inbox)
  BY DEF Take
<1>2. Program(todo) /\ todo # <<>> /\ Head(todo).op = op
  BY DEF IInv, Types, At, Alive
<1>3. /\ saved \in [Locals -> Nat] /\ saved["connect"] = 1
      /\ accepted \in Seq(Int) /\ unfreed \in Nat /\ outs \in Seq(Outs)
  BY DEF IInv, Types
<1> QED BY <1>1, <1>2, <1>3, TailIsProgram, TakeIs

LEMMA ReadStep ==
  ASSUME IInv, read_fully
  PROVE  IInv'
<1>1. At("read") /\ Take /\ UNCHANGED clientVars /\ saved' = saved /\ accepted' = accepted
      /\ unfreed' = unfreed /\ outs' = outs
  BY DEF read_fully
<1>2. /\ Program(todo) /\ todo # <<>> /\ Head(todo) = todo[1] /\ todo[1].op = "read"
      /\ todo[1] \in Ops /\ Program(Tail(todo))
      /\ inbox' = Tail(inbox)
      /\ saved \in [Locals -> Nat] /\ saved["connect"] = 1
      /\ accepted \in Seq(Int) /\ unfreed \in Nat /\ outs \in Seq(Outs)
  BY <1>1, Receive
<1>3. PICK u, v : Taken(u, v)
  BY <1>1, Receive
<1>4. v \in 1 .. made + 1 /\ Numbered(kind, inbox', v, made) /\ SentMatch(kind, outs, v)
  BY <1>2, <1>3 DEF Taken
<1>5. CASE todo' = <<>>
  BY <1>1, <1>2, <1>4, <1>5, Over, Resume
<1>6. CASE todo' = Tail(todo)
  <2>1. OwedMatch(kind, Tail(todo), saved, outs, v)
    BY <1>2, OwedAfterRead
  <2>2. InStep(kind, Tail(todo), accepted, v)
    <3>1. CASE kind # "fmle"
      BY <3>1 DEF InStep
    <3>2. CASE kind = "fmle"
      <4>1. u <= 8 + Medias /\ todo[1] = Want(u) /\ u \in Nat /\ 0 < u
            /\ InStep("fmle", todo, accepted, u)
        BY <1>2, <1>3, <3>2, Waiting DEF Taken
      <4>2. u \in {1, 2}
        BY <1>2, <4>1, WantReads
      <4>3. v = u + 1
        BY <1>3, <4>2 DEF Taken
      <4> QED BY <1>2, <3>2, <4>1, <4>2, <4>3, NextAwaited
    <3> QED BY <3>1, <3>2
  <2> QED BY <1>1, <1>2, <1>4, <1>6, <2>1, <2>2, Resume
<1> QED BY <1>5, <1>6 DEF read_fully, Ended

LEMMA PlayStep ==
  ASSUME IInv, streaming_play
  PROVE  IInv'
<1>1. At("play") /\ Take /\ UNCHANGED clientVars /\ saved' = saved /\ accepted' = accepted
      /\ unfreed' = unfreed + 1 /\ outs' = outs /\ todo' = todo
  BY DEF streaming_play
<1>2. /\ Program(todo) /\ todo # <<>> /\ Head(todo) = todo[1] /\ todo[1].op = "play"
      /\ inbox' = Tail(inbox)
      /\ saved \in [Locals -> Nat] /\ saved["connect"] = 1
      /\ accepted \in Seq(Int) /\ unfreed \in Nat /\ outs \in Seq(Outs)
  BY <1>1, Receive
<1>3. PICK u, v : Taken(u, v)
  BY <1>1, Receive
<1>4. v \in 1 .. made + 1 /\ Numbered(kind, inbox', v, made) /\ SentMatch(kind, outs, v)
  BY <1>2, <1>3 DEF Taken
<1>5. OwedMatch(kind, todo, saved, outs, v)
  BY <1>2, OwedNone
<1>6. kind # "fmle"
  <2> SUFFICES ASSUME kind = "fmle" PROVE FALSE
    OBVIOUS
  <2>1. u <= 8 + Medias /\ todo[1] = Want(u) /\ u \in Nat /\ 0 < u
    BY <1>2, <1>3, Waiting DEF Taken
  <2> QED BY <1>2, <2>1, WantReads
<1>7. InStep(kind, todo, accepted, v)
  BY <1>6 DEF InStep
<1> QED BY <1>1, <1>2, <1>4, <1>5, <1>7, Resume

LEMMA ExpectStep ==
  ASSUME IInv, rss_rtmp_expect_message
  PROVE  IInv'
<1>1. At("expect") /\ Take /\ UNCHANGED clientVars /\ accepted' = accepted
      /\ unfreed' = unfreed /\ outs' = outs
  BY DEF rss_rtmp_expect_message
<1>2. /\ Program(todo) /\ todo # <<>> /\ Head(todo) = todo[1] /\ todo[1].op = "expect"
      /\ todo[1] \in Ops /\ Program(Tail(todo))
      /\ inbox' = Tail(inbox)
      /\ saved \in [Locals -> Nat] /\ saved["connect"] = 1
      /\ accepted \in Seq(Int) /\ unfreed \in Nat /\ outs \in Seq(Outs)
  BY <1>1, Receive
<1>3. PICK u, v : Taken(u, v)
  BY <1>1, Receive
<1>4. /\ v \in 1 .. made + 1 /\ Numbered(kind, inbox', v, made) /\ SentMatch(kind, outs, v)
      /\ SentMatch(kind, outs, u) /\ u \in Nat /\ 0 < u /\ msg \in Messages
  BY <1>2, <1>3 DEF Taken
<1>5. /\ todo[1].what # "other" /\ todo[1].var # "connect" /\ todo[1].var \in Locals
  <2>1. 1 \in DOMAIN todo
    BY <1>2 DEF Program
  <2> QED BY <1>2, <2>1 DEF Program, Expects, Ops
<1>6. \/ todo' = <<>> /\ saved' = saved
      \/ /\ packet(msg.name) = todo[1].what
         /\ todo' = <<>> \/ todo' = Tail(todo)
         /\ saved' = IF todo[1].var = "none" THEN saved
                     ELSE [saved EXCEPT ![todo[1].var] = msg.tid]
      \/ packet(msg.name) # todo[1].what /\ todo' = todo /\ saved' = saved
  BY <1>2 DEF rss_rtmp_expect_message, Ended
<1>7. CASE todo' = <<>> /\ saved' = saved
  BY <1>1, <1>2, <1>4, <1>7, Over, Resume
<1>8. CASE packet(msg.name) = todo[1].what /\ (todo' = <<>> \/ todo' = Tail(todo))
           /\ saved' = IF todo[1].var = "none" THEN saved
                       ELSE [saved EXCEPT ![todo[1].var] = msg.tid]
  <2>1. msg = Scripted(kind, u) /\ v = u + 1 /\ u <= made
    BY <1>3, <1>5, <1>8 DEF Taken
  <2>2. /\ u \in 1 .. Len(Script(kind)) /\ kind \in Kinds
        /\ msg.tid = Tid(u) /\ msg.name = Script(kind)[u].name
        /\ Tid(u) \in Nat
    BY <1>3, <1>5, <1>8, <2>1, TakenScripted
  <2>3. PICK var \in Locals : var = todo[1].var
    BY <1>5
  <2>4. /\ saved' \in [Locals -> Nat] /\ saved'["connect"] = 1
        /\ todo[1].var # "none" => saved'[todo[1].var] = Tid(u)
    <3>1. CASE var = "none"
      BY <1>2, <1>8, <2>3, <3>1
    <3>2. CASE var # "none"
      <4>1. saved' = [saved EXCEPT ![var] = Tid(u)]
        BY <1>8, <2>2, <2>3, <3>2
      <4> QED BY <1>2, <1>5, <2>2, <2>3, <4>1 DEF Locals
    <3> QED BY <3>1, <3>2
  <2>5. CASE todo' = <<>>
    BY <1>1, <1>2, <1>4, <2>4, <2>5, Over, Resume
  <2>6. CASE todo' = Tail(todo)
    <3>1. PICK sv : sv = saved'
      OBVIOUS
    <3>2. OwedMatch(kind, Tail(todo), sv, outs, u + 1)
      BY <1>2, <1>4, <1>8, <2>2, <2>4, <3>1, OwedAfterExpect
    <3>3. InStep(kind, Tail(todo), accepted, v)
      <4>1. CASE kind # "fmle"
        BY <4>1 DEF InStep
      <4>2. CASE kind = "fmle"
        <5>1. u <= 8 + Medias /\ todo[1] = Want(u) /\ InStep("fmle", todo, accepted, u)
          BY <1>2, <1>3, <4>2, Waiting DEF Taken
        <5>2. u \in {3, 5, 6, 7}
          BY <1>2, <1>4, <5>1, WantReads
        <5> QED BY <1>2, <2>1, <4>2, <5>1, <5>2, NextAwaited
      <4> QED BY <4>1, <4>2
    <3> QED BY <1>1, <1>2, <1>4, <2>1, <2>4, <2>6, <3>1, <3>2, <3>3, Resume
  <2> QED BY <1>8, <2>5, <2>6
<1>9. CASE packet(msg.name) # todo[1].what /\ todo' = todo /\ saved' = saved
  <2>1. OwedMatch(kind, todo, saved, outs, v)
    BY <1>2, OwedNone
  <2>2. InStep(kind, todo, accepted, v)
    <3>1. CASE kind # "fmle"
      BY <3>1 DEF InStep
    <3>2. CASE kind = "fmle"
      <4>1. u <= 8 + Medias /\ todo[1] = Want(u) /\ InStep("fmle", todo, accepted, u)
        BY <1>2, <1>3, <3>2, Waiting DEF Taken
      <4>2. u \in {3, 5, 6, 7}
        BY <1>2, <1>4, <4>1, WantReads
      <4>3. msg # Scripted(kind, u)
        <5> SUFFICES ASSUME msg = Scripted(kind, u) PROVE FALSE
          OBVIOUS
        <5>1. msg.name = Script("fmle")[u].name
          BY <3>2, ScriptedIs
        <5> QED BY <1>4, <1>9, <4>1, <4>2, <5>1, FmleReads
      <4> QED BY <1>3, <3>2, <4>1, <4>3 DEF Taken
    <3> QED BY <3>1, <3>2
  <2> QED BY <1>1, <1>2, <1>4, <1>9, <2>1, <2>2, Resume
<1> QED BY <1>6, <1>7, <1>8, <1>9

LEMMA FmleFirst ==
  ASSUME NEW s, s = identify_fmle_publish_client
  PROVE  /\ 1 \in DOMAIN s /\ s[1].what = "FMLEStart_result" /\ s[1].var = "req_tid"
         /\ \A l \in DOMAIN s : Run(s, 0, l) /\ IsResult(s[l]) => l = 1
         /\ Awaits(s, Want(5))
<1>1. /\ DOMAIN s = 1 .. 10 /\ s[1].op = "send" /\ s[2].op = "send" /\ s[3].op = "expect"
      /\ s[2].what \notin Results
      /\ s[1].what = "FMLEStart_result" /\ s[1].var = "req_tid"
  BY FmleProgram DEF Send, Expect, Results
<1>2. ASSUME NEW l \in DOMAIN s, Run(s, 0, l), IsResult(s[l]) PROVE l = 1
  <2>1. l \in 1 .. 10 /\ l <= 3
    <3> SUFFICES ASSUME l > 3 PROVE FALSE
      BY <1>1
    <3>1. 3 \in 0 + 1 .. l - 1
      BY <1>1
    <3> QED BY <1>1, <1>2, <3>1 DEF Run
  <2> QED BY <1>1, <1>2, <2>1 DEF IsResult
<1>3. s[3] = Want(5)
  BY FmleProgram, WantIs
<1>4. Run(s, 0, 3)
  <2>1. \A j \in 0 + 1 .. 3 - 1 : j = 1 \/ j = 2
    OBVIOUS
  <2> QED BY <1>1, <2>1 DEF Run
<1> QED BY <1>1, <1>2, <1>3, <1>4 DEF Awaits

LEMMA CreateStreamFirst ==
  ASSUME NEW s, s = identify_create_stream_client
  PROVE  /\ 1 \in DOMAIN s /\ s[1].what = "createStream_result" /\ s[1].var = "req_tid"
         /\ \A l \in DOMAIN s : Run(s, 0, l) /\ IsResult(s[l]) => l = 1
<1>1. /\ DOMAIN s = 1 .. 2 /\ s[1].op = "send" /\ s[2].op = "identify"
      /\ s[1].what = "createStream_result" /\ s[1].var = "req_tid"
  BY CreateStreamProgram DEF Send, Step
<1> QED BY <1>1 DEF IsResult

LEMMA UnpublishFirst ==
  ASSUME NEW s, s = fmle_unpublish
  PROVE  /\ 2 \in DOMAIN s /\ s[2].what = "FMLEStart_result" /\ s[2].var = "unpublish_tid"
         /\ \A l \in DOMAIN s : Run(s, 0, l) /\ IsResult(s[l]) => l = 2
         /\ \A l \in DOMAIN s : s[l].op = "send"
<1>1. /\ DOMAIN s = 1 .. 3 /\ s[1].op = "send" /\ s[2].op = "send" /\ s[3].op = "send"
      /\ s[1].what \notin Results /\ s[3].what \notin Results
      /\ s[2].what = "FMLEStart_result" /\ s[2].var = "unpublish_tid"
  BY UnpublishProgram DEF Send, Results
<1> QED BY <1>1 DEF IsResult

LEMMA PlayFirst ==
  ASSUME NEW s, s = play_program
  PROVE  \A l \in DOMAIN s : ~IsResult(s[l])
<1>1. /\ DOMAIN s = 1 .. 7 /\ s[7].op = "play"
      /\ s[1].what \notin Results /\ s[2].what \notin Results /\ s[3].what \notin Results
      /\ s[4].what \notin Results /\ s[5].what \notin Results /\ s[6].what \notin Results
  BY PlayProgram DEF Send, Step, Results
<1> QED BY <1>1 DEF IsResult

LEMMA IdentifyStep ==
  ASSUME IInv, identify_client
  PROVE  IInv'
<1>1. At("identify") /\ Take /\ UNCHANGED clientVars /\ accepted' = accepted
      /\ unfreed' = unfreed /\ outs' = outs
  BY DEF identify_client
<1>2. /\ Program(todo) /\ todo # <<>> /\ Head(todo) = todo[1] /\ todo[1].op = "identify"
      /\ inbox' = Tail(inbox)
      /\ saved \in [Locals -> Nat] /\ saved["connect"] = 1
      /\ accepted \in Seq(Int) /\ unfreed \in Nat /\ outs \in Seq(Outs)
  BY <1>1, Receive
<1>3. PICK u, v : Taken(u, v)
  BY <1>1, Receive
<1>4. /\ v \in 1 .. made + 1 /\ Numbered(kind, inbox', v, made) /\ SentMatch(kind, outs, v)
      /\ SentMatch(kind, outs, u) /\ u \in Nat /\ 0 < u /\ msg \in Messages
  BY <1>2, <1>3 DEF Taken
<1>5. ASSUME kind = "fmle"
      PROVE  /\ u = 4 /\ InStep("fmle", todo, accepted, u) /\ u <= 8 + Medias
             /\ msg = Scripted(kind, u) => packet(msg.name) = "FMLEStart"
  <2>1. u <= 8 + Medias /\ todo[1] = Want(u) /\ InStep("fmle", todo, accepted, u)
    BY <1>2, <1>3, <1>5, Waiting DEF Taken
  <2>2. u = 4
    BY <1>2, <1>4, <2>1, WantReads
  <2>3. ASSUME msg = Scripted(kind, u) PROVE packet(msg.name) = "FMLEStart"
    <3>1. msg.name = Script("fmle")[u].name
      BY <1>5, <2>3, ScriptedIs
    <3> QED BY <1>4, <2>1, <2>2, <3>1, FmleReads
  <2> QED BY <2>1, <2>2, <2>3
<1>6. \/ todo' = <<>> /\ saved' = saved
      \/ /\ packet(msg.name) = "createStream"
         /\ todo' = identify_create_stream_client
         /\ saved' = [saved EXCEPT !["req_tid"] = msg.tid]
      \/ /\ packet(msg.name) = "FMLEStart"
         /\ todo' = identify_fmle_publish_client
         /\ saved' = [saved EXCEPT !["req_tid"] = msg.tid]
      \/ packet(msg.name) # "FMLEStart" /\ todo' = todo /\ saved' = saved
  BY DEF identify_client, Ended
<1>7. ASSUME packet(msg.name) \in {"createStream", "FMLEStart"},
             saved' = [saved EXCEPT !["req_tid"] = msg.tid]
      PROVE  /\ msg = Scripted(kind, u) /\ v = u + 1 /\ u <= made
             /\ msg.name = Script(kind)[u].name
             /\ saved' \in [Locals -> Nat] /\ saved'["connect"] = 1
             /\ saved'["req_tid"] = Tid(u)
  <2>1. msg = Scripted(kind, u) /\ v = u + 1 /\ u <= made
    BY <1>3, <1>7 DEF Taken
  <2>2. msg.tid = Tid(u) /\ msg.name = Script(kind)[u].name /\ Tid(u) \in Nat
    BY <1>3, <1>7, <2>1, TakenScripted
  <2>3. saved' = [saved EXCEPT !["req_tid"] = Tid(u)]
    BY <1>7, <2>2
  <2> QED BY <1>2, <2>1, <2>2, <2>3 DEF Locals
<1>8. CASE todo' = <<>> /\ saved' = saved
  BY <1>1, <1>2, <1>4, <1>8, Over, Resume
<1>9. CASE /\ packet(msg.name) = "createStream"
           /\ todo' = identify_create_stream_client
           /\ saved' = [saved EXCEPT !["req_tid"] = msg.tid]
  <2>1. PICK s, sv : s = todo' /\ sv = saved'
    OBVIOUS
  <2>2. /\ 1 \in DOMAIN s /\ s[1].what = "createStream_result" /\ s[1].var = "req_tid"
        /\ \A l \in DOMAIN s : Run(s, 0, l) /\ IsResult(s[l]) => l = 1
        /\ Program(s)
    BY <1>9, <2>1, CreateStreamFirst, CreateStreamIsProgram
  <2>3. packet(Script(kind)[u].name) = Answers(s[1].what) /\ sv[s[1].var] = Tid(u)
    BY <1>7, <1>9, <2>1, <2>2, AnswersIs
  <2>4. OwedMatch(kind, s, sv, outs, u + 1)
    BY <1>4, <2>2, <2>3, OwedFresh
  <2>5. InStep(kind, s, accepted, v)
    <3>1. kind # "fmle"
      BY <1>5, <1>7, <1>9
    <3> QED BY <3>1 DEF InStep
  <2> QED BY <1>1, <1>2, <1>4, <1>7, <1>9, <2>1, <2>2, <2>4, <2>5, Resume
<1>10. CASE /\ packet(msg.name) = "FMLEStart"
            /\ todo' = identify_fmle_publish_client
            /\ saved' = [saved EXCEPT !["req_tid"] = msg.tid]
  <2>1. PICK s, sv : s = todo' /\ sv = saved'
    OBVIOUS
  <2>2. /\ 1 \in DOMAIN s /\ s[1].what = "FMLEStart_result" /\ s[1].var = "req_tid"
        /\ \A l \in DOMAIN s : Run(s, 0, l) /\ IsResult(s[l]) => l = 1
        /\ Awaits(s, Want(5))
        /\ Program(s)
    BY <1>10, <2>1, FmleFirst, FmleIsProgram
  <2>3. packet(Script(kind)[u].name) = Answers(s[1].what) /\ sv[s[1].var] = Tid(u)
    BY <1>7, <1>10, <2>1, <2>2, AnswersIs
  <2>4. OwedMatch(kind, s, sv, outs, u + 1)
    BY <1>4, <2>2, <2>3, OwedFresh
  <2>5. InStep(kind, s, accepted, v)
    <3>1. CASE kind # "fmle"
      BY <3>1 DEF InStep
    <3>2. CASE kind = "fmle"
      <4>1. u = 4 /\ v = 5 /\ InStep("fmle", todo, accepted, 4)
        BY <1>5, <1>7, <1>10, <3>2
      <4>2. Medias \in Nat
        BY ClientConstants DEF ClientConstants
      <4>3. Before(4) = 0 /\ Before(5) = 0 /\ 5 <= 8 + Medias
        BY <4>2 DEF Before
      <4>4. accepted = [i \in 1 .. Before(4) |-> Tid(7 + i)]
        BY <1>2, <4>1 DEF InStep
      <4> QED BY <2>2, <4>1, <4>3, <4>4 DEF InStep
    <3> QED BY <3>1, <3>2
  <2> QED BY <1>1, <1>2, <1>4, <1>7, <1>10, <2>1, <2>2, <2>4, <2>5, Resume
<1>11. CASE packet(msg.name) # "FMLEStart" /\ todo' = todo /\ saved' = saved
  <2>1. OwedMatch(kind, todo, saved, outs, v)
    BY <1>2, OwedNone
  <2>2. InStep(kind, todo, accepted, v)
    <3>1. CASE kind # "fmle"
      BY <3>1 DEF InStep
    <3>2. CASE kind = "fmle"
      BY <1>3, <1>5, <1>11, <3>2 DEF Taken
    <3> QED BY <3>1, <3>2
  <2> QED BY <1>1, <1>2, <1>4, <1>11, <2>1, <2>2, Resume
<1> QED BY <1>6, <1>8, <1>9, <1>10, <1>11

LEMMA IdentifyPlayStep ==
  ASSUME IInv, identify_play
  PROVE  IInv'
<1>1. At("identify") /\ Take /\ UNCHANGED clientVars /\ accepted' = accepted
      /\ unfreed' = unfreed /\ outs' = outs /\ saved' = saved
      /\ Head(todo).what = "create_stream"
  BY DEF identify_play
<1>2. /\ Program(todo) /\ todo # <<>> /\ Head(todo) = todo[1] /\ todo[1].op = "identify"
      /\ inbox' = Tail(inbox)
      /\ saved \in [Locals -> Nat] /\ saved["connect"] = 1
      /\ accepted \in Seq(Int) /\ unfreed \in Nat /\ outs \in Seq(Outs)
  BY <1>1, Receive
<1>3. PICK u, v : Taken(u, v)
  BY <1>1, Receive
<1>4. /\ v \in 1 .. made + 1 /\ Numbered(kind, inbox', v, made) /\ SentMatch(kind, outs, v)
      /\ u \in Nat /\ 0 < u
  BY <1>2, <1>3 DEF Taken
<1>5. kind # "fmle"
  <2> SUFFICES ASSUME kind = "fmle" PROVE FALSE
    OBVIOUS
  <2>1. u <= 8 + Medias /\ todo[1] = Want(u)
    BY <1>2, <1>3, Waiting DEF Taken
  <2> QED BY <1>1, <1>2, <1>4, <2>1, WantReads
<1>6. todo' = <<>> \/ todo' = play_program \/ todo' = todo
  BY DEF identify_play, play_program, Ended
<1>7. CASE todo' = <<>>
  BY <1>1, <1>2, <1>4, <1>7, Over, Resume
<1>8. CASE todo' = play_program
  <2>1. PICK s : s = todo'
    OBVIOUS
  <2>2. Program(s) /\ OwedMatch(kind, s, saved, outs, v)
    BY <1>8, <2>1, PlayIsProgram, PlayFirst DEF OwedMatch
  <2>3. InStep(kind, s, accepted, v)
    BY <1>5 DEF InStep
  <2> QED BY <1>1, <1>2, <1>4, <2>1, <2>2, <2>3, Resume
<1>9. CASE todo' = todo
  <2>1. OwedMatch(kind, todo, saved, outs, v)
    BY <1>2, OwedNone
  <2>2. InStep(kind, todo, accepted, v)
    BY <1>5 DEF InStep
  <2> QED BY <1>1, <1>2, <1>4, <1>9, <2>1, <2>2, Resume
<1> QED BY <1>6, <1>7, <1>8, <1>9

\* The next media message of a FMLE publisher.
LEMMA AcceptedMore ==
  ASSUME NEW acc \in Seq(Int), NEW u \in Nat, u >= 8, u <= 7 + Medias,
         acc = [i \in 1 .. Before(u) |-> Tid(7 + i)]
  PROVE  Append(acc, Tid(u)) = [i \in 1 .. Before(u + 1) |-> Tid(7 + i)]
<1>1. Medias \in Nat
  BY ClientConstants DEF ClientConstants
<1>2. Before(u) = u - 8 /\ Before(u + 1) = u - 7
  BY <1>1 DEF Before
<1>3. PICK b \in Nat : b = u - 8
  OBVIOUS
<1>4. PICK x \in Int : x = Tid(u)
  BY Tids
<1>a. PICK a \in Seq(Int) : a = acc
  OBVIOUS
<1>5. PICK r : r = Append(a, x)
  OBVIOUS
<1>6. DOMAIN a = 1 .. b /\ \A i \in 1 .. b : a[i] = Tid(7 + i)
  BY <1>2, <1>3, <1>a
<1>7. Len(a) = b
  <2>1. DOMAIN a = 1 .. Len(a) /\ Len(a) \in Nat
    OBVIOUS
  <2> QED BY <1>6, <2>1
<1>8. /\ r \in Seq(Int) /\ DOMAIN r = 1 .. b + 1
      /\ \A i \in 1 .. b : r[i] = a[i]
      /\ r[b + 1] = x
  BY <1>4, <1>5, <1>7, SeqAppend
<1>9. \A i \in 1 .. b + 1 : r[i] = Tid(7 + i)
  <2> TAKE i \in 1 .. b + 1
  <2>1. CASE i = b + 1
    <3>1. 7 + i = u
      BY <2>1, <1>3
    <3> QED BY <2>1, <3>1, <1>4, <1>8
  <2>2. CASE i # b + 1
    <3>1. i \in 1 .. b
      BY <2>2
    <3> QED BY <3>1, <1>6, <1>8
  <2> QED BY <2>1, <2>2
<1>10. r = [i \in 1 .. b + 1 |-> Tid(7 + i)]
  BY <1>8, <1>9
<1>11. b + 1 = u - 7
  BY <1>3
<1> QED BY <1>2, <1>4, <1>5, <1>a, <1>10, <1>11

LEMMA PublishStep ==
  ASSUME IInv, streaming_publish
  PROVE  IInv'
<1>1. At("publish") /\ Take /\ UNCHANGED clientVars /\ unfreed' = unfreed /\ outs' = outs
      /\ accepted' = IF msg.name = "media" THEN Append(accepted, msg.tid) ELSE accepted
  BY DEF streaming_publish
<1>2. /\ Program(todo) /\ todo # <<>> /\ Head(todo) = todo[1] /\ todo[1].op = "publish"
      /\ inbox' = Tail(inbox)
      /\ saved \in [Locals -> Nat] /\ saved["connect"] = 1
      /\ accepted \in Seq(Int) /\ unfreed \in Nat /\ outs \in Seq(Outs)
  BY <1>1, Receive
<1>3. PICK u, v : Taken(u, v)
  BY <1>1, Receive
<1>4. /\ v \in 1 .. made + 1 /\ Numbered(kind, inbox', v, made) /\ SentMatch(kind, outs, v)
      /\ SentMatch(kind, outs, u) /\ u \in Nat /\ 0 < u /\ msg \in Messages
  BY <1>2, <1>3 DEF Taken
<1>5. accepted' \in Seq(Int)
  <2>1. msg.tid \in Int
    BY <1>4 DEF Messages
  <2> QED BY <1>1, <1>2, <2>1
<1>6. ASSUME kind = "fmle"
      PROVE  /\ u \in 8 .. 8 + Medias
             /\ Awaits(todo, Want(u))
             /\ accepted = [i \in 1 .. Before(u) |-> Tid(7 + i)]
  <2>1. u <= 8 + Medias /\ todo[1] = Want(u) /\ InStep("fmle", todo, accepted, u)
    BY <1>2, <1>3, <1>6, Waiting DEF Taken
  <2>2. u >= 8
    BY <1>2, <1>4, <2>1, WantReads
  <2>3. Medias \in Nat
    BY ClientConstants DEF ClientConstants
  <2>4. u \in 8 .. 8 + Medias
    BY <1>4, <2>1, <2>2, <2>3
  <2> QED BY <1>2, <2>1, <2>4 DEF InStep
<1>7. \/ todo' = <<>> /\ saved' = saved
      \/ /\ packet(msg.name) = "FMLEStart"
         /\ todo' = fmle_unpublish
         /\ saved' = [saved EXCEPT !["unpublish_tid"] = msg.tid]
      \/ packet(msg.name) # "FMLEStart" /\ todo' = todo /\ saved' = saved
  BY DEF streaming_publish, Ended
<1>8. CASE todo' = <<>> /\ saved' = saved
  BY <1>1, <1>2, <1>4, <1>5, <1>8, Over, Resume
<1>9. CASE /\ packet(msg.name) = "FMLEStart"
           /\ todo' = fmle_unpublish
           /\ saved' = [saved EXCEPT !["unpublish_tid"] = msg.tid]
  <2>1. msg = Scripted(kind, u) /\ v = u + 1 /\ u <= made
    BY <1>3, <1>9 DEF Taken
  <2>2. msg.tid = Tid(u) /\ msg.name = Script(kind)[u].name /\ Tid(u) \in Nat
    BY <1>3, <1>9, <2>1, TakenScripted
  <2>3. PICK s, sv : s = todo' /\ sv = saved'
    OBVIOUS
  <2>4. sv = [saved EXCEPT !["unpublish_tid"] = Tid(u)]
    BY <1>9, <2>2, <2>3
  <2>5. sv \in [Locals -> Nat] /\ sv["connect"] = 1 /\ sv["unpublish_tid"] = Tid(u)
    BY <1>2, <2>2, <2>4 DEF Locals
  <2>6. /\ 2 \in DOMAIN s /\ s[2].what = "FMLEStart_result" /\ s[2].var = "unpublish_tid"
        /\ \A l \in DOMAIN s : Run(s, 0, l) /\ IsResult(s[l]) => l = 2
        /\ \A l \in DOMAIN s : s[l].op = "send"
        /\ Program(s)
    BY <1>9, <2>3, UnpublishFirst, UnpublishIsProgram
  <2>7. packet(Script(kind)[u].name) = Answers(s[2].what) /\ sv[s[2].var] = Tid(u)
    BY <1>9, <2>2, <2>5, <2>6, AnswersIs
  <2>8. OwedMatch(kind, s, sv, outs, u + 1)
    BY <1>4, <2>6, <2>7, OwedFresh
  <2>9. InStep(kind, s, accepted', v)
    <3>1. CASE kind # "fmle"
      BY <3>1 DEF InStep
    <3>2. CASE kind = "fmle"
      <4>1. Medias \in Nat
        BY ClientConstants DEF ClientConstants
      <4>2. u \in 8 .. 8 + Medias /\ accepted = [i \in 1 .. Before(u) |-> Tid(7 + i)]
        BY <1>6, <3>2
      <4>3. msg.name # "media"
        BY <1>9, PacketIs
      <4>4. u = 8 + Medias
        BY <1>4, <2>2, <3>2, <4>1, <4>2, <4>3, FmleReads
      <4>5. Before(u) = Medias /\ Before(v) = Medias /\ ~(v <= 8 + Medias)
        BY <2>1, <4>1, <4>4 DEF Before
      <4>6. accepted' = [i \in 1 .. Before(v) |-> Tid(7 + i)]
        BY <1>1, <4>2, <4>3, <4>5
      <4> QED BY <2>6, <4>5, <4>6 DEF InStep
    <3> QED BY <3>1, <3>2
  <2> QED BY <1>1, <1>2, <1>4, <1>5, <2>1, <2>3, <2>5, <2>6, <2>8, <2>9, Resume
<1>10. CASE packet(msg.name) # "FMLEStart" /\ todo' = todo /\ saved' = saved
  <2>1. OwedMatch(kind, todo, saved, outs, v)
    BY <1>2, OwedNone
  <2>2. InStep(kind, todo, accepted', v)
    <3>1. CASE kind # "fmle"
      BY <3>1 DEF InStep
    <3>2. CASE kind = "fmle"
      <4>1. Medias \in Nat
        BY ClientConstants DEF ClientConstants
      <4>2. u \in 8 .. 8 + Medias /\ accepted = [i \in 1 .. Before(u) |-> Tid(7 + i)]
            /\ Awaits(todo, Want(u))
        BY <1>6, <3>2
      <4>3. CASE v = u
        <5>1. msg.name # "media"
          BY <1>3, <4>3 DEF Taken
        <5> QED BY <1>1, <4>2, <4>3, <5>1, <1>3 DEF InStep, Taken
      <4>4. CASE v # u
        <5>1. msg = Scripted(kind, u) /\ v = u + 1 /\ u <= made
          BY <1>3, <4>4 DEF Taken
        <5>2. msg.tid = Tid(u) /\ msg.name = Script("fmle")[u].name
          BY <3>2, <5>1, ScriptedIs
        <5>3. u # 8 + Medias
          BY <1>4, <1>10, <4>1, <4>2, <5>2, FmleReads, PacketIs
        <5>4. u >= 8 /\ u <= 7 + Medias
          BY <1>4, <4>1, <4>2, <5>3
        <5>5. msg.name = "media"
          BY <1>4, <4>1, <5>2, <5>4, FmleReads
        <5>6. accepted' = [i \in 1 .. Before(u + 1) |-> Tid(7 + i)]
          BY <1>1, <1>2, <1>4, <4>2, <5>2, <5>4, <5>5, AcceptedMore
        <5>7. Want(u) = Want(u + 1) /\ u + 1 <= 8 + Medias
          BY <1>4, <4>1, <5>4, WantIs
        <5> QED BY <4>2, <5>1, <5>6, <5>7 DEF InStep
      <4> QED BY <4>3, <4>4
    <3> QED BY <3>1, <3>2
  <2> QED BY <1>1, <1>2, <1>4, <1>5, <1>10, <2>1, <2>2, Resume
<1> QED BY <1>7, <1>8, <1>9, <1>10

LEMMA Inductive ==
  FairSpec => []IInv
<1>1. Init => IInv
  BY InitIInv
<1>2. IInv /\ [Next]_vars => IInv'
  BY RequestStep, NoiseStep, ClientStops, SendStep, ReadStep, ExpectStep, IdentifyStep,
     IdentifyPlayStep, PlayStep, PublishStep, StopStep DEF Next
<1> QED BY <1>1, <1>2, PTL DEF FairSpec

-----------------------------------------------------------------------------
(* The media messages among numbered ones.                                 *)

\* p counts off the n elements of P.
Counts(p, n, P) ==
  /\ p \in [1 .. n -> P]
  /\ \A i \in P : \E j \in 1 .. n : p[j] = i
  /\ \A i, j \in 1 .. n : p[i] = p[j] => i = j

LEMMA Counted ==
  ASSUME NEW P, NEW n \in Nat, NEW p, Counts(p, n, P)
  PROVE  Cardinality(P) = n
<1>1. p \in Bijection(1 .. n, P)
  BY DEF Counts, Bijection, Injection, Surjection, IsInjective
<1>2. ExistsBijection(1 .. n, P)
  BY <1>1 DEF ExistsBijection
<1> QED BY <1>2, FS_CountingElements

\* p lists the n elements of P in their order.
Lists(p, n, P) ==
  /\ P \subseteq Nat
  /\ p \in [1 .. n -> P]
  /\ \A i \in P : \E j \in 1 .. n : p[j] = i
  /\ \A i, j \in 1 .. n : i < j => p[i] < p[j]

LEMMA Ordered ==
  ASSUME NEW P, NEW n \in Nat, NEW p, Lists(p, n, P)
  PROVE  /\ Cardinality(P) = n
         /\ \A j \in 1 .. n : (CHOOSE q \in P : Cardinality({i \in P : i <= q}) = j) = p[j]
<1>0. /\ P \subseteq Nat
      /\ p \in [1 .. n -> P]
      /\ \A i \in P : \E j \in 1 .. n : p[j] = i
      /\ \A i, j \in 1 .. n : i < j => p[i] < p[j]
  BY DEF Lists
<1> USE <1>0
<1>1. \A i \in 1 .. n : p[i] \in P /\ p[i] \in Nat
  OBVIOUS
<1>2. ASSUME NEW i \in 1 .. n, NEW j \in 1 .. n, p[i] = p[j] PROVE i = j
  <2>1. ~(i < j) /\ ~(j < i)
    BY <1>1, <1>2
  <2> QED BY <2>1
<1>3. Cardinality(P) = n
  <2>1. Counts(p, n, P)
    BY <1>2 DEF Counts
  <2> QED BY <2>1, Counted
<1>4. ASSUME NEW j \in 1 .. n PROVE Cardinality({i \in P : i <= p[j]}) = j
  <2>1. PICK Q : Q = {i \in P : i <= p[j]}
    OBVIOUS
  <2>2. PICK q : q = [i \in 1 .. j |-> p[i]]
    OBVIOUS
  <2>3. \A i \in 1 .. j : i \in 1 .. n /\ q[i] = p[i] /\ p[i] <= p[j]
    <3> TAKE i \in 1 .. j
    <3>1. i \in 1 .. n /\ (i < j \/ i = j)
      OBVIOUS
    <3> QED BY <3>1, <1>1, <2>2
  <2>4. q \in [1 .. j -> Q]
    BY <1>1, <2>1, <2>2, <2>3
  <2>5. ASSUME NEW i \in Q PROVE \E l \in 1 .. j : q[l] = i
    <3>1. i \in P /\ i <= p[j]
      BY <2>1, <2>5
    <3>2. PICK l \in 1 .. n : p[l] = i
      BY <3>1
    <3>3. ~(j < l)
      BY <1>1, <3>1, <3>2
    <3>4. l \in 1 .. j
      BY <3>3
    <3> QED BY <2>3, <3>2, <3>4
  <2>6. \A i, l \in 1 .. j : q[i] = q[l] => i = l
    BY <1>2, <2>3
  <2>7. j \in Nat
    OBVIOUS
  <2>8. Counts(q, j, Q)
    BY <2>4, <2>5, <2>6 DEF Counts
  <2> QED BY <2>1, <2>7, <2>8, Counted
<1>5. ASSUME NEW j \in 1 .. n
      PROVE  (CHOOSE q \in P : Cardinality({i \in P : i <= q}) = j) = p[j]
  <2>1. p[j] \in P /\ Cardinality({i \in P : i <= p[j]}) = j
    BY <1>1, <1>4
  <2>2. ASSUME NEW q \in P, Cardinality({i \in P : i <= q}) = j PROVE q = p[j]
    <3>1. PICK l \in 1 .. n : p[l] = q
      OBVIOUS
    <3>2. l = j
      BY <1>4, <2>2, <3>1
    <3> QED BY <3>1, <3>2
  <2> QED BY <2>1, <2>2
<1> QED BY <1>3, <1>5

LEMMA MediaNumbers ==
  ASSUME NEW lo \in Nat, NEW hi \in Nat, 0 < lo, lo <= hi + 1, hi <= 8 + Medias
  PROVE  /\ Before(lo) \in Nat /\ Before(hi + 1) - Before(lo) \in Nat
         /\ \A n \in Nat : (n \in lo .. hi /\ 8 <= n /\ n <= 7 + Medias)
                             <=> n \in 8 + Before(lo) .. 7 + Before(hi + 1)
<1>1. Medias \in Nat
  BY ClientConstants DEF ClientConstants
<1> QED BY <1>1 DEF Before

LEMMA FmleMedia ==
  ASSUME NEW n \in Nat, 0 < n, n <= 8 + Medias
  PROVE  Scripted("fmle", n).name = "media" <=> 8 <= n /\ n <= 7 + Medias
<1>1. Medias \in Nat
  BY ClientConstants DEF ClientConstants
<1>2. Scripted("fmle", n).name = FmleName(n)
  BY <1>1, FmleScript, ScriptedIs
<1> QED BY <1>1, <1>2 DEF FmleName

LEMMA MediaList ==
  ASSUME NEW ms, NEW lo \in Nat, NEW hi \in Nat, 0 < lo, lo <= hi + 1, hi <= 8 + Medias,
         Numbered("fmle", ms, lo, hi)
  PROVE  MediaOf(ms) = [i \in 1 .. Before(hi + 1) - Before(lo) |-> Tid(7 + Before(lo) + i)]
<1>1. PICK b \in Nat, n \in Nat : b = Before(lo) /\ n = Before(hi + 1) - Before(lo)
  BY MediaNumbers
<1>2. \A m \in Nat : (m \in lo .. hi /\ 8 <= m /\ m <= 7 + Medias) <=> m \in 8 + b .. 7 + b + n
  <2>1. Before(hi + 1) = b + n
    <3>1. Before(hi + 1) \in Int /\ Before(lo) \in Int
      BY ClientConstants DEF Before, ClientConstants
    <3> QED BY <1>1, <3>1
  <2>2. 7 + Before(hi + 1) = 7 + b + n
    BY <2>1
  <2> QED BY <1>1, <2>2, MediaNumbers
<1>3. ms \in Seq(Messages)
  BY DEF Numbered
<1>4. PICK L \in Nat : DOMAIN ms = 1 .. L
  BY <1>3
<1>5. PICK P : P = {i \in DOMAIN ms : ms[i].name = "media"}
  OBVIOUS
<1>6. P \subseteq Nat
  BY <1>4, <1>5
<1>7. ASSUME NEW j \in 1 .. n
      PROVE  \E i \in P : ms[i] = Scripted("fmle", 7 + b + j)
  <2>1. PICK m \in Nat : m = 7 + b + j
    OBVIOUS
  <2>2. m \in 8 + b .. 7 + b + n
    BY <2>1
  <2>3. m \in lo .. hi /\ 8 <= m /\ m <= 7 + Medias
    BY <1>2, <2>2
  <2>4. PICK i \in DOMAIN ms : ms[i] = Scripted("fmle", m)
    BY <2>3 DEF Numbered
  <2>5. m <= 8 + Medias /\ 0 < m
    BY <2>3, ClientConstants DEF ClientConstants
  <2>6. ms[i].name = "media"
    BY <2>3, <2>4, <2>5, FmleMedia
  <2> QED BY <1>5, <2>1, <2>4, <2>6
<1>8. PICK p : p = [j \in 1 .. n |-> CHOOSE i \in P : ms[i] = Scripted("fmle", 7 + b + j)]
  OBVIOUS
<1>9. \A j \in 1 .. n : p[j] \in P /\ ms[p[j]] = Scripted("fmle", 7 + b + j)
  BY <1>7, <1>8
<1>10. p \in [1 .. n -> P]
  BY <1>8, <1>9
<1>11. \A j \in 1 .. n : ms[p[j]].tid = Tid(7 + b + j)
  BY <1>9, ScriptedIs
<1>12. ASSUME NEW i \in DOMAIN ms, NEW j \in DOMAIN ms, ms[j].tid # 0, i < j
       PROVE  ms[i].tid < ms[j].tid
  BY <1>12 DEF Numbered
<1>13. ASSUME NEW i \in 1 .. n, NEW j \in 1 .. n, i < j PROVE p[i] < p[j]
  <2>1. PICK x \in Nat, y \in Nat : x = 7 + b + i /\ y = 7 + b + j
    OBVIOUS
  <2>2. x < y
    BY <2>1, <1>13
  <2>3. Tid(x) < Tid(y) /\ Tid(x) \in Int /\ Tid(y) \in Int /\ Tid(x) # 0
    BY <2>2, Tids
  <2>4. /\ ms[p[i]].tid = Tid(x) /\ ms[p[j]].tid = Tid(y)
        /\ p[i] \in DOMAIN ms /\ p[j] \in DOMAIN ms
    BY <1>5, <1>9, <1>11, <2>1
  <2>5. PICK f \in DOMAIN ms, g \in DOMAIN ms : f = p[i] /\ g = p[j]
    BY <2>4
  <2>6. f # g
    BY <2>3, <2>4, <2>5
  <2>7. ~(g < f)
    BY <1>12, <2>3, <2>4, <2>5
  <2> QED BY <1>4, <2>5, <2>6, <2>7
<1>14. ASSUME NEW i \in P PROVE \E j \in 1 .. n : p[j] = i
  <2>1. i \in DOMAIN ms /\ ms[i].name = "media"
    BY <1>5
  <2>2. ~(ms[i].name \in Noise)
    BY <2>1, ClientConstants DEF ClientConstants
  <2>3. PICK m \in lo .. hi : ms[i] = Scripted("fmle", m)
    BY <2>1, <2>2 DEF Numbered
  <2>4. m \in Nat /\ 0 < m /\ m <= 8 + Medias
    BY <2>3, ClientConstants DEF ClientConstants
  <2>5. 8 <= m /\ m <= 7 + Medias
    BY <2>1, <2>3, <2>4, FmleMedia
  <2>6. m \in 8 + b .. 7 + b + n
    BY <1>2, <2>3, <2>4, <2>5
  <2>7. PICK j \in 1 .. n : m = 7 + b + j
    <3>1. m - (7 + b) \in 1 .. n /\ m = 7 + b + (m - (7 + b))
      BY <2>4, <2>6
    <3> QED BY <3>1
  <2>8. ms[p[j]].tid = Tid(m) /\ ms[i].tid = Tid(m) /\ p[j] \in DOMAIN ms
    BY <1>5, <1>9, <1>11, <2>3, <2>7, ScriptedIs
  <2>9. Tid(m) # 0 /\ Tid(m) \in Int
    BY <2>4, Tids
  <2>10. PICK f \in DOMAIN ms : f = p[j]
    BY <2>8
  <2>11. ~(f < i) /\ ~(i < f)
    BY <1>12, <2>1, <2>8, <2>9, <2>10
  <2>12. f = i
    BY <1>4, <2>1, <2>11
  <2> QED BY <2>10, <2>12
<1>15. /\ Cardinality(P) = n
       /\ \A j \in 1 .. n : (CHOOSE q \in P : Cardinality({i \in P : i <= q}) = j) = p[j]
  <2>1. Lists(p, n, P)
    BY <1>6, <1>10, <1>13, <1>14 DEF Lists
  <2> QED BY <2>1, Ordered
<1>16. MediaOf(ms) = [j \in 1 .. Cardinality(P) |->
                        ms[CHOOSE q \in P : Cardinality({i \in P : i <= q}) = j].tid]
  BY <1>5 DEF MediaOf
<1>17. MediaOf(ms) = [j \in 1 .. n |-> Tid(7 + b + j)]
  BY <1>11, <1>15, <1>16
<1> QED BY <1>1, <1>17

-----------------------------------------------------------------------------
(* What the invariant says.                                                *)

(* The local variables of do_cycle keep transaction ids that a client has  *)
(* given, and the thread is always at one of its steps.                    *)
THEOREM TypeCorrect == FairSpec => []TypeOK
<1>1. IInv => TypeOK
  <2> SUFFICES ASSUME IInv PROVE TypeOK
    OBVIOUS
  <2>1. Program(todo) /\ saved \in [Locals -> Nat] /\ unfreed \in Nat
    BY DEF IInv, Types
  <2>2. \A i \in DOMAIN todo : todo[i] \in Ops
    BY <2>1 DEF Program
  <2>3. \A i \in DOMAIN todo : todo[i].op \in OpNames
    BY <2>2 DEF Ops
  <2> QED BY <2>1, <2>3 DEF TypeOK, OpNames
<1> QED BY <1>1, Inductive, PTL

(* RssRtmp keeps the transaction id of a request in a local variable while *)
(* it waits for other messages.  For a client of any of the kinds, with    *)
(* any number of messages of Noise between its requests, every response    *)
(* has the id of a request of its kind, and no two have the same.          *)
THEOREM AnswersAlwaysMatch == FairSpec => []AnswersMatch
<1>1. IInv => AnswersMatch
  <2> SUFFICES ASSUME IInv PROVE AnswersMatch
    OBVIOUS
  <2>1. PICK u \in 1 .. made + 1 : SentMatch(kind, outs, u)
    BY DEF IInv
  <2>2. made \in Nat
    <3>1. kind \in Kinds /\ made \in 0 .. Len(Script(kind))
      BY DEF IInv, Types
    <3>2. Len(Script(kind)) \in Nat
      BY <3>1, Scripts DEF Sound
    <3> QED BY <3>1, <3>2
  <2>3. Numbered(kind, reqs, 1, made)
    BY DEF IInv
  <2>4. ASSUME NEW i \in DOMAIN outs, outs[i].what \in Results
        PROVE  \E j \in DOMAIN reqs :
                 reqs[j].tid = outs[i].tid /\ packet(reqs[j].name) = Answers(outs[i].what)
    <3>1. PICK n \in 1 .. u - 1 : AnswerTo(kind, outs[i].what, outs[i].tid, n)
      BY <2>1, <2>4 DEF SentMatch
    <3>2. n \in 1 .. made
      BY <2>2
    <3>3. PICK j \in DOMAIN reqs : reqs[j] = Scripted(kind, n)
      BY <2>3, <3>2 DEF Numbered
    <3>4. reqs[j].tid = Tid(n) /\ reqs[j].name = Script(kind)[n].name
      BY <3>3, ScriptedIs
    <3> QED BY <3>1, <3>4 DEF AnswerTo
  <2>5. ASSUME NEW i \in DOMAIN outs, NEW j \in DOMAIN outs,
               outs[i].what \in Results, outs[j].what \in Results, outs[i].tid = outs[j].tid
        PROVE  i = j
    BY <2>1, <2>5 DEF SentMatch
  <2> QED BY <2>4, <2>5 DEF AnswersMatch, Results
<1> QED BY <1>1, Inductive, PTL

(* The media that a FMLE publisher sends after its publish command reaches *)
(* the source in order and complete, although expect_message drops what it *)
(* does not wait for: streaming_publish is reached before the first of     *)
(* them is read.                                                           *)
THEOREM MediaAlwaysKept == FairSpec => []MediaKept
<1>1. IInv => MediaKept
  <2> SUFFICES ASSUME IInv, Alive, kind = "fmle"
               PROVE  accepted \o MediaOf(inbox) = MediaOf(reqs)
    BY DEF MediaKept
  <2>1. PICK u \in 1 .. made + 1 :
          Numbered(kind, inbox, u, made) /\ InStep(kind, todo, accepted, u)
    BY DEF IInv
  <2>2. Medias \in Nat
    BY ClientConstants DEF ClientConstants
  <2>3. made \in Nat /\ made <= 8 + Medias
    <3>1. made \in 0 .. Len(Script(kind))
      BY DEF IInv, Types
    <3> QED BY <3>1, <2>2, FmleScript
  <2>4. u \in Nat /\ 0 < u /\ u <= made + 1
    BY <2>3
  <2>5. accepted = [i \in 1 .. Before(u) |-> Tid(7 + i)]
    BY <2>1 DEF InStep, Alive
  <2>6. MediaOf(inbox)
          = [i \in 1 .. Before(made + 1) - Before(u) |-> Tid(7 + Before(u) + i)]
    BY <2>1, <2>3, <2>4, MediaList
  <2>7. MediaOf(reqs)
          = [i \in 1 .. Before(made + 1) - Before(1) |-> Tid(7 + Before(1) + i)]
    <3>1. Numbered("fmle", reqs, 1, made)
      BY DEF IInv
    <3> QED BY <2>3, <3>1, MediaList
  <2>8. PICK b \in Nat, n \in Nat : b = Before(u) /\ n = Before(made + 1) - Before(u)
    BY <2>3, <2>4, MediaNumbers
  <2>9. Before(1) = 0 /\ Before(made + 1) = b + n
    <3>1. Before(made + 1) \in Int /\ Before(u) \in Int
      BY <2>2, <2>3, <2>4 DEF Before
    <3> QED BY <2>8, <3>1 DEF Before
  <2>10. PICK s, t, r : s = accepted /\ t = MediaOf(inbox) /\ r = MediaOf(reqs)
    OBVIOUS
  <2>11. /\ s = [i \in 1 .. b |-> Tid(7 + i)]
         /\ t = [i \in 1 .. n |-> Tid(7 + b + i)]
         /\ r = [i \in 1 .. b + n |-> Tid(7 + i)]
    <3>1. \A i \in 1 .. b + n : 7 + 0 + i = 7 + i
      OBVIOUS
    <3>2. r = [i \in 1 .. b + n |-> Tid(7 + 0 + i)]
      BY <2>7, <2>9, <2>10
    <3> QED BY <2>5, <2>6, <2>8, <2>10, <3>1, <3>2
  <2>12. s \o t = r
    <3>1. \A i \in Nat : Tid(7 + i) \in Int
      BY Tids
    <3>2. \A i \in 1 .. n : Tid(7 + b + i) \in Int
      BY Tids
    <3>3. PICK p : p = s \o t
      OBVIOUS
    <3>4. s \in Seq(Int) /\ Len(s) = b
      BY <2>11, <3>1
    <3>5. t \in Seq(Int) /\ Len(t) = n
      BY <2>11, <3>2
    <3>6. Joined(p, s, t, Int)
      BY <3>3, <3>4, <3>5, Joins
    <3>7. DOMAIN p = 1 .. b + n
      BY <3>4, <3>5, <3>6 DEF Joined
    <3>8. ASSUME NEW i \in 1 .. b + n PROVE p[i] = Tid(7 + i)
      <4>1. CASE i \in 1 .. b
        <5>1. p[i] = s[i]
          BY <3>4, <3>6, <4>1 DEF Joined
        <5> QED BY <2>11, <4>1, <5>1
      <4>2. CASE i \notin 1 .. b
        <5>1. PICK j \in 1 .. n : i = b + j
          <6>1. i - b \in 1 .. n /\ i = b + (i - b)
            BY <4>2
          <6> QED BY <6>1
        <5>2. p[b + j] = t[j]
          BY <3>4, <3>5, <3>6 DEF Joined
        <5>3. 7 + b + j = 7 + i
          BY <5>1
        <5> QED BY <2>11, <5>1, <5>2, <5>3
      <4> QED BY <4>1, <4>2
    <3>9. p \in Seq(Int)
      BY <3>6 DEF Joined
    <3>10. p = [i \in 1 .. b + n |-> Tid(7 + i)]
      BY <3>7, <3>8, <3>9
    <3> QED BY <2>11, <3>3, <3>10
  <2> QED BY <2>10, <2>12
<1> QED BY <1>1, Inductive, PTL

=============================================================================
