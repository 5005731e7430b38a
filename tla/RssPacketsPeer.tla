--------------------------- MODULE RssPacketsPeer ---------------------------
(***************************************************************************)
(* A client sends one message, whole or cut short; the server decodes it   *)
(* and, if it can, does what the command asks for: it answers a request,   *)
(* or prepares the metadata for the players.  Then the next message may    *)
(* come.                                                                   *)
(*                                                                         *)
(* The client and the players write and read AMF0 by the grammar that the  *)
(* comments of rss_core_amf0.hpp quote; they share no code with the        *)
(* server, and Written and Parsed are their half.                          *)
(***************************************************************************)
EXTENDS RssPackets, FiniteSets

CONSTANTS
    Messages,     \* what the client may send: [type, values], or [type, raw]
    Counts        \* what the count of an array that nobody has set may hold

VARIABLES
    sent,         \* the message of the client
    payload,      \* its bytes as they reach decode_packet
    decoded,      \* what decode_packet has made of them
    out,          \* the messages the server has encoded because of it
    phase         \* "idle", "sent", "decoded", "answered", "refused"

vars == <<sent, payload, decoded, out, phase>>

----------------------------------------------------------------------------
(* The grammar, from value to bytes.                                       *)

Utf8(chars) == Bytes(Len(chars), 2) \o chars

RECURSIVE Written(_)
Written(v) ==
    LET properties == FlattenSeq([i \in DOMAIN v.props |->
                          Utf8(v.props[i].name) \o Written(v.props[i].value)])
        end == Utf8(<<>>) \o <<RTMP_AMF0_ObjectEnd>>
    IN  <<v.marker>> \o
        CASE v.marker = RTMP_AMF0_String -> Utf8(v.data)
          [] v.marker = RTMP_AMF0_Object -> properties \o end
          [] v.marker = RTMP_AMF0_EcmaArray -> Bytes(v.count, 4) \o properties \o end
          [] OTHER -> v.data

(* A message of AMF3 begins with a byte that says AMF0 follows.            *)
PayloadOf(m) ==
    (IF m.type \in {RTMP_MSG_AMF3CommandMessage, RTMP_MSG_AMF3DataMessage}
     THEN <<0>> ELSE <<>>) \o m.raw
        \o FlattenSeq([i \in DOMAIN m.values |-> Written(m.values[i])])

----------------------------------------------------------------------------
(* The grammar, from bytes to values.  Lengths are unsigned; a count is    *)
(* read and not used.                                                      *)

Bad == [ok |-> FALSE, value |-> <<>>, rest |-> <<>>]

Good(value, rest) == [ok |-> TRUE, value |-> value, rest |-> rest]

Drop(b, n) == SubSeq(b, n + 1, Len(b))

ParsedUtf8(b) ==
    IF Len(b) < 2 THEN Bad
    ELSE LET len == Integer(SubSeq(b, 1, 2)) IN
         IF Len(b) < 2 + len THEN Bad
         ELSE Good(SubSeq(b, 3, 2 + len), Drop(b, 2 + len))

RECURSIVE ParsedValue(_)
RECURSIVE ParsedProperties(_, _)
ParsedProperties(b, props) ==
    LET name == ParsedUtf8(b) IN
    IF ~name.ok \/ name.rest = <<>> THEN Bad
    ELSE IF name.value = <<>> /\ name.rest[1] = RTMP_AMF0_ObjectEnd
         THEN Good(props, Drop(name.rest, 1))
    ELSE LET v == ParsedValue(name.rest) IN
         IF ~v.ok THEN Bad
         ELSE ParsedProperties(v.rest, Append(props, Property(name.value, v.value)))

ParsedValue(b) ==
    LET marker == b[1]
        rest == Tail(b)
        fixed(n) == IF Len(rest) < n THEN Bad
                    ELSE Good(RssAmf0Any(marker, SubSeq(rest, 1, n), 0, <<>>),
                              Drop(rest, n))
        with_properties(r) == IF ~r.ok THEN Bad
                              ELSE Good(RssAmf0Any(marker, <<>>, 0, r.value), r.rest)
    IN  IF b = <<>> THEN Bad
        ELSE CASE marker = RTMP_AMF0_Number -> fixed(8)
               [] marker = RTMP_AMF0_Boolean -> fixed(1)
               [] marker \in {RTMP_AMF0_Null, RTMP_AMF0_Undefined} -> fixed(0)
               [] marker = RTMP_AMF0_String ->
                    LET r == ParsedUtf8(rest) IN
                    IF ~r.ok THEN Bad ELSE Good(RssAmf0String(r.value), r.rest)
               [] marker = RTMP_AMF0_Object ->
                    with_properties(ParsedProperties(rest, <<>>))
               [] marker = RTMP_AMF0_EcmaArray ->
                    IF Len(rest) < 4 THEN Bad
                    ELSE with_properties(ParsedProperties(Drop(rest, 4), <<>>))
               [] OTHER -> Bad

(* The values a payload consists of; <<>> if it does not follow the        *)
(* grammar to its last byte.                                               *)
RECURSIVE ParsedFrom(_, _)
ParsedFrom(b, values) ==
    IF b = <<>> THEN values
    ELSE LET v == ParsedValue(b) IN
         IF v.ok THEN ParsedFrom(v.rest, Append(values, v.value)) ELSE <<>>

Parsed(b) == ParsedFrom(b, <<>>)

----------------------------------------------------------------------------
(* The handlers of the server, as the messages each of them encodes.       *)

StatusLevel == Text(20)
StatusCode == Text(21)
StatusDescription == Text(22)
StatusDetails == Text(23)
StatusClientId == Text(24)
RTMP_AMF0_COMMAND_ON_FC_PUBLISH == Text(25)
RTMP_AMF0_COMMAND_ON_FC_UNPUBLISH == Text(26)
TcUrl == Text(27)
ObjectEncoding == Text(28)
Server == Text(29)
Data == Text(30)
Stream == Text(31)
RSS_DEFAULT_SID == 1
RTMP_SIG_AMF0_VER == 0

(* The object that a sequence of set calls builds.                         *)
Object(calls) ==
    RssAmf0Object(FoldLeft(LAMBDA props, c : set(props, c.name, c.value), <<>>, calls))

Str(name, chars) == Property(name, RssAmf0String(chars))
Num(name, n) == Property(name, RssAmf0Number(Double(n)))

(* The status objects: a level, a code, a description and, for the player, *)
(* the stream; a client id.                                                *)
Status(code, details) ==
    Object(<<Str(StatusLevel, Text(32)), Str(StatusCode, code),
             Str(StatusDescription, Text(33))>>
           \o (IF details THEN <<Str(StatusDetails, Stream)>> ELSE <<>>)
           \o <<Str(StatusClientId, Text(34))>>)

FcStatus(code) == Object(<<Str(StatusCode, code), Str(StatusDescription, Text(33))>>)

set_window_ack_size == <<RssCommonMessage(EncodeWindowAckSize(2500), 0)>>

set_peer_bandwidth == <<RssCommonMessage(RssSetPeerBandwidthPacket(2500, 2), 0)>>

(* objectEncoding is a double that the constructor of RssRequest sets.     *)
response_connect_app(objectEncoding, count) ==
    LET data == RssAmf0EcmaArray(count, <<Str(Text(35), Text(36)), Str(Server, Text(37)),
                                          Str(Text(38), Text(39)), Str(Text(40), Text(41))>>)
        props == Object(<<Str(Text(42), Text(43)), Num(Text(44), 127), Num(Text(45), 1)>>)
        info == Object(<<Str(StatusLevel, Text(32)), Str(StatusCode, Text(46)),
                         Str(StatusDescription, Text(33)),
                         Property(ObjectEncoding, RssAmf0Number(objectEncoding)),
                         Property(Data, data)>>)
    IN  <<RssCommonMessage(RssConnectAppResPacket(props, info), 0)>>

on_bw_done == <<RssCommonMessage(RssOnBWDonePacket, 0)>>

(* connect_app refuses a request without a tcUrl.                          *)
connect_app(command_object) == ensure_property_string(command_object.props, TcUrl) # {}

RequestEncoding(command_object) ==
    LET given == ensure_property_number(command_object.props, ObjectEncoding)
    IN  IF given = {} THEN Double(RTMP_SIG_AMF0_VER) ELSE (CHOOSE v \in given : TRUE).data

create_stream(tid) ==
    <<RssCommonMessage(RssCreateStreamResPacket(tid, Double(RSS_DEFAULT_SID)), 0)>>

FMLE_answer(tid, stream_id) == <<RssCommonMessage(RssFMLEStartResPacket(tid), stream_id)>>

set_chunk_size == <<RssCommonMessage(EncodeChunkSize(4096), 0)>>

start_play ==
    <<RssCommonMessage(RssPCUC4BytesPacket(0, RSS_DEFAULT_SID), 0),
      RssCommonMessage(RssOnStatusCallPacket(RTMP_AMF0_COMMAND_ON_STATUS,
                                             Status(Text(47), TRUE)), RSS_DEFAULT_SID),
      RssCommonMessage(RssOnStatusCallPacket(RTMP_AMF0_COMMAND_ON_STATUS,
                                             Status(Text(48), TRUE)), RSS_DEFAULT_SID),
      RssCommonMessage(RssSampleAccessPacket, RSS_DEFAULT_SID),
      RssCommonMessage(RssOnStatusDataPacket(Object(<<Str(StatusCode, Text(49))>>)),
                       RSS_DEFAULT_SID)>>

publish_started ==
    <<RssCommonMessage(RssOnStatusCallPacket(RTMP_AMF0_COMMAND_ON_FC_PUBLISH,
                                             FcStatus(Text(50))), RSS_DEFAULT_SID),
      RssCommonMessage(RssOnStatusCallPacket(RTMP_AMF0_COMMAND_ON_STATUS,
                                             Status(Text(50), FALSE)), RSS_DEFAULT_SID)>>

fmle_unpublish(tid) ==
    <<RssCommonMessage(RssOnStatusCallPacket(RTMP_AMF0_COMMAND_ON_FC_UNPUBLISH,
                                             FcStatus(Text(51))), RSS_DEFAULT_SID)>>
    \o FMLE_answer(tid, RSS_DEFAULT_SID)
    \o <<RssCommonMessage(RssOnStatusCallPacket(RTMP_AMF0_COMMAND_ON_STATUS,
                                                Status(Text(51), FALSE)), RSS_DEFAULT_SID)>>

\* Faulty variant: the name of the server is added without looking for it.
on_meta_data_Appending(type, name, metadata) ==
    LET props == Append(metadata.props, Property(Server, RssAmf0String(Text(37))))
        pkt == EncodeOnMetaData(name, RssAmf0Object(props))
    IN  <<[RssCommonMessage(pkt, RSS_DEFAULT_SID) EXCEPT !.type = type]>>

(* The message the players get; it keeps the header of the publisher's.    *)
on_meta_data(type, name, metadata) ==
    LET props == set(metadata.props, Server, RssAmf0String(Text(37)))
        pkt == EncodeOnMetaData(name, RssAmf0Object(props))
    IN  <<[RssCommonMessage(pkt, RSS_DEFAULT_SID) EXCEPT !.type = type]>>

----------------------------------------------------------------------------
NoMessage == [type |-> 0, values |-> <<>>, raw |-> <<>>]

Init ==
    /\ sent = NoMessage
    /\ payload = <<>>
    /\ decoded = Ok(RssStream, <<>>)
    /\ out = <<>>
    /\ phase = "idle"

(* External: the client sends its next message.  One that was refused was  *)
(* the last of its connection: the next belongs to another.                *)
Send ==
    /\ phase \in {"idle", "answered", "refused"}
    /\ \E m \in Messages : sent' = m /\ payload' = PayloadOf(m)
    /\ decoded' = Ok(RssStream, <<>>)
    /\ out' = <<>>
    /\ phase' = "sent"

(* External: the header of the message announces less than the client      *)
(* meant to send.  A message without payload does not get here.            *)
Cut ==
    /\ phase = "sent"
    /\ payload = PayloadOf(sent)
    /\ \E n \in 1..(Len(payload) - 1) : payload' = SubSeq(payload, 1, n)
    /\ UNCHANGED <<sent, decoded, out, phase>>

Decode ==
    /\ phase = "sent"
    /\ decoded' = decode_packet(sent.type, payload)
    /\ phase' = IF IsOk(decoded') THEN "decoded" ELSE "refused"
    /\ UNCHANGED <<sent, payload, out>>

(* What is done with a packet.  Whether a FMLEStart identifies the client, *)
(* is the FCPublish of a publisher or ends a publication depends on how    *)
(* far the session is, not on the packet.                                  *)
Answers(pkt) ==
    LET f == pkt.fields IN
    CASE pkt.class = "RssConnectAppPacket" ->
             {set_window_ack_size \o set_peer_bandwidth
                  \o response_connect_app(RequestEncoding(f[3]), c) \o on_bw_done :
                  c \in Counts}
      [] pkt.class = "RssCreateStreamPacket" -> {create_stream(f[2])}
      [] pkt.class = "RssPlayPacket" -> {set_chunk_size \o start_play}
      [] pkt.class = "RssFMLEStartPacket" ->
             {FMLE_answer(f[2], 0) \o set_chunk_size, FMLE_answer(f[2], 0),
              fmle_unpublish(f[2])}
      [] pkt.class = "RssPublishPacket" -> {publish_started}
      [] pkt.class = "RssOnMetaDataPacket" -> {on_meta_data(sent.type, f[1], f[2])}
      [] OTHER -> {<<>>}

Answer ==
    /\ phase = "decoded"
    /\ IF decoded.value.class = "RssConnectAppPacket"
              /\ ~connect_app(decoded.value.fields[3])
       THEN phase' = "refused" /\ UNCHANGED out
       ELSE phase' = "answered" /\ out' \in Answers(decoded.value)
    /\ UNCHANGED <<sent, payload, decoded>>

Next == Send \/ Cut \/ Decode \/ Answer

Spec == Init /\ [][Next]_vars
----------------------------------------------------------------------------
(* What a message means, by the grammar and by the meaning of objects: a   *)
(* later property of a name replaces an earlier one.                       *)
RECURSIVE Canonical(_)
Canonical(v) ==
    LET last(i) == \A j \in DOMAIN v.props : j > i => v.props[j].name # v.props[i].name
        kept == SelectSeq([i \in DOMAIN v.props |-> i], last)
    IN  [v EXCEPT !.count = 0,
                  !.props = [k \in DOMAIN kept |->
                                Property(v.props[kept[k]].name,
                                         Canonical(v.props[kept[k]].value))]]

IsMetadata(m) ==
    /\ m.values # <<>>
    /\ m.values[1].data \in {RTMP_AMF0_DATA_SET_DATAFRAME, RTMP_AMF0_DATA_ON_METADATA}

(* The fields a reader should end up with.  Missing arguments of play, and *)
(* an empty type of publish, have defaults; an empty name behind           *)
(* @setDataFrame leaves that as the name.                                  *)
MeantMetadata(values) ==
    LET v == IF values[1].data = RTMP_AMF0_DATA_SET_DATAFRAME THEN Tail(values) ELSE values
    IN  <<IF v[1].data = <<>> THEN RTMP_AMF0_DATA_SET_DATAFRAME ELSE v[1].data,
          RssAmf0Object(Canonical(v[2]).props)>>

MeantCommand(values) ==
    LET name == values[1].data
        given == [i \in DOMAIN values |->
                     IF values[i].marker = RTMP_AMF0_Object
                     THEN Canonical(values[i]) ELSE values[i].data]
    IN  CASE name = RTMP_AMF0_COMMAND_PLAY ->
                 given \o SubSeq(<<Double(-2), Double(-1), <<1>>>>, Len(given) - 3, 3)
          [] name = RTMP_AMF0_COMMAND_PUBLISH /\ Len(given) = 5 /\ given[5] = <<>> ->
                 [given EXCEPT ![5] = Live]
          [] OTHER -> given

Meant(m, values) == IF IsMetadata(m) THEN MeantMetadata(values) ELSE MeantCommand(values)

(* The packet's fields, without the counts of arrays.                      *)
FieldsRead ==
    [i \in DOMAIN decoded.value.fields |->
        IF <<decoded.value.class, i>> \in {<<"RssConnectAppPacket", 3>>,
                                           <<"RssOnMetaDataPacket", 2>>}
        THEN Canonical(decoded.value.fields[i]) ELSE decoded.value.fields[i]]

(* Null and undefined are not properties, and no string is longer than     *)
(* the largest signed length.                                              *)
RECURSIVE Readable(_)
Readable(v) ==
    /\ 2 * Len(v.data) < Radix^2
    /\ \A i \in DOMAIN v.props :
          /\ v.props[i].value.marker \notin {RTMP_AMF0_Null, RTMP_AMF0_Undefined}
          /\ Readable(v.props[i].value)

AllReadable(m) == \A i \in DOMAIN m.values : Readable(m.values[i])

(* Requests that are refused for what they say.                            *)
Unacceptable(m) ==
    /\ m.values # <<>>
    /\ m.values[1].data = RTMP_AMF0_COMMAND_CONNECT
    /\ \/ m.values[2].data # Double(1)
       \/ \A i \in DOMAIN m.values[3].props : m.values[3].props[i].name # TcUrl

Whole == payload = PayloadOf(sent)

ReadAsMeant ==
    /\ phase = "refused" => Unacceptable(sent)
    /\ IsOk(decoded) /\ decoded.value.class # "RssPacket" => FieldsRead = Meant(sent, sent.values)

(* Data of AMF3 are left out: decode_packet passes over the first byte of  *)
(* commands only, and refuses the data.                                    *)
IsAmf(m) == m.values # <<>> /\ m.type # RTMP_MSG_AMF3DataMessage

(***************************************************************************)
(* The cursor never leaves the payload and no assertion of the stream or   *)
(* of read_object_eof fails, whatever the bytes are and wherever they end: *)
(* also when the reader has lost its place.                                *)
(***************************************************************************)
CursorInside ==
    /\ decoded.ret # "assert"
    /\ decoded.s.p \in 0..Len(payload)

(***************************************************************************)
(* A whole message is decoded into the packet its client meant, with the   *)
(* defaults of what it left out; it is refused only for what it says.      *)
(***************************************************************************)
CommandRead ==
    phase \in {"decoded", "answered", "refused"} /\ Whole /\ IsAmf(sent)
        /\ AllReadable(sent) => ReadAsMeant

(* A value that ends early: fewer properties, the last one perhaps early   *)
(* itself.                                                                 *)
RECURSIVE Early(_)
Early(v) ==
    {v} \cup UNION
        {{[v EXCEPT !.props = SubSeq(v.props, 1, k)]} \cup
         (IF k = 0 THEN {}
          ELSE {[v EXCEPT !.props = Append(SubSeq(v.props, 1, k - 1),
                                           Property(v.props[k].name, w))] :
                   w \in Early(v.props[k].value)}) : k \in 0..Len(v.props)}

EarlyMessages(values) ==
    {SubSeq(values, 1, k) : k \in 1..Len(values)}
        \cup {Append(SubSeq(values, 1, k - 1), w) :
                  <<k, w>> \in UNION {{j} \X Early(values[j]) : j \in 1..Len(values)}}

(* Only the last three arguments of play may be left out.                  *)
Needed(m) == IF m.values[1].data = RTMP_AMF0_COMMAND_PLAY THEN 4 ELSE Len(m.values)

(***************************************************************************)
(* A message that is cut short is refused, or is read as the part of it    *)
(* that has arrived: no value is invented and none is half a value.        *)
(***************************************************************************)
CutIsPrefix ==
    phase \in {"decoded", "answered"} /\ ~Whole /\ IsAmf(sent) /\ AllReadable(sent)
        /\ decoded.value.class # "RssPacket"
        => \E values \in EarlyMessages(sent.values) :
              /\ Len(values) >= Needed(sent)
              /\ FieldsRead = Meant(sent, values)

(***************************************************************************)
(* Every message the server encodes fills the buffer that get_size has     *)
(* measured, exactly: encoding never fails, no byte of the buffer is sent  *)
(* unwritten, and the length in the header is that of the payload.  By the *)
(* grammar it is a sequence of values, also when the count of an array was *)
(* never set; a result carries the transaction of the request.             *)
(***************************************************************************)
AnswersExact ==
    \A i \in DOMAIN out :
        /\ out[i].ret = "ERROR_SUCCESS"
        /\ out[i].payload_length = Len(out[i].payload)
        /\ \A k \in DOMAIN out[i].payload : out[i].payload[k] \in 0..(Radix - 1)
        /\ is_command(out[i].type) \/ is_data(out[i].type) =>
              LET values == Parsed(out[i].payload) IN
              /\ values # <<>>
              /\ values[1].data = RTMP_AMF0_COMMAND_RESULT
                     => values[2].data = decoded.value.fields[2]

(***************************************************************************)
(* The metadata of a publisher reaches the players with every property, in *)
(* order, and with the name of the server: what they parse is the object   *)
(* the publisher wrote, whether it was an object or an array.              *)
(***************************************************************************)
MetadataRelayed ==
    phase = "answered" /\ Whole /\ IsAmf(sent) /\ IsMetadata(sent) /\ AllReadable(sent)
        => LET meant == MeantMetadata(sent.values)
               props == SelectSeq(meant[2].props, LAMBDA e : e.name # Server)
           IN  Parsed(out[1].payload) =
                   <<RssAmf0String(meant[1]),
                     RssAmf0Object(Append(props, Str(Server, Text(37))))>>
=============================================================================
