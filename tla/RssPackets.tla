----------------------------- MODULE RssPackets -----------------------------
(***************************************************************************)
(* The packets of RTMP: how the payload of a message is decoded into one   *)
(* and how the server encodes its own.                                     *)
(*                                                                         *)
(* A packet of a client is [class, fields], the fields in the order they   *)
(* are read.  A packet of the server is [cid, type, size, writes]: the     *)
(* chunk stream it prefers, its message type, what get_size computes and   *)
(* the guarded writes encode_packet makes.                                 *)
(***************************************************************************)
EXTENDS RssAmf0

RTMP_MSG_SetChunkSize == 1
RTMP_MSG_UserControlMessage == 4
RTMP_MSG_WindowAcknowledgementSize == 5
RTMP_MSG_SetPeerBandwidth == 6
RTMP_MSG_AudioMessage == 8
RTMP_MSG_AMF3DataMessage == 15
RTMP_MSG_AMF3CommandMessage == 17
RTMP_MSG_AMF0DataMessage == 18
RTMP_MSG_AMF0CommandMessage == 20

RTMP_CID_ProtocolControl == 2
RTMP_CID_OverConnection == 3
RTMP_CID_OverConnection2 == 4
RTMP_CID_OverStream == 5

RTMP_MIN_CHUNK_SIZE == 2

(* Texts are told apart by a number, and are two characters long.          *)
Text(n) == <<n \div 9, n % 9>>

RTMP_AMF0_COMMAND_CONNECT == Text(1)
RTMP_AMF0_COMMAND_CREATE_STREAM == Text(2)
RTMP_AMF0_COMMAND_PLAY == Text(3)
RTMP_AMF0_COMMAND_ON_BW_DONE == Text(4)
RTMP_AMF0_COMMAND_ON_STATUS == Text(5)
RTMP_AMF0_COMMAND_RESULT == Text(6)
RTMP_AMF0_COMMAND_RELEASE_STREAM == Text(7)
RTMP_AMF0_COMMAND_FC_PUBLISH == Text(8)
RTMP_AMF0_COMMAND_UNPUBLISH == Text(9)
RTMP_AMF0_COMMAND_PUBLISH == Text(10)
RTMP_AMF0_DATA_SAMPLE_ACCESS == Text(11)
RTMP_AMF0_DATA_SET_DATAFRAME == Text(12)
RTMP_AMF0_DATA_ON_METADATA == Text(13)

(* The image of a double that holds a small integer.                       *)
Double(n) == <<IF n < 0 THEN 1 ELSE 0, 0, 0, 0, 0, 0>>
                 \o Bytes(IF n < 0 THEN -n ELSE n, 2)

----------------------------------------------------------------------------
(* Decoding.  A field of a packet: how it is read, what the constructor    *)
(* sets it to, whether it may be missing at the end of the payload, and    *)
(* the values accepted ({} accepts all).                                   *)
Field(kind, default, optional, accepted) ==
    [kind |-> kind, default |-> default, optional |-> optional,
     accepted |-> accepted]

CommandName(default, names) == Field("string", default, FALSE, names)
Transaction(default) == Field("number", Double(default), FALSE, {})
CommandNull == Field("null", <<>>, FALSE, {})
StreamName == Field("string", <<>>, FALSE, {})

read_field(f, s) ==
    CASE f.kind = "string" -> rss_amf0_read_string(s, f.default)
      [] f.kind = "number" -> rss_amf0_read_number(s)
      [] f.kind = "boolean" -> rss_amf0_read_boolean(s)
      [] f.kind = "null" -> rss_amf0_read_null(s)
      [] f.kind = "object" -> rss_amf0_read_object(s)

\* Faulty variant: an optional field is read even at the end of the payload.
decode_field_Always(r, f) ==
    Then(r, LAMBDA q :
         Then(read_field(f, q.s), LAMBDA v :
             IF f.accepted # {} /\ v.value \notin f.accepted
             THEN Fail(v.s, "ERROR_RTMP_AMF0_DECODE")
             ELSE Ok(v.s, Append(q.value, v.value))))

decode_field(r, f) ==
    Then(r, LAMBDA q :
        IF f.optional /\ empty(q.s) THEN Ok(q.s, Append(q.value, f.default))
        ELSE Then(read_field(f, q.s), LAMBDA v :
             IF f.accepted # {} /\ v.value \notin f.accepted
             THEN Fail(v.s, "ERROR_RTMP_AMF0_DECODE")
             ELSE Ok(v.s, Append(q.value, v.value))))

decode(class, fields, stream) ==
    Then(FoldLeft(decode_field, Ok(stream, <<>>), fields),
         LAMBDA r : Ok(r.s, [class |-> class, fields |-> r.value]))

RssConnectAppPacket(stream) ==
    decode("RssConnectAppPacket",
           <<CommandName(RTMP_AMF0_COMMAND_CONNECT, {RTMP_AMF0_COMMAND_CONNECT}),
             Field("number", Double(1), FALSE, {Double(1)}),
             Field("object", <<>>, FALSE, {})>>, stream)

RssCreateStreamPacket(stream) ==
    decode("RssCreateStreamPacket",
           <<CommandName(RTMP_AMF0_COMMAND_CREATE_STREAM,
                         {RTMP_AMF0_COMMAND_CREATE_STREAM}),
             Transaction(2), CommandNull>>, stream)

RssFMLEStartPacket(stream) ==
    decode("RssFMLEStartPacket",
           <<CommandName(RTMP_AMF0_COMMAND_CREATE_STREAM,
                         {RTMP_AMF0_COMMAND_RELEASE_STREAM,
                          RTMP_AMF0_COMMAND_FC_PUBLISH,
                          RTMP_AMF0_COMMAND_UNPUBLISH}),
             Transaction(0), CommandNull, StreamName>>, stream)

Live == Text(14)

RssPublishPacket(stream) ==
    decode("RssPublishPacket",
           <<CommandName(RTMP_AMF0_COMMAND_PUBLISH, {RTMP_AMF0_COMMAND_PUBLISH}),
             Transaction(0), CommandNull, StreamName,
             Field("string", Live, FALSE, {})>>, stream)

RssPlayPacket(stream) ==
    decode("RssPlayPacket",
           <<CommandName(RTMP_AMF0_COMMAND_PLAY, {RTMP_AMF0_COMMAND_PLAY}),
             Transaction(0), CommandNull, StreamName,
             Field("number", Double(-2), TRUE, {}),
             Field("number", Double(-1), TRUE, {}),
             Field("boolean", <<1>>, TRUE, {})>>, stream)

(* The name @setDataFrame is read over.  The variable that receives the    *)
(* name of the data is the one that holds @setDataFrame: an empty name     *)
(* leaves that in it.  The properties of an array move into an object.     *)
RssOnMetaDataPacket(stream) ==
    LET first == rss_amf0_read_string(stream, RTMP_AMF0_DATA_ON_METADATA)
        name == Then(first, LAMBDA r :
                    IF r.value = RTMP_AMF0_DATA_SET_DATAFRAME
                    THEN rss_amf0_read_string(r.s, r.value) ELSE r)
    IN  Then(name, LAMBDA r :
        Then(rss_amf0_read_any(r.s), LAMBDA any :
            IF any.value.marker \in {RTMP_AMF0_Object, RTMP_AMF0_EcmaArray}
            THEN Ok(any.s, [class |-> "RssOnMetaDataPacket",
                            fields |-> <<r.value,
                                         RssAmf0Object(any.value.props)>>])
            ELSE Fail(any.s, "ERROR_RTMP_AMF0_DECODE")))

decode_4bytes(class, stream) ==
    IF ~require(stream, 4) THEN Fail(stream, "ERROR_RTMP_MESSAGE_DECODE")
    ELSE LET r == read_4bytes(stream)
         IN Ok(r.s, [class |-> class, fields |-> <<r.value>>])

RssSetWindowAckSizePacket(stream) ==
    decode_4bytes("RssSetWindowAckSizePacket", stream)

RssSetChunkSizePacket(stream) ==
    Then(decode_4bytes("RssSetChunkSizePacket", stream), LAMBDA r :
        IF r.value.fields[1] < RTMP_MIN_CHUNK_SIZE
        THEN Fail(r.s, "ERROR_RTMP_CHUNK_SIZE") ELSE r)

(* A packet that is dropped.                                               *)
RssPacket(stream) == Ok(stream, [class |-> "RssPacket", fields |-> <<>>])

is_amf3_command(type) == type = RTMP_MSG_AMF3CommandMessage
is_command(type) == type \in {RTMP_MSG_AMF0CommandMessage, RTMP_MSG_AMF3CommandMessage}
is_data(type) == type \in {RTMP_MSG_AMF0DataMessage, RTMP_MSG_AMF3DataMessage}

(* The packet of an AMF0 or AMF3 message, chosen by the name it begins     *)
(* with; the name is read again by the packet.                             *)
decode_amf(type, stream) ==
    LET start == IF is_amf3_command(type) THEN skip(stream, 1) ELSE stream
        command == rss_amf0_read_string(start, <<>>)
        name == command.value
    IN  Then(command, LAMBDA r :
        CASE name = RTMP_AMF0_COMMAND_CONNECT -> RssConnectAppPacket(start)
          [] name = RTMP_AMF0_COMMAND_CREATE_STREAM -> RssCreateStreamPacket(start)
          [] name = RTMP_AMF0_COMMAND_PLAY -> RssPlayPacket(start)
          [] name \in {RTMP_AMF0_COMMAND_RELEASE_STREAM,
                       RTMP_AMF0_COMMAND_FC_PUBLISH,
                       RTMP_AMF0_COMMAND_UNPUBLISH} -> RssFMLEStartPacket(start)
          [] name = RTMP_AMF0_COMMAND_PUBLISH -> RssPublishPacket(start)
          [] name \in {RTMP_AMF0_DATA_SET_DATAFRAME,
                       RTMP_AMF0_DATA_ON_METADATA} -> RssOnMetaDataPacket(start)
          [] OTHER -> RssPacket(r.s))

decode_packet(type, payload) ==
    Then(initialize(payload), LAMBDA r :
        CASE is_command(type) \/ is_data(type) -> decode_amf(type, r.s)
          [] type = RTMP_MSG_WindowAcknowledgementSize -> RssSetWindowAckSizePacket(r.s)
          [] type = RTMP_MSG_SetChunkSize -> RssSetChunkSizePacket(r.s)
          [] OTHER -> RssPacket(r.s))

----------------------------------------------------------------------------
(* Encoding.                                                               *)

Packet(cid, type, size, writes) ==
    [cid |-> cid, type |-> type, size |-> size, writes |-> writes]

RssConnectAppResPacket(props, info) ==
    Packet(RTMP_CID_OverConnection, RTMP_MSG_AMF0CommandMessage,
           rss_amf0_get_string_size(RTMP_AMF0_COMMAND_RESULT)
               + rss_amf0_get_number_size + rss_amf0_get_object_size(props)
               + rss_amf0_get_object_size(info),
           rss_amf0_write_string(RTMP_AMF0_COMMAND_RESULT)
               \o rss_amf0_write_number(Double(1)) \o rss_amf0_write_object(props)
               \o rss_amf0_write_object(info))

RssCreateStreamResPacket(transaction_id, stream_id) ==
    Packet(RTMP_CID_OverConnection, RTMP_MSG_AMF0CommandMessage,
           rss_amf0_get_string_size(RTMP_AMF0_COMMAND_RESULT)
               + rss_amf0_get_number_size + rss_amf0_get_null_size
               + rss_amf0_get_number_size,
           rss_amf0_write_string(RTMP_AMF0_COMMAND_RESULT)
               \o rss_amf0_write_number(transaction_id) \o rss_amf0_write_null
               \o rss_amf0_write_number(stream_id))

RssFMLEStartResPacket(transaction_id) ==
    Packet(RTMP_CID_OverConnection, RTMP_MSG_AMF0CommandMessage,
           rss_amf0_get_string_size(RTMP_AMF0_COMMAND_RESULT)
               + rss_amf0_get_number_size + rss_amf0_get_null_size
               + rss_amf0_get_undefined_size,
           rss_amf0_write_string(RTMP_AMF0_COMMAND_RESULT)
               \o rss_amf0_write_number(transaction_id) \o rss_amf0_write_null
               \o rss_amf0_write_undefined)

RssOnBWDonePacket ==
    Packet(RTMP_CID_OverConnection, RTMP_MSG_AMF0CommandMessage,
           rss_amf0_get_string_size(RTMP_AMF0_COMMAND_ON_BW_DONE)
               + rss_amf0_get_number_size + rss_amf0_get_null_size,
           rss_amf0_write_string(RTMP_AMF0_COMMAND_ON_BW_DONE)
               \o rss_amf0_write_number(Double(0)) \o rss_amf0_write_null)

RssOnStatusCallPacket(command_name, data) ==
    Packet(RTMP_CID_OverStream, RTMP_MSG_AMF0CommandMessage,
           rss_amf0_get_string_size(command_name) + rss_amf0_get_number_size
               + rss_amf0_get_null_size + rss_amf0_get_object_size(data),
           rss_amf0_write_string(command_name) \o rss_amf0_write_number(Double(0))
               \o rss_amf0_write_null \o rss_amf0_write_object(data))

RssOnStatusDataPacket(data) ==
    Packet(RTMP_CID_OverStream, RTMP_MSG_AMF0DataMessage,
           rss_amf0_get_string_size(RTMP_AMF0_COMMAND_ON_STATUS)
               + rss_amf0_get_object_size(data),
           rss_amf0_write_string(RTMP_AMF0_COMMAND_ON_STATUS)
               \o rss_amf0_write_object(data))

RssSampleAccessPacket ==
    Packet(RTMP_CID_OverStream, RTMP_MSG_AMF0DataMessage,
           rss_amf0_get_string_size(RTMP_AMF0_DATA_SAMPLE_ACCESS)
               + rss_amf0_get_boolean_size + rss_amf0_get_boolean_size,
           rss_amf0_write_string(RTMP_AMF0_DATA_SAMPLE_ACCESS)
               \o rss_amf0_write_boolean(<<0>>) \o rss_amf0_write_boolean(<<0>>))

EncodeOnMetaData(name, metadata) ==
    Packet(RTMP_CID_OverConnection2, RTMP_MSG_AMF0DataMessage,
           rss_amf0_get_string_size(name) + rss_amf0_get_object_size(metadata),
           rss_amf0_write_string(name) \o rss_amf0_write_object(metadata))

(* The control packets ask for their whole size at once.                   *)
Control(type, bytes) ==
    Packet(RTMP_CID_ProtocolControl, type, Len(bytes), <<bytes>>)

EncodeWindowAckSize(n) == Control(RTMP_MSG_WindowAcknowledgementSize, write_4bytes(n))

EncodeChunkSize(n) == Control(RTMP_MSG_SetChunkSize, write_4bytes(n))

RssSetPeerBandwidthPacket(bandwidth, type) ==
    Control(RTMP_MSG_SetPeerBandwidth, write_4bytes(bandwidth) \o write_1bytes(type))

RssPCUC4BytesPacket(event_type, event_data) ==
    Control(RTMP_MSG_UserControlMessage,
            write_2bytes(event_type) \o write_4bytes(event_data))

(* RssPacket::encode: the buffer has get_size bytes and no defined         *)
(* content; a packet of size 0 gets a stream that is not initialized.      *)
encode(pkt) ==
    LET stream == [bytes |-> [i \in 1..pkt.size |-> Unwritten], p |-> 0]
    IN  FoldLeft(write, Ok(IF pkt.size > 0 THEN stream ELSE RssStream, <<>>),
                 pkt.writes)

(* set_packet fills the header, encode_packet the payload.                 *)
RssCommonMessage(pkt, stream_id) ==
    LET r == encode(pkt)
    IN  [ret |-> r.ret, type |-> pkt.type, cid |-> pkt.cid, stream_id |-> stream_id,
         payload_length |-> pkt.size, payload |-> r.s.bytes]
=============================================================================
