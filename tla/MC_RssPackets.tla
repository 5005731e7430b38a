---------------------------- MODULE MC_RssPackets ----------------------------
(* The messages of the run: every command the server knows and one it     *)
(* does not, metadata of several shapes, control messages.                 *)
EXTENDS RssPacketsPeer

Amf(type, values) == [type |-> type, values |-> values, raw |-> <<>>]

Raw(type, bytes) == [type |-> type, values |-> <<>>, raw |-> bytes]

Command(name, tid, args) ==
    Amf(RTMP_MSG_AMF0CommandMessage,
        <<RssAmf0String(name), RssAmf0Number(Double(tid))>> \o args)

Name1 == RssAmf0String(Text(60))

ConnectObject(calls) == <<RssAmf0Object(calls)>>

Url == Str(TcUrl, Text(61))

Connects ==
    {Command(RTMP_AMF0_COMMAND_CONNECT, 1, ConnectObject(<<Url>>)),
     Command(RTMP_AMF0_COMMAND_CONNECT, 2, ConnectObject(<<Url>>)),
     Command(RTMP_AMF0_COMMAND_CONNECT, 1, ConnectObject(<<Num(ObjectEncoding, 3)>>)),
     [Command(RTMP_AMF0_COMMAND_CONNECT, 1,
              ConnectObject(<<Num(ObjectEncoding, 3), Url>>))
         EXCEPT !.type = RTMP_MSG_AMF3CommandMessage]}

Requests ==
    {Command(RTMP_AMF0_COMMAND_CREATE_STREAM, 4, <<RssAmf0Null>>),
     Command(RTMP_AMF0_COMMAND_RELEASE_STREAM, 5, <<RssAmf0Null, Name1>>),
     Command(RTMP_AMF0_COMMAND_FC_PUBLISH, 6, <<RssAmf0Null, Name1>>),
     Command(RTMP_AMF0_COMMAND_UNPUBLISH, 7, <<RssAmf0Null, Name1>>),
     Command(Text(62), 8, <<RssAmf0Null>>)}
    \cup {Command(RTMP_AMF0_COMMAND_PUBLISH, 0, <<RssAmf0Null, Name1, RssAmf0String(t)>>) :
              t \in {<<>>, Text(63)}}
    \cup {Command(RTMP_AMF0_COMMAND_PLAY, 0,
                  <<RssAmf0Null, Name1>>
                      \o SubSeq(<<RssAmf0Number(Double(0)), RssAmf0Number(Double(9)),
                                  RssAmf0Boolean(<<0>>)>>, 1, n)) : n \in 0..3}

(* A name twice, a name the server sets, an object and an array inside.    *)
Properties ==
    {<<Str(Text(64), Text(65)), Num(Text(66), 25), Str(Text(64), <<>>)>>,
     <<Str(Server, Text(65)), Property(Text(66), RssAmf0Boolean(<<1>>))>>,
     <<Property(Text(64), RssAmf0Object(<<Num(Text(64), 1), Str(Text(66), Text(1))>>)),
       Property(Text(66), RssAmf0EcmaArray(1, <<Num(Text(64), 2)>>)), Num(Text(67), 0)>>}

Metadata(type, props) ==
    {Amf(type, <<RssAmf0String(RTMP_AMF0_DATA_ON_METADATA), RssAmf0Object(props)>>),
     Amf(type, <<RssAmf0String(RTMP_AMF0_DATA_SET_DATAFRAME),
                 RssAmf0String(RTMP_AMF0_DATA_ON_METADATA),
                 RssAmf0EcmaArray(Len(props), props)>>),
     Amf(type, <<RssAmf0String(RTMP_AMF0_DATA_SET_DATAFRAME), RssAmf0String(<<>>),
                 RssAmf0Object(props)>>)}

Controls ==
    {Raw(RTMP_MSG_SetChunkSize, Bytes(n, 4)) : n \in {1, 2, 4096}}
    \cup {Raw(RTMP_MSG_WindowAcknowledgementSize, Bytes(2500, 4)),
          Raw(RTMP_MSG_AudioMessage, <<1, 2, 3>>)}

(* What the reader does not read as the grammar has it.                    *)
NullProperties ==
    {<<Property(Text(64), v), Num(Text(66), 25)>> : v \in {RssAmf0Null, RssAmf0Undefined}}

LongStrings == {<<Str(Text(64), [i \in 1..(Radix^2 \div 2) |-> 0]), Num(Text(66), 1)>>}

(* Bytes that are no AMF0: an end marker behind a name, markers nobody     *)
(* knows, an end where a value should be.                                  *)
Broken ==
    {Raw(RTMP_MSG_AMF0DataMessage,
         Written(RssAmf0String(RTMP_AMF0_DATA_ON_METADATA)) \o tail) :
        tail \in {<<3>> \o Utf8(Text(64)) \o <<9>>, <<3>> \o Utf8(Text(64)) \o <<4, 0>>,
                  <<9>>, <<0, 0, 9>>, <<5>>, <<3, 0, 1, 0, 9>>, <<3, 0, 1, 0, 0, 9>>}}

AllMessages ==
    Connects \cup Requests \cup Controls \cup Broken
    \cup UNION {Metadata(RTMP_MSG_AMF0DataMessage, p) :
                   p \in Properties \cup NullProperties \cup LongStrings}
    \cup UNION {Metadata(RTMP_MSG_AMF3DataMessage, p) : p \in Properties}

AnyCounts == {0, 4, Radix^4 - 1}
=============================================================================
