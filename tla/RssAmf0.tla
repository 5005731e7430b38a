------------------------------ MODULE RssAmf0 ------------------------------
(***************************************************************************)
(* The AMF0 values of commands and metadata, and the functions that read   *)
(* them from a stream, write them to one and compute their size.           *)
(*                                                                         *)
(* A value is a record: its marker, data (the characters of a string, the  *)
(* eight bytes of a number, the byte of a boolean), count (of an ECMA      *)
(* array) and props, the properties in the order of insertion.             *)
(***************************************************************************)
EXTENDS RssStream

RTMP_AMF0_Number == 0
RTMP_AMF0_Boolean == 1
RTMP_AMF0_String == 2
RTMP_AMF0_Object == 3
RTMP_AMF0_Null == 5
RTMP_AMF0_Undefined == 6
RTMP_AMF0_EcmaArray == 8
RTMP_AMF0_ObjectEnd == 9

RssAmf0Any(marker, data, count, props) ==
    [marker |-> marker, data |-> data, count |-> count, props |-> props]

RssAmf0String(value) == RssAmf0Any(RTMP_AMF0_String, value, 0, <<>>)

RssAmf0Boolean(value) == RssAmf0Any(RTMP_AMF0_Boolean, value, 0, <<>>)

RssAmf0Number(value) == RssAmf0Any(RTMP_AMF0_Number, value, 0, <<>>)

RssAmf0Null == RssAmf0Any(RTMP_AMF0_Null, <<>>, 0, <<>>)

RssAmf0Undefined == RssAmf0Any(RTMP_AMF0_Undefined, <<>>, 0, <<>>)

RssAmf0ObjectEOF == RssAmf0Any(RTMP_AMF0_ObjectEnd, <<>>, 0, <<>>)

RssAmf0Object(props) == RssAmf0Any(RTMP_AMF0_Object, <<>>, 0, props)

(* The constructor does not set count: see response_connect_app.           *)
RssAmf0EcmaArray(count, props) ==
    RssAmf0Any(RTMP_AMF0_EcmaArray, <<>>, count, props)

----------------------------------------------------------------------------
(* RssUnSortedHashtable: a list of properties without two of one name.     *)
Property(name, value) == [name |-> name, value |-> value]

(* A property that is set again moves to the end.                          *)
set(props, key, value) ==
    Append(SelectSeq(props, LAMBDA e : e.name # key), Property(key, value))

(* The value of the property, as a set that is empty if there is none.     *)
get_property(props, name) ==
    {props[i].value : i \in {j \in DOMAIN props : props[j].name = name}}

ensure_property_string(props, name) ==
    {v \in get_property(props, name) : v.marker = RTMP_AMF0_String}

ensure_property_number(props, name) ==
    {v \in get_property(props, name) : v.marker = RTMP_AMF0_Number}

----------------------------------------------------------------------------
(* Reading.  The parameters value are what the caller's variable holds.    *)

\* Faulty variant: a string that is cut short is taken as far as it goes.
rss_amf0_read_utf8_Clipped(stream, value) ==
    IF ~require(stream, 2) THEN Fail(stream, "ERROR_RTMP_AMF0_DECODE")
    ELSE LET len == read_2bytes(stream)
             left == Len(len.s.bytes) - len.s.p
         IN  IF len.value <= 0 \/ left = 0 THEN Ok(len.s, value)
             ELSE read_string(len.s, IF len.value < left THEN len.value ELSE left)

(* A length below 1 leaves the variable as it is; the length is signed.    *)
rss_amf0_read_utf8(stream, value) ==
    IF ~require(stream, 2) THEN Fail(stream, "ERROR_RTMP_AMF0_DECODE")
    ELSE LET len == read_2bytes(stream) IN
         IF len.value <= 0 THEN Ok(len.s, value)
         ELSE IF ~require(len.s, len.value)
              THEN Fail(len.s, "ERROR_RTMP_AMF0_DECODE")
              ELSE read_string(len.s, len.value)

(* The marker of a value, which must be the required one.                  *)
read_marker(stream, required) ==
    IF ~require(stream, 1) THEN Fail(stream, "ERROR_RTMP_AMF0_DECODE")
    ELSE Then(read_1bytes(stream), LAMBDA r :
             IF r.value = required THEN r
             ELSE Fail(r.s, "ERROR_RTMP_AMF0_DECODE"))

rss_amf0_read_string(stream, value) ==
    Then(read_marker(stream, RTMP_AMF0_String),
         LAMBDA r : rss_amf0_read_utf8(r.s, value))

rss_amf0_read_boolean(stream) ==
    Then(read_marker(stream, RTMP_AMF0_Boolean), LAMBDA r :
        IF ~require(r.s, 1) THEN Fail(r.s, "ERROR_RTMP_AMF0_DECODE")
        ELSE Then(read_1bytes(r.s),
                  LAMBDA b : Ok(b.s, <<IF b.value = 0 THEN 0 ELSE 1>>)))

rss_amf0_read_number(stream) ==
    Then(read_marker(stream, RTMP_AMF0_Number), LAMBDA r :
        IF ~require(r.s, 8) THEN Fail(r.s, "ERROR_RTMP_AMF0_DECODE")
        ELSE read_8bytes(r.s))

rss_amf0_read_null(stream) ==
    Then(read_marker(stream, RTMP_AMF0_Null), LAMBDA r : Ok(r.s, <<>>))

(* The end of an object is read again from the two bytes before its        *)
(* marker, which were taken for an empty name.                             *)
rss_amf0_read_object_eof(stream) ==
    IF pos(stream) < 2 THEN Fail(stream, "assert")
    ELSE IF ~require(skip(stream, -2), 2)
         THEN Fail(skip(stream, -2), "ERROR_RTMP_AMF0_DECODE")
    ELSE Then(read_2bytes(skip(stream, -2)), LAMBDA r :
        IF r.value # 0 THEN Fail(r.s, "ERROR_RTMP_AMF0_DECODE")
        ELSE Then(read_marker(r.s, RTMP_AMF0_ObjectEnd),
                  LAMBDA q : Ok(q.s, RssAmf0ObjectEOF)))

RECURSIVE rss_amf0_read_any(_)

(* The loop of objects and ECMA arrays.  It ends at an empty name, at an   *)
(* end marker and at the end of the payload, with or without an end.       *)
RECURSIVE read_properties(_, _)
read_properties(stream, props) ==
    IF empty(stream) THEN Ok(stream, props)
    ELSE Then(rss_amf0_read_utf8(stream, <<>>), LAMBDA name :
         Then(rss_amf0_read_any(name.s), LAMBDA any :
             IF name.value = <<>> \/ any.value.marker = RTMP_AMF0_ObjectEnd
             THEN Ok(any.s, props)
             ELSE read_properties(any.s, set(props, name.value, any.value))))

rss_amf0_read_object(stream) ==
    Then(read_marker(stream, RTMP_AMF0_Object), LAMBDA r :
    Then(read_properties(r.s, <<>>), LAMBDA q : Ok(q.s, RssAmf0Object(q.value))))

rss_amf0_read_ecma_array(stream) ==
    Then(read_marker(stream, RTMP_AMF0_EcmaArray), LAMBDA r :
        IF ~require(r.s, 4) THEN Fail(r.s, "ERROR_RTMP_AMF0_DECODE")
        ELSE Then(read_4bytes(r.s), LAMBDA count :
             Then(read_properties(count.s, <<>>),
                  LAMBDA q : Ok(q.s, RssAmf0EcmaArray(count.value, q.value)))))

(* The marker is looked at and given back; the reader of the type takes    *)
(* it again.  Null and undefined have no reader: theirs is not taken.      *)
rss_amf0_read_any(stream) ==
    IF ~require(stream, 1) THEN Fail(stream, "ERROR_RTMP_AMF0_DECODE")
    ELSE LET marker == read_1bytes(stream).value IN
         CASE marker = RTMP_AMF0_String ->
                  Then(rss_amf0_read_string(stream, <<>>),
                       LAMBDA r : Ok(r.s, RssAmf0String(r.value)))
           [] marker = RTMP_AMF0_Boolean ->
                  Then(rss_amf0_read_boolean(stream),
                       LAMBDA r : Ok(r.s, RssAmf0Boolean(r.value)))
           [] marker = RTMP_AMF0_Number ->
                  Then(rss_amf0_read_number(stream),
                       LAMBDA r : Ok(r.s, RssAmf0Number(r.value)))
           [] marker = RTMP_AMF0_Null -> Ok(stream, RssAmf0Null)
           [] marker = RTMP_AMF0_Undefined -> Ok(stream, RssAmf0Undefined)
           [] marker = RTMP_AMF0_ObjectEnd -> rss_amf0_read_object_eof(stream)
           [] marker = RTMP_AMF0_Object -> rss_amf0_read_object(stream)
           [] marker = RTMP_AMF0_EcmaArray -> rss_amf0_read_ecma_array(stream)
           [] OTHER -> Fail(stream, "ERROR_RTMP_AMF0_INVALID")

----------------------------------------------------------------------------
(* Writing: the sequence of guarded writes a function makes.               *)

rss_amf0_write_utf8(value) ==
    <<write_2bytes(Len(value))>>
        \o (IF value = <<>> THEN <<>> ELSE <<write_string(value)>>)

rss_amf0_write_string(value) ==
    <<write_1bytes(RTMP_AMF0_String)>> \o rss_amf0_write_utf8(value)

rss_amf0_write_boolean(value) ==
    <<write_1bytes(RTMP_AMF0_Boolean), write_1bytes(value[1])>>

rss_amf0_write_number(value) ==
    <<write_1bytes(RTMP_AMF0_Number), write_8bytes(value)>>

rss_amf0_write_null == <<write_1bytes(RTMP_AMF0_Null)>>

rss_amf0_write_undefined == <<write_1bytes(RTMP_AMF0_Undefined)>>

rss_amf0_write_object_eof ==
    <<write_2bytes(0), write_1bytes(RTMP_AMF0_ObjectEnd)>>

RECURSIVE rss_amf0_write_any(_)

write_properties(props) ==
    FlattenSeq([i \in DOMAIN props |-> rss_amf0_write_utf8(props[i].name)
                                           \o rss_amf0_write_any(props[i].value)])
        \o rss_amf0_write_object_eof

rss_amf0_write_object(value) ==
    <<write_1bytes(RTMP_AMF0_Object)>> \o write_properties(value.props)

rss_amf0_write_ecma_array(value) ==
    <<write_1bytes(RTMP_AMF0_EcmaArray), write_4bytes(value.count)>>
        \o write_properties(value.props)

rss_amf0_write_any(value) ==
    CASE value.marker = RTMP_AMF0_String -> rss_amf0_write_string(value.data)
      [] value.marker = RTMP_AMF0_Boolean -> rss_amf0_write_boolean(value.data)
      [] value.marker = RTMP_AMF0_Number -> rss_amf0_write_number(value.data)
      [] value.marker = RTMP_AMF0_Null -> rss_amf0_write_null
      [] value.marker = RTMP_AMF0_Undefined -> rss_amf0_write_undefined
      [] value.marker = RTMP_AMF0_ObjectEnd -> rss_amf0_write_object_eof
      [] value.marker = RTMP_AMF0_Object -> rss_amf0_write_object(value)
      [] value.marker = RTMP_AMF0_EcmaArray -> rss_amf0_write_ecma_array(value)

----------------------------------------------------------------------------
(* Sizes: a buffer is allocated with them before anything is written.      *)

rss_amf0_get_utf8_size(value) == 2 + Len(value)

rss_amf0_get_string_size(value) == 1 + rss_amf0_get_utf8_size(value)

rss_amf0_get_number_size == 1 + 8

rss_amf0_get_null_size == 1

rss_amf0_get_undefined_size == 1

rss_amf0_get_boolean_size == 1 + 1

rss_amf0_get_object_eof_size == 2 + 1

RECURSIVE rss_amf0_get_any_size(_)

get_properties_size(props) ==
    FoldLeft(LAMBDA size, e : size + rss_amf0_get_utf8_size(e.name)
                                   + rss_amf0_get_any_size(e.value), 0, props)
        + rss_amf0_get_object_eof_size

rss_amf0_get_object_size(value) == 1 + get_properties_size(value.props)

\* Faulty variant: the four bytes of the count are forgotten.
rss_amf0_get_ecma_array_size_NoCount(value) ==
    1 + get_properties_size(value.props)

rss_amf0_get_ecma_array_size(value) == 1 + 4 + get_properties_size(value.props)

rss_amf0_get_any_size(value) ==
    CASE value.marker = RTMP_AMF0_String -> rss_amf0_get_string_size(value.data)
      [] value.marker = RTMP_AMF0_Boolean -> rss_amf0_get_boolean_size
      [] value.marker = RTMP_AMF0_Number -> rss_amf0_get_number_size
      [] value.marker = RTMP_AMF0_Null -> rss_amf0_get_null_size
      [] value.marker = RTMP_AMF0_Undefined -> rss_amf0_get_undefined_size
      [] value.marker = RTMP_AMF0_ObjectEnd -> rss_amf0_get_object_eof_size
      [] value.marker = RTMP_AMF0_Object -> rss_amf0_get_object_size(value)
      [] value.marker = RTMP_AMF0_EcmaArray -> rss_amf0_get_ecma_array_size(value)
=============================================================================
