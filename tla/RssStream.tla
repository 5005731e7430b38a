----------------------------- MODULE RssStream -----------------------------
(***************************************************************************)
(* RssStream: a cursor over the bytes of one message payload.  Readers and *)
(* writers of AMF0 values and of packets all go through it.                *)
(*                                                                         *)
(* A stream is a record: bytes, the payload, and p, the number of bytes    *)
(* the cursor has passed.  A byte is a number below Radix (256 in the      *)
(* code; a smaller even Radix makes the widths of the integers reachable). *)
(* A byte of a buffer nobody has written is Unwritten.                     *)
(***************************************************************************)
EXTENDS Integers, Sequences, SequencesExt

CONSTANT Radix

ASSUME RadixAssumption == Radix \in Nat /\ Radix > 9 /\ Radix % 2 = 0

Unwritten == -1

----------------------------------------------------------------------------
(* The outcome of an operation on a stream: the error code, the stream as  *)
(* the operation leaves it, and what it yields.                            *)
Ok(s, v) == [ret |-> "ERROR_SUCCESS", s |-> s, value |-> v]

Fail(s, error) == [ret |-> error, s |-> s, value |-> <<>>]

IsOk(r) == r.ret = "ERROR_SUCCESS"

(* r, followed by step(r) if r has not failed: the code's                  *)
(* "if ((ret = ...) != ERROR_SUCCESS) return ret".                         *)
Then(r, step(_)) == IF IsOk(r) THEN step(r) ELSE r

----------------------------------------------------------------------------
(* A stream that is not initialized: p, bytes are NULL and size is 0.      *)
RssStream == [bytes |-> <<>>, p |-> 0]

initialize(bytes) ==
    IF bytes = <<>> THEN Fail(RssStream, "ERROR_SYSTEM_STREAM_INIT")
                    ELSE Ok([bytes |-> bytes, p |-> 0], <<>>)

reset(s) == [s EXCEPT !.p = 0]

empty(s) == s.p >= Len(s.bytes)

\* Faulty variant: one byte more than the stream holds is granted.
require_OffByOne(s, required_size) ==
    ~empty(s) /\ required_size <= Len(s.bytes) - s.p + 1

require(s, required_size) ==
    ~empty(s) /\ required_size <= Len(s.bytes) - s.p

skip(s, n) == [s EXCEPT !.p = @ + n]

(* The position of an empty stream is 0, not its size.                     *)
pos(s) == IF empty(s) THEN 0 ELSE s.p

----------------------------------------------------------------------------
(* The n bytes at the cursor; outside the payload they are whatever the    *)
(* memory holds.                                                           *)
Next_bytes(s, n) ==
    [i \in 1..n |-> IF s.p + i \in 1..Len(s.bytes) THEN s.bytes[s.p + i]
                                                   ELSE Unwritten]

(* Two's complement, n bytes wide, in network byte order.                  *)
Signed(u, n) == IF 2 * u < Radix^n THEN u ELSE u - Radix^n

Integer(bytes) == FoldLeft(LAMBDA acc, b : acc * Radix + b, 0, bytes)

Bytes(v, n) == [i \in 1..n |-> (v \div Radix^(n - i)) % Radix]

read_string(s, len) ==
    IF require(s, len) THEN Ok(skip(s, len), Next_bytes(s, len))
                       ELSE Fail(s, "assert")

read_integer(s, n) ==
    Then(read_string(s, n), LAMBDA r : Ok(r.s, Signed(Integer(r.value), n)))

read_1bytes(s) == read_integer(s, 1)

read_2bytes(s) == read_integer(s, 2)

read_4bytes(s) == read_integer(s, 4)

(* Eight bytes are the image of a double and are kept as they are.         *)
read_8bytes(s) == read_string(s, 8)

----------------------------------------------------------------------------
(* What the write operations put at the cursor.                            *)
write_1bytes(v) == Bytes(v, 1)

write_2bytes(v) == Bytes(v, 2)

write_4bytes(v) == Bytes(v, 4)

write_8bytes(v) == v

write_string(v) == v

(* One guarded write of a packet's encoder: the bytes go in if the stream  *)
(* has room for them.                                                      *)
write(r, bytes) ==
    Then(r, LAMBDA q :
        IF ~require(q.s, Len(bytes)) THEN Fail(q.s, "ERROR_RTMP_AMF0_ENCODE")
        ELSE Ok([bytes |-> [i \in 1..Len(q.s.bytes) |->
                               IF i - q.s.p \in 1..Len(bytes)
                               THEN bytes[i - q.s.p] ELSE q.s.bytes[i]],
                 p |-> q.s.p + Len(bytes)], <<>>))
=============================================================================
