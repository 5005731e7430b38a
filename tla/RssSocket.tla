----------------------------- MODULE RssSocket -----------------------------
(***************************************************************************)
(* RssSocket::read between state threads and the loops that call it.       *)
(*                                                                         *)
(* The library's st_read reads at once when it can; else read() sets errno *)
(* to EAGAIN and the thread waits in poll until the socket is readable or  *)
(* the timeout sets errno to ETIME.  An end of file returns 0 and sets     *)
(* nothing.  errno belongs to the process: all state threads share it, and *)
(* RssSocket::read looks at it to tell a timeout from a closed peer.       *)
(***************************************************************************)
EXTENDS Integers

CONSTANTS
  Players,     \* threads in streaming_play, whose reads time out as a pulse
  Publishers,  \* threads in streaming_publish
  MaxData      \* bound: messages a peer writes

ASSUME SocketAssumption ==
  /\ Players \cap Publishers = {}   \* identify_client: a client does one or the other
  /\ MaxData \in Nat

VARIABLES
  errno,  \* the process's errno
  pc,     \* what each thread is in: "run", "poll", "send", or "ended"
  data,   \* messages that have arrived and were not read
  wrote,  \* messages the peer has written
  eof,    \* the peer has closed
  stalled \* the peer has stopped reading

socketVars == <<errno, pc, data, wrote, eof, stalled>>

Clients == Players \cup Publishers

SocketInit ==
  /\ errno = "none"
  /\ pc = [t \in Clients |-> "run"]
  /\ data = [t \in Clients |-> 0]
  /\ wrote = [t \in Clients |-> 0]
  /\ eof = [t \in Clients |-> FALSE]
  /\ stalled = [t \in Clients |-> FALSE]

-----------------------------------------------------------------------------
(* The peer, and the network.                                              *)

Arrive(t) ==
  /\ ~eof[t] /\ wrote[t] < MaxData
  /\ data' = [data EXCEPT ![t] = @ + 1]
  /\ wrote' = [wrote EXCEPT ![t] = @ + 1]
  /\ UNCHANGED <<errno, pc, eof, stalled>>

Close(t) ==
  /\ ~eof[t]
  /\ eof' = [eof EXCEPT ![t] = TRUE]
  /\ UNCHANGED <<errno, pc, data, wrote, stalled>>

Stall(t) ==
  /\ ~stalled[t]
  /\ stalled' = [stalled EXCEPT ![t] = TRUE]
  /\ UNCHANGED <<errno, pc, data, wrote, eof>>

-----------------------------------------------------------------------------
\* A timeout that is not told from other failures.
read_no_timeout(n, e) == IF n > 0 THEN "SUCCESS" ELSE "SOCKET_READ"

\* An end of file taken for a success.
read_no_eof(n, e) ==
  CASE n >= 0 -> "SUCCESS"
    [] e = "ETIME" -> "SOCKET_TIMEOUT"
    [] OTHER -> "SOCKET_READ"

(* What RssSocket::read makes of the result n of st_read and of errno.     *)
read(n, e) ==
  CASE n > 0 -> "SUCCESS"
    [] n <= 0 /\ e = "ETIME" -> "SOCKET_TIMEOUT"
    [] OTHER -> "SOCKET_READ"

\* The server's error code stored in errno.
errno_after_code(n, e) == IF n = 0 /\ e # "ETIME" THEN read(n, e) ELSE e

(* RssSocket::read sets errno itself when it reports an end of file.       *)
errno_after(n, e) == IF n = 0 /\ e # "ETIME" THEN "ECONNRESET" ELSE e

(* The loop that called: streaming_play sends and goes round after a       *)
(* success or a timeout, streaming_publish goes round after a success      *)
(* only; everything else ends the connection.                              *)
after(t, ret) ==
  CASE ret = "SUCCESS" /\ t \in Players -> "send"
    [] ret = "SOCKET_TIMEOUT" /\ t \in Players -> "send"
    [] ret = "SUCCESS" /\ t \in Publishers -> "run"
    [] OTHER -> "ended"

(* st_read returns n with errno e.                                         *)
Return(t, n, e) ==
  /\ pc' = [pc EXCEPT ![t] = after(t, read(n, e))]
  /\ errno' = errno_after(n, e)

(* st_read, at its beginning and when poll has found the socket readable.  *)
st_read(t) ==
  /\ \/ pc[t] = "run"
     \/ pc[t] = "poll" /\ (data[t] > 0 \/ eof[t])
  /\ IF data[t] > 0 \/ eof[t]
       THEN /\ Return(t, data[t], errno)
            /\ data' = [data EXCEPT ![t] = 0]
       ELSE /\ errno' = "EAGAIN"
            /\ pc' = [pc EXCEPT ![t] = "poll"]
            /\ UNCHANGED data
  /\ UNCHANGED <<wrote, eof, stalled>>

(* st_netfd_poll times out; the socket may become readable just then.      *)
Timeout(t) ==
  /\ pc[t] = "poll"
  /\ Return(t, -1, "ETIME")
  /\ UNCHANGED <<data, wrote, eof, stalled>>

(* The rest of a turn of the play loop when there is nothing to send.      *)
NothingToSend(t) ==
  /\ pc[t] = "send"
  /\ pc' = [pc EXCEPT ![t] = "run"]
  /\ UNCHANGED <<errno, data, wrote, eof, stalled>>

(* The rest of a turn with messages: writev may have to wait for the peer, *)
(* times out when the peer does not read, fails when it is gone, and       *)
(* either way streaming_play returns.                                      *)
writev(t) ==
  /\ pc[t] = "send"
  /\ \/ /\ pc' = [pc EXCEPT ![t] = "run"]
        /\ errno' \in {errno, "EAGAIN"}
     \/ /\ eof[t]
        /\ pc' = [pc EXCEPT ![t] = "ended"]
        /\ errno' = "EPIPE"
     \/ /\ stalled[t]
        /\ pc' = [pc EXCEPT ![t] = "ended"]
        /\ errno' = "ETIME"
  /\ UNCHANGED <<data, wrote, eof, stalled>>

Thread(t) == st_read(t) \/ Timeout(t) \/ NothingToSend(t) \/ writev(t)

SocketNext ==
  \E t \in Clients :
    \/ Arrive(t) \/ Close(t) \/ Stall(t)
    \/ st_read(t) \/ Timeout(t) \/ NothingToSend(t) \/ writev(t)

SocketSpec == SocketInit /\ [][SocketNext]_socketVars

(* The scheduler runs every thread that is ready or whose timeout has      *)
(* passed.  Nothing says that a stream has messages to send.               *)
FairSpec == SocketSpec /\ \A t \in Clients : WF_socketVars(Thread(t))

-----------------------------------------------------------------------------
(* Type correctness of errno and of the threads.                           *)
SocketTypeOK ==
  /\ errno \in {"none", "EAGAIN", "ETIME", "ECONNRESET", "EPIPE"}
  /\ pc \in [Clients -> {"run", "poll", "send", "ended"}]
  /\ data \in [Clients -> 0 .. MaxData]

(* A play client is dropped only when it has closed or does not read:      *)
(* neither the timeouts of its own reads nor the errno another thread left *)
(* behind ends its connection.                                             *)
PlayerEndsWithPeer ==
  \A t \in Players : pc[t] = "ended" => eof[t] \/ stalled[t]

(* The connection of a publisher that closes ends.                         *)
ClosedPublisherEnds == \A t \in Publishers : eof[t] ~> pc[t] = "ended"

(* "a value of 0 means the network connection is closed or end of file is  *)
(* reached": the connection of a play client that closes ends.             *)
ClosedPlayerEnds == \A t \in Players : eof[t] ~> pc[t] = "ended"
=============================================================================
