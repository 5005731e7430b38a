-------------------------- MODULE RssServer_proofs --------------------------
(***************************************************************************)
(* The server's list and its report interval, for any number of            *)
(* connections and any base interval; and the sockets that its threads     *)
(* read from.                                                              *)
(***************************************************************************)
EXTENDS RssServer, RssSocket, SequenceTheorems, TLAPS

(* Erasing a position shifts the rest of the list by one.                  *)
LEMMA EraseShifts ==
  ASSUME TypeOK, NEW i \in 1 .. Len(conns)
  PROVE /\ erased(i) \in Seq(Conns)
        /\ Len(erased(i)) = Len(conns) - 1
        /\ \A j \in 1 .. Len(conns) - 1 :
             erased(i)[j] = IF j < i THEN conns[j] ELSE conns[j + 1]
<1>1. Len(conns) \in Nat /\ \A j \in 1 .. Len(conns) : conns[j] \in Conns
  BY DEF TypeOK
<1>2. Len(conns) - 1 \in Nat
  BY <1>1
<1>3. \A j \in 1 .. Len(conns) - 1 :
        (IF j < i THEN conns[j] ELSE conns[j + 1]) \in Conns
  BY <1>1
<1> QED
  BY <1>2, <1>3, IsASeq DEF erased

(* The invariant holds initially.                                          *)
LEMMA InitIInv == Init => IInv
BY ReportIntervalPos DEF Init, IInv, TypeOK, ListedOnce, IntervalCovers, Listed, Threads

(* A client that is accepted is listed, and counted by the interval.       *)
LEMMA AcceptIInv ==
  ASSUME IInv, NEW c \in Conns, accept_client(c)
  PROVE IInv'
<1> USE DEF IInv
<1>1. conns \in Seq(Conns) /\ Len(conns) \in Nat
  BY DEF TypeOK
<1>2. /\ conns' = Append(conns, c)
      /\ conns' \in Seq(Conns)
      /\ Len(conns') = Len(conns) + 1
      /\ conns'[Len(conns) + 1] = c
      /\ \A j \in 1 .. Len(conns) : conns'[j] = conns[j]
  BY <1>1 DEF accept_client
<1>3. c \notin Listed
  BY DEF accept_client, ListedOnce
<1>4. PICK s \in {"session", "none"} : thread' = [thread EXCEPT ![c] = s]
  BY DEF accept_client
<1>5. TypeOK'
  <2>1. ReportInterval * (Len(conns) + 1) \in Nat \ {0}
    BY <1>1, ReportIntervalPos
  <2> QED
    BY <1>2, <1>4, <2>1 DEF accept_client, TypeOK, Threads
<1>6. Listed' = Listed \cup {c}
  BY <1>1, <1>2 DEF Listed
<1>7. ListedOnce'
  <2>1. \A d \in Conns : d \in Listed' <=> thread'[d] # "free"
    BY <1>4, <1>6 DEF ListedOnce, TypeOK
  <2>2. \A i, j \in 1 .. Len(conns') : conns'[i] = conns'[j] => i = j
    BY <1>1, <1>2, <1>3 DEF ListedOnce, Listed
  <2> QED
    BY <2>1, <2>2 DEF ListedOnce
<1>8. IntervalCovers'
  BY <1>1, <1>2, ReportIntervalPos DEF accept_client, IntervalCovers
<1> QED
  BY <1>5, <1>7, <1>8

(* The connection whose thread ends leaves the list, and no other does.    *)
LEMMA CycleIInv ==
  ASSUME IInv, NEW c \in Conns, cycle(c)
  PROVE IInv'
<1> USE DEF IInv
<1>1. conns \in Seq(Conns) /\ Len(conns) \in Nat
  BY DEF TypeOK
<1>2. c \in Listed
  BY DEF cycle, ListedOnce
<1>3. PICK i \in 1 .. Len(conns) : conns[i] = c /\ conns' = erased(i)
  BY <1>2 DEF cycle, remove
<1>4. /\ conns' \in Seq(Conns)
      /\ Len(conns') = Len(conns) - 1
      /\ \A j \in 1 .. Len(conns) - 1 :
           conns'[j] = IF j < i THEN conns[j] ELSE conns[j + 1]
  BY <1>3, EraseShifts
<1>5. thread' = [thread EXCEPT ![c] = "free"]
  BY DEF cycle, remove
<1>6. TypeOK'
  BY <1>4, <1>5 DEF cycle, remove, TypeOK, Threads
<1>7. \A j, k \in 1 .. Len(conns) : conns[j] = conns[k] => j = k
  BY DEF ListedOnce
<1>8. Listed' = Listed \ {c}
  <2>1. ASSUME NEW j \in 1 .. Len(conns')
        PROVE conns'[j] \in Listed \ {c}
    <3>1. CASE j < i
      BY <1>1, <1>3, <1>4, <1>7, <3>1 DEF Listed
    <3>2. CASE ~(j < i)
      <4>1. j + 1 \in 1 .. Len(conns) /\ j + 1 # i /\ conns'[j] = conns[j + 1]
        BY <1>1, <1>4, <3>2
      <4> QED
        BY <4>1, <1>3, <1>7 DEF Listed
    <3> QED
      BY <3>1, <3>2
  <2>2. ASSUME NEW d \in Listed \ {c}
        PROVE d \in Listed'
    <3>1. PICK k \in 1 .. Len(conns) : conns[k] = d
      BY DEF Listed
    <3>2. k # i
      BY <1>3, <3>1
    <3>3. CASE k < i
      <4>1. k \in 1 .. Len(conns') /\ conns'[k] = d
        BY <1>1, <1>4, <3>1, <3>3
      <4> QED
        BY <4>1 DEF Listed
    <3>4. CASE k > i
      <4>1. k - 1 \in 1 .. Len(conns') /\ conns'[k - 1] = d
        BY <1>1, <1>4, <3>1, <3>4
      <4> QED
        BY <4>1 DEF Listed
    <3> QED
      BY <3>2, <3>3, <3>4
  <2> QED
    BY <2>1, <2>2 DEF Listed
<1>9. ListedOnce'
  <2>1. \A d \in Conns : d \in Listed' <=> thread'[d] # "free"
    BY <1>5, <1>8 DEF ListedOnce, TypeOK
  <2>2. \A j, k \in 1 .. Len(conns') : conns'[j] = conns'[k] => j = k
    BY <1>1, <1>4, <1>7
  <2> QED
    BY <2>1, <2>2 DEF ListedOnce
<1>10. IntervalCovers'
  <2>1. ReportInterval * (Len(conns) - 1) <= ReportInterval * Len(conns)
    BY <1>1, ReportIntervalPos
  <2>2. ReportInterval * (Len(conns) - 1) \in Int /\ ReportInterval * Len(conns) \in Int
    BY <1>1, ReportIntervalPos
  <2> QED
    BY <1>4, <2>1, <2>2 DEF cycle, remove, IntervalCovers, TypeOK
<1> QED
  BY <1>6, <1>9, <1>10

(* A play loop touches neither the list nor the interval.                  *)
LEMMA PlayIInv ==
  ASSUME IInv, NEW c \in Conns, streaming_play(c) \/ Pulse(c)
  PROVE IInv'
<1> USE DEF IInv
<1>1. conns' = conns /\ rss_report_interval_ms' = rss_report_interval_ms
  BY DEF streaming_play, Pulse
<1>2. TypeOK'
  <2>1. CASE streaming_play(c)
    BY <2>1 DEF streaming_play, TypeOK, Threads
  <2>2. CASE Pulse(c)
    BY <2>2 DEF Pulse, TypeOK, Threads
  <2> QED
    BY <2>1, <2>2
<1>3. \A d \in Conns : thread'[d] # "free" <=> thread[d] # "free"
  BY DEF streaming_play, Pulse, TypeOK
<1>4. ListedOnce'
  BY <1>1, <1>3 DEF ListedOnce, Listed
<1>5. IntervalCovers'
  BY <1>1 DEF IntervalCovers
<1> QED
  BY <1>2, <1>4, <1>5

(* IInv is an invariant of the server.                                     *)
THEOREM Inductive == Spec => []IInv
<1>1. IInv /\ [Next]_vars => IInv'
  <2> SUFFICES ASSUME IInv, [Next]_vars PROVE IInv'
    OBVIOUS
  <2>1. CASE Next
    BY <2>1, AcceptIInv, CycleIInv, PlayIInv DEF Next
  <2>2. CASE UNCHANGED vars
    BY <2>2 DEF vars, IInv, TypeOK, ListedOnce, Listed, IntervalCovers
  <2> QED
    BY <2>1, <2>2
<1> QED
  BY InitIInv, <1>1, PTL DEF Spec

(* The types; the interval that can_report tests stays positive, although  *)
(* it is computed from the number of clients.                              *)
THEOREM TypeCorrect == Spec => []TypeOK
<1>1. IInv => TypeOK
  BY DEF IInv
<1> QED
  BY <1>1, Inductive, PTL

(* The list of the server holds exactly the connections that exist, each   *)
(* once, in every reachable state: remove and accept_client keep it so.    *)
THEOREM ListIsExact == Spec => []ListedOnce
<1>1. IInv => ListedOnce
  BY DEF IInv
<1> QED
  BY <1>1, Inductive, PTL

(* Every report of a play client is preceded by as many base intervals     *)
(* without one as there are clients.                                       *)
THEOREM ReportsAreSpread == Spec => ReportsSpread
<1> DEFINE Spread ==
      \A c \in Conns :
        reported_time'[c] > reported_time[c] =>
          reported_time'[c] - reported_time[c] >= ReportInterval * Len(conns)
<1>1. IInv /\ [Next]_vars => [Spread]_vars
  <2> SUFFICES ASSUME IInv, Next, NEW c \in Conns,
                      reported_time'[c] > reported_time[c]
               PROVE reported_time'[c] - reported_time[c] >= ReportInterval * Len(conns)
    BY DEF Next
  <2>1. PICK d \in Conns : \/ accept_client(d) \/ streaming_play(d)
                           \/ Pulse(d) \/ cycle(d)
    BY DEF Next
  <2>2. reported_time \in [Conns -> Nat] /\ report_time \in [Conns -> Nat]
    BY DEF IInv, TypeOK
  <2>3. Pulse(d)
    <3>1. ~(accept_client(d) \/ cycle(d))
      BY <2>2 DEF accept_client, cycle, remove
    <3>2. ~streaming_play(d)
      BY <2>2 DEF streaming_play
    <3> QED
      BY <2>1, <3>1, <3>2
  <2>4. d = c /\ reported_time'[c] - reported_time[c] >= rss_report_interval_ms
    BY <2>2, <2>3 DEF Pulse, can_report
  <2>5. ReportInterval * Len(conns) \in Int /\ rss_report_interval_ms \in Int
    BY ReportIntervalPos DEF IInv, TypeOK
  <2>6. reported_time'[c] \in Nat /\ reported_time[c] \in Nat
    BY <2>2, <2>3 DEF Pulse
  <2> QED
    BY <2>4, <2>5, <2>6 DEF IInv, IntervalCovers
<1> QED
  BY <1>1, Inductive, PTL DEF Spec, ReportsSpread

-----------------------------------------------------------------------------
(* The sockets: RssSocket, for any number of threads and messages.         *)

\* What the runs check of the types, and the rest of what the proofs need:
\* a peer has written at least what is unread.
SocketInv ==
  /\ SocketTypeOK
  /\ wrote \in [Clients -> 0 .. MaxData]
  /\ \A t \in Clients : data[t] <= wrote[t]
  /\ eof \in [Clients -> BOOLEAN]
  /\ stalled \in [Clients -> BOOLEAN]

(* What read reports, and what the loop that called makes of it.           *)
LEMMA ReadResult ==
  ASSUME NEW n \in Int, NEW e
  PROVE  /\ read(n, e) \in {"SUCCESS", "SOCKET_TIMEOUT", "SOCKET_READ"}
         /\ read(n, e) = "SUCCESS" <=> n > 0
         /\ read(n, e) = "SOCKET_TIMEOUT" <=> n <= 0 /\ e = "ETIME"
BY DEF read

LEMMA AfterType ==
  ASSUME NEW t \in Clients, NEW ret
  PROVE  after(t, ret) \in {"run", "send", "ended"}
BY DEF after

LEMMA ErrnoType ==
  ASSUME errno \in {"none", "EAGAIN", "ETIME", "ECONNRESET", "EPIPE"},
         NEW n, NEW e \in {errno, "ETIME"}
  PROVE  errno_after(n, e) \in {"none", "EAGAIN", "ETIME", "ECONNRESET", "EPIPE"}
BY DEF errno_after

(* errno and the threads keep their types.                                 *)
LEMMA SocketStep ==
  ASSUME SocketInv, [SocketNext]_socketVars
  PROVE  SocketInv'
<1> USE SocketAssumption DEF SocketInv, SocketTypeOK
<1>1. ASSUME NEW t \in Clients, Arrive(t)
      PROVE  SocketInv'
  BY <1>1 DEF Arrive
<1>2. ASSUME NEW t \in Clients, Close(t) \/ Stall(t)
      PROVE  SocketInv'
  BY <1>2 DEF Close, Stall
<1>3. ASSUME NEW t \in Clients, st_read(t)
      PROVE  SocketInv'
  <2>1. pc' \in [Clients -> {"run", "poll", "send", "ended"}]
    BY <1>3, AfterType DEF st_read, Return
  <2>2. errno' \in {"none", "EAGAIN", "ETIME", "ECONNRESET", "EPIPE"}
    BY <1>3, ErrnoType DEF st_read, Return
  <2>3. data' \in [Clients -> 0 .. MaxData] /\ \A c \in Clients : data'[c] <= wrote[c]
    BY <1>3 DEF st_read
  <2> QED BY <1>3, <2>1, <2>2, <2>3 DEF st_read
<1>4. ASSUME NEW t \in Clients, Timeout(t)
      PROVE  SocketInv'
  <2>1. pc' \in [Clients -> {"run", "poll", "send", "ended"}]
    BY <1>4, AfterType DEF Timeout, Return
  <2>2. errno' \in {"none", "EAGAIN", "ETIME", "ECONNRESET", "EPIPE"}
    BY <1>4, ErrnoType DEF Timeout, Return
  <2> QED BY <1>4, <2>1, <2>2 DEF Timeout
<1>5. ASSUME NEW t \in Clients, NothingToSend(t) \/ writev(t)
      PROVE  SocketInv'
  BY <1>5 DEF NothingToSend, writev
<1>6. CASE UNCHANGED socketVars
  BY <1>6 DEF socketVars
<1> QED BY <1>1, <1>2, <1>3, <1>4, <1>5, <1>6 DEF SocketNext

LEMMA SocketStarts == SocketInit => SocketInv
BY SocketAssumption DEF SocketInit, SocketInv, SocketTypeOK

(* errno and the threads that RssSocket::read serves keep their types, for *)
(* every behaviour of theirs.                                              *)
THEOREM SocketTypeCorrect == SocketSpec => []SocketTypeOK
<1>1. SocketInv => SocketTypeOK
  BY DEF SocketInv
<1> QED BY <1>1, SocketStarts, SocketStep, PTL DEF SocketSpec

(* A play client is dropped only when it has closed or does not read,      *)
(* whatever errno the other threads leave behind while it waits: read      *)
(* tells streaming_play apart a timeout and an end of the connection.      *)
THEOREM PlayersEndWithTheirPeer == SocketSpec => []PlayerEndsWithPeer
<1>1. SocketInv /\ PlayerEndsWithPeer /\ [SocketNext]_socketVars => PlayerEndsWithPeer'
  <2> SUFFICES ASSUME SocketInv, PlayerEndsWithPeer, [SocketNext]_socketVars
               PROVE  PlayerEndsWithPeer'
    OBVIOUS
  <2> USE DEF SocketInv, SocketTypeOK
  <2>0. Players \subseteq Clients
    BY DEF Clients
  <2>1. ASSUME NEW t \in Clients, Arrive(t) \/ Close(t) \/ Stall(t)
        PROVE  PlayerEndsWithPeer'
    BY <2>0, <2>1 DEF Arrive, Close, Stall, PlayerEndsWithPeer
  <2>2. ASSUME NEW t \in Clients, st_read(t)
        PROVE  PlayerEndsWithPeer'
    <3>1. UNCHANGED <<eof, stalled>>
      BY <2>2 DEF st_read
    <3>2. ASSUME t \in Players, pc'[t] = "ended"
          PROVE  eof[t]
      <4>1. pc'[t] = IF data[t] > 0 \/ eof[t]
                       THEN after(t, read(data[t], errno)) ELSE "poll"
        BY <2>2 DEF st_read, Return
      <4>2. data[t] \in Int
        OBVIOUS
      <4>3. data[t] > 0 => after(t, read(data[t], errno)) = "send"
        <5> SUFFICES ASSUME data[t] > 0
                     PROVE  after(t, read(data[t], errno)) = "send"
          OBVIOUS
        <5>1. read(data[t], errno) = "SUCCESS"
          BY <4>2, ReadResult
        <5> QED BY <3>2, <5>1, SocketAssumption DEF after
      <4> QED BY <3>2, <4>1, <4>3
    <3>3. \A c \in Clients \ {t} : pc'[c] = pc[c]
      BY <2>2 DEF st_read, Return
    <3> QED BY <2>0, <3>1, <3>2, <3>3 DEF PlayerEndsWithPeer
  <2>3. ASSUME NEW t \in Clients, Timeout(t)
        PROVE  PlayerEndsWithPeer'
    <3>1. UNCHANGED <<eof, stalled>> /\ \A c \in Clients \ {t} : pc'[c] = pc[c]
      BY <2>3 DEF Timeout, Return
    <3>2. pc'[t] = after(t, read(-1, "ETIME"))
      BY <2>3 DEF Timeout, Return
    <3>3. read(-1, "ETIME") = "SOCKET_TIMEOUT"
      BY ReadResult
    <3>4. t \in Players => pc'[t] = "send"
      BY <3>2, <3>3 DEF after
    <3> QED BY <2>0, <3>1, <3>4 DEF PlayerEndsWithPeer
  <2>4. ASSUME NEW t \in Clients, NothingToSend(t) \/ writev(t)
        PROVE  PlayerEndsWithPeer'
    BY <2>0, <2>4 DEF NothingToSend, writev, PlayerEndsWithPeer
  <2>5. CASE UNCHANGED socketVars
    BY <2>5 DEF socketVars, PlayerEndsWithPeer
  <2> QED BY <2>1, <2>2, <2>3, <2>4, <2>5 DEF SocketNext
<1>2. SocketInit => PlayerEndsWithPeer
  BY DEF SocketInit, PlayerEndsWithPeer, Clients
<1> QED BY <1>1, <1>2, SocketStarts, SocketStep, PTL DEF SocketSpec
=============================================================================
