----------------------------- MODULE RssServer -----------------------------
(***************************************************************************)
(* RssServer and RssConnection: the listen thread accepts clients, every   *)
(* client gets a connection object and a thread of its own, the thread     *)
(* takes the object out of the server's list and deletes it when it ends,  *)
(* and play clients share the server's report interval.                    *)
(*                                                                         *)
(* State threads are switched only where they wait, so accept_client and   *)
(* remove are atomic.  A connection object that was deleted may be         *)
(* allocated again: Conns are the addresses.                               *)
(***************************************************************************)
EXTENDS Integers, Sequences

CONSTANTS
  Conns,           \* connection objects
  ReportInterval,  \* RSS_CONST_REPORT_INTERVAL_MS, in pulses
  StartMayFail,    \* TRUE when st_thread_create may fail
  MaxTime          \* bound: pulses of a play loop

ASSUME ReportIntervalPos == ReportInterval \in Nat \ {0}
ASSUME MaxTimeNat == MaxTime \in Nat
ASSUME StartMayFailBool == StartMayFail \in BOOLEAN

VARIABLES
  conns,                   \* RssServer::conns
  rss_report_interval_ms,  \* RssServer::rss_report_interval_ms, in pulses
  thread,                  \* the object and the thread of a connection
  report_time,             \* locals of streaming_play
  reported_time

vars == <<conns, rss_report_interval_ms, thread, report_time, reported_time>>

(* "free": no object; "none": an object whose thread could not be created; *)
(* "session": the thread runs do_cycle; "play": it is in the play loop.    *)
Threads == {"free", "none", "session", "play"}

Init ==
  /\ conns = <<>>
  /\ rss_report_interval_ms = ReportInterval
  /\ thread = [c \in Conns |-> "free"]
  /\ report_time = [c \in Conns |-> 0]
  /\ reported_time = [c \in Conns |-> 0]

Listed == {conns[i] : i \in 1 .. Len(conns)}

-----------------------------------------------------------------------------
\* The interval computed before the client is counted.
accept_client_early(c) ==
  /\ thread[c] = "free"
  /\ conns' = Append(conns, c)
  /\ rss_report_interval_ms' = ReportInterval * Len(conns)
  /\ thread' \in {[thread EXCEPT ![c] = s] :
                    s \in {"session"} \cup IF StartMayFail THEN {"none"} ELSE {}}
  /\ UNCHANGED <<report_time, reported_time>>

(* accept_client: the object is listed and the interval follows the number *)
(* of clients; then start creates the thread, or fails, which the listen   *)
(* thread only logs.                                                       *)
accept_client(c) ==
  /\ thread[c] = "free"
  /\ conns' = Append(conns, c)
  /\ rss_report_interval_ms' = ReportInterval * Len(conns')
  /\ thread' \in {[thread EXCEPT ![c] = s] :
                    s \in {"session"} \cup IF StartMayFail THEN {"none"} ELSE {}}
  /\ UNCHANGED <<report_time, reported_time>>

(* The session has made the client a player: streaming_play begins.        *)
streaming_play(c) ==
  /\ thread[c] = "session"
  /\ thread' = [thread EXCEPT ![c] = "play"]
  /\ report_time' = [report_time EXCEPT ![c] = 0]
  /\ reported_time' = [reported_time EXCEPT ![c] = 0]
  /\ UNCHANGED <<conns, rss_report_interval_ms>>

\* An interval that does not follow the number of clients.
can_report_fixed(reported, time) == time - reported >= ReportInterval

(* can_report: the interval has passed since the last report.              *)
can_report(reported, time) ==
  /\ rss_report_interval_ms > 0
  /\ time - reported >= rss_report_interval_ms

(* One turn of the play loop, as far as reports go.                        *)
Pulse(c) ==
  LET time == report_time[c] + 1
  IN /\ thread[c] = "play"
     /\ time <= MaxTime
     /\ report_time' = [report_time EXCEPT ![c] = time]
     /\ reported_time' = IF can_report(reported_time[c], time)
                           THEN [reported_time EXCEPT ![c] = time]
                           ELSE reported_time
     /\ UNCHANGED <<conns, rss_report_interval_ms, thread>>

-----------------------------------------------------------------------------
\* An object that is deleted and stays in the list.
removed_unlisted(i) == conns

\* conns.erase at position i.
erased(i) ==
  [j \in 1 .. Len(conns) - 1 |-> IF j < i THEN conns[j] ELSE conns[j + 1]]

(* remove: the object leaves the list, if it is there, and is deleted.     *)
remove(c) ==
  /\ thread' = [thread EXCEPT ![c] = "free"]
  /\ IF c \in Listed
       THEN \E i \in 1 .. Len(conns) :
              /\ conns[i] = c
              /\ \A j \in 1 .. i - 1 : conns[j] # c
              /\ conns' = erased(i)
       ELSE UNCHANGED conns
  /\ UNCHANGED <<rss_report_interval_ms, report_time, reported_time>>

(* RssConnection::cycle: do_cycle has returned, whatever it returned.      *)
cycle(c) ==
  /\ thread[c] \in {"session", "play"}
  /\ remove(c)

Next ==
  \E c \in Conns :
    \/ accept_client(c)
    \/ streaming_play(c)
    \/ Pulse(c)
    \/ cycle(c)

Spec == Init /\ [][Next]_vars

-----------------------------------------------------------------------------
(* Type correctness; the interval that can_report tests is never zero,     *)
(* although it is computed from the number of clients.                     *)
TypeOK ==
  /\ conns \in Seq(Conns)
  /\ rss_report_interval_ms \in Nat \ {0}
  /\ thread \in [Conns -> Threads]
  /\ report_time \in [Conns -> Nat]
  /\ reported_time \in [Conns -> Nat]

(* The list holds exactly the connections that exist, each once: no thread *)
(* runs on a deleted object, the destructor of the server deletes none     *)
(* twice, and none is lost, also when objects are allocated anew and when  *)
(* a thread could not be created.                                          *)
ListedOnce ==
  /\ \A c \in Conns : c \in Listed <=> thread[c] # "free"
  /\ \A i, j \in 1 .. Len(conns) : conns[i] = conns[j] => i = j

(* The interval counts every client in the list.                           *)
IntervalCovers == rss_report_interval_ms >= ReportInterval * Len(conns)

(* The inductive invariant: ReportsSpread rests on IntervalCovers.         *)
IInv == TypeOK /\ ListedOnce /\ IntervalCovers

(* While clients come and go, a play client lets as many base intervals    *)
(* pass between two reports as there are clients, or more: together they   *)
(* report no more than once per base interval.                             *)
ReportsSpread ==
  [][\A c \in Conns :
       reported_time'[c] > reported_time[c] =>
         reported_time'[c] - reported_time[c] >= ReportInterval * Len(conns)]_vars
=============================================================================
