-------------------------- MODULE MC_StTimeoutHeap --------------------------
(* The scheduler and its timeout heap for TLC: two workloads for the       *)
(* scheduler, and one that fills the heap.                                 *)
EXTENDS StTimeoutHeap

CONSTANTS main, listener, c1, c2, c3, c4, c5, c6, idle, f1, f2

Server == main :> {Exit} @@ listener :> {Poll(f1, "POLLIN", ST_UTIME_NO_TIMEOUT)}

MCThreads == {main, listener, c1, c2, c3, c4}

(* Two connections that wait in every way, for the same descriptor, and    *)
(* come and go.                                                            *)
AnyWait ==
    {Exit, Sleep(0), Sleep(3)} \cup
        {Poll(f1, event, timeout) : event \in Events, timeout \in {ST_UTIME_NO_TIMEOUT, 3}}

ComeAndGo == c1 :> AnyWait @@ c2 :> AnyWait

(* Four that all have a timeout, and end their waits by it or before.      *)
AllTimed ==
    c1 :> {Sleep(3)} @@ c2 :> {Poll(f1, "POLLIN", 3)} @@
    c3 :> {Sleep(1)} @@ c4 :> {Poll(f2, "POLLIN", 2)}

MCWorkloads ==
    {connections @@ Server @@ [t \in MCThreads |-> {}] : connections \in {ComeAndGo, AllTimed}}

(* Six on the heap at once.  A thread whose descriptor is ready may then   *)
(* leave the left subtree while the last one of the heap, in the right     *)
(* one, is due before the parent of the place it moves to.                 *)
HeapThreads == MCThreads \cup {c5, c6}

SixTimed ==
    [c \in {c1, c2, c3} |-> {Sleep(1)}] @@
    [c \in {c4, c5} |-> {Sleep(2)}] @@ c6 :> {Poll(f1, "POLLIN", 2)}

HeapWorkloads == {SixTimed @@ Server}

(* Threads with the same program.                                          *)
Alike == Permutations({c1, c2, c3}) \cup Permutations({c4, c5})
=============================================================================
