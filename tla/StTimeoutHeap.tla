--------------------------- MODULE StTimeoutHeap ---------------------------
(***************************************************************************)
(* The sleep queue of State Threads as it is kept: a balanced binary tree  *)
(* of the threads, heap[i] being the thread with heap_index i, whose       *)
(* children are at 2i and 2i + 1, and whose root is due first.  Threads    *)
(* leave it from any place (their descriptor was ready) or from the root   *)
(* (they are due).  Hiding heap, this specification implements StSched.    *)
(***************************************************************************)
EXTENDS StSched

VARIABLE heap

varsH == <<vars, heap>>

----------------------------------------------------------------------------
(* The indices on the way from the root to i, without i itself.            *)
RECURSIVE Above(_)
Above(i) == IF i = 1 THEN <<>> ELSE Append(Above(i \div 2), i \div 2)

(* On its way down the thread takes the place of a thread that is due      *)
(* later, which goes on in its stead.  d are the due times.                *)
RECURSIVE Descend(_, _, _, _)
Descend(h, d, thread, way) ==
    LET i == Head(way) IN
    CASE Len(way) = 1 -> [h EXCEPT ![i] = thread]
      [] Len(way) > 1 /\ d[thread] < d[h[i]] ->
            Descend([h EXCEPT ![i] = thread], d, h[i], Tail(way))
      [] OTHER -> Descend(h, d, thread, Tail(way))

heap_insert(h, d, thread, target) == Descend(h, d, thread, Append(Above(target), target))

\* Faulty variant: the left child is taken for the younger one.
younger_Left(h, i) == 2 * i

(* The child of i that is due first.                                       *)
younger(h, i) ==
    IF 2 * i + 1 > Len(h) \/ due[h[2 * i]] < due[h[2 * i + 1]] THEN 2 * i ELSE 2 * i + 1

(* The thread at i goes down below the children that are due before it.    *)
RECURSIVE Reestablish(_, _)
Reestablish(h, i) ==
    IF 2 * i <= Len(h) /\ due[h[i]] > due[h[younger(h, i)]]
    THEN LET y == younger(h, i)
         IN  Reestablish([h EXCEPT ![i] = h[y], ![y] = h[i]], y)
    ELSE h

\* Faulty variant: the last thread is put in the place and goes down only.
heap_delete_DownOnly(h, thread) ==
    LET last == Last(h)
        rest == Front(h)
        at == CHOOSE i \in DOMAIN h : h[i] = thread
    IN  IF thread = last THEN rest ELSE Reestablish([rest EXCEPT ![at] = last], at)

(* The last thread is unlinked and put in the place of the deleted one:    *)
(* from the root, where it may be due before those above that place, and   *)
(* then down.                                                              *)
heap_delete(h, thread) ==
    LET last == Last(h)
        rest == Front(h)
        at == CHOOSE i \in DOMAIN h : h[i] = thread
    IN  IF thread = last THEN rest
        ELSE Reestablish(heap_insert(rest, due, last, at), at)

(* Dispatch takes the threads it notifies off the sleep queue, in turn.    *)
AfterDispatch(revents) ==
    FoldLeft(heap_delete, heap, Those(Notified(revents), sleepq))

\* Faulty variant: a thread that is due right now waits for the next turn.
RECURSIVE check_clock_Strict(_, _)
check_clock_Strict(h, order) ==
    IF h # <<>> /\ due[Head(h)] < elapsed
    THEN check_clock_Strict(heap_delete(h, Head(h)), Append(order, Head(h)))
    ELSE [heap |-> h, order |-> order]

(* The loop of check_clock: the root is taken as long as it is due.        *)
RECURSIVE check_clock(_, _)
check_clock(h, order) ==
    IF h # <<>> /\ due[Head(h)] <= elapsed
    THEN check_clock(heap_delete(h, Head(h)), Append(order, Head(h)))
    ELSE [heap |-> h, order |-> order]

(* What dispatch computes from the root.                                   *)
root_timeout == IF heap = <<>> THEN ST_UTIME_NO_TIMEOUT ELSE Max({0, due[Head(heap)]})

----------------------------------------------------------------------------
InitH == Init /\ heap = <<>>

Add(t) == heap' = heap_insert(Append(heap, t), due', t, Len(heap) + 1)

usleepH(t) == \E usecs \in Timeouts : st_usleep(t, usecs) /\ Add(t)

pollH(t) ==
    \E fd \in Fds, event \in Events :
        \/ st_poll(t, fd, event, ST_UTIME_NO_TIMEOUT) /\ UNCHANGED heap
        \/ \E timeout \in Timeouts : st_poll(t, fd, event, timeout) /\ Add(t)

StepH(t) ==
    /\ \/ \E new \in Threads : st_thread_create(t, new)
       \/ st_thread_exit(t)
       \/ st_poll_returns(t)
       \/ st_usleep_returns(t)
    /\ UNCHANGED heap

ThreadH(t) == usleepH(t) \/ pollH(t) \/ StepH(t)

IdleH(revents) ==
    LET clock == check_clock(AfterDispatch(revents), <<>>)
    IN  /\ _st_idle_thread_start(revents, root_timeout, clock.order)
        /\ heap' = clock.heap

TickH == Tick /\ UNCHANGED heap

NextH == (\E t \in Threads : ThreadH(t)) \/ (\E revents \in Reports : IdleH(revents)) \/ TickH

SpecH == InitH /\ [][NextH]_varsH /\ Fairness

----------------------------------------------------------------------------
(* The tree holds exactly the threads on the sleep queue, each once, and   *)
(* no thread is due after its children: the root is what dispatch and      *)
(* check_clock take for the earliest (sched.c:339, 378).                   *)
HeapOrdered ==
    /\ IsInjective(heap)
    /\ ToSet(heap) = sleepq
    /\ \A i \in DOMAIN heap : i > 1 => due[heap[i \div 2]] <= due[heap[i]]

(* With the tree the scheduler wakes all the threads that are due, in the  *)
(* order of their due times, and no other.                                 *)
ImplementsSched == Spec
=============================================================================
