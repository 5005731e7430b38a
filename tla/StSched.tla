------------------------------ MODULE StSched ------------------------------
(***************************************************************************)
(* The scheduler of State Threads, which runs every thread of the server:  *)
(* one processor, switched only when the running thread waits.  A thread   *)
(* waits for a descriptor (st_poll, under st_read, st_write, st_accept) or *)
(* for time (st_usleep).  When nobody can run the idle thread asks the     *)
(* kernel (epoll) which descriptors are ready, and the clock who is due.   *)
(*                                                                         *)
(* Times are in ticks and relative to _ST_LAST_CLOCK, which is set only by *)
(* the idle thread: due[t] is the due time of t minus LAST_CLOCK, and      *)
(* elapsed the time that has passed since.  The order of threads that are  *)
(* due at the same time is left open here; see StTimeoutHeap.              *)
(***************************************************************************)
EXTENDS Integers, Sequences, SequencesExt, FiniteSets, FiniteSetsExt

CONSTANTS
    Threads,       \* the threads that can exist at one time
    Idle,          \* the idle thread
    Listener,      \* the thread that accepts connections
    Primordial,    \* the thread that calls st_init
    Fds,           \* descriptors
    Longest,       \* the longest timeout, in ticks
    Millisecond,   \* ticks in the unit of epoll_wait
    Workloads      \* what the threads may be programmed to do: sets of calls

ASSUME SchedAssumption ==
    /\ {Listener, Primordial} \subseteq Threads
    /\ Listener # Primordial
    /\ Idle \notin Threads
    /\ Longest \in Nat
    /\ Millisecond \in Nat \ {0}
    /\ IsFiniteSet(Threads)
    /\ IsFiniteSet(Fds)

Events == {"POLLIN", "POLLOUT"}

ST_UTIME_NO_TIMEOUT == -1

(* The calls that give up the processor.                                   *)
Poll(fd, event, timeout) == <<"st_poll", fd, event, timeout>>
Sleep(usecs) == <<"st_usleep", usecs>>
Exit == <<"st_thread_exit">>

Timeouts == 0 .. Longest

VARIABLES
    work,          \* work[t]: the calls the code of t makes
    cur,           \* _ST_CURRENT_THREAD
    state,         \* state[t]; "none" if there is no such thread
    pc,            \* in which call t has been switched out
    runq,          \* _ST_RUNQ
    ioq,           \* _ST_IOQ: the threads whose pollq is linked
    pd,            \* pd[t]: the descriptor, the event and on_ioq of its pollq
    sleepq,        \* the threads with _ST_FL_ON_SLEEPQ
    due,
    elapsed,
    asked,         \* elapsed when epoll_wait was called
    cnt,           \* cnt[fd][e]: rd_ref_cnt and wr_ref_cnt
    evtlist_cnt,
    interest       \* kernel: the events registered with epoll_ctl

epoll == <<cnt, evtlist_cnt, interest>>
vars == <<work, cur, state, pc, pd, runq, ioq, sleepq, due, elapsed, asked, epoll>>

----------------------------------------------------------------------------
(* The events that somebody waits for.                                     *)
_ST_EPOLL_EVENTS(c) == {e \in Events : c[e] > 0}

(* The threads of the queue q that are in S, in the order of the queue.    *)
Those(q, S) ==
    LET places == {k \in DOMAIN q : q[k] \in S}
        ith(i) == CHOOSE k \in places : Cardinality({j \in places : j <= k}) = i
    IN  [i \in 1 .. Cardinality(places) |-> q[ith(i)]]

_ST_DEL_IOQ(t) == ioq' = Those(ioq, Threads \ {t})

(* The head of the run queue q, or the idle thread, is resumed; the states *)
(* of the threads were s.                                                  *)
_st_vp_schedule(s, q) ==
    LET next == IF q = <<>> THEN Idle ELSE Head(q) IN
    /\ cur' = next
    /\ runq' = IF q = <<>> THEN q ELSE Tail(q)
    /\ state' = [s EXCEPT ![next] = "RUNNING"]
    /\ asked' = IF next = Idle THEN elapsed' ELSE 0

(* The pollq of a thread that is not in st_poll.                           *)
NoPollq == [on_ioq |-> FALSE]

(* After st_init.                                                          *)
Init ==
    /\ work \in Workloads
    /\ cur = Primordial
    /\ state = [t \in Threads \cup {Idle} |->
                   CASE t = Primordial -> "RUNNING"
                     [] t = Idle -> "RUNNABLE"
                     [] OTHER -> "none"]
    /\ pc = [t \in Threads |-> "user"]
    /\ runq = <<>>
    /\ ioq = <<>>
    /\ pd = [t \in Threads |-> NoPollq]
    /\ sleepq = {}
    /\ due = [t \in Threads |-> 0]
    /\ elapsed = 0
    /\ asked = 0
    /\ cnt = [fd \in Fds |-> [e \in Events |-> 0]]
    /\ evtlist_cnt = 0
    /\ interest = [fd \in Fds |-> {}]

----------------------------------------------------------------------------
(* Calls of the running thread t.                                          *)
Running(t) == cur = t /\ pc[t] = "user"

(* The server creates threads in main, for the listener, and in the        *)
(* listener, for connections.                                              *)
st_thread_create(t, new) ==
    /\ Running(t)
    /\ work[new] # {}
    /\ new # Primordial
    /\ t = IF new = Listener THEN Primordial ELSE Listener
    /\ state[new] = "none"
    /\ state' = [state EXCEPT ![new] = "RUNNABLE"]
    /\ runq' = Append(runq, new)
    /\ UNCHANGED <<work, cur, pc, pd, ioq, sleepq, due, elapsed, asked, epoll>>

(* main exits when it has started the listener, which never ends: some     *)
(* thread is left, and the idle loop goes on.                              *)
st_thread_exit(t) ==
    /\ Running(t)
    /\ Exit \in work[t]
    /\ state[Listener] # "none"
    /\ UNCHANGED <<work, pc, pd, ioq, sleepq, due, elapsed, epoll>>
    /\ _st_vp_schedule([state EXCEPT ![t] = "none"], runq)

(* The due time counts from the last clock, not from now.                  *)
_st_add_sleep_q(t, timeout) ==
    /\ sleepq' = sleepq \cup {t}
    /\ due' = [due EXCEPT ![t] = timeout]

st_usleep(t, usecs) ==
    /\ Running(t)
    /\ Sleep(usecs) \in work[t]
    /\ pc' = [pc EXCEPT ![t] = "sleep"]
    /\ _st_add_sleep_q(t, usecs)
    /\ UNCHANGED <<work, pd, ioq, elapsed, epoll>>
    /\ _st_vp_schedule([state EXCEPT ![t] = "SLEEPING"], runq)

(* One more waiter; the kernel is told if that changes what is asked for.  *)
_st_epoll_pollset_add(fd, event) ==
    LET c == [cnt[fd] EXCEPT ![event] = @ + 1] IN
    /\ cnt' = [cnt EXCEPT ![fd] = c]
    /\ interest' = [interest EXCEPT ![fd] = _ST_EPOLL_EVENTS(c)]
    /\ evtlist_cnt' = IF _ST_EPOLL_EVENTS(cnt[fd]) = {} THEN evtlist_cnt + 1 ELSE evtlist_cnt

\* Faulty variant: the kernel keeps what nobody waits for any more.
_st_epoll_pollset_del_Silent(fd, event) ==
    /\ cnt' = [cnt EXCEPT ![fd][event] = @ - 1]
    /\ UNCHANGED <<interest, evtlist_cnt>>

(* One waiter less, when a wait has timed out.                             *)
_st_epoll_pollset_del(fd, event) ==
    LET c == [cnt[fd] EXCEPT ![event] = @ - 1] IN
    /\ cnt' = [cnt EXCEPT ![fd] = c]
    /\ interest' = [interest EXCEPT ![fd] = _ST_EPOLL_EVENTS(c)]
    /\ evtlist_cnt' = IF _ST_EPOLL_EVENTS(c) = {} THEN evtlist_cnt - 1 ELSE evtlist_cnt

(* st_netfd_poll: st_poll of one descriptor, for one kind of event.        *)
st_poll(t, fd, event, timeout) ==
    /\ Running(t)
    /\ Poll(fd, event, timeout) \in work[t]
    /\ _st_epoll_pollset_add(fd, event)
    /\ pd' = [pd EXCEPT ![t] = [fd |-> fd, event |-> event, on_ioq |-> TRUE]]
    /\ ioq' = Append(ioq, t)
    /\ IF timeout = ST_UTIME_NO_TIMEOUT THEN UNCHANGED <<sleepq, due>>
                                        ELSE _st_add_sleep_q(t, timeout)
    /\ pc' = [pc EXCEPT ![t] = "poll"]
    /\ UNCHANGED <<work, elapsed>>
    /\ _st_vp_schedule([state EXCEPT ![t] = "IO_WAIT"], runq)

\* Faulty variant: a wait that has timed out leaves its pollq linked.
st_poll_returns_Linked(t) ==
    /\ cur = t
    /\ pc[t] = "poll"
    /\ pc' = [pc EXCEPT ![t] = "user"]
    /\ IF pd[t].on_ioq
       THEN /\ _st_epoll_pollset_del(pd[t].fd, pd[t].event)
       ELSE UNCHANGED epoll
    /\ pd' = [pd EXCEPT ![t] = NoPollq]
    /\ UNCHANGED <<work, cur, state, runq, ioq, sleepq, due, elapsed, asked>>

(* The rest of st_poll, when t runs again: if its pollq is still linked    *)
(* the wait has timed out.                                                 *)
st_poll_returns(t) ==
    /\ cur = t
    /\ pc[t] = "poll"
    /\ pc' = [pc EXCEPT ![t] = "user"]
    /\ IF pd[t].on_ioq
       THEN /\ _ST_DEL_IOQ(t)
            /\ _st_epoll_pollset_del(pd[t].fd, pd[t].event)
       ELSE UNCHANGED <<ioq, epoll>>
    /\ pd' = [pd EXCEPT ![t] = NoPollq]
    /\ UNCHANGED <<work, cur, state, runq, sleepq, due, elapsed, asked>>

st_usleep_returns(t) ==
    /\ cur = t
    /\ pc[t] = "sleep"
    /\ pc' = [pc EXCEPT ![t] = "user"]
    /\ UNCHANGED <<work, cur, state, pd, runq, ioq, sleepq, due, elapsed, asked, epoll>>

----------------------------------------------------------------------------
(* The idle thread.                                                        *)

(* External: what epoll_wait may report, only events that are registered.  *)
(* An error on a descriptor sets all the events that are waited for.       *)
Reports == {revents \in [Fds -> SUBSET Events] : \A fd \in Fds : revents[fd] \subseteq interest[fd]}

Nothing == [fd \in Fds |-> {}]

(* The time before the first thread is due; without threads on the sleep   *)
(* queue there is no timeout.                                              *)
min_timeout == IF sleepq = {} THEN ST_UTIME_NO_TIMEOUT
                              ELSE Max({0, Min({due[t] : t \in sleepq})})

(* epoll_wait returns when something is ready or when the timeout, cut to  *)
(* whole milliseconds, has passed since the call.                          *)
epoll_wait(revents, timeout) ==
    \/ revents # Nothing
    \/ /\ timeout # ST_UTIME_NO_TIMEOUT
       /\ elapsed - asked >= (timeout \div Millisecond) * Millisecond

(* The threads dispatch notifies, in the order of the queue.               *)
Notified(revents) == Those(ioq, {t \in ToSet(ioq) : pd[t].event \in revents[pd[t].fd]})

(* Their pollqs are unlinked, their counts given back, and the kernel is   *)
(* told, once per descriptor that has fired.                               *)
_st_epoll_dispatch(revents) ==
    LET told == ToSet(Notified(revents))
        fired == {fd \in Fds : revents[fd] # {}}
        left == [fd \in Fds |-> [e \in Events |->
                    cnt[fd][e] - Cardinality({t \in told : pd[t].fd = fd /\ pd[t].event = e})]]
    IN  /\ ioq' = Those(ioq, Threads \ told)
        /\ pd' = [t \in Threads |-> IF t \in told THEN NoPollq ELSE pd[t]]
        /\ cnt' = left
        /\ interest' = [fd \in Fds |-> IF fd \in fired THEN _ST_EPOLL_EVENTS(left[fd])
                                                       ELSE interest[fd]]
        /\ evtlist_cnt' = evtlist_cnt
                              - Cardinality({fd \in fired : _ST_EPOLL_EVENTS(left[fd]) = {}})

(* The threads that are still on the sleep queue after dispatch, and the   *)
(* orders in which check_clock may take those that are due: all of them,   *)
(* the earliest first.                                                     *)
Asleep(revents) == sleepq \ ToSet(Notified(revents))

Orders(revents) ==
    {q \in SetToSeqs({t \in Asleep(revents) : due[t] <= elapsed}) :
        \A i, j \in DOMAIN q : i < j => due[q[i]] <= due[q[j]]}

\* Faulty variant: the clock advances, and the due times with it.
_st_vp_check_clock_Restarted(revents, order) ==
    /\ sleepq' = Asleep(revents) \ ToSet(order)
    /\ due' = [t \in Threads |-> IF t \in sleepq' THEN due[t] ELSE 0]
    /\ elapsed' = 0

(* The clock is read, and the threads of order leave the sleep queue.      *)
_st_vp_check_clock(revents, order) ==
    /\ sleepq' = Asleep(revents) \ ToSet(order)
    /\ due' = [t \in Threads |-> IF t \in sleepq' THEN due[t] - elapsed ELSE 0]
    /\ elapsed' = 0

(* One turn of the idle loop; timeout is what dispatch passes on.          *)
_st_idle_thread_start(revents, timeout, order) ==
    /\ cur = Idle
    /\ epoll_wait(revents, timeout)
    /\ _st_epoll_dispatch(revents)
    /\ _st_vp_check_clock(revents, order)
    /\ LET woken == Notified(revents) \o order IN
       _st_vp_schedule([t \in Threads \cup {Idle} |->
                           IF t = Idle \/ t \in ToSet(woken) THEN "RUNNABLE" ELSE state[t]],
                       runq \o woken)
    /\ UNCHANGED <<work, pc>>

----------------------------------------------------------------------------
(* External: time passes, for at most Longest while threads run and for at *)
(* most Longest while epoll_wait waits.                                    *)
Tick ==
    /\ elapsed - asked < Longest
    /\ elapsed' = elapsed + 1
    /\ UNCHANGED <<work, cur, state, pc, pd, runq, ioq, sleepq, due, asked, epoll>>

Thread ==
    \/ \E t, new \in Threads : st_thread_create(t, new)
    \/ \E t \in Threads : st_thread_exit(t)
    \/ \E t \in Threads, usecs \in Timeouts : st_usleep(t, usecs)
    \/ \E t \in Threads, fd \in Fds, event \in Events,
          timeout \in Timeouts \cup {ST_UTIME_NO_TIMEOUT} : st_poll(t, fd, event, timeout)
    \/ \E t \in Threads : st_poll_returns(t)
    \/ \E t \in Threads : st_usleep_returns(t)

IdleTurn(revents) ==
    \E order \in Orders(revents) : _st_idle_thread_start(revents, min_timeout, order)

Next == Thread \/ (\E revents \in Reports : IdleTurn(revents)) \/ Tick

Spec == Init /\ [][Next]_vars

(* The running thread waits or ends at some time: threads are cooperative, *)
(* and one that could always go on at once would never let another run.    *)
(* Time passes, and epoll_wait returns after its timeout whatever the      *)
(* descriptors do.                                                         *)
Fairness == WF_vars(Thread) /\ WF_vars(IdleTurn(Nothing)) /\ WF_vars(Tick)

----------------------------------------------------------------------------
(* A thread is where its state says, and nowhere twice: the run queue      *)
(* holds the runnable threads, and when the idle thread looks at the I/O   *)
(* queue every pollq on it is that of a thread that still waits (the pollq *)
(* lives on that thread's stack: sched.c:64, event.c:1277).                *)
QueuesExact ==
    /\ IsInjective(runq)
    /\ IsInjective(ioq)
    /\ ToSet(runq) = {t \in Threads : state[t] = "RUNNABLE"}
    /\ sleepq \subseteq {t \in Threads : state[t] \in {"SLEEPING", "IO_WAIT"}}
    /\ \A t \in Threads : state[t] = "SLEEPING" => t \in sleepq
    /\ \A t \in ToSet(ioq) : state[t] # "none" /\ pc[t] = "poll" /\ pd[t].on_ioq
    /\ cur = Idle => ToSet(ioq) = {t \in Threads : state[t] = "IO_WAIT"}

(* The reference counts are the waiters, the kernel watches exactly the    *)
(* events somebody waits for, and evtlist_cnt descriptors are registered:  *)
(* no wakeup is lost, and none is reported that nobody takes, which would  *)
(* keep the idle loop spinning (event.c:1129, 1169, 1323).                 *)
EpollExact ==
    /\ \A fd \in Fds :
          /\ \A e \in Events :
                cnt[fd][e] = Cardinality({t \in ToSet(ioq) : pd[t].fd = fd /\ pd[t].event = e})
          /\ interest[fd] = _ST_EPOLL_EVENTS(cnt[fd])
    /\ evtlist_cnt = Cardinality({fd \in Fds : interest[fd] # {}})

(* What the scheduler keeps beside QueuesExact, which is not inductive     *)
(* alone: one thread runs, the idle thread runs only when no other can,    *)
(* and a pollq is linked from st_poll on until dispatch or the rest of     *)
(* st_poll takes it off.                                                   *)
SchedTypes ==
    /\ cur \in Threads \cup {Idle}
    /\ state \in [Threads \cup {Idle} -> {"none", "RUNNABLE", "RUNNING", "SLEEPING", "IO_WAIT"}]
    /\ pc \in [Threads -> {"user", "sleep", "poll"}]
    /\ runq \in Seq(Threads)
    /\ ioq \in Seq(Threads)
    /\ pd \in [Threads -> {NoPollq} \cup [fd : Fds, event : Events, on_ioq : {TRUE}]]
    /\ sleepq \subseteq Threads

OneRuns ==
    /\ \A t \in Threads : state[t] = "RUNNING" <=> t = cur
    /\ cur = Idle => runq = <<>>

LinkedInPoll ==
    /\ ToSet(ioq) = {t \in Threads : pd[t].on_ioq}
    /\ \A t \in Threads :
          /\ pd[t].on_ioq => pc[t] = "poll"
          /\ pc[t] = "poll" => state[t] \notin {"none", "SLEEPING"}
          /\ state[t] = "IO_WAIT" => pd[t].on_ioq

SInv == SchedTypes /\ OneRuns /\ LinkedInPoll /\ QueuesExact

EpollTypes ==
    /\ cnt \in [Fds -> [Events -> Int]]
    /\ evtlist_cnt \in Int
    /\ interest \in [Fds -> SUBSET Events]

EInv == SInv /\ EpollTypes /\ EpollExact

(* Every sleep and every wait with a timeout ends: the thread runs again,  *)
(* however the others wait, sleep and are served (sched.c:452, 467).       *)
TimedWaitEnds == \A t \in Threads : t \in sleepq ~> cur = t
=============================================================================
