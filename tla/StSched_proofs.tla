--------------------------- MODULE StSched_proofs ---------------------------
(***************************************************************************)
(* The queues of the State Threads scheduler and what it tells epoll are   *)
(* exact, for any number of threads and descriptors and whatever calls the *)
(* threads make.                                                           *)
(***************************************************************************)
EXTENDS StSched, FiniteSetTheorems, WellFoundedInduction, TLAPS

(* A non-empty set of natural numbers has a least element.                *)
LEMMA Least ==
  ASSUME NEW T, T \subseteq Nat, T # {}
  PROVE  \E m \in T : \A n \in T : m <= n
<1> DEFINE R == OpToRel(<, Nat)
<1>1. IsWellFoundedOn(R, Nat)
  BY NatLessThanWellFounded
<1>2. PICK m \in T : \A n \in T : ~ (<<n, m>> \in R)
  <2> HIDE DEF R
  <2> QED BY <1>1, WFMin
<1>3. ASSUME NEW n \in T PROVE m <= n
  <2>1. ~ (<<n, m>> \in R) /\ n \in Nat /\ m \in Nat
    BY <1>2
  <2>2. n < m => <<n, m>> \in R
    BY <2>1 DEF OpToRel
  <2> HIDE DEF R
  <2> QED BY <2>1, <2>2
<1> QED BY <1>3

----------------------------------------------------------------------------
(* Selecting from a queue.                                                 *)

Rank(P, k) == Cardinality({j \in P : j <= k})

(* The ranks of the places P count them, from 1 on, in their order.        *)
LEMMA Ranks ==
    ASSUME NEW n \in Nat, NEW P, \A j \in P : j \in Int /\ 1 <= j /\ j <= n
    PROVE  /\ IsFiniteSet(P) /\ Cardinality(P) \in Nat
           /\ \A k \in P : Rank(P, k) \in 1 .. Cardinality(P)
           /\ \A k, l \in P : k < l => Rank(P, k) < Rank(P, l)
           /\ \A i \in 1 .. Cardinality(P) : \E k \in P : Rank(P, k) = i
<1>1. IsFiniteSet(P) /\ Cardinality(P) \in Nat
  <2>1. IsFiniteSet(1 .. n)
    BY FS_Interval
  <2>2. P \in SUBSET (1 .. n)
    OBVIOUS
  <2> QED BY <2>1, <2>2, FS_Subset, FS_CardinalityType
<1>2. ASSUME NEW k \in Int
      PROVE  /\ IsFiniteSet({j \in P : j <= k})
             /\ Rank(P, k) \in Nat
             /\ Rank(P, k) <= Cardinality(P)
  <2>1. {j \in P : j <= k} \in SUBSET P
    OBVIOUS
  <2> QED BY <1>1, <2>1, FS_Subset, FS_CardinalityType DEF Rank
<1>3. Rank(P, 0) = 0
  <2>1. {j \in P : j <= 0} = {}
    OBVIOUS
  <2> QED BY <2>1, FS_EmptySet DEF Rank
<1>4. Rank(P, n) = Cardinality(P)
  <2>1. {j \in P : j <= n} = P
    OBVIOUS
  <2> QED BY <2>1 DEF Rank
<1>5. ASSUME NEW k \in 1 .. n
      PROVE  Rank(P, k) = IF k \in P THEN Rank(P, k - 1) + 1 ELSE Rank(P, k - 1)
  <2>0. k - 1 \in Int
    OBVIOUS
  <2>1. CASE k \in P
    <3> DEFINE A == {j \in P : j <= k - 1}
    <3>1. \A j \in P : j <= k <=> j <= k - 1 \/ j = k
      OBVIOUS
    <3>2. {j \in P : j <= k} = A \cup {k} /\ k \notin A
      <4>1. ~ (k <= k - 1) /\ k <= k
        OBVIOUS
      <4> QED BY <2>1, <3>1, <4>1, Zenon
    <3>3. IsFiniteSet(A) /\ Rank(P, k - 1) = Cardinality(A)
      BY <1>2, <2>0 DEF Rank
    <3> HIDE DEF A
    <3> QED BY <2>1, <3>2, <3>3, FS_AddElement DEF Rank
  <2>2. CASE k \notin P
    <3>1. {j \in P : j <= k} = {j \in P : j <= k - 1}
      BY <2>2
    <3> QED BY <2>2, <3>1 DEF Rank
  <2> QED BY <2>1, <2>2
<1>6. ASSUME NEW k \in Int, NEW l \in P, k < l
      PROVE  Rank(P, k) < Rank(P, l)
  <2> DEFINE A == {j \in P : j <= k}
             B == {j \in P : j <= l}
  <2>0. \A j \in P : j <= k => j <= l
    BY <1>6
  <2>1. A \cup {l} \in SUBSET B /\ l \notin A
    BY <1>6, <2>0
  <2>2. IsFiniteSet(A) /\ IsFiniteSet(B) /\ Cardinality(A) \in Nat /\ Cardinality(B) \in Nat
    BY <1>2, l \in Int, FS_CardinalityType
  <2> HIDE DEF A, B
  <2>3. Cardinality(A \cup {l}) = Cardinality(A) + 1 /\ Cardinality(A \cup {l}) <= Cardinality(B)
    BY <2>1, <2>2, FS_AddElement, FS_Subset
  <2> QED BY <2>2, <2>3 DEF Rank, A, B
<1>7. ASSUME NEW k \in P PROVE Rank(P, k) \in 1 .. Cardinality(P)
  <2>1. k \in 1 .. n /\ k \in Int /\ k - 1 \in Int
    OBVIOUS
  <2>2. Rank(P, k - 1) \in Nat /\ Rank(P, k) \in Nat /\ Rank(P, k) <= Cardinality(P)
    BY <1>2, <2>1
  <2>3. Rank(P, k) = Rank(P, k - 1) + 1
    BY <1>5, <2>1
  <2> QED BY <1>1, <2>2, <2>3
<1>8. ASSUME NEW i \in 1 .. Cardinality(P) PROVE \E k \in P : Rank(P, k) = i
  <2> DEFINE T == {k \in 0 .. n : Rank(P, k) >= i}
  <2>1. n \in T
    BY <1>1, <1>4
  <2>2. PICK k \in T : \A m \in T : k <= m
    BY <2>1, Least, T \subseteq Nat
  <2>3. k # 0
    BY <1>1, <1>3
  <2>4. k \in 1 .. n /\ k - 1 \in 0 .. n /\ k - 1 \notin T /\ Rank(P, k) >= i
    BY <2>2, <2>3
  <2>5. Rank(P, k - 1) \in Nat /\ Rank(P, k - 1) < i
    <3>1. k - 1 \in Int
      BY <2>4
    <3>2. Rank(P, k - 1) \in Nat
      BY <1>2, <3>1
    <3> QED BY <2>4, <3>2
  <2> QED BY <1>1, <1>5, <2>4, <2>5
<1> QED BY <1>1, <1>6, <1>7, <1>8

(* Those(q, S) has the elements of q that are in S, and no other, as often *)
(* as q has them.                                                          *)
LEMMA ThoseAre ==
    ASSUME NEW T, NEW q \in Seq(T), NEW S
    PROVE  /\ Those(q, S) \in Seq(T)
           /\ ToSet(Those(q, S)) = ToSet(q) \cap S
           /\ IsInjective(q) => IsInjective(Those(q, S))
<1> DEFINE P == {k \in DOMAIN q : q[k] \in S}
           n == Cardinality(P)
           ith(i) == CHOOSE k \in P : Rank(P, k) = i
           r == Those(q, S)
<1>1. r = [i \in 1 .. n |-> q[ith(i)]]
  BY DEF Those, Rank
<1>2. (\A j \in P : j \in Int /\ 1 <= j /\ j <= Len(q)) /\ Len(q) \in Nat
  OBVIOUS
<1>3. /\ n \in Nat
      /\ \A k \in P : Rank(P, k) \in 1 .. n
      /\ \A k, l \in P : k < l => Rank(P, k) < Rank(P, l)
      /\ \A i \in 1 .. n : \E k \in P : Rank(P, k) = i
  <2> HIDE DEF P
  <2> QED BY <1>2, Ranks
<1>4. \A k \in P : k \in Int /\ q[k] \in T /\ q[k] \in S /\ k \in DOMAIN q
  OBVIOUS
<1>4a. \A k \in DOMAIN q : q[k] \in S => k \in P
  OBVIOUS
<1> HIDE DEF P
<1>5. \A i \in 1 .. n : ith(i) \in P /\ Rank(P, ith(i)) = i
  BY <1>3
<1> HIDE DEF ith
<1>6. \A k \in P : ith(Rank(P, k)) = k
  <2> SUFFICES ASSUME NEW k \in P PROVE ith(Rank(P, k)) = k
    OBVIOUS
  <2>1. ith(Rank(P, k)) \in P /\ Rank(P, ith(Rank(P, k))) = Rank(P, k) /\ Rank(P, k) \in Int
    BY <1>3, <1>5
  <2>2. ith(Rank(P, k)) \in Int /\ k \in Int
    BY <1>4, <2>1
  <2> QED BY <1>3, <2>1, <2>2
<1> HIDE DEF n, r
<1>7. r \in Seq(T)
  BY <1>1, <1>3, <1>4, <1>5
<1>8. DOMAIN r = 1 .. n /\ \A i \in 1 .. n : r[i] = q[ith(i)]
  BY <1>1
<1>9. ASSUME NEW x \in ToSet(r) PROVE x \in ToSet(q) \cap S
  <2>1. PICK i \in 1 .. n : x = q[ith(i)]
    BY <1>8 DEF ToSet
  <2> QED BY <1>4, <1>5, <2>1 DEF ToSet
<1>10. ASSUME NEW x \in ToSet(q) \cap S PROVE x \in ToSet(r)
  <2>1. PICK k \in DOMAIN q : x = q[k]
    BY DEF ToSet
  <2>2. k \in P
    BY <1>4a, <2>1
  <2>3. Rank(P, k) \in DOMAIN r /\ r[Rank(P, k)] = x
    BY <1>3, <1>6, <1>8, <2>1, <2>2
  <2> QED BY <2>3 DEF ToSet
<1>11. ASSUME IsInjective(q) PROVE IsInjective(r)
  <2> SUFFICES ASSUME NEW i \in 1 .. n, NEW j \in 1 .. n, q[ith(i)] = q[ith(j)]
               PROVE  i = j
    BY <1>8 DEF IsInjective
  <2>1. ith(i) = ith(j)
    BY <1>4, <1>5, <1>11 DEF IsInjective
  <2> QED BY <1>5, <2>1
<1> QED BY <1>7, <1>9, <1>10, <1>11 DEF r
----------------------------------------------------------------------------
(* Queues as sequences.                                                    *)

LEMMA AppendSet ==
    ASSUME NEW T, NEW q \in Seq(T), NEW x \in T
    PROVE  /\ Append(q, x) \in Seq(T)
           /\ ToSet(Append(q, x)) = ToSet(q) \cup {x}
           /\ IsInjective(q) /\ x \notin ToSet(q) => IsInjective(Append(q, x))
<1> DEFINE r == Append(q, x)
<1>1. /\ r \in Seq(T) /\ Len(q) \in Nat /\ DOMAIN q = 1 .. Len(q)
      /\ DOMAIN r = 1 .. Len(q) + 1
      /\ \A i \in 1 .. Len(q) : r[i] = q[i]
      /\ r[Len(q) + 1] = x
  OBVIOUS
<1> HIDE DEF r
<1>2. \A i \in 1 .. Len(q) + 1 : i \in 1 .. Len(q) \/ i = Len(q) + 1
  BY <1>1
<1>3. 1 .. Len(q) \subseteq 1 .. Len(q) + 1 /\ Len(q) + 1 \in 1 .. Len(q) + 1
  BY <1>1
<1>4. ToSet(r) = ToSet(q) \cup {x}
  BY <1>1, <1>2, <1>3 DEF ToSet
<1>5. ASSUME IsInjective(q), x \notin ToSet(q) PROVE IsInjective(r)
  BY <1>1, <1>2, <1>3, <1>5 DEF ToSet, IsInjective
<1> QED BY <1>1, <1>4, <1>5 DEF r

LEMMA ConcatSet ==
    ASSUME NEW T, NEW q \in Seq(T), NEW p \in Seq(T)
    PROVE  /\ q \o p \in Seq(T)
           /\ ToSet(q \o p) = ToSet(q) \cup ToSet(p)
           /\ IsInjective(q) /\ IsInjective(p) /\ ToSet(q) \cap ToSet(p) = {}
                 => IsInjective(q \o p)
<1> DEFINE r == q \o p
           n == Len(q)
           m == Len(p)
<1>1. /\ r \in Seq(T) /\ n \in Nat /\ m \in Nat
      /\ DOMAIN q = 1 .. n /\ DOMAIN p = 1 .. m /\ DOMAIN r = 1 .. n + m
      /\ \A i \in 1 .. n : r[i] = q[i]
      /\ \A i \in n + 1 .. n + m : r[i] = p[i - n]
  OBVIOUS
<1> HIDE DEF r, n, m
<1>2. \A i \in 1 .. n + m : i \in 1 .. n \/ i \in n + 1 .. n + m
  BY <1>1
<1>3. \A i \in 1 .. n : i \in 1 .. n + m
  BY <1>1
<1>4. \A i \in n + 1 .. n + m : i - n \in 1 .. m /\ i \in 1 .. n + m /\ i = (i - n) + n
  BY <1>1
<1>5. \A i \in 1 .. m : i + n \in n + 1 .. n + m /\ r[i + n] = p[i]
  <2> SUFFICES ASSUME NEW i \in 1 .. m
               PROVE  i + n \in n + 1 .. n + m /\ r[i + n] = p[i]
    OBVIOUS
  <2>1. i + n \in n + 1 .. n + m /\ (i + n) - n = i
    BY <1>1
  <2> QED BY <1>1, <2>1
<1>6. ToSet(r) \subseteq ToSet(q) \cup ToSet(p)
  BY <1>1, <1>2, <1>4 DEF ToSet
<1>7. ToSet(q) \cup ToSet(p) \subseteq ToSet(r)
  <2>1. \A i \in 1 .. n : q[i] \in ToSet(r)
    BY <1>1, <1>3 DEF ToSet
  <2>2. \A i \in 1 .. m : p[i] \in ToSet(r)
    BY <1>1, <1>4, <1>5 DEF ToSet
  <2> QED BY <1>1, <2>1, <2>2 DEF ToSet
<1>8. ASSUME IsInjective(q), IsInjective(p), ToSet(q) \cap ToSet(p) = {}
      PROVE  IsInjective(r)
  <2> SUFFICES ASSUME NEW i \in 1 .. n + m, NEW j \in 1 .. n + m, r[i] = r[j]
               PROVE  i = j
    BY <1>1 DEF IsInjective
  <2>1. CASE i \in 1 .. n /\ j \in 1 .. n
    BY <1>1, <1>8, <2>1 DEF IsInjective
  <2>2. CASE i \in n + 1 .. n + m /\ j \in n + 1 .. n + m
    <3>1. /\ i - n \in DOMAIN p /\ j - n \in DOMAIN p
          /\ p[i - n] = p[j - n]
      BY <1>1, <1>4, <2>2
    <3>2. i - n = j - n
      BY <1>8, <3>1 DEF IsInjective
    <3> QED BY <1>1, <3>2
  <2>3. \A k \in 1 .. n, l \in n + 1 .. n + m : r[k] # r[l]
    <3> SUFFICES ASSUME NEW k \in 1 .. n, NEW l \in n + 1 .. n + m, r[k] = r[l]
                 PROVE  FALSE
      OBVIOUS
    <3>1. r[k] \in ToSet(q)
      BY <1>1 DEF ToSet
    <3>2. r[l] \in ToSet(p)
      BY <1>1, <1>4 DEF ToSet
    <3> QED BY <1>8, <3>1, <3>2
  <2> QED BY <1>2, <2>1, <2>2, <2>3
<1> QED BY <1>1, <1>6, <1>7, <1>8 DEF r

LEMMA HeadTail ==
    ASSUME NEW T, NEW q \in Seq(T), q # <<>>, IsInjective(q)
    PROVE  /\ Head(q) \in T /\ Tail(q) \in Seq(T)
           /\ IsInjective(Tail(q))
           /\ ToSet(Tail(q)) = ToSet(q) \ {Head(q)}
           /\ Head(q) \in ToSet(q)
<1> DEFINE r == Tail(q)
           n == Len(q)
<1>1. /\ n \in Nat /\ n >= 1 /\ r \in Seq(T) /\ Head(q) = q[1] /\ q[1] \in T
      /\ DOMAIN q = 1 .. n /\ DOMAIN r = 1 .. n - 1
      /\ \A i \in 1 .. n - 1 : r[i] = q[i + 1]
  OBVIOUS
<1> HIDE DEF r, n
<1>2. \A i \in 1 .. n - 1 : i + 1 \in 1 .. n /\ i + 1 # 1 /\ i \in Int
  BY <1>1
<1>3. \A i \in 1 .. n : i # 1 => i - 1 \in 1 .. n - 1 /\ (i - 1) + 1 = i
  BY <1>1
<1>4. IsInjective(r)
  <2> SUFFICES ASSUME NEW i \in 1 .. n - 1, NEW j \in 1 .. n - 1, r[i] = r[j]
               PROVE  i = j
    BY <1>1 DEF IsInjective
  <2>1. i + 1 = j + 1
    BY <1>1, <1>2 DEF IsInjective
  <2> QED BY <1>2, <2>1
<1>5. 1 \in 1 .. n
  BY <1>1
<1>6. ToSet(r) \subseteq ToSet(q) \ {q[1]}
  <2> SUFFICES ASSUME NEW i \in 1 .. n - 1 PROVE r[i] \in ToSet(q) /\ r[i] # q[1]
    BY <1>1 DEF ToSet
  <2>1. r[i] = q[i + 1] /\ i + 1 \in DOMAIN q /\ 1 \in DOMAIN q /\ i + 1 # 1
    BY <1>1, <1>2, <1>5
  <2> QED BY <2>1 DEF ToSet, IsInjective
<1>7. ToSet(q) \ {q[1]} \subseteq ToSet(r)
  <2> SUFFICES ASSUME NEW i \in 1 .. n, q[i] # q[1] PROVE q[i] \in ToSet(r)
    BY <1>1 DEF ToSet
  <2>1. i - 1 \in DOMAIN r /\ r[i - 1] = q[i]
    BY <1>1, <1>3
  <2> QED BY <2>1 DEF ToSet
<1> QED BY <1>1, <1>4, <1>5, <1>6, <1>7 DEF r, ToSet

LEMMA EmptyQueue == IsInjective(<<>>) /\ ToSet(<<>>) = {}
BY DEF IsInjective, ToSet

----------------------------------------------------------------------------
(* The scheduler.                                                          *)

States == {"none", "RUNNABLE", "RUNNING", "SLEEPING", "IO_WAIT"}

(* The run queue and the states after _st_vp_schedule(s, q), if q has the  *)
(* runnable threads and nobody runs.                                       *)
LEMMA Schedule ==
    ASSUME NEW s \in [Threads \cup {Idle} -> States], NEW q \in Seq(Threads),
           IsInjective(q), ToSet(q) = {t \in Threads : s[t] = "RUNNABLE"},
           \A t \in Threads : s[t] # "RUNNING",
           _st_vp_schedule(s, q)
    PROVE  /\ cur' \in Threads \cup {Idle}
           /\ state' \in [Threads \cup {Idle} -> States]
           /\ runq' \in Seq(Threads) /\ IsInjective(runq')
           /\ ToSet(runq') = {t \in Threads : state'[t] = "RUNNABLE"}
           /\ OneRuns'
           /\ \A t \in Threads : t # cur' => state'[t] = s[t]
           /\ cur' \in Threads => s[cur'] = "RUNNABLE" /\ state'[cur'] = "RUNNING"
<1> USE SchedAssumption
<1>1. CASE q = <<>>
  <2>1. cur' = Idle /\ runq' = <<>> /\ state' = [s EXCEPT ![Idle] = "RUNNING"]
    BY <1>1 DEF _st_vp_schedule
  <2>2. \A t \in Threads : state'[t] = s[t]
    BY <2>1
  <2>3. state' \in [Threads \cup {Idle} -> States]
    BY <2>1 DEF States
  <2>4. {t \in Threads : state'[t] = "RUNNABLE"} = {}
    BY <1>1, <2>2, EmptyQueue
  <2> QED BY <1>1, <2>1, <2>2, <2>3, <2>4, EmptyQueue DEF OneRuns
<1>2. CASE q # <<>>
  <2>1. cur' = Head(q) /\ runq' = Tail(q) /\ state' = [s EXCEPT ![Head(q)] = "RUNNING"]
    BY <1>2 DEF _st_vp_schedule
  <2>2. /\ Head(q) \in Threads /\ Tail(q) \in Seq(Threads) /\ IsInjective(Tail(q))
        /\ ToSet(Tail(q)) = ToSet(q) \ {Head(q)} /\ Head(q) \in ToSet(q)
    BY <1>2, HeadTail
  <2>3. /\ state' \in [Threads \cup {Idle} -> States]
        /\ state'[Head(q)] = "RUNNING"
        /\ \A t \in Threads : t # Head(q) => state'[t] = s[t]
    BY <2>1, <2>2 DEF States
  <2>4. s[Head(q)] = "RUNNABLE"
    BY <2>2
  <2>5. {t \in Threads : state'[t] = "RUNNABLE"} = ToSet(q) \ {Head(q)}
    BY <2>2, <2>3
  <2> HIDE DEF _st_vp_schedule
  <2> QED BY <2>1, <2>2, <2>3, <2>4, <2>5 DEF OneRuns
<1> QED BY <1>1, <1>2

(* The same after the running thread has been switched out.                *)
LEMMA SwitchOut ==
    ASSUME SInv, NEW t \in Threads, cur = t,
           NEW x \in {"none", "SLEEPING", "IO_WAIT"},
           _st_vp_schedule([state EXCEPT ![t] = x], runq)
    PROVE  /\ cur' \in Threads \cup {Idle}
           /\ state' \in [Threads \cup {Idle} -> States]
           /\ runq' \in Seq(Threads) /\ IsInjective(runq')
           /\ ToSet(runq') = {u \in Threads : state'[u] = "RUNNABLE"}
           /\ OneRuns'
           /\ state'[t] = x
           /\ \A u \in Threads : \/ state'[u] = state[u]
                                 \/ state'[u] = "RUNNING" /\ state[u] = "RUNNABLE"
                                 \/ u = t
<1> DEFINE s == [state EXCEPT ![t] = x]
<1>1. /\ s \in [Threads \cup {Idle} -> States] /\ s[t] = x
      /\ \A u \in Threads : u # t => s[u] = state[u]
  BY DEF SInv, SchedTypes, States
<1>2. state[t] = "RUNNING" /\ \A u \in Threads : u # t => state[u] # "RUNNING"
  BY DEF SInv, OneRuns
<1>3. _st_vp_schedule(s, runq)
  OBVIOUS
<1> HIDE DEF s
<1>4. runq \in Seq(Threads) /\ IsInjective(runq)
  BY DEF SInv, SchedTypes, QueuesExact
<1>5. ToSet(runq) = {u \in Threads : s[u] = "RUNNABLE"}
  BY <1>1, <1>2 DEF SInv, QueuesExact
<1>6. \A u \in Threads : s[u] # "RUNNING"
  BY <1>1, <1>2
<1>7. /\ cur' \in Threads \cup {Idle}
      /\ state' \in [Threads \cup {Idle} -> States]
      /\ runq' \in Seq(Threads) /\ IsInjective(runq')
      /\ ToSet(runq') = {u \in Threads : state'[u] = "RUNNABLE"}
      /\ OneRuns'
      /\ \A u \in Threads : u # cur' => state'[u] = s[u]
      /\ cur' \in Threads => s[cur'] = "RUNNABLE" /\ state'[cur'] = "RUNNING"
  BY <1>1, <1>3, <1>4, <1>5, <1>6, Schedule
<1> QED BY <1>1, <1>7

(* When the idle thread runs, the linked pollqs are those of the threads   *)
(* that wait.                                                              *)
Queues ==
    /\ IsInjective(runq)
    /\ IsInjective(ioq)
    /\ ToSet(runq) = {t \in Threads : state[t] = "RUNNABLE"}
    /\ sleepq \subseteq {t \in Threads : state[t] \in {"SLEEPING", "IO_WAIT"}}
    /\ \A t \in Threads : state[t] = "SLEEPING" => t \in sleepq

LEMMA QueuesAreExact ==
    SchedTypes /\ OneRuns /\ LinkedInPoll /\ Queues => SInv
<1> SUFFICES ASSUME SchedTypes, OneRuns, LinkedInPoll, Queues
             PROVE  QueuesExact
  BY DEF SInv
<1>1. ASSUME NEW t \in ToSet(ioq)
      PROVE  t \in Threads /\ state[t] # "none" /\ pc[t] = "poll" /\ pd[t].on_ioq
  BY <1>1 DEF LinkedInPoll
<1>2. ASSUME cur = Idle
      PROVE  ToSet(ioq) = {t \in Threads : state[t] = "IO_WAIT"}
  <2>1. {t \in Threads : state[t] = "RUNNABLE"} = {}
    BY <1>2, EmptyQueue DEF OneRuns, Queues
  <2>2. \A t \in Threads : state[t] # "RUNNING"
    BY <1>2, SchedAssumption DEF OneRuns
  <2>3. \A t \in Threads : state[t] \in States
    BY DEF SchedTypes, States
  <2>4. \A t \in ToSet(ioq) : t \in Threads /\ state[t] = "IO_WAIT"
    BY <1>1, <2>1, <2>2, <2>3 DEF LinkedInPoll, States
  <2>5. \A t \in Threads : state[t] = "IO_WAIT" => t \in ToSet(ioq)
    BY DEF LinkedInPoll
  <2> QED BY <2>4, <2>5
<1> QED BY <1>1, <1>2 DEF Queues, QueuesExact

----------------------------------------------------------------------------
(* One lemma per kind of step.                                             *)

LEMMA CreateStep ==
    ASSUME SInv, NEW t \in Threads, NEW new \in Threads, st_thread_create(t, new)
    PROVE  SInv'
<1> USE DEF st_thread_create
<1>1. state' \in [Threads \cup {Idle} -> States] /\ state'[new] = "RUNNABLE"
      /\ \A u \in Threads : u # new => state'[u] = state[u]
  BY DEF SInv, SchedTypes, States
<1>2. new \notin ToSet(runq) /\ new # cur /\ cur = t
  BY DEF SInv, QueuesExact, Running, OneRuns
<1>3. runq' \in Seq(Threads) /\ ToSet(runq') = ToSet(runq) \cup {new} /\ IsInjective(runq')
  BY <1>2, AppendSet DEF SInv, SchedTypes, QueuesExact
<1>4. ToSet(runq') = {u \in Threads : state'[u] = "RUNNABLE"}
  BY <1>1, <1>3 DEF SInv, QueuesExact
<1>5. SchedTypes'
  BY <1>1, <1>3 DEF SInv, SchedTypes, States
<1>6. OneRuns'
  BY <1>1, <1>2, SchedAssumption DEF SInv, OneRuns
<1>7. LinkedInPoll'
  BY <1>1 DEF SInv, LinkedInPoll
<1>8. Queues'
  BY <1>1, <1>3, <1>4 DEF SInv, QueuesExact, Queues
<1> QED BY <1>5, <1>6, <1>7, <1>8, QueuesAreExact, PTL

LEMMA ExitStep ==
    ASSUME SInv, NEW t \in Threads, st_thread_exit(t)
    PROVE  SInv'
<1> USE DEF st_thread_exit
<1>1. cur = t /\ pc[t] = "user"
  BY DEF Running
<1>2. /\ cur' \in Threads \cup {Idle}
      /\ state' \in [Threads \cup {Idle} -> States]
      /\ runq' \in Seq(Threads) /\ IsInjective(runq')
      /\ ToSet(runq') = {u \in Threads : state'[u] = "RUNNABLE"}
      /\ OneRuns'
      /\ state'[t] = "none"
      /\ \A u \in Threads : \/ state'[u] = state[u]
                            \/ state'[u] = "RUNNING" /\ state[u] = "RUNNABLE"
                            \/ u = t
  BY <1>1, SwitchOut
<1>3. t \notin sleepq /\ ~ pd[t].on_ioq
  BY <1>1 DEF SInv, QueuesExact, OneRuns, LinkedInPoll
<1>4. SchedTypes'
  BY <1>2 DEF SInv, SchedTypes, States
<1>5. LinkedInPoll'
  BY <1>1, <1>2, <1>3 DEF SInv, LinkedInPoll
<1>6. Queues'
  BY <1>2, <1>3 DEF SInv, QueuesExact, Queues
<1> QED BY <1>2, <1>4, <1>5, <1>6, QueuesAreExact, PTL

LEMMA UsleepStep ==
    ASSUME SInv, NEW t \in Threads, NEW usecs, st_usleep(t, usecs)
    PROVE  SInv'
<1> USE DEF st_usleep, _st_add_sleep_q
<1>1. cur = t /\ pc[t] = "user"
  BY DEF Running
<1>2. /\ cur' \in Threads \cup {Idle}
      /\ state' \in [Threads \cup {Idle} -> States]
      /\ runq' \in Seq(Threads) /\ IsInjective(runq')
      /\ ToSet(runq') = {u \in Threads : state'[u] = "RUNNABLE"}
      /\ OneRuns'
      /\ state'[t] = "SLEEPING"
      /\ \A u \in Threads : \/ state'[u] = state[u]
                            \/ state'[u] = "RUNNING" /\ state[u] = "RUNNABLE"
                            \/ u = t
  BY <1>1, SwitchOut
<1>3. ~ pd[t].on_ioq
  BY <1>1 DEF SInv, LinkedInPoll
<1>4. pc' \in [Threads -> {"user", "sleep", "poll"}] /\ pc'[t] = "sleep"
      /\ \A u \in Threads : u # t => pc'[u] = pc[u]
  BY DEF SInv, SchedTypes
<1>5. SchedTypes'
  BY <1>2, <1>4 DEF SInv, SchedTypes, States
<1>6. LinkedInPoll'
  BY <1>2, <1>3, <1>4 DEF SInv, LinkedInPoll
<1>7. Queues'
  BY <1>2 DEF SInv, QueuesExact, Queues
<1> QED BY <1>2, <1>5, <1>6, <1>7, QueuesAreExact, PTL

(* st_poll links the pollq of the running thread t.                        *)
LEMMA Linked ==
    ASSUME SInv, NEW t \in Threads, NEW fd \in Fds, NEW event \in Events, NEW timeout,
           st_poll(t, fd, event, timeout)
    PROVE  /\ cur = t /\ pc[t] = "user" /\ t \notin ToSet(ioq) /\ t \notin sleepq
           /\ ioq' \in Seq(Threads) /\ IsInjective(ioq') /\ ToSet(ioq') = ToSet(ioq) \cup {t}
           /\ pd' \in [Threads -> {NoPollq} \cup [fd : Fds, event : Events, on_ioq : {TRUE}]]
           /\ pd'[t].fd = fd /\ pd'[t].event = event /\ pd'[t].on_ioq
           /\ \A u \in Threads : u # t => pd'[u] = pd[u]
<1> USE DEF st_poll
<1>1. cur = t /\ pc[t] = "user"
  BY DEF Running
<1>2. t \notin ToSet(ioq) /\ t \notin sleepq
  BY <1>1 DEF SInv, LinkedInPoll, QueuesExact, OneRuns
<1>3. ioq' \in Seq(Threads) /\ IsInjective(ioq') /\ ToSet(ioq') = ToSet(ioq) \cup {t}
  BY <1>2, AppendSet DEF SInv, SchedTypes, QueuesExact
<1>4. /\ pd' \in [Threads -> {NoPollq} \cup [fd : Fds, event : Events, on_ioq : {TRUE}]]
      /\ pd'[t] = [fd |-> fd, event |-> event, on_ioq |-> TRUE]
      /\ \A u \in Threads : u # t => pd'[u] = pd[u]
  BY DEF SInv, SchedTypes
<1> QED BY <1>1, <1>2, <1>3, <1>4

LEMMA PollStep ==
    ASSUME SInv, NEW t \in Threads, NEW fd \in Fds, NEW event \in Events, NEW timeout,
           st_poll(t, fd, event, timeout)
    PROVE  SInv'
<1>1. /\ cur = t /\ pc[t] = "user" /\ t \notin ToSet(ioq) /\ t \notin sleepq
      /\ ioq' \in Seq(Threads) /\ IsInjective(ioq') /\ ToSet(ioq') = ToSet(ioq) \cup {t}
      /\ pd' \in [Threads -> {NoPollq} \cup [fd : Fds, event : Events, on_ioq : {TRUE}]]
      /\ pd'[t].on_ioq
      /\ \A u \in Threads : u # t => pd'[u] = pd[u]
  BY Linked
<1> USE DEF st_poll, _st_add_sleep_q
<1>2. /\ cur' \in Threads \cup {Idle}
      /\ state' \in [Threads \cup {Idle} -> States]
      /\ runq' \in Seq(Threads) /\ IsInjective(runq')
      /\ ToSet(runq') = {u \in Threads : state'[u] = "RUNNABLE"}
      /\ OneRuns'
      /\ state'[t] = "IO_WAIT"
      /\ \A u \in Threads : \/ state'[u] = state[u]
                            \/ state'[u] = "RUNNING" /\ state[u] = "RUNNABLE"
                            \/ u = t
  BY <1>1, SwitchOut
<1>3. pc' \in [Threads -> {"user", "sleep", "poll"}] /\ pc'[t] = "poll"
      /\ \A u \in Threads : u # t => pc'[u] = pc[u]
  BY DEF SInv, SchedTypes
<1>4. sleepq' \in {sleepq, sleepq \cup {t}}
  OBVIOUS
<1>5. SchedTypes'
  BY <1>1, <1>2, <1>3, <1>4 DEF SInv, SchedTypes, States
<1>6. LinkedInPoll'
  BY <1>1, <1>2, <1>3 DEF SInv, LinkedInPoll
<1>7. Queues'
  BY <1>1, <1>2, <1>4 DEF SInv, QueuesExact, Queues
<1> QED BY <1>2, <1>5, <1>6, <1>7, QueuesAreExact, PTL

(* The rest of st_poll unlinks the pollq of t if it is linked.             *)
LEMMA Unlinked ==
    ASSUME SInv, NEW t \in Threads, st_poll_returns(t)
    PROVE  /\ ioq' \in Seq(Threads) /\ IsInjective(ioq') /\ ToSet(ioq') = ToSet(ioq) \ {t}
           /\ pd' \in [Threads -> {NoPollq} \cup [fd : Fds, event : Events, on_ioq : {TRUE}]]
           /\ ~ pd'[t].on_ioq
           /\ \A u \in Threads : u # t => pd'[u] = pd[u]
<1> USE DEF st_poll_returns
<1>1. ioq \in Seq(Threads) /\ IsInjective(ioq) /\ ToSet(ioq) \subseteq Threads
  BY DEF SInv, SchedTypes, QueuesExact, LinkedInPoll
<1>1a. /\ pd' \in [Threads -> {NoPollq} \cup [fd : Fds, event : Events, on_ioq : {TRUE}]]
       /\ ~ pd'[t].on_ioq
       /\ \A u \in Threads : u # t => pd'[u] = pd[u]
  BY DEF SInv, SchedTypes, NoPollq
<1>2. CASE pd[t].on_ioq
  <2>1. ioq' = Those(ioq, Threads \ {t})
    BY <1>2 DEF _ST_DEL_IOQ
  <2>2. ioq' \in Seq(Threads) /\ IsInjective(ioq') /\ ToSet(ioq') = ToSet(ioq) \cap (Threads \ {t})
    BY <1>1, <2>1, ThoseAre
  <2>3. ToSet(ioq) \cap (Threads \ {t}) = ToSet(ioq) \ {t}
    BY <1>1
  <2> QED BY <1>1a, <2>2, <2>3
<1>3. CASE ~ pd[t].on_ioq
  <2>1. ioq' = ioq /\ t \notin ToSet(ioq)
    BY <1>3 DEF SInv, LinkedInPoll
  <2>2. ToSet(ioq) \ {t} = ToSet(ioq)
    BY <2>1
  <2> QED BY <1>1, <1>1a, <2>1, <2>2
<1> QED BY <1>2, <1>3

LEMMA PollReturnsStep ==
    ASSUME SInv, NEW t \in Threads, st_poll_returns(t)
    PROVE  SInv'
<1>1. /\ ioq' \in Seq(Threads) /\ IsInjective(ioq') /\ ToSet(ioq') = ToSet(ioq) \ {t}
      /\ pd' \in [Threads -> {NoPollq} \cup [fd : Fds, event : Events, on_ioq : {TRUE}]]
      /\ ~ pd'[t].on_ioq
      /\ \A u \in Threads : u # t => pd'[u] = pd[u]
  BY Unlinked
<1> USE DEF st_poll_returns
<1>2. pc' \in [Threads -> {"user", "sleep", "poll"}] /\ pc'[t] = "user"
      /\ \A u \in Threads : u # t => pc'[u] = pc[u]
  BY DEF SInv, SchedTypes
<1>3. state[t] = "RUNNING"
  BY DEF SInv, OneRuns
<1>4. SchedTypes'
  BY <1>1, <1>2 DEF SInv, SchedTypes
<1>5. LinkedInPoll'
  BY <1>1, <1>2, <1>3 DEF SInv, LinkedInPoll
<1>6. OneRuns' /\ Queues'
  BY <1>1 DEF SInv, OneRuns, QueuesExact, Queues
<1> QED BY <1>4, <1>5, <1>6, QueuesAreExact, PTL

LEMMA UsleepReturnsStep ==
    ASSUME SInv, NEW t \in Threads, st_usleep_returns(t)
    PROVE  SInv'
<1> USE DEF st_usleep_returns
<1>1. pc' \in [Threads -> {"user", "sleep", "poll"}] /\ pc'[t] = "user"
      /\ pc[t] = "sleep" /\ \A u \in Threads : u # t => pc'[u] = pc[u]
  BY DEF SInv, SchedTypes
<1>2. SchedTypes'
  BY <1>1 DEF SInv, SchedTypes
<1>3. LinkedInPoll'
  BY <1>1 DEF SInv, LinkedInPoll
<1>4. OneRuns' /\ Queues'
  BY DEF SInv, OneRuns, QueuesExact, Queues
<1> QED BY <1>2, <1>3, <1>4, QueuesAreExact, PTL

(* The orders in which check_clock may take the threads that are due.      *)
LEMMA OrdersAre ==
    ASSUME sleepq \subseteq Threads, NEW revents, NEW order \in Orders(revents)
    PROVE  /\ order \in Seq(Threads) /\ IsInjective(order)
           /\ ToSet(order) \subseteq Asleep(revents)
<1> DEFINE D == {t \in Asleep(revents) : due[t] <= elapsed}
           n == Cardinality(D)
<1>1. D \in SUBSET Threads /\ D \subseteq Asleep(revents)
  BY DEF Asleep
<1>2. order \in SetToSeqs(D)
  BY DEF Orders
<1> HIDE DEF D
<1>3. IsFiniteSet(D) /\ n \in Nat
  BY <1>1, SchedAssumption, FS_Subset, FS_CardinalityType
<1>4. order \in [1 .. n -> D] /\ \A i, j \in 1 .. n : i # j => order[i] # order[j]
  BY <1>2 DEF SetToSeqs
<1> HIDE DEF n
<1>5. order \in Seq(Threads)
  BY <1>1, <1>3, <1>4
<1>6. IsInjective(order)
  BY <1>4 DEF IsInjective
<1>7. ToSet(order) \subseteq D
  BY <1>4 DEF ToSet
<1> QED BY <1>1, <1>5, <1>6, <1>7

(* What dispatch takes off the I/O queue, when the idle thread runs.       *)
LEMMA Dispatched ==
    ASSUME SInv, cur = Idle, NEW revents, _st_epoll_dispatch(revents)
    PROVE  /\ Notified(revents) \in Seq(Threads) /\ IsInjective(Notified(revents))
           /\ ToSet(Notified(revents)) =
                {t \in ToSet(ioq) : pd[t].event \in revents[pd[t].fd]}
           /\ \A t \in ToSet(Notified(revents)) : t \in Threads /\ state[t] = "IO_WAIT"
           /\ ioq' \in Seq(Threads) /\ IsInjective(ioq')
           /\ ToSet(ioq') = ToSet(ioq) \ ToSet(Notified(revents))
           /\ pd' = [t \in Threads |-> IF t \in ToSet(Notified(revents)) THEN NoPollq ELSE pd[t]]
<1> DEFINE told == ToSet(Notified(revents))
           S == {t \in ToSet(ioq) : pd[t].event \in revents[pd[t].fd]}
<1>1. ioq \in Seq(Threads) /\ IsInjective(ioq) /\ ToSet(ioq) \subseteq Threads
      /\ ToSet(ioq) = {t \in Threads : state[t] = "IO_WAIT"}
  BY DEF SInv, SchedTypes, QueuesExact
<1>2. Notified(revents) = Those(ioq, S) /\ ToSet(ioq) \cap S = S
  BY DEF Notified
<1>3. /\ ioq' = Those(ioq, Threads \ told)
      /\ pd' = [t \in Threads |-> IF t \in told THEN NoPollq ELSE pd[t]]
  BY DEF _st_epoll_dispatch
<1>4. \A t \in S : t \in Threads /\ state[t] = "IO_WAIT"
  BY <1>1
<1> HIDE DEF S
<1>5. Notified(revents) \in Seq(Threads) /\ IsInjective(Notified(revents)) /\ told = S
  <2>1. /\ Those(ioq, S) \in Seq(Threads) /\ IsInjective(Those(ioq, S))
        /\ ToSet(Those(ioq, S)) = ToSet(ioq) \cap S
    BY <1>1, ThoseAre
  <2> QED BY <1>2, <2>1
<1> HIDE DEF told
<1>6. /\ ioq' \in Seq(Threads) /\ IsInjective(ioq')
      /\ ToSet(ioq') = ToSet(ioq) \cap (Threads \ told)
  BY <1>1, <1>3, ThoseAre
<1>7. ToSet(ioq) \cap (Threads \ told) = ToSet(ioq) \ told
  BY <1>1
<1> QED BY <1>3, <1>4, <1>5, <1>6, <1>7 DEF told, S

LEMMA IdleStep ==
    ASSUME SInv, NEW revents, NEW timeout, NEW order \in Orders(revents),
           _st_idle_thread_start(revents, timeout, order)
    PROVE  SInv'
<1> DEFINE told == ToSet(Notified(revents))
           woken == Notified(revents) \o order
           s == [t \in Threads \cup {Idle} |->
                    IF t = Idle \/ t \in ToSet(woken) THEN "RUNNABLE" ELSE state[t]]
<1>1. /\ cur = Idle /\ _st_epoll_dispatch(revents)
      /\ sleepq' = (sleepq \ told) \ ToSet(order)
      /\ _st_vp_schedule(s, runq \o woken)
      /\ pc' = pc
  BY DEF _st_idle_thread_start, _st_vp_check_clock, Asleep
<1>2. /\ Notified(revents) \in Seq(Threads) /\ IsInjective(Notified(revents))
      /\ \A t \in told : t \in Threads /\ state[t] = "IO_WAIT" /\ t \in ToSet(ioq)
      /\ ioq' \in Seq(Threads) /\ IsInjective(ioq')
      /\ ToSet(ioq') = ToSet(ioq) \ told
      /\ pd' = [t \in Threads |-> IF t \in told THEN NoPollq ELSE pd[t]]
  BY <1>1, Dispatched
<1>3. order \in Seq(Threads) /\ IsInjective(order) /\ ToSet(order) \subseteq sleepq \ told
  BY OrdersAre DEF SInv, SchedTypes, Asleep
<1> HIDE DEF told
<1>4. woken \in Seq(Threads) /\ IsInjective(woken) /\ ToSet(woken) = told \cup ToSet(order)
  <2>1. told \cap ToSet(order) = {}
    BY <1>3
  <2> QED BY <1>2, <1>3, <2>1, ConcatSet DEF told
<1> HIDE DEF woken
<1>5. runq = <<>> /\ runq \o woken = woken
  <2>1. runq = <<>>
    BY <1>1 DEF SInv, OneRuns
  <2> QED BY <1>4, <2>1
<1>6. \A t \in Threads : state[t] \notin {"RUNNABLE", "RUNNING"}
  <2>1. \A t \in Threads : state[t] # "RUNNABLE"
    BY <1>5, EmptyQueue DEF SInv, QueuesExact
  <2> QED BY <1>1, <2>1, SchedAssumption DEF SInv, OneRuns
<1>7. /\ s \in [Threads \cup {Idle} -> States]
      /\ \A t \in Threads : s[t] = IF t \in ToSet(woken) THEN "RUNNABLE" ELSE state[t]
  BY SchedAssumption DEF SInv, SchedTypes, States
<1> HIDE DEF s
<1>8. \A t \in ToSet(woken) : t \in Threads /\ t \in told \cup sleepq
  BY <1>2, <1>3, <1>4 DEF SInv, SchedTypes
<1>9. ToSet(woken) = {t \in Threads : s[t] = "RUNNABLE"} /\ \A t \in Threads : s[t] # "RUNNING"
  BY <1>6, <1>7, <1>8
<1>10. /\ cur' \in Threads \cup {Idle}
       /\ state' \in [Threads \cup {Idle} -> States]
       /\ runq' \in Seq(Threads) /\ IsInjective(runq')
       /\ ToSet(runq') = {t \in Threads : state'[t] = "RUNNABLE"}
       /\ OneRuns'
       /\ \A t \in Threads : t # cur' => state'[t] = s[t]
       /\ cur' \in Threads => s[cur'] = "RUNNABLE" /\ state'[cur'] = "RUNNING"
  BY <1>1, <1>4, <1>5, <1>7, <1>9, Schedule
<1>11. \A t \in Threads :
          IF t \in ToSet(woken) THEN state'[t] \in {"RUNNABLE", "RUNNING"} ELSE state'[t] = state[t]
  BY <1>6, <1>7, <1>10
<1>12. pd' \in [Threads -> {NoPollq} \cup [fd : Fds, event : Events, on_ioq : {TRUE}]]
       /\ \A t \in Threads : pd'[t].on_ioq <=> pd[t].on_ioq /\ t \notin told
  BY <1>2 DEF SInv, SchedTypes, NoPollq
<1>13. SchedTypes'
  BY <1>1, <1>2, <1>10, <1>12 DEF SInv, SchedTypes, States
<1>14. LinkedInPoll'
  <2>1. ToSet(ioq') = {t \in Threads : pd'[t].on_ioq}
    BY <1>2, <1>12 DEF SInv, LinkedInPoll
  <2>2. ASSUME NEW t \in Threads
        PROVE  /\ pd'[t].on_ioq => pc'[t] = "poll"
               /\ pc'[t] = "poll" => state'[t] \notin {"none", "SLEEPING"}
               /\ state'[t] = "IO_WAIT" => pd'[t].on_ioq
    <3>1. /\ pd[t].on_ioq => pc[t] = "poll"
          /\ pc[t] = "poll" => state[t] \notin {"none", "SLEEPING"}
          /\ state[t] = "IO_WAIT" => pd[t].on_ioq
      BY DEF SInv, LinkedInPoll
    <3>2. t \in told => t \in ToSet(woken)
      BY <1>4
    <3> QED BY <1>1, <1>11, <1>12, <3>1, <3>2
  <2> QED BY <2>1, <2>2 DEF LinkedInPoll
<1>15. Queues'
  <2>1. ASSUME NEW t \in sleepq' PROVE t \in Threads /\ state'[t] \in {"SLEEPING", "IO_WAIT"}
    <3>1. t \in sleepq /\ t \notin ToSet(woken)
      BY <1>1, <1>4, <2>1
    <3> QED BY <1>11, <3>1 DEF SInv, QueuesExact
  <2>2. ASSUME NEW t \in Threads, state'[t] = "SLEEPING" PROVE t \in sleepq'
    <3>1. t \notin ToSet(woken) /\ state[t] = "SLEEPING"
      BY <1>11, <2>2
    <3> QED BY <1>1, <1>4, <3>1 DEF SInv, QueuesExact
  <2> QED BY <1>2, <1>10, <2>1, <2>2 DEF Queues
<1> QED BY <1>10, <1>13, <1>14, <1>15, QueuesAreExact, PTL

----------------------------------------------------------------------------
LEMMA InitSched == Init => SInv
<1> SUFFICES ASSUME Init PROVE SInv
  OBVIOUS
<1> USE SchedAssumption
<1>1. SchedTypes
  BY DEF Init, SchedTypes, NoPollq
<1>2. \A t \in Threads : state[t] = IF t = Primordial THEN "RUNNING" ELSE "none"
  BY DEF Init
<1>3. OneRuns
  BY <1>2 DEF Init, OneRuns
<1>4. LinkedInPoll
  BY <1>2, EmptyQueue DEF Init, LinkedInPoll, NoPollq
<1>5. Queues
  BY <1>2, EmptyQueue DEF Init, Queues
<1> QED BY <1>1, <1>3, <1>4, <1>5, QueuesAreExact

LEMMA SchedStep == SInv /\ [Next]_vars => SInv'
<1> SUFFICES ASSUME SInv, [Next]_vars PROVE SInv'
  OBVIOUS
<1>1. CASE Thread
  BY <1>1, CreateStep, ExitStep, UsleepStep, PollStep, PollReturnsStep, UsleepReturnsStep
     DEF Thread
<1>2. ASSUME NEW revents \in Reports, IdleTurn(revents) PROVE SInv'
  BY <1>2, IdleStep DEF IdleTurn
<1>3. CASE Tick \/ UNCHANGED vars
  BY <1>3 DEF Tick, vars, epoll, SInv, SchedTypes, OneRuns, LinkedInPoll, QueuesExact
<1> QED BY <1>1, <1>2, <1>3 DEF Next

(* A thread is on the run queue, on the sleep queue or linked to the I/O   *)
(* queue exactly as its state says, whatever threads do and whenever their *)
(* waits end: dispatch never touches the pollq of a thread that has gone   *)
(* on (event.c:1277), and check_clock never wakes one twice (sched.c:467). *)
THEOREM QueuesStayExact == Spec => []QueuesExact
<1>1. SInv => QueuesExact
  BY DEF SInv
<1> QED BY <1>1, InitSched, SchedStep, PTL DEF Spec

----------------------------------------------------------------------------
(* What epoll is told.                                                     *)

Waiters(fd, e) == {t \in ToSet(ioq) : pd[t].fd = fd /\ pd[t].event = e}

Registered == {fd \in Fds : interest[fd] # {}}

LEMMA Exact ==
    EpollExact <=>
        /\ \A fd \in Fds : \A e \in Events : cnt[fd][e] = Cardinality(Waiters(fd, e))
        /\ \A fd \in Fds : interest[fd] = _ST_EPOLL_EVENTS(cnt[fd])
        /\ evtlist_cnt = Cardinality(Registered)
BY DEF EpollExact, Waiters, Registered

LEMMA ExactNext ==
    ASSUME \A fd \in Fds : \A e \in Events : cnt'[fd][e] = Cardinality(Waiters(fd, e)'),
           \A fd \in Fds : interest'[fd] = _ST_EPOLL_EVENTS(cnt'[fd]),
           evtlist_cnt' = Cardinality(Registered')
    PROVE  EpollExact'
BY DEF EpollExact, Waiters, Registered

LEMMA FiniteWaits ==
    ASSUME SInv
    PROVE  /\ \A fd, e : IsFiniteSet(Waiters(fd, e)) /\ Cardinality(Waiters(fd, e)) \in Nat
           /\ IsFiniteSet(Registered) /\ Cardinality(Registered) \in Nat
<1>1. \A fd, e : Waiters(fd, e) \in SUBSET Threads
  BY DEF SInv, LinkedInPoll, Waiters
<1>2. Registered \in SUBSET Fds
  BY DEF Registered
<1> QED BY <1>1, <1>2, SchedAssumption, FS_Subset, FS_CardinalityType

(* The kernel is told what is left of the interest in one descriptor, and  *)
(* evtlist_cnt follows.                                                    *)
LEMMA PollEpoll ==
    ASSUME EInv, NEW t \in Threads, NEW fd \in Fds, NEW event \in Events, NEW timeout,
           st_poll(t, fd, event, timeout)
    PROVE  EpollTypes' /\ EpollExact'
<1>0. SInv /\ EpollTypes /\ EpollExact
  BY DEF EInv
<1>1. /\ t \notin ToSet(ioq) /\ ToSet(ioq') = ToSet(ioq) \cup {t}
      /\ pd'[t].fd = fd /\ pd'[t].event = event
      /\ \A u \in ToSet(ioq) : pd'[u] = pd[u]
  BY <1>0, Linked DEF SInv, LinkedInPoll
<1>2. _st_epoll_pollset_add(fd, event)
  BY DEF st_poll
<1> USE DEF EpollTypes
<1>3. /\ cnt' \in [Fds -> [Events -> Int]]
      /\ \A f \in Fds : f # fd => cnt'[f] = cnt[f]
      /\ \A e \in Events : e # event => cnt'[fd][e] = cnt[fd][e]
      /\ cnt'[fd][event] = cnt[fd][event] + 1
  BY <1>0, <1>2 DEF _st_epoll_pollset_add
<1>4. /\ interest' \in [Fds -> SUBSET Events]
      /\ interest'[fd] = _ST_EPOLL_EVENTS(cnt'[fd])
      /\ \A f \in Fds : f # fd => interest'[f] = interest[f]
  BY <1>0, <1>2 DEF _st_epoll_pollset_add, _ST_EPOLL_EVENTS
<1>5. \A f \in Fds, e \in Events :
        Waiters(f, e)' = IF f = fd /\ e = event THEN Waiters(f, e) \cup {t} ELSE Waiters(f, e)
  BY <1>1 DEF Waiters
<1>6. t \notin Waiters(fd, event)
  BY <1>1 DEF Waiters
<1>7. \A f \in Fds : \A e \in Events : cnt'[f][e] = Cardinality(Waiters(f, e)')
  <2>1. Cardinality(Waiters(fd, event) \cup {t}) = Cardinality(Waiters(fd, event)) + 1
    BY <1>0, <1>6, FiniteWaits, FS_AddElement
  <2> QED BY <1>0, <1>3, <1>5, <2>1, Exact
<1>8. \A f \in Fds : interest'[f] = _ST_EPOLL_EVENTS(cnt'[f])
  BY <1>0, <1>3, <1>4, Exact
<1>9. evtlist_cnt' = Cardinality(Registered')
  <2>1. interest'[fd] # {}
    <3>1. cnt[fd][event] \in Nat
      BY <1>0, FiniteWaits, Exact
    <3>2. cnt'[fd][event] > 0
      BY <1>3, <3>1
    <3> QED BY <1>4, <3>2 DEF _ST_EPOLL_EVENTS
  <2>2. Registered' = Registered \cup {fd}
    BY <1>4, <2>1 DEF Registered
  <2>3. evtlist_cnt' = IF interest[fd] = {} THEN evtlist_cnt + 1 ELSE evtlist_cnt
    BY <1>0, <1>2, Exact DEF _st_epoll_pollset_add
  <2>4. evtlist_cnt = Cardinality(Registered) /\ (fd \in Registered <=> interest[fd] # {})
    BY <1>0, Exact DEF Registered
  <2> QED BY <1>0, <2>2, <2>3, <2>4, FiniteWaits, FS_AddElement
<1>10. evtlist_cnt' \in Int
  BY <1>0, <1>2 DEF _st_epoll_pollset_add
<1> HIDE DEF EpollTypes
<1>11. EpollTypes'
  BY <1>3, <1>4, <1>10 DEF EpollTypes
<1> QED BY <1>7, <1>8, <1>9, <1>11, ExactNext

LEMMA PollReturnsEpoll ==
    ASSUME EInv, NEW t \in Threads, st_poll_returns(t)
    PROVE  EpollTypes' /\ EpollExact'
<1> DEFINE fd == pd[t].fd
           event == pd[t].event
<1>0. SInv /\ EpollTypes /\ EpollExact
  BY DEF EInv
<1>1. /\ ToSet(ioq') = ToSet(ioq) \ {t}
      /\ \A u \in ToSet(ioq') : pd'[u] = pd[u]
  BY <1>0, Unlinked DEF SInv, LinkedInPoll
<1>2. CASE ~ pd[t].on_ioq
  <2>1. UNCHANGED <<cnt, interest, evtlist_cnt>>
    BY <1>2 DEF st_poll_returns, epoll
  <2>2. t \notin ToSet(ioq)
    BY <1>0, <1>2 DEF SInv, LinkedInPoll
  <2>3. \A f, e : Waiters(f, e)' = Waiters(f, e)
    BY <1>1, <2>2 DEF Waiters
  <2>4. Registered' = Registered
    BY <2>1 DEF Registered
  <2>5. EpollTypes'
    BY <1>0, <2>1 DEF EpollTypes
  <2>6. /\ \A f \in Fds : \A e \in Events : cnt'[f][e] = Cardinality(Waiters(f, e)')
        /\ \A f \in Fds : interest'[f] = _ST_EPOLL_EVENTS(cnt'[f])
        /\ evtlist_cnt' = Cardinality(Registered')
    BY <1>0, <2>1, <2>3, <2>4, Exact
  <2> QED BY <2>5, <2>6, ExactNext
<1>3. CASE pd[t].on_ioq
  <2>1. t \in ToSet(ioq) /\ fd \in Fds /\ event \in Events
    <3>1. pd[t] \in {NoPollq} \cup [fd : Fds, event : Events, on_ioq : {TRUE}]
      BY <1>0 DEF SInv, SchedTypes
    <3>2. pd[t] # NoPollq
      BY <1>3 DEF NoPollq
    <3>3. t \in ToSet(ioq)
      BY <1>0, <1>3 DEF SInv, LinkedInPoll
    <3> QED BY <3>1, <3>2, <3>3
  <2>2. _st_epoll_pollset_del(fd, event)
    BY <1>3 DEF st_poll_returns
  <2>3. t \in Waiters(fd, event) /\ \A f, e : t \in Waiters(f, e) => f = fd /\ e = event
    BY <2>1 DEF Waiters
  <2>4. \A f \in Fds, e \in Events : Waiters(f, e)' = Waiters(f, e) \ {t}
    BY <1>1 DEF Waiters
  <2> HIDE DEF fd, event
  <2>5. /\ cnt' \in [Fds -> [Events -> Int]]
        /\ \A f \in Fds : f # fd => cnt'[f] = cnt[f]
        /\ \A e \in Events : e # event => cnt'[fd][e] = cnt[fd][e]
        /\ cnt'[fd][event] = cnt[fd][event] - 1
    BY <1>0, <2>1, <2>2 DEF _st_epoll_pollset_del, EpollTypes
  <2>6. /\ interest' \in [Fds -> SUBSET Events]
        /\ interest'[fd] = _ST_EPOLL_EVENTS(cnt'[fd])
        /\ \A f \in Fds : f # fd => interest'[f] = interest[f]
    BY <1>0, <2>1, <2>2 DEF _st_epoll_pollset_del, _ST_EPOLL_EVENTS, EpollTypes
  <2>7. \A f \in Fds : \A e \in Events : cnt'[f][e] = Cardinality(Waiters(f, e)')
    <3> SUFFICES ASSUME NEW f \in Fds, NEW e \in Events
                 PROVE  cnt'[f][e] = Cardinality(Waiters(f, e)')
      OBVIOUS
    <3>1. Cardinality(Waiters(f, e) \ {t}) =
            IF t \in Waiters(f, e) THEN Cardinality(Waiters(f, e)) - 1
                                   ELSE Cardinality(Waiters(f, e))
      BY <1>0, FiniteWaits, FS_RemoveElement
    <3>2. cnt[f][e] = Cardinality(Waiters(f, e))
      BY <1>0, Exact
    <3> QED BY <2>3, <2>4, <2>5, <3>1, <3>2
  <2>8. \A f \in Fds : interest'[f] = _ST_EPOLL_EVENTS(cnt'[f])
    BY <1>0, <2>5, <2>6, Exact
  <2>9. evtlist_cnt' = Cardinality(Registered')
    <3>1. fd \in Registered
      <4>1. Waiters(fd, event) # {}
        BY <2>3
      <4>2. cnt[fd][event] > 0
        BY <1>0, <2>1, <4>1, FiniteWaits, FS_EmptySet, Exact
      <4>3. event \in interest[fd]
        BY <1>0, <2>1, <4>2, Exact DEF _ST_EPOLL_EVENTS
      <4> QED BY <2>1, <4>3 DEF Registered
    <3>2. Registered' = IF interest'[fd] = {} THEN Registered \ {fd} ELSE Registered
      BY <2>6, <3>1 DEF Registered
    <3>3. evtlist_cnt' = IF interest'[fd] = {} THEN evtlist_cnt - 1 ELSE evtlist_cnt
      BY <1>0, <2>1, <2>2 DEF _st_epoll_pollset_del, EpollTypes
    <3>4. evtlist_cnt = Cardinality(Registered)
      BY <1>0, Exact
    <3> QED BY <1>0, <3>1, <3>2, <3>3, <3>4, FiniteWaits, FS_RemoveElement
  <2>10. EpollTypes'
    <3>1. evtlist_cnt' \in Int
      BY <1>0, <2>2 DEF EpollTypes, _st_epoll_pollset_del
    <3> QED BY <2>5, <2>6, <3>1 DEF EpollTypes
  <2> QED BY <2>7, <2>8, <2>9, <2>10, ExactNext
<1> QED BY <1>2, <1>3

(* Dispatch gives back the counts of the threads it notifies; a descriptor *)
(* that has not fired has none of them.                                    *)
LEMMA DispatchEpoll ==
    ASSUME EInv, cur = Idle, NEW revents \in Reports, _st_epoll_dispatch(revents)
    PROVE  EpollTypes' /\ EpollExact'
<1> DEFINE told == ToSet(Notified(revents))
           fired == {fd \in Fds : revents[fd] # {}}
           back(fd, e) == {t \in told : pd[t].fd = fd /\ pd[t].event = e}
           left == [fd \in Fds |-> [e \in Events |-> cnt[fd][e] - Cardinality(back(fd, e))]]
           gone == {fd \in fired : _ST_EPOLL_EVENTS(left[fd]) = {}}
<1>0. SInv /\ EpollTypes /\ EpollExact
  BY DEF EInv
<1>1. /\ told = {t \in ToSet(ioq) : pd[t].event \in revents[pd[t].fd]}
      /\ ToSet(ioq') = ToSet(ioq) \ told
      /\ pd' = [t \in Threads |-> IF t \in told THEN NoPollq ELSE pd[t]]
  BY <1>0, Dispatched
<1>2. /\ cnt' = left
      /\ interest' = [fd \in Fds |-> IF fd \in fired THEN _ST_EPOLL_EVENTS(left[fd])
                                                    ELSE interest[fd]]
      /\ evtlist_cnt' = evtlist_cnt - Cardinality(gone)
  BY DEF _st_epoll_dispatch
<1>3. \A fd \in Fds : revents[fd] \subseteq interest[fd]
  BY DEF Reports
<1> HIDE DEF told
<1>4. \A fd, e : back(fd, e) = Waiters(fd, e) \cap told
  BY <1>1 DEF Waiters
<1>5. \A fd, e : Waiters(fd, e)' = Waiters(fd, e) \ told
  <2>1. \A t \in ToSet(ioq') : pd'[t] = pd[t]
    BY <1>0, <1>1 DEF SInv, LinkedInPoll
  <2> QED BY <1>1, <2>1 DEF Waiters
<1> HIDE DEF back
<1>6. \A fd \in Fds : \A e \in Events :
         /\ Cardinality(back(fd, e)) \in Nat
         /\ cnt[fd][e] - Cardinality(back(fd, e)) = Cardinality(Waiters(fd, e)')
  <2> SUFFICES ASSUME NEW fd \in Fds, NEW e \in Events
               PROVE  /\ Cardinality(back(fd, e)) \in Nat
                      /\ cnt[fd][e] - Cardinality(back(fd, e)) = Cardinality(Waiters(fd, e)')
    OBVIOUS
  <2> DEFINE W == Waiters(fd, e)
  <2>1. IsFiniteSet(W) /\ cnt[fd][e] = Cardinality(W)
    BY <1>0, FiniteWaits, Exact
  <2> HIDE DEF W
  <2>2. /\ Cardinality(W \ told) = Cardinality(W) - Cardinality(W \cap told)
        /\ Cardinality(W \cap told) \in Nat
    BY <2>1, FS_Difference, FS_Intersection, FS_CardinalityType
  <2>3. back(fd, e) = W \cap told /\ Waiters(fd, e)' = W \ told
    BY <1>4, <1>5 DEF W
  <2> QED BY <2>1, <2>2, <2>3
<1>7. /\ left \in [Fds -> [Events -> Int]]
      /\ \A fd \in Fds : \A e \in Events : left[fd][e] = cnt[fd][e] - Cardinality(back(fd, e))
  BY <1>0, <1>6 DEF EpollTypes
<1> HIDE DEF left
<1>8. \A fd \in Fds : \A e \in Events : cnt'[fd][e] = Cardinality(Waiters(fd, e)')
  BY <1>2, <1>6, <1>7
<1>9. \A fd \in Fds : interest'[fd] = _ST_EPOLL_EVENTS(cnt'[fd])
  <2> SUFFICES ASSUME NEW fd \in Fds PROVE interest'[fd] = _ST_EPOLL_EVENTS(cnt'[fd])
    OBVIOUS
  <2>1. CASE fd \in fired
    BY <1>2, <2>1
  <2>2. CASE fd \notin fired
    <3>1. revents[fd] = {}
      BY <2>2
    <3>2. \A e : back(fd, e) = {}
      BY <1>1, <3>1 DEF back
    <3>3. \A e \in Events : left[fd][e] = cnt[fd][e]
      <4> SUFFICES ASSUME NEW e \in Events PROVE left[fd][e] = cnt[fd][e]
        OBVIOUS
      <4>1. Cardinality(back(fd, e)) = 0 /\ cnt[fd][e] \in Int
        BY <1>0, <3>2, FS_EmptySet DEF EpollTypes
      <4> QED BY <1>7, <4>1
    <3>4. interest[fd] = _ST_EPOLL_EVENTS(cnt[fd])
      BY <1>0, Exact
    <3> QED BY <1>2, <2>2, <3>3, <3>4 DEF _ST_EPOLL_EVENTS
  <2> QED BY <2>1, <2>2
<1>10. evtlist_cnt' = Cardinality(Registered') /\ evtlist_cnt' \in Int
  <2>1. gone \subseteq Registered
    BY <1>3 DEF Registered
  <2>2. Registered' = Registered \ gone
    BY <1>2, <1>3 DEF Registered
  <2>2a. evtlist_cnt' = evtlist_cnt - Cardinality(gone)
    BY <1>2
  <2>3. evtlist_cnt = Cardinality(Registered) /\ IsFiniteSet(Registered)
    BY <1>0, Exact, FiniteWaits
  <2> HIDE DEF gone
  <2>4. /\ Registered \cap gone = gone
        /\ Cardinality(Registered \ gone) = Cardinality(Registered) - Cardinality(Registered \cap gone)
        /\ IsFiniteSet(Registered \ gone)
    BY <2>1, <2>3, FS_Difference
  <2>5. Cardinality(Registered \ gone) \in Nat
    BY <2>4, FS_CardinalityType
  <2>6. Cardinality(Registered \cap gone) = Cardinality(gone)
    BY <2>4, Zenon
  <2>7. evtlist_cnt' = Cardinality(Registered \ gone)
    BY <2>2a, <2>3, <2>4, <2>6, Zenon
  <2>8. Cardinality(Registered \ gone) \in Int
    BY <2>5
  <2> QED BY <2>2, <2>7, <2>8, Zenon
<1>11. EpollTypes'
  <2>1. interest' \in [Fds -> SUBSET Events]
    BY <1>0, <1>2 DEF EpollTypes, _ST_EPOLL_EVENTS
  <2> QED BY <1>2, <1>7, <1>10, <2>1 DEF EpollTypes
<1> QED BY <1>8, <1>9, <1>10, <1>11, ExactNext

(* A step that touches neither the pollqs nor the counts.                  *)
LEMMA OtherEpoll ==
    ASSUME EInv, UNCHANGED <<ioq, pd, epoll>>
    PROVE  EpollTypes' /\ EpollExact'
BY DEF EInv, EpollTypes, EpollExact, epoll

LEMMA EpollStep == EInv /\ [Next]_vars => EInv'
<1> SUFFICES ASSUME EInv, [Next]_vars PROVE EInv'
  OBVIOUS
<1>1. SInv'
  BY SchedStep DEF EInv
<1>2. EpollTypes' /\ EpollExact'
  <2>1. ASSUME NEW t \in Threads, NEW new \in Threads, st_thread_create(t, new)
        PROVE  EpollTypes' /\ EpollExact'
    BY <2>1, OtherEpoll DEF st_thread_create
  <2>2. ASSUME NEW t \in Threads, st_thread_exit(t)
        PROVE  EpollTypes' /\ EpollExact'
    BY <2>2, OtherEpoll DEF st_thread_exit
  <2>3. ASSUME NEW t \in Threads, NEW usecs \in Timeouts, st_usleep(t, usecs)
        PROVE  EpollTypes' /\ EpollExact'
    BY <2>3, OtherEpoll DEF st_usleep
  <2>4. ASSUME NEW t \in Threads, st_usleep_returns(t)
        PROVE  EpollTypes' /\ EpollExact'
    BY <2>4, OtherEpoll DEF st_usleep_returns
  <2>5. CASE Thread
    BY <2>1, <2>2, <2>3, <2>4, <2>5, PollEpoll, PollReturnsEpoll DEF Thread
  <2>6. ASSUME NEW revents \in Reports, IdleTurn(revents)
        PROVE  EpollTypes' /\ EpollExact'
    BY <2>6, DispatchEpoll DEF IdleTurn, _st_idle_thread_start
  <2>7. CASE Tick \/ UNCHANGED vars
    BY <2>7, OtherEpoll DEF Tick, vars
  <2> QED BY <2>5, <2>6, <2>7 DEF Next
<1> QED BY <1>1, <1>2 DEF EInv

LEMMA InitEpoll == Init => EInv
<1> SUFFICES ASSUME Init PROVE EInv
  OBVIOUS
<1>1. EpollTypes
  BY DEF Init, EpollTypes
<1>2. \A fd, e : Waiters(fd, e) = {}
  BY EmptyQueue DEF Init, Waiters
<1>3. Registered = {}
  BY DEF Init, Registered
<1>4. \A fd \in Fds : interest[fd] = _ST_EPOLL_EVENTS(cnt[fd])
  BY DEF Init, _ST_EPOLL_EVENTS
<1>5. EpollExact
  BY <1>2, <1>3, <1>4, FS_EmptySet, Exact DEF Init
<1> QED BY <1>1, <1>5, InitSched DEF EInv

(* Whatever threads wait for one descriptor at once, and however their     *)
(* waits end, the reference counts are the waiters, the kernel is asked    *)
(* for exactly what they wait for, and evtlist_cnt counts the descriptors  *)
(* it is asked about (event.c:1129, 1169, 1323).                           *)
THEOREM EpollStaysExact == Spec => []EpollExact
<1>1. EInv => EpollExact
  BY DEF EInv
<1> QED BY <1>1, InitEpoll, EpollStep, PTL DEF Spec
=============================================================================
