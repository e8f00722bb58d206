--------------------------- MODULE RunQueueProofs ---------------------------
(***************************************************************************)
(* Proofs about RunQueue, for any number of CPUs and tasks: no task runs   *)
(* on two CPUs or after its release, the queues and their counts are       *)
(* exact, the run queue locks are taken in ascending order, and the whole  *)
(* implements TaskSched.                                                   *)
(***************************************************************************)
EXTENDS RunQueue, ListFacts, WellFoundedInduction, NaturalsInduction

-----------------------------------------------------------------------------
(***************************************************************************)
(* Tasks, threads and CPUs.                                                *)
(***************************************************************************)

\* What can be on a queue, and all that can run.
Queueable == Tasks \cup Mts
Threads   == Tasks \cup Kthreads

LEMMA Names ==
    /\ \A c \in CPUs : /\ idle(c) \in Idle /\ idle(c) \in Threads
                       /\ idle(c) \notin Tasks /\ idle(c) \notin Mts
                       /\ migration_thread(c) \in Mts /\ migration_thread(c) \in Threads
                       /\ migration_thread(c) \in Queueable
                       /\ migration_thread(c) \notin Tasks
                       /\ migration_thread(c) \notin Idle
    /\ \A c, d \in CPUs : /\ idle(c) # migration_thread(d)
                          /\ idle(c) = idle(d) => c = d
                          /\ migration_thread(c) = migration_thread(d) => c = d
    /\ \A p \in Mts : \E c \in CPUs : p = migration_thread(c)
    /\ \A p \in Idle : \E c \in CPUs : p = idle(c)
    /\ Tasks \subseteq Threads /\ Queueable \subseteq Threads /\ Tasks \subseteq Queueable
    /\ Tasks \cap Mts = {}
    /\ Threads = Queueable \cup Idle
<1>1. Tasks \cap Kthreads = {}
    BY RunQueueAssumption
<1> QED
    BY <1>1 DEF Idle, Mts, idle, migration_thread, Kthreads, Queueable, Threads

LEMMA FiniteThreads == IsFiniteSet(Queueable)
<1>1. IsFiniteSet(CPUs)
    BY FS_Interval, RunQueueAssumption DEF CPUs
<1> DEFINE f == [c \in CPUs |-> migration_thread(c)]
<1>2. f \in Surjection(CPUs, Mts)
    BY DEF Surjection, Mts, migration_thread
<1>3. IsFiniteSet(Mts)
    BY <1>1, <1>2, FS_Surjection
<1> QED
    BY <1>3, FS_Union, RunQueueAssumption DEF Queueable

\* __ffs of a mask that is not empty.
LEMMA LowestCpu ==
    ASSUME NEW S \in SUBSET CPUs, S # {}
    PROVE  Min(S) \in S
<1>1. S \subseteq Nat
    BY RunQueueAssumption DEF CPUs
<1> DEFINE R == OpToRel(<, Nat)
<1>2. IsWellFoundedOn(R, Nat)
    BY NatLessThanWellFounded, Zenon
<1>3. \A i, j \in Nat : i < j => <<i, j>> \in R
    BY DEF OpToRel
<1> HIDE DEF R
<1>4. PICK x \in S : \A y \in S : ~(<<y, x>> \in R)
    BY <1>1, <1>2, WFMin, Zenon
<1>5. \A y \in S : x =< y
  <2>1. x \in Nat /\ \A y \in S : y \in Nat /\ ~(y < x)
    BY <1>1, <1>3, <1>4
  <2> QED
    BY <2>1
<1> QED
    BY <1>5 DEF Min

\* The locks that double_rq_lock takes first and second.
LEMMA PairOrder ==
    ASSUME NEW a \in CPUs, NEW b \in CPUs
    PROVE  /\ Min({a, b}) \in {a, b} /\ Max({a, b}) \in {a, b}
           /\ a # b => Min({a, b}) < Max({a, b}) /\ {a, b} = {Min({a, b}), Max({a, b})}
           /\ a # b => Cardinality({a, b}) = 2
           /\ a = b => Min({a, b}) = a /\ Max({a, b}) = a /\ Cardinality({a, b}) = 1
<1>1. a \in Int /\ b \in Int
    BY RunQueueAssumption DEF CPUs
<1>2. \E x \in {a, b} : \A y \in {a, b} : x =< y
    BY <1>1
<1>3. \E x \in {a, b} : \A y \in {a, b} : x >= y
    BY <1>1
<1>4. Min({a, b}) \in {a, b} /\ \A y \in {a, b} : Min({a, b}) =< y
    BY <1>2 DEF Min
<1>5. Max({a, b}) \in {a, b} /\ \A y \in {a, b} : Max({a, b}) >= y
    BY <1>3 DEF Max
<1>6. a # b => Cardinality({a, b}) = 2
  <2>1. IsFiniteSet({a}) /\ Cardinality({a}) = 1
    BY FS_Singleton
  <2>2. a # b => Cardinality({a} \cup {b}) = 1 + 1
    BY <2>1, FS_AddElement
  <2>3. {a} \cup {b} = {a, b}
    OBVIOUS
  <2> QED
    BY <2>2, <2>3
<1>7. a = b => Cardinality({a, b}) = 1
    BY FS_Singleton
<1> QED
    BY <1>1, <1>4, <1>5, <1>6, <1>7

\* lo and hi are a and b in their order.
Ordered(a, b, lo, hi) ==
    /\ lo = Min({a, b}) /\ hi = Max({a, b})
    /\ \A x : x \in {a, b} <=> x \in {lo, hi}
    /\ a # b => lo < hi /\ Cardinality({a, b}) = 2
    /\ a = b => lo = hi /\ Cardinality({a, b}) = 1

LEMMA PairNames ==
    ASSUME NEW a \in CPUs, NEW b \in CPUs
    PROVE  \E lo, hi \in CPUs : Ordered(a, b, lo, hi)
<1> DEFINE lo == Min({a, b})
           hi == Max({a, b})
<1>1. /\ lo \in {a, b} /\ hi \in {a, b}
      /\ a # b => lo < hi /\ {a, b} = {lo, hi} /\ Cardinality({a, b}) = 2
      /\ a = b => lo = a /\ hi = a /\ Cardinality({a, b}) = 1
    BY PairOrder
<1> HIDE DEF lo, hi
<1>2. lo \in CPUs /\ hi \in CPUs /\ \A x : x \in {a, b} <=> x \in {lo, hi}
    BY <1>1
<1>3. lo = Min({a, b}) /\ hi = Max({a, b})
    BY DEF lo, hi
<1> QED
    BY <1>1, <1>2, <1>3 DEF Ordered

\* The arrays of a queue are not None.
LEMMA ArrayNames ==
    \A c \in CPUs : \A a \in {"active", "expired"} : <<c, a>> # None /\ <<c, a>>[1] = c
    BY RunQueueAssumption

LEMMA DisjointUnion ==
    ASSUME NEW A, NEW B, IsFiniteSet(A), IsFiniteSet(B), A \cap B = {}
    PROVE  Cardinality(A \cup B) = Cardinality(A) + Cardinality(B)
<1>1. Cardinality(A \cup B) = Cardinality(A) + Cardinality(B) - Cardinality(A \cap B)
    BY FS_Union
<1>2. Cardinality(A \cap B) = 0
    BY FS_EmptySet
<1>3. Cardinality(A) \in Nat /\ Cardinality(B) \in Nat
    BY FS_CardinalityType
<1> QED
    BY <1>1, <1>2, <1>3

LEMMA ExceptType ==
    ASSUME NEW D, NEW R, NEW f \in [D -> R], NEW d, NEW v \in R
    PROVE  [f EXCEPT ![d] = v] \in [D -> R]
    OBVIOUS

-----------------------------------------------------------------------------
(***************************************************************************)
(* What runs and what is queued: KthreadInv, CurrInv, QueueInv, CountInv   *)
(* and SwitchInv.  First what the several kinds of steps do to them.       *)
(***************************************************************************)
RunInv == KthreadInv /\ CurrInv /\ QueueInv /\ CountInv /\ SwitchInv

QueueTypes ==
    /\ state \in [Threads -> States]
    /\ cpu \in [Threads -> CPUs]
    /\ array \in [Threads -> {None} \cup CPUs \X {"active", "expired"}]
    /\ curr \in [CPUs -> Threads]
    /\ nr_running \in [CPUs -> Nat]

\* Where a CPU can be.
CPcs == {"run", "pick", "pulled", "want", "dropped", "relock", "both", "first", "second", "move"}

LEMMA TypesOfQueues == TypeOK => QueueTypes
    BY DEF TypeOK, QueueTypes, Threads

\* The threads of a CPU: who they are when they run.
LEMMA CurrKthread ==
    ASSUME KthreadInv, CurrInv, NEW c \in CPUs
    PROVE  /\ curr[c] \in Idle => curr[c] = idle(c)
           /\ curr[c] \in Mts => curr[c] = migration_thread(c)
    BY Names DEF KthreadInv, CurrInv

LEMMA SameCount ==
    ASSUME CountInv, UNCHANGED <<array, nr_running>>
    PROVE  CountInv'
<1>1. \A c \in CPUs : OnQueue(c)' = OnQueue(c)
    BY DEF OnQueue
<1> QED
    BY <1>1 DEF CountInv

\* The steps that change neither who is queued where nor who runs.
LEMMA SameRun ==
    ASSUME QueueTypes, RunInv, UNCHANGED <<state, cpu, curr, nr_running>>,
           \A p \in Queueable : /\ array'[p] = None <=> array[p] = None
                                /\ array[p] # None => array'[p][1] = array[p][1],
           \A c \in CPUs : InSchedule(c)' <=> InSchedule(c)
    PROVE  RunInv'
<1>1. \A c \in CPUs : OnQueue(c)' = OnQueue(c)
    BY DEF OnQueue, Queueable
<1>2. CountInv'
    BY <1>1 DEF RunInv, CountInv
<1>3. KthreadInv' /\ CurrInv'
    BY DEF RunInv, KthreadInv, CurrInv
<1>4. QueueInv'
    BY DEF RunInv, QueueInv, RunnableIsQueued, Queueable
<1>5. SwitchInv'
    BY DEF RunInv, SwitchInv, Queueable
<1> QED
    BY <1>2, <1>3, <1>4, <1>5 DEF RunInv

\* What runs on c changes its state; it is not in schedule().
LEMMA StateRun ==
    ASSUME QueueTypes, RunInv, NEW c \in CPUs, NEW p \in Queueable, NEW s \in States,
           s # "none", p \in Mts => s \in {"RUNNING", "INTERRUPTIBLE"},
           cpc[c] = "run", curr[c] = p,
           state' = [state EXCEPT ![p] = s],
           UNCHANGED <<cpu, curr, array, nr_running>>,
           \A d \in CPUs : InSchedule(d)' <=> InSchedule(d)
    PROVE  RunInv'
<1>1. \A d \in CPUs : OnQueue(d)' = OnQueue(d)
    BY DEF OnQueue
<1>2. CountInv'
    BY <1>1 DEF RunInv, CountInv
<1>3. /\ state'[p] = s
      /\ \A u \in Threads \ {p} : state'[u] = state[u]
    BY Names DEF QueueTypes
<1>4. KthreadInv'
    BY <1>3, Names DEF RunInv, KthreadInv, Queueable
<1>5. CurrInv'
    BY <1>3 DEF RunInv, CurrInv, QueueTypes
<1>6. ~InSchedule(c)
    BY DEF InSchedule
<1>7. array[p] # None /\ cpu[p] = c
    BY <1>6 DEF RunInv, SwitchInv, CurrInv, Queueable
<1>8. QueueInv'
    BY <1>3, <1>7, Names DEF RunInv, QueueInv, RunnableIsQueued, Queueable
<1>9. SwitchInv'
  <2>1. \A d \in CPUs : curr[d] = p => d = c
    BY <1>7 DEF RunInv, CurrInv
  <2> QED
    BY <1>3, <1>6, <2>1, Names DEF RunInv, SwitchInv, Queueable
<1> QED
    BY <1>2, <1>4, <1>5, <1>8, <1>9 DEF RunInv

\* A task that is asleep, off the queue and not running changes its CPU.
LEMMA CpuRun ==
    ASSUME QueueTypes, RunInv, NEW p \in Tasks, NEW d \in CPUs,
           array[p] = None, curr[cpu[p]] # p,
           cpu' = [cpu EXCEPT ![p] = d],
           UNCHANGED <<state, curr, array, nr_running>>,
           \A c \in CPUs : InSchedule(c)' <=> InSchedule(c)
    PROVE  RunInv'
<1>1. \A c \in CPUs : OnQueue(c)' = OnQueue(c)
    BY DEF OnQueue
<1>2. CountInv'
    BY <1>1 DEF RunInv, CountInv
<1>3. \A u \in Threads \ {p} : cpu'[u] = cpu[u]
    BY Names DEF QueueTypes
<1>4. KthreadInv'
    BY <1>3, Names DEF RunInv, KthreadInv
<1>5. \A c \in CPUs : curr[c] # p /\ curr[c] \in Threads
    BY DEF RunInv, CurrInv, QueueTypes
<1>6. CurrInv'
    BY <1>3, <1>5 DEF RunInv, CurrInv
<1>7. QueueInv'
    BY <1>3, Names DEF RunInv, QueueInv, RunnableIsQueued, Queueable
<1>8. SwitchInv'
    BY DEF RunInv, SwitchInv
<1> QED
    BY <1>2, <1>4, <1>6, <1>7, <1>8 DEF RunInv

\* One task is added to a queue, or leaves it.
LEMMA CountOne ==
    ASSUME QueueTypes, CountInv, NEW p \in Queueable, NEW c \in CPUs,
           \A d \in CPUs \ {c} : OnQueue(d)' = OnQueue(d) /\ nr_running'[d] = nr_running[d],
           \/ /\ p \notin OnQueue(c) /\ OnQueue(c)' = OnQueue(c) \cup {p}
              /\ nr_running'[c] = nr_running[c] + 1
           \/ /\ p \in OnQueue(c) /\ OnQueue(c)' = OnQueue(c) \ {p}
              /\ nr_running'[c] = nr_running[c] - 1
    PROVE  CountInv'
<1>1. IsFiniteSet(OnQueue(c))
    BY FiniteThreads, FS_Subset DEF OnQueue, Queueable
<1>2. nr_running[c] = Cardinality(OnQueue(c))
    BY DEF CountInv
<1>3. nr_running'[c] = Cardinality(OnQueue(c)')
    BY <1>1, <1>2, FS_AddElement, FS_RemoveElement
<1> QED
    BY <1>3 DEF CountInv

\* try_to_wake_up of p, which may be on its way through schedule().
LEMMA WakeRun ==
    ASSUME QueueTypes, RunInv, NEW p \in Queueable, NEW sync \in BOOLEAN,
           TryToWakeUp(p, sync), cpu' = cpu,
           \A d \in CPUs : InSchedule(d)' <=> InSchedule(d)
    PROVE  RunInv'
<1>1. curr' = curr
    BY DEF TryToWakeUp
<1>2. CASE state[p] \notin Sleeping
  <2>1. UNCHANGED <<state, array, nr_running>>
    BY <1>2 DEF TryToWakeUp
  <2> QED
    BY <1>1, <2>1, SameRun
<1>3. CASE state[p] \in Sleeping
  <2> PICK c \in CPUs : c = cpu[p]
    BY Names DEF QueueTypes
  <2>1. state' = [state EXCEPT ![p] = "RUNNING"]
    BY <1>3 DEF TryToWakeUp
  <2>2. /\ state'[p] = "RUNNING"
        /\ \A u \in Threads \ {p} : state'[u] = state[u]
    BY <2>1, Names DEF QueueTypes
  <2>3. KthreadInv'
    BY <2>2, Names DEF RunInv, KthreadInv
  <2>4. CurrInv'
    BY <1>1, <2>2 DEF RunInv, CurrInv, QueueTypes
  <2>5. CASE array[p] # None
    <3>1. UNCHANGED <<array, nr_running>>
      BY <2>5 DEF TryToWakeUp, OffQueue
    <3>2. CountInv'
      BY <3>1 DEF RunInv, CountInv, OnQueue
    <3>3. QueueInv'
      BY <1>1, <2>2, <2>5, <3>1, Names DEF RunInv, QueueInv, RunnableIsQueued, Queueable
    <3>4. SwitchInv'
      BY <1>1, <2>2, <3>1, Names DEF RunInv, SwitchInv, Queueable
    <3> QED
      BY <2>3, <2>4, <3>2, <3>3, <3>4 DEF RunInv
  <2>6. CASE array[p] = None
    <3>1. /\ array' = [array EXCEPT ![p] = <<c, "active">>]
          /\ nr_running' = [nr_running EXCEPT ![c] = @ + 1]
      BY <1>3, <2>6 DEF TryToWakeUp, OffQueue, Activate, Plus
    <3>2. /\ array'[p] = <<c, "active">> /\ array'[p][1] = c /\ array'[p] # None
          /\ \A u \in Threads \ {p} : array'[u] = array[u]
      BY <3>1, Names, RunQueueAssumption DEF QueueTypes
    <3>3. CountInv'
      <4>1. p \notin OnQueue(c) /\ OnQueue(c)' = OnQueue(c) \cup {p}
        BY <2>6, <3>2, Names DEF OnQueue, Queueable
      <4>2. \A d \in CPUs \ {c} : OnQueue(d)' = OnQueue(d)
        BY <2>6, <3>2, Names DEF OnQueue, Queueable
      <4>3. /\ nr_running'[c] = nr_running[c] + 1
            /\ \A d \in CPUs \ {c} : nr_running'[d] = nr_running[d]
        BY <3>1 DEF QueueTypes
      <4>4. CountInv
        BY DEF RunInv
      <4> QED
        BY <4>1, <4>2, <4>3, <4>4, CountOne
    <3>4. QueueInv'
      BY <1>1, <2>2, <3>2, Names DEF RunInv, QueueInv, RunnableIsQueued, Queueable
    <3>5. SwitchInv'
      BY <1>1, <2>2, <3>2, Names DEF RunInv, SwitchInv, Queueable
    <3> QED
      BY <2>3, <2>4, <3>3, <3>4, <3>5 DEF RunInv
  <2> QED
    BY <2>5, <2>6
<1> QED
    BY <1>2, <1>3

\* A child is put beside its parent.
LEMMA ForkRun ==
    ASSUME QueueTypes, RunInv, NEW c \in CPUs, NEW q \in Tasks, NEW p \in Tasks,
           Fork(c, q, p)
    PROVE  RunInv'
<1>1. /\ cpc[c] = "run" /\ curr[c] = q /\ state[p] = "none"
      /\ state' = [state EXCEPT ![p] = "RUNNING"]
      /\ cpu' = [cpu EXCEPT ![p] = c]
      /\ array' = [array EXCEPT ![p] = array[q]]
      /\ nr_running' = [nr_running EXCEPT ![c] = @ + 1]
      /\ UNCHANGED <<curr, cpc, busiest>>
    BY DEF Fork, Runs, Plus, lockVars
<1>2. \A d \in CPUs : InSchedule(d)' <=> InSchedule(d)
    BY <1>1 DEF InSchedule
<1>3. ~InSchedule(c)
    BY <1>1 DEF InSchedule
<1>4. array[q] # None /\ array[q][1] = c
    BY <1>1, <1>3, Names DEF RunInv, SwitchInv, CurrInv, QueueInv, Queueable
<1>5. array[p] = None /\ \A d \in CPUs : curr[d] # p
    BY SMTT(60), <1>1, Names DEF RunInv, CurrInv, QueueInv, RunnableIsQueued, Queueable, QueueTypes
<1>6. /\ state'[p] = "RUNNING" /\ cpu'[p] = c /\ array'[p] = array[q]
      /\ \A u \in Threads \ {p} :
            state'[u] = state[u] /\ cpu'[u] = cpu[u] /\ array'[u] = array[u]
    BY <1>1, Names DEF QueueTypes
<1>7. KthreadInv'
    BY <1>6, Names DEF RunInv, KthreadInv
<1>8. CurrInv'
    BY <1>1, <1>5, <1>6 DEF RunInv, CurrInv, QueueTypes
<1>9. QueueInv'
    BY <1>1, <1>4, <1>6, Names DEF RunInv, QueueInv, RunnableIsQueued, Queueable
<1>10. SwitchInv'
    BY <1>1, <1>2, <1>5, <1>6, Names DEF RunInv, SwitchInv, Queueable
<1>11. CountInv'
  <2>1. p \notin OnQueue(c) /\ OnQueue(c)' = OnQueue(c) \cup {p}
    BY <1>4, <1>5, <1>6, Names DEF OnQueue, Queueable
  <2>2. \A d \in CPUs \ {c} : OnQueue(d)' = OnQueue(d)
    BY <1>4, <1>5, <1>6, Names DEF OnQueue, Queueable
  <2>3. /\ nr_running'[c] = nr_running[c] + 1
        /\ \A d \in CPUs \ {c} : nr_running'[d] = nr_running[d]
    BY <1>1 DEF QueueTypes
  <2>4. CountInv /\ p \in Queueable
    BY Names DEF RunInv
  <2> QED
    BY <2>1, <2>2, <2>3, <2>4, CountOne
<1> QED
    BY <1>7, <1>8, <1>9, <1>10, <1>11 DEF RunInv

\* A dead task that does not run any more is released.
LEMMA ReleaseRun ==
    ASSUME QueueTypes, RunInv, NEW c \in CPUs, NEW q \in Tasks, NEW p \in Tasks,
           ReleaseTask(c, q, p)
    PROVE  RunInv'
<1>1. /\ state[p] = "ZOMBIE" /\ curr[cpu[p]] # p
      /\ state' = [state EXCEPT ![p] = "none"]
      /\ UNCHANGED <<cpu, array, curr, nr_running, cpc, busiest>>
    BY DEF ReleaseTask, wait_task_inactive, task_running, rqVars, lockVars
<1>2. \A d \in CPUs : InSchedule(d)' <=> InSchedule(d)
    BY <1>1 DEF InSchedule
<1>3. array[p] = None /\ \A d \in CPUs : curr[d] # p
    BY <1>1, Names DEF RunInv, CurrInv, QueueInv, RunnableIsQueued, Queueable, QueueTypes
<1>4. /\ state'[p] = "none"
      /\ \A u \in Threads \ {p} : state'[u] = state[u]
    BY <1>1, Names DEF QueueTypes
<1>5. KthreadInv' /\ CountInv'
    BY <1>1, <1>4, SameCount, Names DEF RunInv, KthreadInv
<1>6. CurrInv'
    BY <1>1, <1>3, <1>4 DEF RunInv, CurrInv, QueueTypes
<1>7. QueueInv'
    BY <1>1, <1>3, <1>4, Names DEF RunInv, QueueInv, RunnableIsQueued, Queueable
<1>8. SwitchInv'
    BY <1>1, <1>2, <1>3, <1>4, Names DEF RunInv, SwitchInv, Queueable
<1> QED
    BY <1>5, <1>6, <1>7, <1>8 DEF RunInv

\* schedule() until prev is off the queue if it has to be.
LEMMA ScheduleRun ==
    ASSUME QueueTypes, RunInv, cpc \in [CPUs -> CPcs], NEW c \in CPUs, Schedule(c)
    PROVE  RunInv'
<1> PICK p \in Threads : p = curr[c]
    BY DEF QueueTypes
<1>1. /\ cpc[c] = "run" /\ cpc' = [cpc EXCEPT ![c] = "pick"]
      /\ UNCHANGED <<curr, cpu, busiest>>
    BY DEF Schedule, taskVars
<1>2. ~InSchedule(c) /\ InSchedule(c)' /\ \A d \in CPUs \ {c} : InSchedule(d)' <=> InSchedule(d)
    BY <1>1 DEF InSchedule
<1>3. cpu[p] = c /\ state[p] # "none" /\ \A d \in CPUs : curr[d] = p => d = c
    BY DEF RunInv, CurrInv
<1>4. p \in Queueable => array[p] # None
    BY <1>2 DEF RunInv, SwitchInv, Queueable
<1>5. p \notin Queueable => p \in Idle /\ state[p] = "RUNNING"
    BY CurrKthread, Names DEF RunInv, KthreadInv
<1>6. CASE state[p] = "RUNNING" /\ UNCHANGED <<state, array, nr_running>>
  <2>1. KthreadInv' /\ CurrInv' /\ QueueInv' /\ CountInv'
    BY <1>1, <1>6, SameCount DEF RunInv, KthreadInv, CurrInv, QueueInv, RunnableIsQueued
  <2>2. SwitchInv'
    BY <1>1, <1>2, <1>6 DEF RunInv, SwitchInv
  <2> QED
    BY <2>1, <2>2 DEF RunInv
<1>7. CASE /\ p \in Tasks
           /\ state' = [state EXCEPT ![p] = "RUNNING"]
           /\ UNCHANGED <<array, nr_running>>
  <2>1. /\ state'[p] = "RUNNING"
        /\ \A u \in Threads \ {p} : state'[u] = state[u]
    BY <1>7 DEF QueueTypes
  <2>2. KthreadInv' /\ CountInv'
    BY <1>1, <1>7, <2>1, SameCount, Names DEF RunInv, KthreadInv
  <2>3. CurrInv'
    BY <1>1, <2>1 DEF RunInv, CurrInv, QueueTypes
  <2>4. QueueInv'
    BY <1>1, <1>4, <1>7, <2>1, Names DEF RunInv, QueueInv, RunnableIsQueued, Queueable
  <2>5. SwitchInv'
    BY <1>1, <1>2, <1>7, <2>1, Names DEF RunInv, SwitchInv, Queueable
  <2> QED
    BY <2>2, <2>3, <2>4, <2>5 DEF RunInv
<1>8. CASE /\ state[p] # "RUNNING" /\ UNCHANGED state
           /\ array' = [array EXCEPT ![p] = None]
           /\ nr_running' = [nr_running EXCEPT ![c] = @ - 1]
  <2>0. p \in Queueable /\ array[p] # None /\ array[p][1] = c
    BY <1>3, <1>4, <1>5, <1>8 DEF RunInv, QueueInv, Queueable
  <2>1. /\ array'[p] = None
        /\ \A u \in Threads \ {p} : array'[u] = array[u]
    BY <1>8 DEF QueueTypes
  <2>2. KthreadInv' /\ CurrInv'
    BY <1>1, <1>8 DEF RunInv, KthreadInv, CurrInv
  <2>3. QueueInv'
    BY <1>1, <1>8, <2>1, Names DEF RunInv, QueueInv, RunnableIsQueued, Queueable
  <2>4. SwitchInv'
    BY <1>1, <1>2, <1>3, <1>8, <2>1, Names DEF RunInv, SwitchInv, Queueable
  <2>5. CountInv'
    <3>1. p \in OnQueue(c) /\ OnQueue(c)' = OnQueue(c) \ {p}
      BY <2>0, <2>1, Names DEF OnQueue, Queueable
    <3>2. \A d \in CPUs \ {c} : OnQueue(d)' = OnQueue(d)
      BY <2>0, <2>1, Names DEF OnQueue, Queueable
    <3>3. /\ nr_running'[c] = nr_running[c] - 1
          /\ \A d \in CPUs \ {c} : nr_running'[d] = nr_running[d]
      BY <1>8 DEF QueueTypes
    <3>4. CountInv
      BY DEF RunInv
    <3> QED
      BY <2>0, <3>1, <3>2, <3>3, <3>4, CountOne
  <2> QED
    BY <2>2, <2>3, <2>4, <2>5 DEF RunInv
<1> QED
    BY <1>6, <1>7, <1>8 DEF Schedule, taskVars, Plus

\* The switch to next.
LEMMA SwitchRun ==
    ASSUME QueueTypes, RunInv, NEW c \in CPUs, InSchedule(c),
           NEW next, next = idle(c) \/ next \in OnQueue(c),
           curr' = [curr EXCEPT ![c] = next],
           UNCHANGED <<state, cpu, nr_running>>,
           \A p \in Queueable : /\ array'[p] = None <=> array[p] = None
                                /\ array[p] # None => array'[p][1] = array[p][1],
           ~InSchedule(c)', \A d \in CPUs \ {c} : InSchedule(d)' <=> InSchedule(d)
    PROVE  RunInv'
<1>1. \A d \in CPUs : OnQueue(d)' = OnQueue(d)
    BY DEF OnQueue, Queueable
<1>2. CountInv'
    BY <1>1 DEF RunInv, CountInv
<1>3. KthreadInv'
    BY DEF RunInv, KthreadInv
<1>4. next \in OnQueue(c) => /\ next \in Queueable /\ array[next] # None
                             /\ cpu[next] = c /\ state[next] # "none"
  <2>1. next \in OnQueue(c) => /\ next \in Queueable /\ array[next] # None
                               /\ cpu[next] = c
    BY DEF RunInv, QueueInv, OnQueue, Queueable
  <2> QED
    BY <2>1 DEF RunInv, QueueInv, RunnableIsQueued, CurrInv, Queueable
<1>5. curr'[c] = next /\ \A d \in CPUs \ {c} : curr'[d] = curr[d]
    BY DEF QueueTypes
<1>6. CurrInv'
    BY <1>4, <1>5 DEF RunInv, CurrInv, KthreadInv
<1>7. QueueInv'
  <2>1. ASSUME NEW p \in Queueable
        PROVE  /\ array'[p] # None => array'[p][1] = cpu'[p]
               /\ state'[p] = "RUNNING" => array'[p] # None
               /\ array'[p] # None /\ state'[p] # "RUNNING" => curr'[cpu'[p]] = p
    <3>1. /\ array[p] # None => array[p][1] = cpu[p]
          /\ state[p] = "RUNNING" => array[p] # None
          /\ array[p] # None /\ state[p] # "RUNNING" => curr[cpu[p]] = p
      BY DEF RunInv, QueueInv, RunnableIsQueued, Queueable
    <3>2. cpu[p] \in CPUs
      BY Names DEF QueueTypes
    <3>3. cpu[p] = c /\ curr[c] = p /\ array[p] # None => state[p] = "RUNNING"
      BY DEF RunInv, SwitchInv, Queueable
    <3> QED
      BY <1>5, <3>1, <3>2, <3>3
  <2> QED
    BY <2>1 DEF QueueInv, RunnableIsQueued, Queueable
<1>8. SwitchInv'
    BY <1>4, <1>5, Names DEF RunInv, SwitchInv, Queueable
<1> QED
    BY <1>2, <1>3, <1>6, <1>7, <1>8 DEF RunInv

LEMMA PickNextRun ==
    ASSUME QueueTypes, RunInv, cpc \in [CPUs -> CPcs], NEW c \in CPUs, PickNext(c)
    PROVE  RunInv'
<1>1. /\ cpc[c] = "pick" /\ cpc' = [cpc EXCEPT ![c] = "run"]
      /\ UNCHANGED <<state, cpu, nr_running, busiest>>
    BY DEF PickNext, SwitchTo
<1>2. InSchedule(c) /\ ~InSchedule(c)' /\ \A d \in CPUs \ {c} : InSchedule(d)' <=> InSchedule(d)
    BY <1>1 DEF InSchedule
<1>3. PICK a \in {"active", "expired"} :
        /\ a = "active" => array' = array
        /\ a = "expired" => array' = [p \in DOMAIN array |->
                               IF p \in InArray(c, "expired") THEN <<c, "active">> ELSE array[p]]
        /\ \E next \in Candidates(InArray(c, a)) : curr' = [curr EXCEPT ![c] = next]
    BY DEF PickNext, SwitchTo
<1>4. PICK next \in InArray(c, a) : curr' = [curr EXCEPT ![c] = next]
    BY <1>3 DEF Candidates
<1>5. next \in OnQueue(c)
    BY <1>4, RunQueueAssumption DEF InArray, OnQueue
<1>6. \A p \in Queueable : /\ array'[p] = None <=> array[p] = None
                           /\ array[p] # None => array'[p][1] = array[p][1]
  <2>1. \A p \in Queueable : \/ array'[p] = array[p]
                             \/ array[p] = <<c, "expired">> /\ array'[p] = <<c, "active">>
    BY <1>3, Names DEF InArray, QueueTypes
  <2> QED
    BY <2>1, ArrayNames
<1> QED
    BY <1>1, <1>2, <1>4, <1>5, <1>6, SwitchRun

LEMMA PickIdleRun ==
    ASSUME QueueTypes, RunInv, cpc \in [CPUs -> CPcs], NEW c \in CPUs, PickIdle(c)
    PROVE  RunInv'
<1>1. /\ cpc[c] \in {"pick", "pulled"} /\ cpc' = [cpc EXCEPT ![c] = "run"]
      /\ curr' = [curr EXCEPT ![c] = idle(c)]
      /\ UNCHANGED <<state, cpu, array, nr_running, busiest>>
    BY DEF PickIdle, SwitchTo, taskVars
<1>2. InSchedule(c) /\ ~InSchedule(c)' /\ \A d \in CPUs \ {c} : InSchedule(d)' <=> InSchedule(d)
    BY <1>1 DEF InSchedule
<1>3. PICK next : next = idle(c)
    OBVIOUS
<1> QED
    BY <1>1, <1>2, <1>3, SwitchRun

\* Tasks that do not run go from the queue of b to that of c.
LEMMA MoveRun ==
    ASSUME QueueTypes, RunInv, NEW b \in CPUs, NEW c \in CPUs, b # c,
           NEW S \in SUBSET Tasks,
           \A p \in S : array[p] # None /\ cpu[p] = b /\ curr[b] # p,
           \A p \in Threads \ S : array'[p] = array[p] /\ cpu'[p] = cpu[p],
           \A p \in S : array'[p] = <<c, "active">> /\ cpu'[p] = c,
           UNCHANGED <<state, curr>>,
           nr_running'[b] = nr_running[b] - Cardinality(S),
           nr_running'[c] = nr_running[c] + Cardinality(S),
           \A d \in CPUs \ {b, c} : nr_running'[d] = nr_running[d],
           \A d \in CPUs : InSchedule(d)' <=> InSchedule(d)
    PROVE  RunInv'
<1>1. \A p \in S : \A d \in CPUs : curr[d] # p
    BY DEF RunInv, CurrInv
<1>2. \A p \in S : array'[p] # None /\ array'[p][1] = c /\ array[p][1] = b
  <2>1. \A p \in S : array[p][1] = b
    BY Names DEF RunInv, QueueInv, Queueable
  <2> QED
    BY <2>1, ArrayNames
<1>3. KthreadInv'
    BY Names DEF RunInv, KthreadInv
<1>4. CurrInv'
    BY <1>1 DEF RunInv, CurrInv, QueueTypes
<1>5. \A p \in S : state[p] = "RUNNING"
    BY <1>1, Names DEF RunInv, QueueInv, RunnableIsQueued, Queueable
<1>6. QueueInv'
  <2>1. ASSUME NEW p \in Queueable
        PROVE  /\ array'[p] # None => array'[p][1] = cpu'[p]
               /\ state'[p] = "RUNNING" => array'[p] # None
               /\ array'[p] # None /\ state'[p] # "RUNNING" => curr'[cpu'[p]] = p
    <3>1. /\ array[p] # None => array[p][1] = cpu[p]
          /\ state[p] = "RUNNING" => array[p] # None
          /\ array[p] # None /\ state[p] # "RUNNING" => curr[cpu[p]] = p
      BY DEF RunInv, QueueInv, RunnableIsQueued, Queueable
    <3> QED
      BY <1>2, <1>5, <3>1, Names
  <2> QED
    BY <2>1 DEF QueueInv, RunnableIsQueued, Queueable
<1>7. SwitchInv'
  <2>1. \A d \in CPUs : array'[curr[d]] = array[curr[d]]
    BY <1>1 DEF QueueTypes
  <2> QED
    BY <2>1 DEF RunInv, SwitchInv
<1>8. CountInv'
  <2>1. /\ S \subseteq OnQueue(b) /\ OnQueue(b)' = OnQueue(b) \ S
        /\ S \cap OnQueue(c) = {} /\ OnQueue(c)' = OnQueue(c) \cup S
    BY <1>2, Names DEF OnQueue, Queueable
  <2>2. \A d \in CPUs \ {b, c} : OnQueue(d)' = OnQueue(d)
    BY <1>2, Names DEF OnQueue, Queueable
  <2>3. \A d \in CPUs : IsFiniteSet(OnQueue(d)) /\ nr_running[d] = Cardinality(OnQueue(d))
    BY FiniteThreads, FS_Subset DEF OnQueue, Queueable, RunInv, CountInv
  <2>4. IsFiniteSet(S) /\ IsFiniteSet(OnQueue(b) \ S)
    BY <2>1, <2>3, FS_Subset
  <2>5. Cardinality(OnQueue(b)) = Cardinality(OnQueue(b) \ S) + Cardinality(S)
    <3>1. (OnQueue(b) \ S) \cup S = OnQueue(b) /\ (OnQueue(b) \ S) \cap S = {}
      BY <2>1
    <3> QED
      BY <3>1, <2>4, DisjointUnion
  <2>6. Cardinality(OnQueue(c) \cup S) = Cardinality(OnQueue(c)) + Cardinality(S)
    BY <2>1, <2>3, <2>4, DisjointUnion
  <2>7. /\ Cardinality(OnQueue(b)) \in Nat /\ Cardinality(S) \in Nat
        /\ Cardinality(OnQueue(b) \ S) \in Nat /\ Cardinality(OnQueue(c)) \in Nat
    BY <2>3, <2>4, FS_CardinalityType
  <2>8. nr_running'[b] = Cardinality(OnQueue(b)') /\ nr_running'[c] = Cardinality(OnQueue(c)')
    BY <2>1, <2>3, <2>5, <2>6, <2>7
  <2> QED
    BY <2>2, <2>3, <2>8 DEF CountInv
<1> QED
    BY <1>3, <1>4, <1>6, <1>7, <1>8 DEF RunInv

LEMMA PullRun ==
    ASSUME QueueTypes, RunInv, BusyInv, cpc \in [CPUs -> CPcs],
           busiest \in [CPUs -> {None} \cup [rq : CPUs, from : {"schedule", "tick", "migration"}]],
           NEW c \in CPUs, Pull(c)
    PROVE  RunInv'
<1>1. cpc[c] = "both"
    BY DEF Pull
<1>2. busiest[c] \in [rq : CPUs \ {c}, from : {"schedule", "tick"}]
    BY <1>1 DEF BusyInv, Busy
<1> PICK b \in CPUs : b = busiest[c].rq /\ b # c
    BY <1>2
<1>3. PICK S \in SUBSET {p \in Tasks : CanMigrate(p, b, c)} :
        /\ array' = [p \in DOMAIN array |-> IF p \in S THEN <<c, "active">> ELSE array[p]]
        /\ cpu' = [p \in DOMAIN cpu |-> IF p \in S THEN c ELSE cpu[p]]
        /\ nr_running' = [nr_running EXCEPT ![b] = @ - Cardinality(S),
                                            ![c] = @ + Cardinality(S)]
    BY DEF Pull
<1>4. UNCHANGED <<state, curr>>
    BY DEF Pull
<1>5. \A p \in S : p \in Tasks /\ array[p] # None /\ cpu[p] = b /\ curr[b] # p
    BY DEF CanMigrate, task_running
<1>6. /\ \A p \in Threads \ S : array'[p] = array[p] /\ cpu'[p] = cpu[p]
      /\ \A p \in S : array'[p] = <<c, "active">> /\ cpu'[p] = c
    BY <1>3, <1>5, Names DEF QueueTypes
<1>7. /\ nr_running'[b] = nr_running[b] - Cardinality(S)
      /\ nr_running'[c] = nr_running[c] + Cardinality(S)
      /\ \A d \in CPUs \ {b, c} : nr_running'[d] = nr_running[d]
    BY <1>3 DEF QueueTypes
<1>8. \A d \in CPUs : InSchedule(d)' <=> InSchedule(d)
  <2>1. /\ cpc' = [cpc EXCEPT ![c] = IF busiest[c].from = "schedule" THEN "pulled" ELSE "run"]
        /\ \A d \in CPUs \ {c} : busiest'[d] = busiest[d]
    BY DEF Pull
  <2> QED
    BY <1>1, <1>2, <2>1 DEF InSchedule
<1>9. S \in SUBSET Tasks
    BY <1>5
<1> QED
    BY <1>4, <1>5, <1>6, <1>7, <1>8, <1>9, MoveRun

\* The task a migration thread has to move.
LEMMA MovedTask ==
    ASSUME RequestInv, NEW c \in CPUs, mpc[c] \in {"got", "repeat", "complete"}
    PROVE  req[c].caller \in Tasks /\ Moved(c) \in Tasks
<1>1. req[c].caller \in Tasks
    BY DEF RequestInv
<1> PICK q \in Tasks : q = req[c].caller
    BY <1>1
<1>2. Serves(c, q)
    BY DEF Serves
<1>3. doing[q] \in {"wakemt", "wait"}
    BY <1>2 DEF RequestInv
<1>4. arg[q] \in [task : Tasks, rq : CPUs]
    BY <1>3 DEF RequestInv
<1> QED
    BY <1>1, <1>4 DEF Moved

LEMMA MtMoveRun ==
    ASSUME QueueTypes, RunInv, BusyInv, RequestInv, cpc \in [CPUs -> CPcs],
           NEW c \in CPUs, MtMove(c)
    PROVE  RunInv'
<1>1. cpc[c] = "move"
    BY DEF MtMove
<1>2. /\ busiest[c].rq \in CPUs /\ req[c].dest \in CPUs
      /\ mpc[c] = "repeat" /\ curr[c] = migration_thread(c)
    BY <1>1 DEF BusyInv, Busy
<1> PICK p \in Tasks : p = Moved(c)
    BY <1>2, MovedTask
<1> PICK dest \in CPUs : dest = req[c].dest
    BY <1>2
<1>3. /\ UNCHANGED <<state, curr>> /\ cpc' = [cpc EXCEPT ![c] = "run"]
      /\ busiest' = [busiest EXCEPT ![c] = None]
    BY DEF MtMove
<1>4. \A d \in CPUs : InSchedule(d)' <=> InSchedule(d)
    BY <1>1, <1>3 DEF InSchedule
<1>5. CASE UNCHANGED <<cpu, array, nr_running>>
    BY <1>3, <1>4, <1>5, SameRun
<1>6. CASE /\ cpu[p] = c /\ array[p] = None
           /\ cpu' = [cpu EXCEPT ![p] = dest]
           /\ UNCHANGED <<array, nr_running>>
  <2>1. curr[cpu[p]] # p
    BY <1>2, <1>6, Names
  <2> QED
    BY <1>3, <1>4, <1>6, <2>1, CpuRun
<1>7. CASE /\ cpu[p] = c /\ array[p] # None
           /\ cpu' = [cpu EXCEPT ![p] = dest]
           /\ array' = [array EXCEPT ![p] = <<dest, "active">>]
           /\ nr_running' = Plus(Plus(nr_running, c, -1), dest, 1)
  <2>1. curr[c] # p
    BY <1>2, Names
  <2>2. /\ cpu'[p] = dest /\ array'[p] = <<dest, "active">>
        /\ \A u \in Threads \ {p} : array'[u] = array[u] /\ cpu'[u] = cpu[u]
    BY <1>7, Names DEF QueueTypes
  <2>3. nr_running \in [CPUs -> Int]
    BY DEF QueueTypes
  <2>4. CASE dest = c
    <3>1. nr_running' = nr_running
      BY <1>7, <2>3, <2>4 DEF Plus
    <3>2. cpu' = cpu
      BY <1>7, <2>4 DEF QueueTypes
    <3>3. array[p][1] = c
      BY <1>7, Names DEF RunInv, QueueInv, Queueable
    <3>4. \A u \in Queueable : /\ array'[u] = None <=> array[u] = None
                               /\ array[u] # None => array'[u][1] = array[u][1]
      BY <1>7, <2>2, <2>4, <3>3, Names, RunQueueAssumption
    <3> QED
      BY <1>3, <1>4, <3>1, <3>2, <3>4, SameRun
  <2>5. CASE dest # c
    <3>1. PICK S \in SUBSET Tasks : S = {p}
      OBVIOUS
    <3>2. Cardinality(S) = 1
      BY <3>1, FS_Singleton
    <3>3. /\ nr_running'[c] = nr_running[c] - Cardinality(S)
          /\ nr_running'[dest] = nr_running[dest] + Cardinality(S)
          /\ \A d \in CPUs \ {c, dest} : nr_running'[d] = nr_running[d]
      BY <1>7, <2>3, <2>5, <3>2 DEF Plus
    <3>4. /\ \A u \in S : array[u] # None /\ cpu[u] = c /\ curr[c] # u
          /\ \A u \in Threads \ S : array'[u] = array[u] /\ cpu'[u] = cpu[u]
          /\ \A u \in S : array'[u] = <<dest, "active">> /\ cpu'[u] = dest
      BY <1>7, <2>1, <2>2, <3>1
    <3> QED
      BY <1>3, <1>4, <2>5, <3>3, <3>4, MoveRun
  <2> QED
    BY <2>4, <2>5
<1> QED
    BY <1>5, <1>6, <1>7 DEF MtMove

\* double_lock_balance: where it leaves c, and what it leaves alone.
LEMMA DoubleLockEffect ==
    ASSUME TypeOK, NEW c \in CPUs, NEW b \in CPUs, NEW f \in {"schedule", "tick"},
           DoubleLockBalance(c, b, f)
    PROVE  /\ cpc'[c] \in {"want", "dropped", "both"}
           /\ busiest'[c] = [rq |-> b, from |-> f]
           /\ \A d \in CPUs \ {c} : cpc'[d] = cpc[d] /\ busiest'[d] = busiest[d]
<1>1. /\ \E l \in {"want", "dropped", "both"} : cpc' = [cpc EXCEPT ![c] = l]
      /\ busiest' = [busiest EXCEPT ![c] = [rq |-> b, from |-> f]]
    BY DEF DoubleLockBalance
<1>2. cpc \in [CPUs -> {"run", "pick", "pulled", "want", "dropped", "relock", "both",
                         "first", "second", "move"}]
      /\ DOMAIN busiest = CPUs
    BY DEF TypeOK
<1> QED
    BY <1>1, <1>2

\* The steps that only take locks, or change the array of a task.
LEMMA QuietRun ==
    ASSUME TypeOK, RunInv, BusyInv, NEW c \in CPUs,
           \/ PickAgain(c) \/ BalanceIdle(c) \/ Tick(c) \/ LockBusiest(c) \/ Relock(c)
           \/ MtDest(c) \/ MtRepeat(c) \/ MtLock(c)
    PROVE  RunInv'
<1>0. QueueTypes
    BY TypesOfQueues
<1>1. UNCHANGED <<state, cpu, curr, nr_running>>
    BY DEF PickAgain, BalanceIdle, Tick, LockBusiest, Relock, MtDest, MtRepeat, MtLock,
           taskVars, rqVars
<1>2. \A p \in Queueable : /\ array'[p] = None <=> array[p] = None
                           /\ array[p] # None => array'[p][1] = array[p][1]
  <2>1. CASE array' = array
    BY <2>1
  <2>2. CASE Tick(c) /\ array' # array
    <3>1. /\ curr[c] \in Tasks /\ array[curr[c]] = <<c, "active">>
          /\ array' = [array EXCEPT ![curr[c]] = <<c, "expired">>]
      BY <2>2 DEF Tick
    <3>2. \A p \in Queueable : \/ array'[p] = array[p]
                               \/ array[p] = <<c, "active">> /\ array'[p] = <<c, "expired">>
      BY <1>0, <3>1, Names DEF QueueTypes
    <3> QED
      BY <3>2, ArrayNames
  <2> QED
    BY <2>1, <2>2 DEF PickAgain, BalanceIdle, LockBusiest, Relock, MtDest, MtRepeat, MtLock,
           taskVars
<1>3. \A d \in CPUs : InSchedule(d)' <=> InSchedule(d)
  <2> USE DEF InSchedule
  <2>0. cpc \in [CPUs -> {"run", "pick", "pulled", "want", "dropped", "relock", "both",
                         "first", "second", "move"}]
        /\ DOMAIN busiest = CPUs
    BY DEF TypeOK
  <2>1. CASE PickAgain(c)
    BY <2>0, <2>1 DEF PickAgain
  <2>2. CASE BalanceIdle(c)
    <3>1. PICK b \in CPUs, f \in {"schedule", "tick"} :
             f = "schedule" /\ DoubleLockBalance(c, b, f)
      BY <2>2 DEF BalanceIdle, MaybeBusiest
    <3>2. /\ cpc[c] = "pick" /\ cpc'[c] \in {"want", "dropped", "both"}
          /\ busiest'[c] = [rq |-> b, from |-> f]
          /\ \A d \in CPUs \ {c} : cpc'[d] = cpc[d] /\ busiest'[d] = busiest[d]
      BY <2>2, <3>1, DoubleLockEffect DEF BalanceIdle
    <3> QED
      BY <3>1, <3>2
  <2>3. CASE Tick(c)
    <3>1. CASE UNCHANGED lockVars
      BY <3>1 DEF lockVars
    <3>2. CASE ~UNCHANGED lockVars
      <4>1. PICK b \in CPUs, f \in {"schedule", "tick"} :
                f = "tick" /\ DoubleLockBalance(c, b, f)
        BY <2>3, <3>2 DEF Tick, MaybeBusiest
      <4>2. /\ cpc[c] = "run" /\ cpc'[c] \in {"want", "dropped", "both"}
            /\ busiest'[c] = [rq |-> b, from |-> f]
            /\ \A d \in CPUs \ {c} : cpc'[d] = cpc[d] /\ busiest'[d] = busiest[d]
        BY <2>3, <4>1, DoubleLockEffect DEF Tick
      <4> QED
        BY <4>1, <4>2
    <3> QED
      BY <3>1, <3>2
  <2>4. CASE LockBusiest(c)
    <3>1. cpc[c] \in {"want", "dropped"} /\ busiest' = busiest
          /\ \E l \in {"both", "relock"} : cpc' = [cpc EXCEPT ![c] = l]
      BY <2>4 DEF LockBusiest
    <3> QED
      BY <2>0, <3>1
  <2>5. CASE Relock(c)
    BY <2>0, <2>5 DEF Relock
  <2>6. CASE MtDest(c)
    BY <2>6 DEF MtDest, lockVars
  <2>7. CASE MtRepeat(c)
    BY <2>0, <2>7 DEF MtRepeat, Runs
  <2>8. CASE MtLock(c)
    <3>1. cpc[c] \in {"first", "second"} /\ busiest' = busiest
          /\ \E l \in {"second", "move"} : cpc' = [cpc EXCEPT ![c] = l]
      BY <2>8 DEF MtLock
    <3> QED
      BY <2>0, <3>1
  <2> QED
    BY <2>1, <2>2, <2>3, <2>4, <2>5, <2>6, <2>7, <2>8
<1> QED
    BY <1>0, <1>1, <1>2, <1>3, SameRun

\* What the running task does to itself and to others.
LEMMA TaskRun ==
    ASSUME TypeOK, RunInv, RequestInv, NEW c \in CPUs, NEW q \in Tasks,
           \/ SetState(c, q) \/ Yield(c, q) \/ Exit(c, q)
           \/ WakeMigrationThread(c, q) \/ WaitForCompletion(c, q)
    PROVE  RunInv'
<1>0. QueueTypes /\ q \in Queueable /\ q \notin Mts
    BY TypesOfQueues, Names
<1>1. cpc[c] = "run" /\ curr[c] = q /\ UNCHANGED <<cpu, curr, lockVars>>
    BY DEF SetState, Yield, Exit, WakeMigrationThread, WaitForCompletion, Runs, TryToWakeUp,
           rqVars
<1>2. \A d \in CPUs : InSchedule(d)' <=> InSchedule(d)
    BY <1>1 DEF InSchedule, lockVars
<1>3. CASE SetState(c, q) \/ Exit(c, q) \/ (WaitForCompletion(c, q) /\ state' # state)
  <2>1. PICK s \in States : s # "none" /\ state' = [state EXCEPT ![q] = s]
    BY <1>3 DEF SetState, Exit, WaitForCompletion, States, Sleeping
  <2>2. UNCHANGED <<array, nr_running>>
    BY <1>3 DEF SetState, Exit, WaitForCompletion, rqVars
  <2> QED
    BY <1>0, <1>1, <1>2, <2>1, <2>2, StateRun
<1>4. CASE WaitForCompletion(c, q) /\ state' = state
  <2>1. UNCHANGED <<array, nr_running>>
    BY <1>4 DEF WaitForCompletion, rqVars
  <2> QED
    BY <1>0, <1>1, <1>2, <1>4, <2>1, SameRun
<1>5. CASE Yield(c, q)
  <2>1. array' = [array EXCEPT ![q] = <<c, "expired">>] /\ UNCHANGED <<state, nr_running>>
    BY <1>5 DEF Yield, rqVars
  <2>2. array[q] # None /\ array[q][1] = c
    BY <1>0, <1>1 DEF RunInv, SwitchInv, QueueInv, CurrInv, InSchedule, Queueable
  <2>3. array'[q] = <<c, "expired">> /\ \A p \in Queueable \ {q} : array'[p] = array[p]
    BY <1>0, <2>1, Names DEF QueueTypes
  <2>4. \A p \in Queueable : /\ array'[p] = None <=> array[p] = None
                             /\ array[p] # None => array'[p][1] = array[p][1]
    BY <2>2, <2>3, ArrayNames
  <2> QED
    BY <1>0, <1>1, <1>2, <2>1, <2>4, SameRun
<1>6. CASE WakeMigrationThread(c, q)
  <2>1. arg[q] \in [task : Tasks, rq : CPUs]
    BY <1>6 DEF WakeMigrationThread, RequestInv
  <2>2. PICK p \in Queueable, sync \in BOOLEAN :
            p = migration_thread(arg[q].rq) /\ sync = FALSE
    BY <2>1, Names
  <2>3. TryToWakeUp(p, sync)
    BY <1>6, <2>2 DEF WakeMigrationThread
  <2> QED
    BY <1>0, <1>1, <1>2, <2>3, WakeRun
<1> QED
    BY <1>3, <1>4, <1>5, <1>6

LEMMA OtherRun ==
    ASSUME TypeOK, RunInv, NEW c \in CPUs, NEW q \in Tasks, NEW p \in Tasks,
           \/ WakeUpSync(c, q, p) \/ Setscheduler(c, q, p) \/ Fork(c, q, p) \/ ReleaseTask(c, q, p)
           \/ \E mask \in (SUBSET CPUs) \ {{}} : SetCpusAllowed(c, q, p, mask)
    PROVE  RunInv'
<1>0. QueueTypes /\ p \in Queueable
    BY TypesOfQueues, Names
<1>1. CASE Fork(c, q, p) \/ ReleaseTask(c, q, p)
    BY <1>0, <1>1, ForkRun, ReleaseRun
<1>2. CASE Setscheduler(c, q, p)
  <2>1. /\ array[p] # None /\ array' = [array EXCEPT ![p] = <<cpu[p], "active">>]
        /\ UNCHANGED <<state, cpu, curr, nr_running, lockVars>>
    BY <1>2 DEF Setscheduler
  <2>2. array[p][1] = cpu[p] /\ cpu[p] \in CPUs
    BY <1>0, <2>1, Names DEF RunInv, QueueInv, Queueable, QueueTypes
  <2>3. array'[p] = <<cpu[p], "active">> /\ \A u \in Queueable \ {p} : array'[u] = array[u]
    BY <1>0, <2>1, Names DEF QueueTypes
  <2>4. \A u \in Queueable : /\ array'[u] = None <=> array[u] = None
                             /\ array[u] # None => array'[u][1] = array[u][1]
    BY <2>1, <2>2, <2>3, ArrayNames
  <2>5. \A d \in CPUs : InSchedule(d)' <=> InSchedule(d)
    BY <2>1 DEF InSchedule, lockVars
  <2> QED
    BY <1>0, <2>1, <2>4, <2>5, SameRun
<1>3. CASE WakeUpSync(c, q, p)
  <2>1. UNCHANGED lockVars
    BY <1>3 DEF WakeUpSync
  <2>2. \A d \in CPUs : InSchedule(d)' <=> InSchedule(d)
    BY <2>1 DEF InSchedule, lockVars
  <2>3. CASE /\ MayFastMigrate(p, c) /\ cpu' = [cpu EXCEPT ![p] = c]
             /\ UNCHANGED <<state, array, rqVars>>
    <3>1. array[p] = None /\ curr[cpu[p]] # p
      BY <2>3 DEF MayFastMigrate, OffQueue, task_running
    <3> QED
      BY <1>0, <2>2, <2>3, <3>1, CpuRun DEF rqVars
  <2>4. CASE TryToWakeUp(p, TRUE) /\ cpu' = cpu
    BY <1>0, <2>2, <2>4, WakeRun
  <2> QED
    BY <1>3, <2>3, <2>4 DEF WakeUpSync
<1>4. ASSUME NEW mask \in (SUBSET CPUs) \ {{}}, SetCpusAllowed(c, q, p, mask)
      PROVE  RunInv'
  <2>1. UNCHANGED <<state, array, curr, nr_running, lockVars>>
    BY <1>4 DEF SetCpusAllowed, rqVars
  <2>2. \A d \in CPUs : InSchedule(d)' <=> InSchedule(d)
    BY <2>1 DEF InSchedule, lockVars
  <2>3. CASE cpu' = cpu
    BY <1>0, <2>1, <2>2, <2>3, SameRun
  <2>4. CASE /\ array[p] = None /\ ~task_running(cpu[p], p)
             /\ cpu' = [cpu EXCEPT ![p] = Min(mask)]
    <3>1. PICK d \in CPUs : d = Min(mask)
      BY LowestCpu
    <3> QED
      BY <1>0, <2>1, <2>2, <2>4, <3>1, CpuRun DEF task_running
  <2> QED
    BY <1>4, <2>3, <2>4 DEF SetCpusAllowed
<1> QED
    BY <1>1, <1>2, <1>3, <1>4

LEMMA MtRun ==
    ASSUME TypeOK, RunInv, RequestInv, NEW c \in CPUs, MtTop(c) \/ MtComplete(c)
    PROVE  RunInv'
<1>0. QueueTypes
    BY TypesOfQueues
<1>1. UNCHANGED <<cpu, curr, lockVars>>
    BY DEF MtTop, MtComplete, TryToWakeUp, rqVars
<1>2. \A d \in CPUs : InSchedule(d)' <=> InSchedule(d)
    BY <1>1 DEF InSchedule, lockVars
<1>3. CASE MtTop(c)
  <2>1. PICK p \in Queueable, s \in States :
            p = migration_thread(c) /\ s = "INTERRUPTIBLE"
    BY Names DEF States, Sleeping
  <2>2. /\ cpc[c] = "run" /\ curr[c] = p /\ state' = [state EXCEPT ![p] = s]
        /\ UNCHANGED <<array, nr_running>>
    BY <1>3, <2>1 DEF MtTop, Runs, rqVars
  <2> QED
    BY <1>0, <1>1, <1>2, <2>1, <2>2, StateRun
<1>4. CASE MtComplete(c)
  <2>1. PICK q \in Queueable, sync \in BOOLEAN : q = req[c].caller /\ sync = FALSE
    BY <1>4, MovedTask, Names DEF MtComplete
  <2>2. TryToWakeUp(q, sync)
    BY <1>4, <2>1 DEF MtComplete
  <2> QED
    BY <1>0, <1>1, <1>2, <2>2, WakeRun
<1> QED
    BY <1>3, <1>4

LEMMA StepRun ==
    ASSUME SchedInv, [Next]_vars
    PROVE  RunInv'
<1>1. TypeOK /\ QueueTypes /\ RunInv /\ BusyInv /\ RequestInv
    BY TypesOfQueues DEF SchedInv, RunInv
<1>2. /\ cpc \in [CPUs -> CPcs]
      /\ busiest \in [CPUs -> {None} \cup [rq : CPUs, from : {"schedule", "tick", "migration"}]]
    BY <1>1 DEF TypeOK, CPcs
<1>3. ASSUME NEW c \in CPUs, Sched(c)
      PROVE  RunInv'
    BY <1>1, <1>2, <1>3, ScheduleRun, PickNextRun, PickIdleRun, PullRun, QuietRun DEF Sched
<1>4. ASSUME NEW c \in CPUs, Migration(c)
      PROVE  RunInv'
    BY <1>1, <1>2, <1>4, MtMoveRun, MtRun, QuietRun DEF Migration
<1>5. ASSUME NEW c \in CPUs, TaskStep(c)
      PROVE  RunInv'
    BY <1>1, <1>5, TaskRun, OtherRun DEF TaskStep
<1>6. ASSUME NEW p \in Tasks, WakeUp(p)
      PROVE  RunInv'
  <2>1. TryToWakeUp(p, FALSE) /\ cpu' = cpu /\ UNCHANGED lockVars
    BY <1>6 DEF WakeUp
  <2>2. \A d \in CPUs : InSchedule(d)' <=> InSchedule(d)
    BY <2>1 DEF InSchedule, lockVars
  <2> QED
    BY <1>1, <2>1, <2>2, WakeRun, Names
<1>7. CASE UNCHANGED vars
  <2>1. UNCHANGED <<state, cpu, array, curr, nr_running, cpc, busiest>>
    BY <1>7 DEF vars, taskVars, rqVars, lockVars
  <2>2. \A d \in CPUs : InSchedule(d)' <=> InSchedule(d)
    BY <2>1 DEF InSchedule
  <2> QED
    BY <1>1, <2>1, <2>2, SameRun
<1> QED
    BY <1>3, <1>4, <1>5, <1>6, <1>7 DEF Next

-----------------------------------------------------------------------------
(***************************************************************************)
(* The locks: BusyInv and LockInv.                                         *)
(***************************************************************************)

\* Nothing that is said about locks changes.
LEMMA SameLocks ==
    ASSUME BusyInv, LockInv, UNCHANGED lockVars,
           \A d \in CPUs : cpc[d] \in {"first", "second", "move"} =>
               req'[d] = req[d] /\ mpc'[d] = mpc[d] /\ curr'[d] = curr[d]
    PROVE  BusyInv' /\ LockInv'
<1>1. UNCHANGED <<lock, cpc, busiest>>
    BY DEF lockVars
<1>2. BusyInv'
    BY <1>1 DEF BusyInv, Busy
<1>3. \A c, x \in CPUs : Holds(c, x)' <=> Holds(c, x)
    BY <1>1 DEF Holds
<1> QED
    BY <1>1, <1>2, <1>3 DEF LockInv

\* One CPU takes and releases locks.
LEMMA OneLocks ==
    ASSUME BusyInv, LockInv, NEW c \in CPUs,
           \A d \in CPUs \ {c} : /\ cpc'[d] = cpc[d] /\ busiest'[d] = busiest[d]
                                 /\ req'[d] = req[d] /\ mpc'[d] = mpc[d] /\ curr'[d] = curr[d],
           \A x \in CPUs : \/ lock'[x] = lock[x]
                           \/ lock[x] \in {None, c} /\ lock'[x] \in {None, c},
           \A x \in CPUs : lock'[x] = c <=> Holds(c, x)',
           Busy(c)'
    PROVE  BusyInv' /\ LockInv'
<1>1. BusyInv'
    BY DEF BusyInv, Busy
<1>2. \A d \in CPUs \ {c} : \A x \in CPUs : Holds(d, x)' <=> Holds(d, x)
    BY DEF Holds
<1>3. \A d \in CPUs \ {c} : \A x \in CPUs : lock'[x] = d <=> lock[x] = d
    BY RunQueueAssumption
<1> QED
    BY <1>1, <1>2, <1>3 DEF LockInv

\* The locks of c, as c sees them.
LEMMA MyLocks ==
    ASSUME LockInv, NEW c \in CPUs
    PROVE  \A x \in CPUs : lock[x] = c <=> Holds(c, x)
    BY DEF LockInv

LockTypes ==
    /\ cpc \in [CPUs -> CPcs] /\ lock \in [CPUs -> CPUs \cup {None}]
    /\ busiest \in [CPUs -> {None} \cup [rq : CPUs, from : {"schedule", "tick", "migration"}]]
    /\ curr \in [CPUs -> Threads]

LEMMA TypesOfLocks == TypeOK => LockTypes
    BY DEF TypeOK, LockTypes, CPcs, Threads

\* schedule() takes the lock of its queue, and the switch gives it back.
LEMMA ScheduleLocks ==
    ASSUME TypeOK, BusyInv, LockInv, NEW c \in CPUs,
           Schedule(c) \/ PickNext(c) \/ PickIdle(c) \/ PickAgain(c)
    PROVE  BusyInv' /\ LockInv'
<1>0. LockTypes
    BY TypesOfLocks
<1>1. /\ UNCHANGED <<busiest, req>>
      /\ \A d \in CPUs \ {c} : mpc'[d] = mpc[d] /\ curr'[d] = curr[d]
  <2>1. UNCHANGED <<busiest, req>>
    BY DEF Schedule, PickNext, PickIdle, PickAgain, SwitchTo, mtVars
  <2>2. DOMAIN mpc = CPUs /\ DOMAIN curr = CPUs
    BY DEF TypeOK
  <2>3. mpc' = mpc \/ mpc' = [mpc EXCEPT ![c] = "top"]
    BY DEF Schedule, PickNext, PickIdle, PickAgain, mtVars
  <2>4. curr' = curr \/ \E p : curr' = [curr EXCEPT ![c] = p]
    BY DEF Schedule, PickNext, PickIdle, PickAgain, SwitchTo, rqVars
  <2> QED
    BY <2>1, <2>2, <2>3, <2>4
<1>2. CASE Schedule(c)
  <2>1. /\ cpc[c] = "run" /\ lock[c] = None
        /\ cpc' = [cpc EXCEPT ![c] = "pick"] /\ lock' = [lock EXCEPT ![c] = c]
    BY <1>2 DEF Schedule, Unlocked
  <2>2. \A x \in CPUs : lock[x] # c
    BY <2>1, MyLocks DEF Holds
  <2>3. \A x \in CPUs : lock'[x] = c <=> Holds(c, x)'
    BY <1>0, <2>1, <2>2 DEF Holds, LockTypes
  <2>4. Busy(c)'
    BY <1>0, <2>1 DEF Busy, LockTypes
  <2> QED
    BY <1>0, <1>1, <2>1, <2>3, <2>4, OneLocks DEF LockTypes
<1>3. CASE PickNext(c) \/ PickIdle(c)
  <2>1. /\ cpc[c] \in {"pick", "pulled"}
        /\ cpc' = [cpc EXCEPT ![c] = "run"] /\ lock' = [lock EXCEPT ![c] = None]
    BY <1>3 DEF PickNext, PickIdle, SwitchTo
  <2>2. \A x \in CPUs : lock[x] = c <=> x = c
    BY <2>1, MyLocks DEF Holds
  <2>3. \A x \in CPUs : lock'[x] = c <=> Holds(c, x)'
    BY <1>0, <2>1, <2>2, RunQueueAssumption DEF Holds, LockTypes
  <2>4. Busy(c)'
    BY <1>0, <2>1 DEF Busy, LockTypes
  <2> QED
    BY <1>0, <1>1, <2>1, <2>2, <2>3, <2>4, OneLocks DEF LockTypes
<1>4. CASE PickAgain(c)
  <2>1. cpc[c] = "pulled" /\ cpc' = [cpc EXCEPT ![c] = "pick"] /\ lock' = lock
    BY <1>4 DEF PickAgain
  <2>2. \A x \in CPUs : lock[x] = c <=> x = c
    BY <2>1, MyLocks DEF Holds
  <2>3. \A x \in CPUs : lock'[x] = c <=> Holds(c, x)'
    BY <1>0, <2>1, <2>2 DEF Holds, LockTypes
  <2>4. Busy(c)'
    BY <1>0, <2>1 DEF Busy, LockTypes
  <2> QED
    BY <1>0, <1>1, <2>1, <2>3, <2>4, OneLocks DEF LockTypes
<1> QED
    BY <1>2, <1>3, <1>4

\* double_lock_balance.
LEMMA DoubleLocks ==
    ASSUME TypeOK, BusyInv, LockInv, NEW c \in CPUs, NEW b \in CPUs \ {c},
           NEW f \in {"schedule", "tick"},
           \/ cpc[c] = "run" /\ lock[c] = None
           \/ cpc[c] = "pick",
           DoubleLockBalance(c, b, f), UNCHANGED <<req, mpc, curr>>
    PROVE  BusyInv' /\ LockInv'
<1>0. LockTypes /\ c \in Int /\ b \in Int
    BY TypesOfLocks, RunQueueAssumption DEF CPUs
<1>1. /\ busiest'[c] = [rq |-> b, from |-> f]
      /\ \A d \in CPUs \ {c} : cpc'[d] = cpc[d] /\ busiest'[d] = busiest[d]
    BY DoubleLockEffect
<1>2. \A x \in CPUs \ {c} : lock[x] # c
    BY MyLocks DEF Holds
<1>3. lock[c] \in {None, c}
    BY MyLocks DEF Holds
<1>4. CASE /\ lock[b] = None /\ lock' = [lock EXCEPT ![c] = c, ![b] = c]
           /\ cpc' = [cpc EXCEPT ![c] = "both"]
  <2>1. \A x \in CPUs : \/ lock'[x] = lock[x]
                        \/ lock[x] \in {None, c} /\ lock'[x] \in {None, c}
    BY <1>0, <1>3, <1>4 DEF LockTypes
  <2>2. cpc'[c] = "both" /\ \A x \in CPUs : lock'[x] = c <=> x \in {b, c}
    BY <1>0, <1>2, <1>4 DEF LockTypes
  <2>3. \A x \in CPUs : lock'[x] = c <=> Holds(c, x)'
    BY <1>1, <2>2 DEF Holds
  <2>4. Busy(c)'
    BY <1>1, <2>2 DEF Busy
  <2> QED
    BY <1>1, <2>1, <2>3, <2>4, OneLocks
<1>5. CASE /\ Ascending(c, b) /\ lock' = [lock EXCEPT ![c] = c]
           /\ cpc' = [cpc EXCEPT ![c] = "want"]
  <2>1. \A x \in CPUs : \/ lock'[x] = lock[x]
                        \/ lock[x] \in {None, c} /\ lock'[x] \in {None, c}
    BY <1>0, <1>3, <1>5 DEF LockTypes
  <2>2. cpc'[c] = "want" /\ \A x \in CPUs : lock'[x] = c <=> x = c
    BY <1>0, <1>2, <1>5 DEF LockTypes
  <2>3. \A x \in CPUs : lock'[x] = c <=> Holds(c, x)'
    BY <1>1, <2>2 DEF Holds
  <2>4. Busy(c)'
    BY <1>1, <1>5, <2>2 DEF Busy, Ascending
  <2> QED
    BY <1>1, <2>1, <2>3, <2>4, OneLocks
<1>6. CASE /\ ~Ascending(c, b) /\ lock' = [lock EXCEPT ![c] = None]
           /\ cpc' = [cpc EXCEPT ![c] = "dropped"]
  <2>1. \A x \in CPUs : \/ lock'[x] = lock[x]
                        \/ lock[x] \in {None, c} /\ lock'[x] \in {None, c}
    BY <1>0, <1>3, <1>6 DEF LockTypes
  <2>2. cpc'[c] = "dropped" /\ \A x \in CPUs : lock'[x] # c
    BY <1>0, <1>2, <1>6, RunQueueAssumption DEF LockTypes
  <2>3. \A x \in CPUs : lock'[x] = c <=> Holds(c, x)'
    BY <1>1, <2>2 DEF Holds
  <2>4. b < c
    BY <1>0, <1>6 DEF Ascending
  <2>5. Busy(c)'
    BY <1>1, <2>2, <2>4 DEF Busy
  <2> QED
    BY <1>1, <2>1, <2>3, <2>5, OneLocks
<1> QED
    BY <1>4, <1>5, <1>6 DEF DoubleLockBalance

\* The rest of load_balance.
LEMMA BalanceLocks ==
    ASSUME TypeOK, BusyInv, LockInv, NEW c \in CPUs,
           LockBusiest(c) \/ Relock(c) \/ Pull(c)
    PROVE  BusyInv' /\ LockInv'
<1>0. LockTypes
    BY TypesOfLocks
<1>1. /\ UNCHANGED <<req, mpc, curr>>
      /\ cpc[c] \in {"want", "dropped", "relock", "both"}
    BY DEF LockBusiest, Relock, Pull, mtVars, rqVars
<1>2. busiest[c] \in [rq : CPUs \ {c}, from : {"schedule", "tick"}]
    BY <1>1 DEF BusyInv, Busy
<1> PICK b \in CPUs \ {c} : b = busiest[c].rq
    BY <1>2
<1>3. \A x \in CPUs : lock[x] = c <=> \/ cpc[c] \in {"want", "both"} /\ x = c
                                      \/ cpc[c] \in {"relock", "both"} /\ x = b
  <2>1. \A x \in CPUs : Holds(c, x) <=> \/ cpc[c] \in {"want", "both"} /\ x = c
                                        \/ cpc[c] \in {"relock", "both"} /\ x = b
    BY <1>1 DEF Holds
  <2> QED
    BY <2>1, MyLocks
<1>4. CASE LockBusiest(c)
  <2>1. /\ cpc[c] \in {"want", "dropped"} /\ lock[b] = None
        /\ lock' = [lock EXCEPT ![b] = c] /\ busiest' = busiest
        /\ cpc' = [cpc EXCEPT ![c] = IF cpc[c] = "want" THEN "both" ELSE "relock"]
    BY <1>4 DEF LockBusiest, Unlocked
  <2>2. /\ cpc[c] = "want" => cpc'[c] = "both" /\ \A x \in CPUs : lock'[x] = c <=> x \in {b, c}
        /\ cpc[c] = "dropped" => cpc'[c] = "relock" /\ \A x \in CPUs : lock'[x] = c <=> x = b
        /\ \A d \in CPUs \ {c} : cpc'[d] = cpc[d]
    BY <1>0, <1>3, <2>1 DEF LockTypes
  <2>3. \A x \in CPUs : lock'[x] = c <=> Holds(c, x)'
    BY <2>1, <2>2 DEF Holds
  <2>4. Busy(c)'
    BY <2>1, <2>2, <1>2 DEF BusyInv, Busy
  <2> QED
    BY <1>0, <1>1, <2>1, <2>2, <2>3, <2>4, OneLocks DEF LockTypes
<1>5. CASE Relock(c)
  <2>1. /\ cpc[c] = "relock" /\ lock[c] = None
        /\ lock' = [lock EXCEPT ![c] = c] /\ busiest' = busiest
        /\ cpc' = [cpc EXCEPT ![c] = "both"]
    BY <1>5 DEF Relock, Unlocked
  <2>2. /\ cpc'[c] = "both" /\ \A x \in CPUs : lock'[x] = c <=> x \in {b, c}
        /\ \A d \in CPUs \ {c} : cpc'[d] = cpc[d]
    BY <1>0, <1>3, <2>1 DEF LockTypes
  <2>3. \A x \in CPUs : lock'[x] = c <=> Holds(c, x)'
    BY <2>1, <2>2 DEF Holds
  <2>4. Busy(c)'
    BY <2>1, <2>2, <1>2 DEF BusyInv, Busy
  <2> QED
    BY <1>0, <1>1, <2>1, <2>2, <2>3, <2>4, OneLocks DEF LockTypes
<1>6. CASE Pull(c)
  <2>1. /\ cpc[c] = "both"
        /\ \/ /\ lock' = [lock EXCEPT ![b] = None, ![c] = c]
              /\ cpc' = [cpc EXCEPT ![c] = "pulled"]
           \/ /\ lock' = [lock EXCEPT ![b] = None, ![c] = None]
              /\ cpc' = [cpc EXCEPT ![c] = "run"]
        /\ busiest' = [busiest EXCEPT ![c] = None]
    BY <1>6 DEF Pull
  <2>2. /\ \/ cpc'[c] = "pulled" /\ \A x \in CPUs : lock'[x] = c <=> x = c
           \/ cpc'[c] = "run" /\ \A x \in CPUs : lock'[x] # c
        /\ \A d \in CPUs \ {c} : cpc'[d] = cpc[d] /\ busiest'[d] = busiest[d]
    BY <1>0, <1>3, <2>1, RunQueueAssumption DEF LockTypes
  <2>3. \A x \in CPUs : lock'[x] = c <=> Holds(c, x)'
    BY <2>2 DEF Holds
  <2>4. Busy(c)'
    BY <2>2 DEF Busy
  <2>5. \A x \in CPUs : \/ lock'[x] = lock[x]
                        \/ lock[x] \in {None, c} /\ lock'[x] \in {None, c}
    BY <1>0, <1>3, <2>1 DEF LockTypes
  <2> QED
    BY <1>1, <2>2, <2>3, <2>4, <2>5, OneLocks
<1> QED
    BY <1>4, <1>5, <1>6

\* double_rq_lock of the migration thread.
LEMMA MtLocks ==
    ASSUME TypeOK, BusyInv, LockInv, RequestInv, NEW c \in CPUs,
           MtRepeat(c) \/ MtLock(c) \/ MtMove(c)
    PROVE  BusyInv' /\ LockInv'
<1>0. LockTypes
    BY TypesOfLocks
<1>1. /\ UNCHANGED <<req, curr>>
      /\ \A d \in CPUs \ {c} : mpc'[d] = mpc[d]
    BY DEF MtRepeat, MtLock, MtMove, mtVars, rqVars, TypeOK
<1>2. CASE MtRepeat(c)
  <2>1. /\ cpc[c] = "run" /\ mpc[c] = "repeat" /\ curr[c] = migration_thread(c)
        /\ lock' = lock /\ cpc' = [cpc EXCEPT ![c] = "first"] /\ mpc' = mpc
        /\ busiest' = [busiest EXCEPT ![c] = [rq |-> cpu[Moved(c)], from |-> "migration"]]
    BY <1>2 DEF MtRepeat, Runs, mtVars
  <2>2. Moved(c) \in Tasks /\ req[c].dest \in CPUs
    BY <2>1, MovedTask DEF RequestInv
  <2>3. PICK src \in CPUs : src = cpu[Moved(c)]
    BY <2>2 DEF TypeOK
  <2>4. /\ cpc'[c] = "first" /\ busiest'[c] = [rq |-> src, from |-> "migration"]
        /\ \A d \in CPUs \ {c} : cpc'[d] = cpc[d] /\ busiest'[d] = busiest[d]
    BY <1>0, <2>1, <2>3 DEF LockTypes
  <2>5. \A x \in CPUs : lock[x] # c
    BY <2>1, MyLocks DEF Holds
  <2>6. \A x \in CPUs : lock'[x] = c <=> Holds(c, x)'
    BY <2>1, <2>4, <2>5 DEF Holds
  <2>7. Busy(c)'
    BY <1>1, <2>1, <2>2, <2>4 DEF Busy
  <2> QED
    BY <1>1, <2>1, <2>4, <2>6, <2>7, OneLocks
<1>3. CASE MtLock(c) \/ MtMove(c)
  <2>1. cpc[c] \in {"first", "second", "move"}
    BY <1>3 DEF MtLock, MtMove
  <2>2. /\ busiest[c] \in [rq : CPUs, from : {"migration"}] /\ req[c].dest \in CPUs
        /\ mpc[c] = "repeat" /\ curr[c] = migration_thread(c)
        /\ cpc[c] = "second" => busiest[c].rq # req[c].dest
    BY <2>1 DEF BusyInv, Busy
  <2>a. PICK src \in CPUs, dest \in CPUs : src = busiest[c].rq /\ dest = req[c].dest
    BY <2>2
  <2>b. PICK lo \in CPUs, hi \in CPUs : Ordered(src, dest, lo, hi)
    BY <2>a, PairNames
  <2>3. /\ lo = Min({src, dest}) /\ hi = Max({src, dest})
        /\ \A x : x \in {src, dest} <=> x \in {lo, hi}
        /\ src # dest => lo < hi /\ Cardinality({src, dest}) = 2
        /\ src = dest => lo = hi /\ Cardinality({src, dest}) = 1
    BY <2>b DEF Ordered
  <2>4. \A x \in CPUs : lock[x] = c <=> \/ cpc[c] = "second" /\ x = lo
                                        \/ cpc[c] = "move" /\ x \in {lo, hi}
    BY <2>1, <2>a, <2>3, MyLocks DEF Holds
  <2>5. CASE MtLock(c)
    <3>1. /\ cpc[c] \in {"first", "second"} /\ UNCHANGED <<busiest, mpc>>
          /\ \/ /\ cpc[c] = "first" /\ lock[lo] = None /\ lock' = [lock EXCEPT ![lo] = c]
                /\ cpc' = [cpc EXCEPT ![c] = IF src # dest THEN "second" ELSE "move"]
             \/ /\ cpc[c] = "second" /\ lock[hi] = None /\ lock' = [lock EXCEPT ![hi] = c]
                /\ cpc' = [cpc EXCEPT ![c] = "move"]
      <4>1. Cardinality({src, dest}) = 2 <=> src # dest
        BY <2>3
      <4>2. Min({busiest[c].rq, req[c].dest}) = lo /\ Max({busiest[c].rq, req[c].dest}) = hi
        BY <2>a, <2>3
      <4>3. Cardinality({busiest[c].rq, req[c].dest}) = 2 <=> src # dest
        BY <2>a, <4>1
      <4>4. cpc[c] \in {"first", "second"} /\ UNCHANGED <<busiest, mpc>>
        BY <2>5 DEF MtLock, mtVars
      <4>5. CASE cpc[c] = "first"
        BY <2>5, <4>2, <4>3, <4>4, <4>5 DEF MtLock, Unlocked
      <4>6. CASE cpc[c] = "second"
        BY <2>5, <4>2, <4>4, <4>6 DEF MtLock, Unlocked
      <4> QED
        BY <4>4, <4>5, <4>6
    <3>2. /\ \/ cpc'[c] = "second" /\ src # dest /\ \A x \in CPUs : lock'[x] = c <=> x = lo
             \/ cpc'[c] = "move" /\ \A x \in CPUs : lock'[x] = c <=> x \in {lo, hi}
          /\ \A d \in CPUs \ {c} : cpc'[d] = cpc[d]
      <4>1. \A d \in CPUs \ {c} : cpc'[d] = cpc[d]
        BY <1>0, <3>1 DEF LockTypes
      <4>2. CASE cpc[c] = "first"
        <5>1. lock' = [lock EXCEPT ![lo] = c] /\ \A x \in CPUs : lock[x] # c
          BY <2>4, <3>1, <4>2
        <5>2. cpc'[c] = IF src # dest THEN "second" ELSE "move"
          BY <1>0, <3>1, <4>2 DEF LockTypes
        <5> QED
          BY <1>0, <2>3, <4>1, <5>1, <5>2 DEF LockTypes
      <4>3. CASE cpc[c] = "second"
        <5>1. lock' = [lock EXCEPT ![hi] = c] /\ \A x \in CPUs : lock[x] = c <=> x = lo
          BY <2>4, <3>1, <4>3
        <5>2. cpc'[c] = "move"
          BY <1>0, <3>1, <4>3 DEF LockTypes
        <5> QED
          BY <1>0, <4>1, <5>1, <5>2 DEF LockTypes
      <4> QED
        BY <3>1, <4>2, <4>3
    <3>3. \A x \in CPUs : lock'[x] = c <=> Holds(c, x)'
      BY <1>1, <2>a, <2>3, <3>1, <3>2 DEF Holds
    <3>4. Busy(c)'
      BY <1>1, <2>2, <2>a, <3>1, <3>2 DEF Busy
    <3>5. \A x \in CPUs : \/ lock'[x] = lock[x]
                          \/ lock[x] \in {None, c} /\ lock'[x] \in {None, c}
      BY <1>0, <3>1 DEF LockTypes
    <3> QED
      BY <1>1, <3>1, <3>2, <3>3, <3>4, <3>5, OneLocks
  <2>6. CASE MtMove(c)
    <3>1. /\ cpc[c] = "move" /\ cpc' = [cpc EXCEPT ![c] = "run"]
          /\ lock' = [lock EXCEPT ![src] = None, ![dest] = None]
          /\ busiest' = [busiest EXCEPT ![c] = None]
      BY <2>6, <2>a DEF MtMove
    <3>2. /\ cpc'[c] = "run"
          /\ \A d \in CPUs \ {c} : cpc'[d] = cpc[d] /\ busiest'[d] = busiest[d]
          /\ \A x \in CPUs : lock'[x] # c
      BY <1>0, <2>3, <2>4, <3>1, RunQueueAssumption DEF LockTypes
    <3>3. \A x \in CPUs : lock'[x] = c <=> Holds(c, x)'
      BY <3>2 DEF Holds
    <3>4. Busy(c)'
      BY <3>2 DEF Busy
    <3>5. \A x \in CPUs : \/ lock'[x] = lock[x]
                          \/ lock[x] \in {None, c} /\ lock'[x] \in {None, c}
      BY <1>0, <2>3, <2>4, <3>1 DEF LockTypes
    <3> QED
      BY <1>1, <3>2, <3>3, <3>4, <3>5, OneLocks
  <2> QED
    BY <1>3, <2>5, <2>6
<1> QED
    BY <1>2, <1>3

LEMMA StepLocks ==
    ASSUME SchedInv, [Next]_vars
    PROVE  BusyInv' /\ LockInv'
<1>1. TypeOK /\ BusyInv /\ LockInv /\ RequestInv
    BY DEF SchedInv
<1>2. ASSUME NEW c \in CPUs, BalanceIdle(c) \/ Tick(c)
      PROVE  BusyInv' /\ LockInv'
  <2>0. UNCHANGED <<req, mpc, curr>>
    BY <1>2 DEF BalanceIdle, Tick, mtVars, rqVars
  <2>1. CASE UNCHANGED lockVars
    BY <1>1, <2>0, <2>1, SameLocks
  <2>2. CASE ~UNCHANGED lockVars
    <3>1. /\ \E b \in CPUs \ {c}, f \in {"schedule", "tick"} : DoubleLockBalance(c, b, f)
          /\ \/ cpc[c] = "run" /\ lock[c] = None
             \/ cpc[c] = "pick"
      BY <1>2, <2>2 DEF BalanceIdle, Tick, MaybeBusiest, Unlocked
    <3> QED
      BY <1>1, <2>0, <3>1, DoubleLocks
  <2> QED
    BY <2>1, <2>2
<1>3. ASSUME NEW c \in CPUs, MtTop(c) \/ MtDest(c) \/ MtComplete(c)
      PROVE  BusyInv' /\ LockInv'
  <2>1. /\ UNCHANGED lockVars /\ cpc[c] = "run" /\ curr' = curr
        /\ \A d \in CPUs \ {c} : req'[d] = req[d] /\ mpc'[d] = mpc[d]
    <3>1. UNCHANGED lockVars /\ cpc[c] = "run" /\ curr' = curr
      BY <1>3 DEF MtTop, MtDest, MtComplete, Runs, TryToWakeUp, rqVars
    <3>2. DOMAIN req = CPUs /\ DOMAIN mpc = CPUs
      BY <1>1 DEF TypeOK
    <3>3. /\ \E r : mpc' = [mpc EXCEPT ![c] = r]
          /\ req' = req \/ \E r : req' = [req EXCEPT ![c] = r]
      BY <1>3 DEF MtTop, MtDest, MtComplete
    <3> QED
      BY <3>1, <3>2, <3>3
  <2> QED
    BY <1>1, <2>1, SameLocks
<1>4. ASSUME NEW c \in CPUs, TaskStep(c)
      PROVE  BusyInv' /\ LockInv'
  <2>1. ASSUME NEW q \in Tasks,
               \/ SetState(c, q) \/ Yield(c, q) \/ Exit(c, q)
               \/ WakeMigrationThread(c, q) \/ WaitForCompletion(c, q)
        PROVE  UNCHANGED <<lockVars, req, mpc, curr>>
    BY <2>1 DEF SetState, Yield, Exit, WakeMigrationThread, WaitForCompletion, TryToWakeUp,
       mtVars, rqVars
  <2>2. ASSUME NEW q \in Tasks, NEW p \in Tasks,
               \/ WakeUpSync(c, q, p) \/ Setscheduler(c, q, p) \/ Fork(c, q, p)
               \/ ReleaseTask(c, q, p)
        PROVE  UNCHANGED <<lockVars, req, mpc, curr>>
    BY <2>2 DEF WakeUpSync, Setscheduler, Fork, ReleaseTask, TryToWakeUp, mtVars, rqVars
  <2>3. ASSUME NEW q \in Tasks, NEW p \in Tasks, NEW mask, SetCpusAllowed(c, q, p, mask)
        PROVE  UNCHANGED <<lockVars, req, mpc, curr>>
    BY <2>3 DEF SetCpusAllowed, mtVars, rqVars
  <2>4. UNCHANGED <<lockVars, req, mpc, curr>>
    BY <1>4, <2>1, <2>2, <2>3 DEF TaskStep
  <2> QED
    BY <1>1, <2>4, SameLocks
<1>5. ASSUME NEW p \in Tasks, WakeUp(p)
      PROVE  BusyInv' /\ LockInv'
  <2>1. UNCHANGED <<lockVars, req, mpc, curr>>
    BY <1>5 DEF WakeUp, TryToWakeUp, mtVars
  <2> QED
    BY <1>1, <2>1, SameLocks
<1>6. CASE UNCHANGED vars
    BY <1>1, <1>6, SameLocks DEF vars, mtVars, rqVars
<1> QED
    BY <1>1, <1>2, <1>3, <1>4, <1>5, <1>6, ScheduleLocks, BalanceLocks, MtLocks
    DEF Next, Sched, Migration

-----------------------------------------------------------------------------
(***************************************************************************)
(* The requests of set_cpus_allowed: RequestInv.                           *)
(***************************************************************************)
Pending == {"wakemt", "wait"}
Serving == {"got", "repeat", "complete"}

RequestTypes ==
    /\ doing \in [Tasks -> {"free", "yield", "rewake", "wakemt", "wait"}]
    /\ arg \in [Tasks -> {None} \cup [task : Tasks, rq : CPUs \cup {None}]]
    /\ migration_queue \in [CPUs -> Seq(Tasks)]
    /\ done \in [Tasks -> BOOLEAN]
    /\ req \in [CPUs -> [caller : Tasks \cup {None}, dest : CPUs \cup {None}]]
    /\ mpc \in [CPUs -> {"top", "sched", "got", "repeat", "complete"}]

LEMMA TypesOfRequests == TypeOK => RequestTypes
    BY DEF TypeOK, RequestTypes

\* The steps that put no request anywhere.
LEMMA SameRequests ==
    ASSUME RequestInv, migration_queue' = migration_queue,
           \A c \in CPUs : /\ mpc'[c] \in Serving =>
                                mpc[c] \in Serving /\ req'[c].caller = req[c].caller
                           /\ mpc'[c] \in {"repeat", "complete"} => req'[c].dest \in CPUs,
           \A q \in Tasks : doing'[q] \in Pending => arg'[q] \in [task : Tasks, rq : CPUs],
           \A c \in CPUs, q \in Tasks :
                q \in Range(migration_queue[c]) \/ Serves(c, q)' =>
                    doing'[q] \in Pending /\ ~done'[q]
    PROVE  RequestInv'
<1>1. \A c \in CPUs, q \in Tasks : Serves(c, q)' => Serves(c, q)
    BY DEF Serves, Serving
<1>2. \A c \in CPUs : /\ mpc'[c] \in {"got", "repeat", "complete"} => req'[c].caller \in Tasks
                      /\ mpc'[c] \in {"repeat", "complete"} => req'[c].dest \in CPUs
    BY DEF RequestInv, Serving
<1>3. \A c \in CPUs : IsInjective(migration_queue[c])
    BY DEF RequestInv
<1>4. \A c, d \in CPUs, q \in Tasks :
            /\ q \in Range(migration_queue[c]) /\ q \in Range(migration_queue[d]) => c = d
            /\ Serves(c, q)' /\ Serves(d, q)' => c = d
            /\ ~(Serves(c, q)' /\ q \in Range(migration_queue[d]))
    BY <1>1 DEF RequestInv
<1> QED
    BY <1>2, <1>3, <1>4 DEF RequestInv, Pending

\* Only q changes where it is, and it has no request before and after.
LEMMA OtherRequests ==
    ASSUME RequestTypes, RequestInv, UNCHANGED <<migration_queue, done>>,
           \A c \in CPUs : mpc'[c] \in Serving => mpc'[c] = mpc[c] /\ req'[c] = req[c],
           \A q \in Tasks : \/ doing'[q] = doing[q] /\ arg'[q] = arg[q]
                            \/ doing[q] \notin Pending /\ doing'[q] \notin Pending
    PROVE  RequestInv'
<1>1. \A c \in CPUs : /\ mpc'[c] \in Serving =>
                            mpc[c] \in Serving /\ req'[c].caller = req[c].caller
                      /\ mpc'[c] \in {"repeat", "complete"} => req'[c].dest \in CPUs
    BY DEF RequestInv, Serving
<1>2. \A q \in Tasks : doing'[q] \in Pending => arg'[q] \in [task : Tasks, rq : CPUs]
    BY DEF RequestInv, Pending
<1>3. \A c \in CPUs, q \in Tasks : Serves(c, q)' => Serves(c, q)
    BY DEF Serves, Serving
<1>4. \A c \in CPUs, q \in Tasks : q \in Range(migration_queue[c]) \/ Serves(c, q) =>
            doing[q] \in Pending /\ ~done[q]
    BY DEF RequestInv, Pending
<1>5. \A c \in CPUs, q \in Tasks : q \in Range(migration_queue[c]) \/ Serves(c, q)' =>
            doing'[q] \in Pending /\ ~done'[q]
    BY <1>3, <1>4
<1> QED
    BY <1>1, <1>2, <1>5, SameRequests

\* set_cpus_allowed queues its request in front.
LEMMA QueueRequests ==
    ASSUME RequestTypes, RequestInv, NEW q \in Tasks, NEW p \in Tasks, NEW r \in CPUs,
           doing[q] = "free",
           migration_queue' = [migration_queue EXCEPT ![r] = <<q>> \o @],
           doing' = [doing EXCEPT ![q] = "wakemt"],
           arg' = [arg EXCEPT ![q] = [task |-> p, rq |-> r]],
           done' = [done EXCEPT ![q] = FALSE], UNCHANGED <<mpc, req>>
    PROVE  RequestInv'
<1>1. PICK l \in Seq(Tasks) : l = migration_queue[r]
    BY DEF RequestTypes
<1>2. PICK m : m = <<q>> \o l
    OBVIOUS
<1>3. /\ \A c \in CPUs : ~(q \in Range(migration_queue[c]) \/ Serves(c, q))
      /\ q \notin Range(l)
    BY <1>1 DEF RequestInv
<1>4. IsInjective(l)
    BY <1>1 DEF RequestInv
<1>5. Range(m) = Range(l) \cup {q} /\ IsInjective(m)
    BY <1>1, <1>2, <1>3, <1>4, PrependElements
<1>6. /\ migration_queue'[r] = m
      /\ \A c \in CPUs \ {r} : migration_queue'[c] = migration_queue[c]
    BY <1>1, <1>2 DEF RequestTypes
<1>7. /\ doing'[q] = "wakemt" /\ ~done'[q] /\ arg'[q] = [task |-> p, rq |-> r]
      /\ \A u \in Tasks \ {q} : doing'[u] = doing[u] /\ done'[u] = done[u] /\ arg'[u] = arg[u]
    BY DEF RequestTypes
<1>8. \A c \in CPUs, u \in Tasks : Serves(c, u)' <=> Serves(c, u)
    BY DEF Serves
<1>9. \A c \in CPUs, u \in Tasks : u \in Range(migration_queue'[c]) <=>
            u \in Range(migration_queue[c]) \/ (c = r /\ u = q)
    BY <1>1, <1>5, <1>6
<1>10. \A c \in CPUs : /\ mpc'[c] \in {"got", "repeat", "complete"} => req'[c].caller \in Tasks
                       /\ mpc'[c] \in {"repeat", "complete"} => req'[c].dest \in CPUs
    BY DEF RequestInv
<1>11. \A c \in CPUs : IsInjective(migration_queue'[c])
    BY <1>5, <1>6 DEF RequestInv
<1>12. \A u \in Tasks : doing'[u] \in {"wakemt", "wait"} => arg'[u] \in [task : Tasks, rq : CPUs]
    BY <1>7 DEF RequestInv
<1>13. \A c \in CPUs, u \in Tasks : u \in Range(migration_queue'[c]) \/ Serves(c, u)' =>
            doing'[u] \in {"wakemt", "wait"} /\ ~done'[u]
    BY <1>3, <1>7, <1>8, <1>9 DEF RequestInv
<1>14. \A c, d \in CPUs, u \in Tasks :
            /\ u \in Range(migration_queue'[c]) /\ u \in Range(migration_queue'[d]) => c = d
            /\ Serves(c, u)' /\ Serves(d, u)' => c = d
            /\ ~(Serves(c, u)' /\ u \in Range(migration_queue'[d]))
    BY <1>3, <1>8, <1>9 DEF RequestInv
<1> QED
    BY <1>10, <1>11, <1>12, <1>13, <1>14 DEF RequestInv

\* The migration thread of c takes the first request.
LEMMA TakeRequests ==
    ASSUME RequestTypes, RequestInv, NEW c \in CPUs, mpc[c] = "top",
           migration_queue[c] # <<>>,
           req' = [req EXCEPT ![c].caller = Head(migration_queue[c])],
           migration_queue' = [migration_queue EXCEPT ![c] = Tail(@)],
           mpc' = [mpc EXCEPT ![c] = "got"], UNCHANGED <<doing, arg, done>>
    PROVE  RequestInv'
<1>1. PICK l \in Seq(Tasks) : l = migration_queue[c]
    BY DEF RequestTypes
<1>2. PICK h, t : h = Head(l) /\ t = Tail(l)
    OBVIOUS
<1>3. IsInjective(l) /\ l # <<>>
    BY <1>1 DEF RequestInv
<1>4. h \in Tasks /\ Range(l) = Range(t) \cup {h} /\ IsInjective(t) /\ h \notin Range(t)
    BY <1>1, <1>2, <1>3, TailElements
<1>5. /\ migration_queue'[c] = t
      /\ \A d \in CPUs \ {c} : migration_queue'[d] = migration_queue[d]
    BY <1>1, <1>2 DEF RequestTypes
<1>6. /\ mpc'[c] = "got" /\ req'[c].caller = h
      /\ \A d \in CPUs \ {c} : mpc'[d] = mpc[d] /\ req'[d] = req[d]
    BY <1>1, <1>2 DEF RequestTypes
<1>7. \A d \in CPUs, u \in Tasks : Serves(d, u)' <=> Serves(d, u) \/ (d = c /\ u = h)
    BY <1>6 DEF Serves
<1>8. \A d \in CPUs, u \in Tasks : u \in Range(migration_queue'[d]) <=>
            u \in Range(migration_queue[d]) /\ ~(d = c /\ u = h)
    BY <1>1, <1>4, <1>5
<1>9. h \in Range(migration_queue[c])
    BY <1>1, <1>4
<1>10. \A d \in CPUs : /\ mpc'[d] \in {"got", "repeat", "complete"} => req'[d].caller \in Tasks
                       /\ mpc'[d] \in {"repeat", "complete"} => req'[d].dest \in CPUs
    BY <1>4, <1>6 DEF RequestInv
<1>11. \A d \in CPUs : IsInjective(migration_queue'[d])
    BY <1>4, <1>5 DEF RequestInv
<1>12. \A u \in Tasks : doing'[u] \in {"wakemt", "wait"} => arg'[u] \in [task : Tasks, rq : CPUs]
    BY DEF RequestInv
<1>13. \A d \in CPUs, u \in Tasks : u \in Range(migration_queue'[d]) \/ Serves(d, u)' =>
            doing'[u] \in {"wakemt", "wait"} /\ ~done'[u]
    BY <1>7, <1>8, <1>9 DEF RequestInv
<1>14. \A d, e \in CPUs, u \in Tasks :
            /\ u \in Range(migration_queue'[d]) /\ u \in Range(migration_queue'[e]) => d = e
            /\ Serves(d, u)' /\ Serves(e, u)' => d = e
            /\ ~(Serves(d, u)' /\ u \in Range(migration_queue'[e]))
  <2>1. \A d \in CPUs : ~Serves(d, h) /\ (h \in Range(migration_queue[d]) => d = c)
    BY <1>4, <1>9 DEF RequestInv
  <2> QED
    BY <1>4, <1>7, <1>8, <2>1 DEF RequestInv
<1> QED
    BY <1>10, <1>11, <1>12, <1>13, <1>14 DEF RequestInv

LEMMA MtRequests ==
    ASSUME SchedInv, NEW c \in CPUs, Migration(c)
    PROVE  RequestInv'
<1>1. RequestTypes /\ RequestInv /\ TypeOK
    BY TypesOfRequests DEF SchedInv
<1>2. CASE MtTop(c)
  <2>1. mpc[c] = "top" /\ UNCHANGED <<doing, arg, done>>
    BY <1>2 DEF MtTop
  <2>2. CASE migration_queue[c] = <<>>
    <3>1. UNCHANGED <<migration_queue, req>> /\ mpc' = [mpc EXCEPT ![c] = "sched"]
      BY <1>2, <2>2 DEF MtTop
    <3>2. \A d \in CPUs : mpc'[d] \in Serving => mpc'[d] = mpc[d]
      BY <1>1, <3>1 DEF RequestTypes, Serving
    <3> QED
      BY <1>1, <2>1, <3>1, <3>2, OtherRequests
  <2>3. CASE migration_queue[c] # <<>>
    <3>1. /\ req' = [req EXCEPT ![c].caller = Head(migration_queue[c])]
          /\ migration_queue' = [migration_queue EXCEPT ![c] = Tail(@)]
          /\ mpc' = [mpc EXCEPT ![c] = "got"]
      BY <1>2, <2>3 DEF MtTop
    <3> QED
      BY <1>1, <2>1, <2>3, <3>1, TakeRequests
  <2> QED
    BY <2>2, <2>3
<1>3. CASE MtDest(c)
  <2>1. /\ mpc[c] = "got" /\ UNCHANGED callVars
        /\ req' = [req EXCEPT ![c].dest = Min(cpus_allowed[Moved(c)])]
        /\ mpc' = [mpc EXCEPT ![c] = "repeat"]
    BY <1>3 DEF MtDest
  <2>2. Moved(c) \in Tasks
    BY <1>1, <2>1, MovedTask
  <2>3. PICK d \in CPUs : d = Min(cpus_allowed[Moved(c)])
    <3>1. cpus_allowed[Moved(c)] \in SUBSET CPUs /\ cpus_allowed[Moved(c)] # {}
      BY <1>1, <2>2 DEF TypeOK
    <3> QED
      BY <3>1, LowestCpu
  <2>4. /\ mpc'[c] = "repeat" /\ req'[c].dest = d /\ req'[c].caller = req[c].caller
        /\ \A e \in CPUs \ {c} : mpc'[e] = mpc[e] /\ req'[e] = req[e]
    BY <1>1, <2>1, <2>3 DEF RequestTypes
  <2>5. \A e \in CPUs : /\ mpc'[e] \in Serving =>
                             mpc[e] \in Serving /\ req'[e].caller = req[e].caller
                        /\ mpc'[e] \in {"repeat", "complete"} => req'[e].dest \in CPUs
    BY <1>1, <2>1, <2>3, <2>4 DEF RequestInv, Serving
  <2>6. UNCHANGED <<doing, arg, migration_queue, done>>
    BY <2>1 DEF callVars
  <2>7. \A e \in CPUs, q \in Tasks : Serves(e, q)' => Serves(e, q)
    BY <2>5 DEF Serves, Serving
  <2>8. \A e \in CPUs, q \in Tasks : q \in Range(migration_queue[e]) \/ Serves(e, q)' =>
            doing'[q] \in Pending /\ ~done'[q]
    BY <1>1, <2>6, <2>7 DEF RequestInv, Pending
  <2>9. \A q \in Tasks : doing'[q] \in Pending => arg'[q] \in [task : Tasks, rq : CPUs]
    BY <1>1, <2>6 DEF RequestInv, Pending
  <2> QED
    BY <1>1, <2>5, <2>6, <2>8, <2>9, SameRequests
<1>4. CASE MtRepeat(c) \/ MtLock(c)
  <2>1. UNCHANGED <<doing, arg, migration_queue, done, mpc, req>>
    BY <1>4 DEF MtRepeat, MtLock, callVars, mtVars
  <2> QED
    BY <1>1, <2>1, OtherRequests
<1>5. CASE MtMove(c)
  <2>1. /\ UNCHANGED <<doing, arg, migration_queue, done, req>>
        /\ mpc' = mpc \/ mpc' = [mpc EXCEPT ![c] = "complete"]
        /\ cpc[c] = "move"
    BY <1>5 DEF MtMove, callVars
  <2>2. mpc[c] = "repeat"
    BY <2>1 DEF SchedInv, BusyInv, Busy
  <2>3. \A e \in CPUs : /\ mpc'[e] \in Serving =>
                             mpc[e] \in Serving /\ req'[e].caller = req[e].caller
                        /\ mpc'[e] \in {"repeat", "complete"} => req'[e].dest \in CPUs
    BY <1>1, <2>1, <2>2 DEF RequestInv, RequestTypes, Serving
  <2>4. \A e \in CPUs, q \in Tasks : Serves(e, q)' => Serves(e, q)
    BY <2>3 DEF Serves, Serving
  <2>5. \A e \in CPUs, q \in Tasks : q \in Range(migration_queue[e]) \/ Serves(e, q)' =>
            doing'[q] \in Pending /\ ~done'[q]
    BY <1>1, <2>1, <2>4 DEF RequestInv, Pending
  <2>6. \A q \in Tasks : doing'[q] \in Pending => arg'[q] \in [task : Tasks, rq : CPUs]
    BY <1>1, <2>1 DEF RequestInv, Pending
  <2> QED
    BY <1>1, <2>1, <2>3, <2>5, <2>6, SameRequests
<1>6. CASE MtComplete(c)
  <2>1. PICK h : h = req[c].caller
    OBVIOUS
  <2>2. /\ mpc[c] = "complete" /\ UNCHANGED <<doing, arg, migration_queue>>
        /\ done' = [done EXCEPT ![h] = TRUE]
        /\ mpc' = [mpc EXCEPT ![c] = "top"]
        /\ req' = [req EXCEPT ![c] = NoReq]
    BY <1>6, <2>1 DEF MtComplete
  <2>3. /\ mpc'[c] = "top"
        /\ \A e \in CPUs \ {c} : mpc'[e] = mpc[e] /\ req'[e] = req[e]
        /\ \A u \in Tasks : u # h => done'[u] = done[u]
    BY <1>1, <2>2 DEF RequestTypes
  <2>4. \A e \in CPUs : /\ mpc'[e] \in Serving =>
                             mpc[e] \in Serving /\ req'[e].caller = req[e].caller
                        /\ mpc'[e] \in {"repeat", "complete"} => req'[e].dest \in CPUs
    BY <1>1, <2>3 DEF RequestInv, Serving
  <2>5. \A e \in CPUs, q \in Tasks : Serves(e, q)' => Serves(e, q) /\ e # c
    BY <2>3, <2>4 DEF Serves, Serving
  <2>6. \A e \in CPUs : h \notin Range(migration_queue[e]) /\ ~Serves(e, h)'
    <3>1. h \in Tasks /\ Serves(c, h)
      BY <1>1, <2>1, <2>2 DEF RequestInv, Serves
    <3> QED
      BY <1>1, <2>5, <3>1 DEF RequestInv
  <2>7. \A e \in CPUs, q \in Tasks : q \in Range(migration_queue[e]) \/ Serves(e, q)' =>
            doing'[q] \in Pending /\ ~done'[q]
    BY <1>1, <2>2, <2>3, <2>5, <2>6 DEF RequestInv, Pending
  <2>8. \A q \in Tasks : doing'[q] \in Pending => arg'[q] \in [task : Tasks, rq : CPUs]
    BY <1>1, <2>2 DEF RequestInv, Pending
  <2> QED
    BY <1>1, <2>2, <2>4, <2>7, <2>8, SameRequests
<1> QED
    BY <1>2, <1>3, <1>4, <1>5, <1>6 DEF Migration

LEMMA StepRequests ==
    ASSUME SchedInv, [Next]_vars
    PROVE  RequestInv'
<1>0. RequestTypes /\ RequestInv /\ TypeOK
    BY TypesOfRequests DEF SchedInv
<1>1. ASSUME NEW c \in CPUs, Schedule(c)
      PROVE  RequestInv'
  <2>1. UNCHANGED <<arg, migration_queue, done, req>>
    BY <1>1 DEF Schedule
  <2>2. \A q \in Tasks : doing'[q] = doing[q] \/ (doing[q] = "yield" /\ doing'[q] = "free")
    BY <1>0, <1>1 DEF Schedule, RequestTypes
  <2>3. \A d \in CPUs : mpc'[d] \in Serving => mpc'[d] = mpc[d]
    BY <1>0, <1>1 DEF Schedule, RequestTypes, Serving
  <2> QED
    BY <1>0, <2>1, <2>2, <2>3, OtherRequests DEF Pending
<1>2. ASSUME NEW c \in CPUs,
             \/ PickNext(c) \/ PickIdle(c) \/ PickAgain(c) \/ BalanceIdle(c)
             \/ Tick(c) \/ LockBusiest(c) \/ Relock(c) \/ Pull(c)
      PROVE  RequestInv'
  <2>1. UNCHANGED <<doing, arg, migration_queue, done, mpc, req>>
    BY <1>2 DEF PickNext, PickIdle, PickAgain, BalanceIdle, Tick, LockBusiest, Relock, Pull,
       callVars, mtVars
  <2> QED
    BY <1>0, <2>1, OtherRequests
<1>3. ASSUME NEW c \in CPUs, NEW q \in Tasks, SetState(c, q) \/ Yield(c, q) \/ Exit(c, q)
      PROVE  RequestInv'
  <2>1. UNCHANGED <<arg, migration_queue, done, mpc, req>>
    BY <1>3 DEF SetState, Yield, Exit, callVars, mtVars
  <2>2. doing' = doing \/ (doing[q] = "free" /\ doing' = [doing EXCEPT ![q] = "yield"])
    BY <1>3 DEF SetState, Yield, Exit, callVars
  <2>3. \A u \in Tasks : doing'[u] = doing[u] \/ (doing[u] = "free" /\ doing'[u] = "yield")
    BY <1>0, <2>2 DEF RequestTypes
  <2> QED
    BY <1>0, <2>1, <2>3, OtherRequests DEF Pending
<1>4. ASSUME NEW c \in CPUs, NEW q \in Tasks, WakeMigrationThread(c, q)
      PROVE  RequestInv'
  <2>1. /\ UNCHANGED <<arg, migration_queue, done, mpc, req>>
        /\ doing[q] = "wakemt" /\ doing' = [doing EXCEPT ![q] = "wait"]
    BY <1>4 DEF WakeMigrationThread, mtVars
  <2>2. \A u \in Tasks : doing'[u] \in Pending <=> doing[u] \in Pending
    BY <1>0, <2>1 DEF RequestTypes, Pending
  <2>3. \A u \in Tasks : doing'[u] \in Pending => arg'[u] \in [task : Tasks, rq : CPUs]
    BY <1>0, <2>1, <2>2 DEF RequestInv, Pending
  <2>4. \A d \in CPUs, u \in Tasks : Serves(d, u)' <=> Serves(d, u)
    BY <2>1 DEF Serves
  <2>5. \A d \in CPUs, u \in Tasks : u \in Range(migration_queue[d]) \/ Serves(d, u)' =>
            doing[u] \in Pending /\ ~done'[u]
    BY <1>0, <2>1, <2>4 DEF RequestInv, Pending
  <2>6. \A d \in CPUs : mpc'[d] \in {"repeat", "complete"} => req'[d].dest \in CPUs
    BY <1>0, <2>1 DEF RequestInv
  <2> QED
    BY <1>0, <2>1, <2>2, <2>3, <2>5, <2>6, SameRequests
<1>5. ASSUME NEW c \in CPUs, NEW q \in Tasks, WaitForCompletion(c, q)
      PROVE  RequestInv'
  <2>1. UNCHANGED <<migration_queue, mpc, req>>
    BY <1>5 DEF WaitForCompletion, mtVars
  <2>2. CASE ~done[q]
    <3>1. UNCHANGED <<doing, arg, done>>
      BY <1>5, <2>2 DEF WaitForCompletion
    <3> QED
      BY <1>0, <2>1, <3>1, OtherRequests
  <2>3. CASE done[q]
    <3>1. /\ doing' = [doing EXCEPT ![q] = "free"] /\ arg' = [arg EXCEPT ![q] = None]
          /\ done' = [done EXCEPT ![q] = FALSE]
      BY <1>5, <2>3 DEF WaitForCompletion
    <3>2. /\ doing'[q] = "free"
          /\ \A u \in Tasks \ {q} : doing'[u] = doing[u] /\ arg'[u] = arg[u] /\ done'[u] = done[u]
      BY <1>0, <3>1 DEF RequestTypes
    <3>3. \A u \in Tasks : doing'[u] \in Pending => arg'[u] \in [task : Tasks, rq : CPUs]
      BY <1>0, <3>2 DEF RequestInv, Pending
    <3>4. \A d \in CPUs, u \in Tasks : Serves(d, u)' <=> Serves(d, u)
      BY <2>1 DEF Serves
    <3>5. \A d \in CPUs : ~(q \in Range(migration_queue[d]) \/ Serves(d, q))
      BY <1>0, <2>3 DEF RequestInv
    <3>6. \A d \in CPUs, u \in Tasks : u \in Range(migration_queue[d]) \/ Serves(d, u)' =>
              doing'[u] \in Pending /\ ~done'[u]
      BY <1>0, <3>2, <3>4, <3>5 DEF RequestInv, Pending
    <3>7. \A d \in CPUs : mpc'[d] \in {"repeat", "complete"} => req'[d].dest \in CPUs
      BY <1>0, <2>1 DEF RequestInv
    <3> QED
      BY <1>0, <2>1, <3>3, <3>6, <3>7, SameRequests
  <2> QED
    BY <2>2, <2>3
<1>6. ASSUME NEW c \in CPUs, NEW q \in Tasks, NEW p \in Tasks,
             \/ WakeUpSync(c, q, p) \/ Setscheduler(c, q, p) \/ Fork(c, q, p)
             \/ ReleaseTask(c, q, p)
      PROVE  RequestInv'
  <2>1. UNCHANGED <<migration_queue, done, mpc, req>>
    BY <1>6 DEF WakeUpSync, Setscheduler, Fork, ReleaseTask, callVars, mtVars
  <2>2. \/ UNCHANGED <<doing, arg>>
        \/ /\ doing[q] \in {"free", "rewake"}
           /\ \E s \in {"free", "rewake"} : doing' = [doing EXCEPT ![q] = s]
           /\ \E a : arg' = [arg EXCEPT ![q] = a]
    BY <1>6 DEF WakeUpSync, Setscheduler, Fork, ReleaseTask, callVars
  <2>3. \A u \in Tasks : \/ doing'[u] = doing[u] /\ arg'[u] = arg[u]
                         \/ doing[u] \notin Pending /\ doing'[u] \notin Pending
    BY <1>0, <2>2 DEF RequestTypes, Pending
  <2> QED
    BY <1>0, <2>1, <2>3, OtherRequests
<1>7. ASSUME NEW c \in CPUs, NEW q \in Tasks, NEW p \in Tasks, NEW mask,
             SetCpusAllowed(c, q, p, mask)
      PROVE  RequestInv'
  <2>1. UNCHANGED <<mpc, req>>
    BY <1>7 DEF SetCpusAllowed, mtVars
  <2>2. CASE UNCHANGED callVars
    BY <1>0, <2>1, <2>2, OtherRequests DEF callVars
  <2>3. CASE ~UNCHANGED callVars
    <3>1. PICK r \in CPUs : r = cpu[p]
      BY <1>0 DEF TypeOK
    <3>2. /\ doing[q] = "free"
          /\ migration_queue' = [migration_queue EXCEPT ![r] = <<q>> \o @]
          /\ doing' = [doing EXCEPT ![q] = "wakemt"]
          /\ arg' = [arg EXCEPT ![q] = [task |-> p, rq |-> r]]
          /\ done' = [done EXCEPT ![q] = FALSE]
      BY <1>7, <2>3, <3>1 DEF SetCpusAllowed
    <3> QED
      BY <1>0, <2>1, <3>1, <3>2, QueueRequests
  <2> QED
    BY <2>2, <2>3
<1>8. ASSUME NEW p \in Tasks, WakeUp(p)
      PROVE  RequestInv'
    BY <1>0, <1>8, OtherRequests DEF WakeUp, callVars, mtVars
<1>9. CASE UNCHANGED vars
    BY <1>0, <1>9, OtherRequests DEF vars, callVars, mtVars
<1>10. ASSUME NEW c \in CPUs, TaskStep(c)
       PROVE  RequestInv'
    BY <1>3, <1>4, <1>5, <1>6, <1>7, <1>10 DEF TaskStep
<1> QED
    BY <1>1, <1>2, <1>8, <1>9, <1>10, MtRequests DEF Next, Sched

-----------------------------------------------------------------------------
(***************************************************************************)
(* TypeOK.  nr_running is at least an integer; that it is never negative   *)
(* follows from CountInv.                                                  *)
(***************************************************************************)
TaskTypes ==
    /\ state \in [Threads -> States]
    /\ cpu \in [Threads -> CPUs]
    /\ cpus_allowed \in [Queueable -> (SUBSET CPUs) \ {{}}]
    /\ array \in [Threads -> {None} \cup CPUs \X {"active", "expired"}]

RqTypes ==
    /\ curr \in [CPUs -> Threads]
    /\ nr_running \in [CPUs -> Int]
    /\ nr_uninterruptible \in Int
    /\ need_resched \in [CPUs -> BOOLEAN]

Froms == {"schedule", "tick", "migration"}
LockVarTypes ==
    /\ lock \in [CPUs -> CPUs \cup {None}]
    /\ cpc \in [CPUs -> CPcs]
    /\ busiest \in [CPUs -> {None} \cup [rq : CPUs, from : Froms]]

LEMMA TypeParts ==
    TypeOK <=> /\ TaskTypes /\ RqTypes /\ LockVarTypes /\ RequestTypes
               /\ nr_running \in [CPUs -> Nat]
<1>1. TypeOK => TaskTypes /\ LockVarTypes /\ RequestTypes /\ nr_running \in [CPUs -> Nat]
    BY DEF TypeOK, TaskTypes, LockVarTypes, RequestTypes, Threads, Queueable, CPcs, Froms
<1>2. TypeOK => RqTypes
    BY DEF TypeOK, RqTypes, Threads
<1>3. ASSUME TaskTypes, RqTypes, LockVarTypes, RequestTypes, nr_running \in [CPUs -> Nat]
      PROVE  TypeOK
    BY <1>3, Zenon DEF TypeOK, TaskTypes, RqTypes, LockVarTypes, RequestTypes, Threads,
       Queueable, CPcs, Froms
<1> QED
    BY <1>1, <1>2, <1>3

\* try_to_wake_up.
LEMMA WakeTypes ==
    ASSUME TaskTypes, RqTypes, NEW p \in Threads, NEW sync \in BOOLEAN,
           TryToWakeUp(p, sync), cpu' = cpu
    PROVE  TaskTypes' /\ RqTypes'
<1>1. PICK c \in CPUs : c = cpu[p]
    BY DEF TaskTypes
<1>2. state' \in [Threads -> States]
    BY DEF TryToWakeUp, TaskTypes, States
<1>3. array' \in [Threads -> {None} \cup CPUs \X {"active", "expired"}]
    BY <1>1 DEF TryToWakeUp, Activate, TaskTypes
<1>4. Uninterruptible(p) \in Int
    BY DEF Uninterruptible
<1>5. nr_uninterruptible' \in Int
    BY <1>4 DEF TryToWakeUp, Activate, RqTypes
<1>6. nr_running' \in [CPUs -> Int]
    BY <1>1 DEF TryToWakeUp, Activate, Plus, RqTypes
<1>7. need_resched' \in [CPUs -> BOOLEAN]
  <2>1. \/ need_resched' = need_resched
        \/ need_resched' = [need_resched EXCEPT ![c] = @ \/ curr[c] = idle(c)]
    BY <1>1 DEF TryToWakeUp, Activate, ReschedIfIdle
  <2>2. (need_resched[c] \/ curr[c] = idle(c)) \in BOOLEAN
    OBVIOUS
  <2> QED
    BY <2>1, <2>2, ExceptType DEF RqTypes
<1>8. UNCHANGED <<cpus_allowed, curr>>
    BY DEF TryToWakeUp
<1> QED
    BY <1>2, <1>3, <1>5, <1>6, <1>7, <1>8 DEF TaskTypes, RqTypes

LEMMA DoubleLockTypes ==
    ASSUME LockVarTypes, NEW c \in CPUs, NEW b \in CPUs, NEW f \in {"schedule", "tick"},
           DoubleLockBalance(c, b, f)
    PROVE  LockVarTypes'
<1>1. busiest' \in [CPUs -> {None} \cup [rq : CPUs, from : Froms]]
    BY DEF DoubleLockBalance, LockVarTypes, Froms
<1>2. lock' \in [CPUs -> CPUs \cup {None}]
    BY DEF DoubleLockBalance, LockVarTypes
<1>3. cpc' \in [CPUs -> CPcs]
    BY DEF DoubleLockBalance, LockVarTypes, CPcs
<1> QED
    BY <1>1, <1>2, <1>3 DEF LockVarTypes

MostTypes == TaskTypes /\ RqTypes /\ LockVarTypes /\ RequestTypes

LEMMA SchedTypes ==
    ASSUME MostTypes, SchedInv, NEW c \in CPUs, Sched(c)
    PROVE  MostTypes'
<1>0. TaskTypes /\ RqTypes /\ LockVarTypes /\ RequestTypes /\ TypeOK
    BY DEF MostTypes, SchedInv
<1>1. CASE Schedule(c)
  <2>1. LockVarTypes'
    BY <1>0, <1>1 DEF Schedule, LockVarTypes, CPcs
  <2>2. RequestTypes'
    BY <1>0, <1>1 DEF Schedule, RequestTypes
  <2>3. TaskTypes'
    BY <1>0, <1>1 DEF Schedule, TaskTypes, taskVars, States
  <2>4. RqTypes'
    <3>1. Uninterruptible(curr[c]) \in Int
      BY DEF Uninterruptible
    <3> QED
      BY <1>0, <1>1, <3>1 DEF Schedule, RqTypes, Plus
  <2> QED
    BY <2>1, <2>2, <2>3, <2>4 DEF MostTypes
<1>2. CASE PickNext(c) \/ PickIdle(c)
  <2>1. PICK n \in Threads : SwitchTo(c, n)
    BY <1>2, Names DEF PickNext, PickIdle, Candidates, InArray, Queueable
  <2>2. RqTypes'
    BY <1>0, <2>1 DEF SwitchTo, RqTypes
  <2>3. LockVarTypes'
    BY <1>0, <2>1 DEF SwitchTo, LockVarTypes, CPcs
  <2>4. RequestTypes'
    BY <1>0, <1>2 DEF PickNext, PickIdle, RequestTypes, callVars, mtVars
  <2>5. TaskTypes'
    <3>1. UNCHANGED <<state, cpu, cpus_allowed>>
      BY <1>2 DEF PickNext, PickIdle, taskVars
    <3>2. \/ array' = array
          \/ \E S : array' = [p \in DOMAIN array |-> IF p \in S THEN <<c, "active">> ELSE array[p]]
      BY <1>2 DEF PickNext, PickIdle, taskVars
    <3>3. array' \in [Threads -> {None} \cup CPUs \X {"active", "expired"}]
      BY <1>0, <3>2 DEF TaskTypes
    <3> QED
      BY <1>0, <3>1, <3>3 DEF TaskTypes
  <2> QED
    BY <2>2, <2>3, <2>4, <2>5 DEF MostTypes
<1>3. CASE PickAgain(c) \/ LockBusiest(c) \/ Relock(c)
  <2>1. UNCHANGED <<taskVars, rqVars, callVars, mtVars>>
    BY <1>3 DEF PickAgain, LockBusiest, Relock
  <2>2. LockVarTypes'
    BY <1>0, <1>3 DEF PickAgain, LockBusiest, Relock, LockVarTypes, CPcs
  <2> QED
    BY <1>0, <2>1, <2>2 DEF MostTypes, TaskTypes, RqTypes, RequestTypes,
       taskVars, rqVars, callVars, mtVars
<1>4. CASE BalanceIdle(c) \/ Tick(c)
  <2>1. UNCHANGED <<state, cpu, cpus_allowed, rqVars, callVars, mtVars>>
    BY <1>4 DEF BalanceIdle, Tick, taskVars
  <2>2. array' = array \/ array' = [array EXCEPT ![curr[c]] = <<c, "expired">>]
    BY <1>4 DEF BalanceIdle, Tick, taskVars
  <2>3. TaskTypes'
    <3>1. array' \in [Threads -> {None} \cup CPUs \X {"active", "expired"}]
      <4>1. PICK x, p : x = <<c, "expired">> /\ p = curr[c]
        OBVIOUS
      <4>2. array' = array \/ array' = [array EXCEPT ![p] = x]
        BY <2>2, <4>1
      <4>3. x \in {None} \cup CPUs \X {"active", "expired"}
        BY <4>1
      <4> QED
        BY ONLY <1>0, <4>2, <4>3, ExceptType DEF TaskTypes
    <3> QED
      BY <1>0, <2>1, <3>1 DEF TaskTypes
  <2>4. UNCHANGED lockVars \/ \E b \in CPUs, f \in {"schedule", "tick"} : DoubleLockBalance(c, b, f)
    BY <1>4 DEF BalanceIdle, Tick, MaybeBusiest
  <2>5. LockVarTypes'
    BY <1>0, <2>4, DoubleLockTypes DEF LockVarTypes, lockVars
  <2> QED
    BY <1>0, <2>1, <2>3, <2>5 DEF MostTypes, RqTypes, RequestTypes, rqVars, callVars, mtVars
<1>5. CASE Pull(c)
  <2>0. /\ cpc[c] = "both" /\ UNCHANGED <<state, cpus_allowed, curr, nr_uninterruptible, callVars, mtVars>>
        /\ cpc' = [cpc EXCEPT ![c] = IF busiest[c].from = "schedule" THEN "pulled" ELSE "run"]
        /\ busiest' = [busiest EXCEPT ![c] = None]
        /\ lock' = [lock EXCEPT ![busiest[c].rq] = None,
                                ![c] = IF busiest[c].from = "schedule" THEN c ELSE None]
    BY <1>5 DEF Pull
  <2>1. PICK b \in CPUs : b = busiest[c].rq
    BY <2>0 DEF SchedInv, BusyInv, Busy
  <2>2. PICK S \in SUBSET Tasks :
            /\ array' = [p \in DOMAIN array |-> IF p \in S THEN <<c, "active">> ELSE array[p]]
            /\ cpu' = [p \in DOMAIN cpu |-> IF p \in S THEN c ELSE cpu[p]]
            /\ nr_running' = [nr_running EXCEPT ![b] = @ - Cardinality(S), ![c] = @ + Cardinality(S)]
            /\ need_resched' = [need_resched EXCEPT ![c] = @ \/ (S # {} /\ curr[c] = idle(c))]
    BY <1>5, <2>1 DEF Pull
  <2>3. Cardinality(S) \in Int
    BY FS_Subset, FS_CardinalityType, RunQueueAssumption
  <2>4. nr_running' \in [CPUs -> Int]
    BY <1>0, <2>2, <2>3 DEF RqTypes
  <2>5. need_resched' \in [CPUs -> BOOLEAN]
    <3>1. (need_resched[c] \/ (S # {} /\ curr[c] = idle(c))) \in BOOLEAN
      OBVIOUS
    <3> QED
      BY <1>0, <2>2, <3>1, ExceptType DEF RqTypes
  <2>6. RqTypes'
    BY <1>0, <2>0, <2>4, <2>5 DEF RqTypes
  <2>7. TaskTypes'
    BY <1>0, <2>0, <2>2 DEF TaskTypes
  <2>8. LockVarTypes'
    BY <1>0, <2>0 DEF LockVarTypes, CPcs
  <2> QED
    BY <1>0, <2>0, <2>6, <2>7, <2>8 DEF MostTypes, RequestTypes, callVars, mtVars
<1> QED
    BY <1>1, <1>2, <1>3, <1>4, <1>5 DEF Sched

LEMMA MtTypes ==
    ASSUME MostTypes, SchedInv, NEW c \in CPUs, Migration(c)
    PROVE  MostTypes'
<1>0. TaskTypes /\ RqTypes /\ LockVarTypes /\ RequestTypes /\ TypeOK /\ RequestInv
    BY DEF MostTypes, SchedInv
<1>1. CASE MtTop(c)
  <2>1. UNCHANGED <<cpu, cpus_allowed, array, rqVars, lockVars, doing, arg, done>>
    BY <1>1 DEF MtTop
  <2>2. state' \in [Threads -> States]
    BY <1>0, <1>1 DEF MtTop, TaskTypes, States, Sleeping
  <2>3. mpc' \in [CPUs -> {"top", "sched", "got", "repeat", "complete"}]
    BY <1>0, <1>1 DEF MtTop, RequestTypes
  <2>4. PICK l \in Seq(Tasks) : l = migration_queue[c]
    BY <1>0 DEF RequestTypes
  <2>5. l # <<>> => Head(l) \in Tasks /\ Tail(l) \in Seq(Tasks)
    BY TailElements
  <2>6. migration_queue' \in [CPUs -> Seq(Tasks)]
    BY <1>0, <1>1, <2>4, <2>5 DEF MtTop, RequestTypes
  <2>7. req' \in [CPUs -> [caller : Tasks \cup {None}, dest : CPUs \cup {None}]]
    <3>1. \/ req' = req
          \/ l # <<>> /\ req' = [req EXCEPT ![c].caller = Head(l)]
      BY <1>1, <2>4 DEF MtTop
    <3>2. CASE l # <<>>
      <4>1. PICK h \in Tasks : h = Head(l)
        BY <2>5, <3>2
      <4>2. PICK x : x = [req[c] EXCEPT !.caller = h]
        OBVIOUS
      <4>3. req' = req \/ req' = [req EXCEPT ![c] = x]
        BY <3>1, <4>1, <4>2
      <4>4. req[c] \in [caller : Tasks \cup {None}, dest : CPUs \cup {None}]
        BY <1>0 DEF RequestTypes
      <4>5. x \in [caller : Tasks \cup {None}, dest : CPUs \cup {None}]
        BY <4>2, <4>4
      <4> QED
        BY ONLY ZenonT(30), <1>0, <4>3, <4>5, ExceptType DEF RequestTypes
    <3> QED
      BY <1>0, <3>1, <3>2 DEF RequestTypes
  <2> QED
    BY <1>0, <2>1, <2>2, <2>3, <2>6, <2>7 DEF MostTypes, TaskTypes, RqTypes, LockVarTypes,
       RequestTypes, rqVars, lockVars
<1>2. CASE MtDest(c)
  <2>1. /\ mpc[c] = "got" /\ UNCHANGED <<taskVars, rqVars, lockVars, callVars>>
        /\ req' = [req EXCEPT ![c].dest = Min(cpus_allowed[Moved(c)])]
        /\ mpc' = [mpc EXCEPT ![c] = "repeat"]
    BY <1>2 DEF MtDest
  <2>2. cpus_allowed[Moved(c)] \in SUBSET CPUs /\ cpus_allowed[Moved(c)] # {}
    BY <1>0, <2>1, MovedTask DEF TypeOK
  <2>3. PICK d \in CPUs : d = Min(cpus_allowed[Moved(c)])
    BY <2>2, LowestCpu
  <2>4. req' \in [CPUs -> [caller : Tasks \cup {None}, dest : CPUs \cup {None}]]
    BY <1>0, <2>1, <2>3 DEF RequestTypes
  <2>5. mpc' \in [CPUs -> {"top", "sched", "got", "repeat", "complete"}]
    BY <1>0, <2>1 DEF RequestTypes
  <2> QED
    BY <1>0, <2>1, <2>4, <2>5 DEF MostTypes, TaskTypes, RqTypes, LockVarTypes,
       RequestTypes, taskVars, rqVars, lockVars, callVars
<1>3. CASE MtRepeat(c)
  <2>1. /\ mpc[c] = "repeat" /\ UNCHANGED <<taskVars, rqVars, lock, callVars, mtVars>>
        /\ busiest' = [busiest EXCEPT ![c] = [rq |-> cpu[Moved(c)], from |-> "migration"]]
        /\ cpc' = [cpc EXCEPT ![c] = "first"]
    BY <1>3 DEF MtRepeat
  <2>2. PICK s \in CPUs : s = cpu[Moved(c)]
    BY <1>0, <2>1, MovedTask DEF TypeOK
  <2>3. LockVarTypes'
    BY <1>0, <2>1, <2>2 DEF LockVarTypes, CPcs, Froms
  <2> QED
    BY <1>0, <2>1, <2>3 DEF MostTypes, TaskTypes, RqTypes, RequestTypes,
       taskVars, rqVars, callVars, mtVars
<1>4. CASE MtLock(c)
  <2>1. UNCHANGED <<taskVars, rqVars, busiest, callVars, mtVars>>
    BY <1>4 DEF MtLock
  <2>2. lock' \in [CPUs -> CPUs \cup {None}]
    <3>1. \E n : lock' = [lock EXCEPT ![n] = c]
      BY <1>4 DEF MtLock
    <3> QED
      BY <1>0, <3>1 DEF LockVarTypes
  <2>3. cpc' \in [CPUs -> CPcs]
    <3>1. \E s \in {"second", "move"} : cpc' = [cpc EXCEPT ![c] = s]
      BY <1>4 DEF MtLock
    <3> QED
      BY <1>0, <3>1 DEF LockVarTypes, CPcs
  <2> QED
    BY <1>0, <2>1, <2>2, <2>3 DEF MostTypes, TaskTypes, RqTypes, LockVarTypes, RequestTypes,
       taskVars, rqVars, callVars, mtVars
<1>5. CASE MtMove(c)
  <2>1. /\ cpc[c] = "move" /\ UNCHANGED <<state, cpus_allowed, curr, callVars, req>>
        /\ lock' = [lock EXCEPT ![busiest[c].rq] = None, ![req[c].dest] = None]
        /\ cpc' = [cpc EXCEPT ![c] = "run"] /\ busiest' = [busiest EXCEPT ![c] = None]
    BY <1>5 DEF MtMove
  <2>2. LockVarTypes'
    BY <1>0, <2>1 DEF LockVarTypes, CPcs
  <2>3. PICK src \in CPUs, dest \in CPUs : src = busiest[c].rq /\ dest = req[c].dest
    BY <2>1 DEF SchedInv, BusyInv, Busy
  <2>4. PICK p : p = Moved(c)
    OBVIOUS
  <2>5. \/ UNCHANGED <<array, nr_running, nr_uninterruptible, need_resched>>
        \/ /\ array' = [array EXCEPT ![p] = <<dest, "active">>]
           /\ nr_running' = Plus(Plus(nr_running, src, -1), dest, 1)
           /\ nr_uninterruptible' = nr_uninterruptible + Uninterruptible(p)
           /\ ReschedIfIdle(dest)
    BY <1>5, <2>3, <2>4 DEF MtMove
  <2>6. cpu' = cpu \/ cpu' = [cpu EXCEPT ![p] = dest]
    BY <1>5, <2>3, <2>4 DEF MtMove
  <2>7. mpc' = mpc \/ mpc' = [mpc EXCEPT ![c] = "complete"]
    BY <1>5 DEF MtMove
  <2>8. TaskTypes'
    <3>1. PICK x : x = <<dest, "active">>
      OBVIOUS
    <3>2. x \in {None} \cup CPUs \X {"active", "expired"}
      BY <2>3, <3>1
    <3>3. array' = array \/ array' = [array EXCEPT ![p] = x]
      BY <2>5, <3>1
    <3>4. array' \in [Threads -> {None} \cup CPUs \X {"active", "expired"}]
      BY ONLY <1>0, <3>2, <3>3, ExceptType DEF TaskTypes
    <3>5. cpu' \in [Threads -> CPUs]
      BY <1>0, <2>3, <2>6, ExceptType DEF TaskTypes
    <3> QED
      BY <1>0, <2>1, <3>4, <3>5 DEF TaskTypes
  <2>9. RqTypes'
    <3>1. Uninterruptible(p) \in Int
      BY DEF Uninterruptible
    <3>2. nr_running' \in [CPUs -> Int] /\ nr_uninterruptible' \in Int
      BY <1>0, <2>3, <2>5, <3>1 DEF RqTypes, Plus
    <3>3. (need_resched[dest] \/ curr[dest] = idle(dest)) \in BOOLEAN
      OBVIOUS
    <3>4. need_resched' \in [CPUs -> BOOLEAN]
      BY <1>0, <2>5, <3>3, ExceptType DEF RqTypes, ReschedIfIdle
    <3> QED
      BY <1>0, <2>1, <3>2, <3>4 DEF RqTypes
  <2>10. RequestTypes'
    BY <1>0, <2>1, <2>7 DEF RequestTypes, callVars
  <2> QED
    BY <2>2, <2>8, <2>9, <2>10 DEF MostTypes
<1>6. CASE MtComplete(c)
  <2>1. /\ mpc[c] = "complete" /\ UNCHANGED <<cpu, lockVars, doing, arg, migration_queue>>
        /\ TryToWakeUp(req[c].caller, FALSE)
        /\ done' = [done EXCEPT ![req[c].caller] = TRUE]
        /\ mpc' = [mpc EXCEPT ![c] = "top"] /\ req' = [req EXCEPT ![c] = NoReq]
    BY <1>6 DEF MtComplete
  <2>2. req[c].caller \in Threads
    BY <1>0, <2>1, Names DEF RequestInv
  <2>3. TaskTypes' /\ RqTypes'
    BY <1>0, <2>1, <2>2, WakeTypes
  <2>4. LockVarTypes'
    BY <1>0, <2>1 DEF LockVarTypes, lockVars
  <2>5. RequestTypes'
    BY <1>0, <2>1 DEF RequestTypes, NoReq
  <2> QED
    BY <2>3, <2>4, <2>5 DEF MostTypes
<1> QED
    BY <1>1, <1>2, <1>3, <1>4, <1>5, <1>6 DEF Migration

LEMMA TaskStepTypes ==
    ASSUME MostTypes, SchedInv, NEW c \in CPUs, TaskStep(c)
    PROVE  MostTypes'
<1>0. TaskTypes /\ RqTypes /\ LockVarTypes /\ RequestTypes /\ TypeOK /\ RequestInv
    BY DEF MostTypes, SchedInv
<1>1. ASSUME NEW q \in Tasks, SetState(c, q) \/ Exit(c, q)
      PROVE  MostTypes'
  <2>1. UNCHANGED <<cpu, cpus_allowed, array, rqVars, lockVars, callVars, mtVars>>
    BY <1>1 DEF SetState, Exit
  <2>2. state' \in [Threads -> States]
    BY <1>0, <1>1 DEF SetState, Exit, TaskTypes, States
  <2> QED
    BY <1>0, <2>1, <2>2 DEF MostTypes, TaskTypes, RqTypes, LockVarTypes, RequestTypes,
       rqVars, lockVars, callVars, mtVars
<1>2. ASSUME NEW q \in Tasks, Yield(c, q)
      PROVE  MostTypes'
  <2>1. UNCHANGED <<state, cpu, cpus_allowed, rqVars, lockVars, arg, migration_queue, done, mtVars>>
    BY <1>2 DEF Yield
  <2>2. array' \in [Threads -> {None} \cup CPUs \X {"active", "expired"}]
    BY <1>0, <1>2 DEF Yield, TaskTypes
  <2>3. doing' \in [Tasks -> {"free", "yield", "rewake", "wakemt", "wait"}]
    BY <1>0, <1>2 DEF Yield, RequestTypes
  <2> QED
    BY <1>0, <2>1, <2>2, <2>3 DEF MostTypes, TaskTypes, RqTypes, LockVarTypes, RequestTypes,
       rqVars, lockVars, mtVars
<1>3. ASSUME NEW q \in Tasks, WakeMigrationThread(c, q)
      PROVE  MostTypes'
  <2>1. /\ UNCHANGED <<cpu, lockVars, arg, migration_queue, done, mtVars>>
        /\ doing[q] = "wakemt" /\ doing' = [doing EXCEPT ![q] = "wait"]
        /\ TryToWakeUp(migration_thread(arg[q].rq), FALSE)
    BY <1>3 DEF WakeMigrationThread
  <2>2. migration_thread(arg[q].rq) \in Threads
    BY <1>0, <2>1, Names DEF RequestInv
  <2>3. TaskTypes' /\ RqTypes'
    BY <1>0, <2>1, <2>2, WakeTypes
  <2> QED
    BY <1>0, <2>1, <2>3 DEF MostTypes, LockVarTypes, RequestTypes, lockVars, mtVars
<1>4. ASSUME NEW q \in Tasks, WaitForCompletion(c, q)
      PROVE  MostTypes'
  <2>1. UNCHANGED <<cpu, cpus_allowed, array, rqVars, lockVars, migration_queue, mtVars>>
    BY <1>4 DEF WaitForCompletion
  <2>2. state' \in [Threads -> States]
    BY <1>0, <1>4 DEF WaitForCompletion, TaskTypes, States, Sleeping
  <2>3. RequestTypes'
    BY <1>0, <1>4, <2>1 DEF WaitForCompletion, RequestTypes, mtVars
  <2> QED
    BY <1>0, <2>1, <2>2, <2>3 DEF MostTypes, TaskTypes, RqTypes, LockVarTypes,
       rqVars, lockVars
<1>5. ASSUME NEW q \in Tasks, NEW p \in Tasks, WakeUpSync(c, q, p)
      PROVE  MostTypes'
  <2>1. UNCHANGED <<lockVars, migration_queue, done, mtVars>>
    BY <1>5 DEF WakeUpSync
  <2>2. TaskTypes' /\ RqTypes'
    <3>1. CASE TryToWakeUp(p, TRUE) /\ cpu' = cpu
      BY <1>0, <3>1, WakeTypes, Names
    <3>2. CASE ~(TryToWakeUp(p, TRUE) /\ cpu' = cpu)
      <4>1. cpu' = [cpu EXCEPT ![p] = c] /\ UNCHANGED <<state, cpus_allowed, array, rqVars>>
        BY <1>5, <3>2 DEF WakeUpSync
      <4> QED
        BY <1>0, <4>1 DEF TaskTypes, RqTypes, rqVars
    <3> QED
      BY <3>1, <3>2
  <2>3. doing' \in [Tasks -> {"free", "yield", "rewake", "wakemt", "wait"}]
    BY <1>0, <1>5 DEF WakeUpSync, RequestTypes
  <2>4. arg' \in [Tasks -> {None} \cup [task : Tasks, rq : CPUs \cup {None}]]
    <3>1. arg' = [arg EXCEPT ![q] = [task |-> p, rq |-> None]] \/ arg' = [arg EXCEPT ![q] = None]
      BY <1>5 DEF WakeUpSync
    <3> QED
      BY <1>0, <3>1 DEF RequestTypes
  <2> QED
    BY <1>0, <2>1, <2>2, <2>3, <2>4 DEF MostTypes, LockVarTypes, RequestTypes, lockVars, mtVars
<1>6. ASSUME NEW q \in Tasks, NEW p \in Tasks, Setscheduler(c, q, p)
      PROVE  MostTypes'
  <2>1. UNCHANGED <<state, cpu, cpus_allowed, curr, nr_running, need_resched, lockVars, callVars, mtVars>>
    BY <1>6 DEF Setscheduler
  <2>2. array' \in [Threads -> {None} \cup CPUs \X {"active", "expired"}]
    BY <1>0, <1>6, Names DEF Setscheduler, TaskTypes
  <2>3. nr_uninterruptible' \in Int
    <3>1. Uninterruptible(p) \in Int
      BY DEF Uninterruptible
    <3> QED
      BY <1>0, <1>6, <3>1 DEF Setscheduler, RqTypes
  <2> QED
    BY <1>0, <2>1, <2>2, <2>3 DEF MostTypes, TaskTypes, RqTypes, LockVarTypes, RequestTypes,
       lockVars, callVars, mtVars
<1>7. ASSUME NEW q \in Tasks, NEW p \in Tasks, Fork(c, q, p) \/ ReleaseTask(c, q, p)
      PROVE  MostTypes'
  <2>1. UNCHANGED <<curr, nr_uninterruptible, need_resched, lockVars, callVars, mtVars>>
    BY <1>7 DEF Fork, ReleaseTask, rqVars
  <2>2. state' \in [Threads -> States]
    BY <1>0, <1>7 DEF Fork, ReleaseTask, TaskTypes, States
  <2>3. cpu' \in [Threads -> CPUs]
    BY <1>0, <1>7 DEF Fork, ReleaseTask, TaskTypes
  <2>4. cpus_allowed' \in [Queueable -> (SUBSET CPUs) \ {{}}]
    <3>1. cpus_allowed[q] \in (SUBSET CPUs) \ {{}}
      BY <1>0, Names DEF TaskTypes
    <3> QED
      BY <1>0, <1>7, <3>1, ExceptType DEF Fork, ReleaseTask, TaskTypes
  <2>5. array' \in [Threads -> {None} \cup CPUs \X {"active", "expired"}]
    <3>1. array[q] \in {None} \cup CPUs \X {"active", "expired"}
      BY <1>0, Names DEF TaskTypes
    <3> QED
      BY <1>0, <1>7, <3>1, ExceptType DEF Fork, ReleaseTask, TaskTypes
  <2>6. nr_running' \in [CPUs -> Int]
    BY <1>0, <1>7 DEF Fork, ReleaseTask, Plus, RqTypes, rqVars
  <2> QED
    BY <1>0, <2>1, <2>2, <2>3, <2>4, <2>5, <2>6 DEF MostTypes, TaskTypes, RqTypes, LockVarTypes,
       RequestTypes, lockVars, callVars, mtVars
<1>8. ASSUME NEW q \in Tasks, NEW p \in Tasks, NEW mask \in (SUBSET CPUs) \ {{}},
             SetCpusAllowed(c, q, p, mask)
      PROVE  MostTypes'
  <2>1. UNCHANGED <<state, array, rqVars, lockVars, mtVars>>
    BY <1>8 DEF SetCpusAllowed
  <2>2. cpus_allowed' \in [Queueable -> (SUBSET CPUs) \ {{}}]
    BY <1>0, <1>8, ExceptType DEF SetCpusAllowed, TaskTypes
  <2>3. cpu' \in [Threads -> CPUs]
    <3>1. PICK m \in CPUs : m = Min(mask)
      BY LowestCpu
    <3> QED
      BY <1>0, <1>8, <3>1, ExceptType DEF SetCpusAllowed, TaskTypes
  <2>4. PICK r \in CPUs : r = cpu[p]
    BY <1>0 DEF TypeOK
  <2>5. PICK l \in Seq(Tasks) : l = migration_queue[r]
    BY <1>0 DEF RequestTypes
  <2>6. <<q>> \o l \in Seq(Tasks)
    BY PrependElements
  <2>7. \/ UNCHANGED callVars
        \/ /\ migration_queue' = [migration_queue EXCEPT ![r] = <<q>> \o l]
           /\ doing' = [doing EXCEPT ![q] = "wakemt"]
           /\ arg' = [arg EXCEPT ![q] = [task |-> p, rq |-> r]]
           /\ done' = [done EXCEPT ![q] = FALSE]
    BY <1>8, <2>4, <2>5 DEF SetCpusAllowed
  <2>8. RequestTypes'
    <3>1. UNCHANGED <<mpc, req>>
      BY <2>1 DEF mtVars
    <3>2. migration_queue' \in [CPUs -> Seq(Tasks)]
      <4>1. PICK m \in Seq(Tasks) : m = <<q>> \o l
        BY <2>6
      <4>2. migration_queue' = migration_queue \/ migration_queue' = [migration_queue EXCEPT ![r] = m]
        BY <2>7, <4>1 DEF callVars
      <4> QED
        BY ZenonT(30), <1>0, <4>2, ExceptType DEF RequestTypes
    <3>3. doing' \in [Tasks -> {"free", "yield", "rewake", "wakemt", "wait"}]
      BY <1>0, <2>7 DEF RequestTypes, callVars
    <3>4. arg' \in [Tasks -> {None} \cup [task : Tasks, rq : CPUs \cup {None}]]
      <4>1. PICK x \in [task : Tasks, rq : CPUs \cup {None}] : x = [task |-> p, rq |-> r]
        BY <2>4
      <4>2. arg' = arg \/ arg' = [arg EXCEPT ![q] = x]
        BY <2>7, <4>1 DEF callVars
      <4> DEFINE A == {None} \cup [task : Tasks, rq : CPUs \cup {None}]
      <4>3. x \in A /\ arg \in [Tasks -> A]
        BY <1>0, <4>1 DEF RequestTypes
      <4> HIDE DEF A
      <4>4. arg' \in [Tasks -> A]
        BY <4>2, <4>3, ExceptType
      <4> QED
        BY <4>4 DEF A
    <3>5. done' \in [Tasks -> BOOLEAN]
      BY <1>0, <2>7 DEF RequestTypes, callVars
    <3> QED
      BY <1>0, <3>1, <3>2, <3>3, <3>4, <3>5 DEF RequestTypes
  <2> QED
    BY <1>0, <2>1, <2>2, <2>3, <2>8 DEF MostTypes, TaskTypes, RqTypes, LockVarTypes,
       rqVars, lockVars
<1> QED
    BY <1>1, <1>2, <1>3, <1>4, <1>5, <1>6, <1>7, <1>8 DEF TaskStep

LEMMA FiniteQueues == \A c \in CPUs : IsFiniteSet(OnQueue(c)) /\ Cardinality(OnQueue(c)) \in Nat
<1>1. ASSUME NEW c \in CPUs PROVE IsFiniteSet(OnQueue(c))
    BY FiniteThreads, FS_Subset DEF OnQueue, Queueable
<1> QED
    BY <1>1, FS_CardinalityType

\* The counts are never negative.
LEMMA CountTypes == RqTypes /\ CountInv => nr_running \in [CPUs -> Nat]
    BY FiniteQueues DEF RqTypes, CountInv

LEMMA StepTypes ==
    ASSUME SchedInv, [Next]_vars
    PROVE  TypeOK'
<1>1. MostTypes
    BY TypeParts DEF SchedInv, MostTypes
<1>2. ASSUME NEW p \in Tasks, WakeUp(p)
      PROVE  MostTypes'
  <2>1. TryToWakeUp(p, FALSE) /\ UNCHANGED <<cpu, lockVars, callVars, mtVars>>
    BY <1>2 DEF WakeUp
  <2>2. TaskTypes' /\ RqTypes'
    BY <1>1, <2>1, WakeTypes, Names DEF MostTypes
  <2> QED
    BY <1>1, <2>1, <2>2 DEF MostTypes, LockVarTypes, RequestTypes, lockVars, callVars, mtVars
<1>3. ASSUME UNCHANGED vars
      PROVE  MostTypes'
  <2>1. TaskTypes'
    BY <1>1, <1>3 DEF vars, MostTypes, TaskTypes, taskVars
  <2>2. RqTypes'
    BY <1>1, <1>3 DEF vars, MostTypes, RqTypes, rqVars
  <2>3. LockVarTypes'
    BY <1>1, <1>3 DEF vars, MostTypes, LockVarTypes, lockVars
  <2>4. RequestTypes'
    BY <1>1, <1>3 DEF vars, MostTypes, RequestTypes, callVars, mtVars
  <2> QED
    BY <2>1, <2>2, <2>3, <2>4 DEF MostTypes
<1>a. ASSUME NEW c \in CPUs, Sched(c) \/ Migration(c) \/ TaskStep(c)
      PROVE  MostTypes'
    BY <1>1, <1>a, SchedTypes, MtTypes, TaskStepTypes
<1>4. MostTypes'
    BY <1>2, <1>3, <1>a DEF Next
<1>5. (TaskTypes /\ RqTypes /\ LockVarTypes /\ RequestTypes)'
    BY <1>4 DEF MostTypes
<1>6. CountInv'
    BY StepRun DEF RunInv
<1>7. (nr_running \in [CPUs -> Nat])'
    BY <1>5, <1>6, CountTypes, PTL
<1> QED
    BY <1>5, <1>7, TypeParts, PTL

LEMMA InitInv == Init => SchedInv
<1> SUFFICES ASSUME Init PROVE SchedInv
    OBVIOUS
<1>0. 0 \in CPUs /\ CPUs \subseteq Int
    BY RunQueueAssumption DEF CPUs
<1>a. /\ \A p \in Tasks : p \notin Mts /\ p \notin Kthreads /\ p \notin Idle
      /\ \A c \in CPUs : /\ idle(c) \in Kthreads /\ idle(c) \notin Mts /\ idle(c)[2] = c
                         /\ migration_thread(c) \in Kthreads /\ migration_thread(c) \in Mts
                         /\ migration_thread(c)[2] = c
    BY ZenonT(30), Names DEF Kthreads, idle, migration_thread
<1>b. /\ \A p \in Tasks : cpu[p] = 0 /\ state[p] = "RUNNING" /\ array[p] = <<0, "active">>
      /\ \A c \in CPUs : /\ cpu[idle(c)] = c /\ state[idle(c)] = "RUNNING"
                         /\ cpu[migration_thread(c)] = c
                         /\ state[migration_thread(c)] = "INTERRUPTIBLE"
                         /\ array[migration_thread(c)] = None
    BY <1>a, Names DEF Init, Threads
<1>c. <<0, "active">> # None /\ <<0, "active">>[1] = 0
    BY <1>0, ArrayNames
<1>d. \A p \in Kthreads : p[2] \in CPUs
    BY <1>a, Names DEF Kthreads
<1>1. TypeOK
  <2>1. TaskTypes
    <3>1. state \in [Threads -> States]
      BY DEF Init, Threads, States, Sleeping
    <3>2. cpu \in [Threads -> CPUs]
      BY <1>0, <1>d DEF Init, Threads
    <3>3. cpus_allowed \in [Queueable -> (SUBSET CPUs) \ {{}}]
      <4>1. \A p \in Mts : p[2] \in CPUs
        BY <1>d DEF Kthreads
      <4> QED
        BY <1>0, <4>1 DEF Init, Queueable
    <3>4. array \in [Threads -> {None} \cup CPUs \X {"active", "expired"}]
      BY <1>0 DEF Init, Threads
    <3> QED
      BY <3>1, <3>2, <3>3, <3>4 DEF TaskTypes
  <2>2. RqTypes /\ nr_running \in [CPUs -> Nat]
    <3>1. Cardinality(Tasks) \in Nat
      BY FS_CardinalityType, RunQueueAssumption
    <3>2. \A c \in CPUs : idle(c) \in Threads
      BY Names
    <3> QED
      BY <3>1, <3>2 DEF Init, RqTypes
  <2>3. LockVarTypes
    BY DEF Init, LockVarTypes, CPcs
  <2>4. RequestTypes
    BY DEF Init, RequestTypes, NoReq
  <2> QED
    BY <2>1, <2>2, <2>3, <2>4, TypeParts
<1>2. KthreadInv
    BY <1>b DEF KthreadInv
<1>3. CurrInv
    BY <1>b DEF Init, CurrInv
<1>4. QueueInv
    BY <1>b, <1>c, Names DEF QueueInv, RunnableIsQueued
<1>5. CountInv
  <2>1. OnQueue(0) = Tasks
    BY SMTT(30), <1>b, <1>c, Names DEF OnQueue
  <2>2. \A c \in CPUs \ {0} : OnQueue(c) = {}
    BY <1>b, <1>c, Names DEF OnQueue
  <2>3. \A c \in CPUs \ {0} : Cardinality(OnQueue(c)) = 0
    BY <2>2, FS_EmptySet
  <2> QED
    BY <2>1, <2>3 DEF Init, CountInv
<1>6. SwitchInv
    BY Names DEF Init, SwitchInv
<1>7. BusyInv
    BY DEF Init, BusyInv, Busy
<1>8. LockInv
    BY RunQueueAssumption DEF Init, LockInv, Holds
<1>9. RequestInv
  <2>1. Range(<<>>) = {} /\ IsInjective(<<>>)
    BY DEF Range, IsInjective
  <2> QED
    BY <2>1 DEF Init, RequestInv, Serves
<1> QED
    BY <1>1, <1>2, <1>3, <1>4, <1>5, <1>6, <1>7, <1>8, <1>9 DEF SchedInv

\* The inductive invariant holds for any number of CPUs and tasks.
THEOREM SchedInvariant == Spec => []SchedInv
<1>1. SchedInv /\ [Next]_vars => SchedInv'
    BY StepRun, StepLocks, StepRequests, StepTypes DEF SchedInv, RunInv
<1> QED
    BY <1>1, InitInv, PTL DEF Spec

\* No task runs on two CPUs or after release_task.
THEOREM TasksRunOnce == Spec => []RunsOnce
<1>1. SchedInv => RunsOnce
    BY DEF SchedInv, CurrInv, RunsOnce
<1> QED
    BY <1>1, SchedInvariant, PTL

\* The arrays, nr_running and task_cpu() agree, and exactly what is to run is
\* queued.
THEOREM QueuesStayExact == Spec => []QueuesExact
<1>1. SchedInv => QueuesExact
  <2> SUFFICES ASSUME SchedInv PROVE QueuesExact
    OBVIOUS
  <2>1. ASSUME NEW c \in CPUs
        PROVE  nr_running[c] =
                  Cardinality(InArray(c, "active")) + Cardinality(InArray(c, "expired"))
    <3>1. OnQueue(c) = InArray(c, "active") \cup InArray(c, "expired")
      <4>1. \A p \in Queueable : array[p] \in {None} \cup CPUs \X {"active", "expired"}
        BY Names, TypesOfQueues DEF SchedInv, QueueTypes
      <4>2. \A p \in Queueable : array[p] # None /\ array[p][1] = c <=>
                array[p] = <<c, "active">> \/ array[p] = <<c, "expired">>
        BY <4>1, ArrayNames
      <4> QED
        BY <4>2 DEF OnQueue, InArray, Queueable
    <3>2. InArray(c, "active") \cap InArray(c, "expired") = {}
      BY DEF InArray
    <3>3. IsFiniteSet(InArray(c, "active")) /\ IsFiniteSet(InArray(c, "expired"))
      BY FiniteThreads, FS_Subset DEF InArray, Queueable
    <3>4. nr_running[c] = Cardinality(OnQueue(c))
      BY DEF SchedInv, CountInv
    <3> QED
      BY <3>1, <3>2, <3>3, <3>4, DisjointUnion
  <2> QED
    BY <2>1 DEF SchedInv, QueueInv, QueuesExact
<1> QED
    BY <1>1, SchedInvariant, PTL

-----------------------------------------------------------------------------
(***************************************************************************)
(* The order of the locks.  A CPU that spins for the lock of x holds only  *)
(* locks below it, so of the locks a group waits for nobody can hold the   *)
(* highest and wait himself.                                               *)
(***************************************************************************)
Wants(c, x) ==
    \/ cpc[c] \in {"want", "dropped"} /\ x = busiest[c].rq
    \/ cpc[c] = "relock" /\ x = c
    \/ cpc[c] = "first" /\ x = Min({busiest[c].rq, req[c].dest})
    \/ cpc[c] = "second" /\ x = Max({busiest[c].rq, req[c].dest})

LEMMA HighestCpu ==
    ASSUME NEW S \in SUBSET CPUs, S # {}
    PROVE  \E x \in S : \A y \in S : y =< x
<1> DEFINE T == {NR_CPUS - 1 - x : x \in S}
           R == OpToRel(<, Nat)
<1>a. \A x \in S : x \in Int /\ NR_CPUS - 1 - x \in Nat
  <2>1. NR_CPUS \in Int /\ \A x \in 0 .. NR_CPUS - 1 : x \in Int /\ NR_CPUS - 1 - x \in Nat
    BY RunQueueAssumption
  <2> QED
    BY <2>1 DEF CPUs
<1>1. T \subseteq Nat /\ T # {} /\ \A x \in S : x \in Int
    BY <1>a
<1>2. IsWellFoundedOn(R, Nat)
    BY NatLessThanWellFounded, Zenon
<1>3. \A i, j \in Nat : i < j => <<i, j>> \in R
    BY DEF OpToRel
<1> HIDE DEF R
<1>4. PICK m \in T : \A n \in T : ~(<<n, m>> \in R)
  <2> HIDE DEF T
  <2> QED
    BY <1>1, <1>2, WFMin, Zenon
<1>5. \A n \in T : m \in Nat /\ n \in Nat /\ ~(n < m)
    BY <1>1, <1>3, <1>4
<1>6. PICK x \in S : m = NR_CPUS - 1 - x
    BY <1>4
<1>7. \A y \in S : ~(NR_CPUS - 1 - y < NR_CPUS - 1 - x)
    BY <1>5, <1>6
<1> QED
    BY <1>1, <1>7, RunQueueAssumption

LEMMA LockOrder ==
    ASSUME SchedInv, NEW c \in CPUs, NEW x \in CPUs, NEW y \in CPUs, Wants(c, x), lock[y] = c
    PROVE  y < x
<1>1. Busy(c) /\ Holds(c, y)
    BY DEF SchedInv, BusyInv, LockInv
<1>2. CASE cpc[c] = "second"
  <2>1. PICK src \in CPUs, dest \in CPUs :
            src = busiest[c].rq /\ dest = req[c].dest /\ src # dest
    BY <1>1, <1>2 DEF Busy
  <2>2. y = Min({src, dest}) /\ x = Max({src, dest})
    BY <1>1, <1>2, <2>1 DEF Holds, Wants
  <2> QED
    BY <2>1, <2>2, PairOrder
<1>3. CASE cpc[c] # "second"
  <2>1. \/ cpc[c] = "want" /\ y = c /\ x = busiest[c].rq
        \/ cpc[c] = "relock" /\ y = busiest[c].rq /\ x = c
    BY <1>1, <1>3 DEF Wants, Holds
  <2> QED
    BY <1>1, <2>1 DEF Busy
<1> QED
    BY <1>2, <1>3

LEMMA WhatIsWanted ==
    ASSUME SchedInv, NEW c \in CPUs, NEW d \in CPUs, WaitsFor(c, d)
    PROVE  \E x \in CPUs : Wants(c, x) /\ lock[x] = d
<1>1. Busy(c)
    BY DEF SchedInv, BusyInv
<1>2. CASE cpc[c] \in {"first", "second"}
  <2>1. PICK src \in CPUs, dest \in CPUs : src = busiest[c].rq /\ dest = req[c].dest
    BY <1>1, <1>2 DEF Busy
  <2>2. PICK lo \in CPUs, hi \in CPUs : Ordered(src, dest, lo, hi)
    BY <2>1, PairNames
  <2>3. lo = Min({busiest[c].rq, req[c].dest}) /\ hi = Max({busiest[c].rq, req[c].dest})
    BY <2>1, <2>2 DEF Ordered
  <2>4. \/ cpc[c] = "first" /\ lock[lo] = d
        \/ cpc[c] = "second" /\ lock[hi] = d
    BY <1>2, <2>3 DEF WaitsFor
  <2>5. CASE cpc[c] = "first"
    <3>1. Wants(c, lo) /\ lock[lo] = d
      BY <2>3, <2>4, <2>5 DEF Wants
    <3> QED
      BY <3>1
  <2>6. CASE cpc[c] = "second"
    <3>1. Wants(c, hi) /\ lock[hi] = d
      BY <2>3, <2>4, <2>6 DEF Wants
    <3> QED
      BY <3>1
  <2> QED
    BY <1>2, <2>5, <2>6
<1>3. CASE cpc[c] \notin {"first", "second"}
    BY <1>1, <1>3 DEF WaitsFor, Wants, Busy
<1> QED
    BY <1>2, <1>3

\* No group of CPUs, of any size, spins for its own run queue locks.
THEOREM LocksNeverCycle == Spec => []NoLockCycle
<1>1. SchedInv => NoLockCycle
  <2> SUFFICES ASSUME SchedInv, NEW D \in (SUBSET CPUs) \ {{}},
                      \A c \in D : \E d \in D : WaitsFor(c, d)
               PROVE  FALSE
    BY DEF NoLockCycle
  <2> DEFINE W == {x \in CPUs : \E c \in D : Wants(c, x)}
  <2>1. \A c \in D : \E d \in D, x \in CPUs : Wants(c, x) /\ lock[x] = d
    BY WhatIsWanted
  <2>2. W \in SUBSET CPUs /\ W # {}
    BY <2>1
  <2>3. PICK m \in W : \A y \in W : y =< m
    <3> HIDE DEF W
    <3> QED
      BY <2>2, HighestCpu
  <2>4. PICK c \in D : Wants(c, m)
    BY <2>3
  <2>5. \A x, y \in CPUs : Wants(c, x) /\ Wants(c, y) => x = y
    BY DEF Wants
  <2>6. PICK d \in D : lock[m] = d
    BY <2>1, <2>3, <2>4, <2>5
  <2>7. PICK y \in CPUs : Wants(d, y)
    BY <2>1
  <2>8. m < y
    BY <2>3, <2>6, <2>7, LockOrder
  <2>9. y =< m
    BY <2>3, <2>7
  <2>10. m \in Int /\ y \in Int
    BY <2>3, RunQueueAssumption DEF CPUs
  <2> QED
    BY <2>8, <2>9, <2>10
<1> QED
    BY <1>1, SchedInvariant, PTL

-----------------------------------------------------------------------------
(***************************************************************************)
(* RunQueue implements TaskSched.                                          *)
(***************************************************************************)
\* What TaskSched sees.
TState  == [p \in Tasks |-> state[p]]
TQueued == [p \in Tasks |-> array[p] # None]
SameView == UNCHANGED <<TState, TQueued>>

\* u is seen to be as it was.
SameTask(u) == state'[u] = state[u] /\ (array'[u] # None <=> array[u] # None)

LEMMA Unseen ==
    ASSUME \A u \in Tasks : SameTask(u)
    PROVE  SameView
<1>1. TState' = TState
    BY DEF TState, SameTask
<1>2. TQueued' = TQueued
    BY DEF TQueued, SameTask
<1> QED
    BY <1>1, <1>2 DEF SameView

\* The steps of TaskSched in terms of TState and TQueued.
Seen(p, s, queued) ==
    TState' = [TState EXCEPT ![p] = s] /\ TQueued' = [TQueued EXCEPT ![p] = queued]

LEMMA ViewActions ==
    ASSUME NEW p
    PROVE  /\ SchedView!SetState(p) <=>
                /\ TQueued[p] /\ TState[p] # "ZOMBIE"
                /\ \E s \in {"INTERRUPTIBLE", "UNINTERRUPTIBLE"} \cup {"RUNNING", "ZOMBIE"} :
                        Seen(p, s, TRUE)
           /\ SchedView!Deactivate(p) <=>
                TQueued[p] /\ TState[p] # "RUNNING" /\ Seen(p, TState[p], FALSE)
           /\ SchedView!WakeUp(p) <=>
                TState[p] \in {"INTERRUPTIBLE", "UNINTERRUPTIBLE"} /\ Seen(p, "RUNNING", TRUE)
           /\ SchedView!Fork(p) <=> TState[p] = "none" /\ Seen(p, "RUNNING", TRUE)
           /\ SchedView!Release(p) <=>
                TState[p] = "ZOMBIE" /\ ~TQueued[p] /\ Seen(p, "none", FALSE)
    BY Zenon DEF SchedView!SetState, SchedView!Deactivate, SchedView!WakeUp, SchedView!Fork,
       SchedView!Release, SchedView!Becomes, SchedView!Sleeping, Seen, TState, TQueued

LEMMA OneSeen ==
    ASSUME NEW p \in Tasks, \A u \in Tasks \ {p} : SameTask(u),
           NEW s, NEW b \in BOOLEAN, state'[p] = s, (array'[p] # None) <=> b
    PROVE  Seen(p, s, b)
<1>1. TState' = [TState EXCEPT ![p] = s]
    BY DEF TState, SameTask
<1>2. TQueued' = [TQueued EXCEPT ![p] = b]
    BY DEF TQueued, SameTask
<1> QED
    BY <1>1, <1>2 DEF Seen

\* One task is seen to take a step.
LEMMA OneTaskStep ==
    ASSUME NEW p \in Tasks, \A u \in Tasks \ {p} : SameTask(u),
           \/ /\ array[p] # None /\ state[p] # "ZOMBIE" /\ array'[p] # None
              /\ state'[p] \in Sleeping \cup {"RUNNING", "ZOMBIE"}
           \/ /\ array[p] # None /\ state[p] # "RUNNING" /\ array'[p] = None
              /\ state'[p] = state[p]
           \/ state[p] \in Sleeping \cup {"none"} /\ state'[p] = "RUNNING" /\ array'[p] # None
           \/ /\ state[p] = "ZOMBIE" /\ state'[p] = "none"
              /\ array[p] = None /\ array'[p] = None
    PROVE  SchedView!Next
<1>1. TState[p] = state[p] /\ (TQueued[p] <=> array[p] # None)
    BY DEF TState, TQueued
<1>2. CASE /\ array[p] # None /\ state[p] # "ZOMBIE" /\ array'[p] # None
           /\ state'[p] \in Sleeping \cup {"RUNNING", "ZOMBIE"}
  <2>1. PICK s : s = state'[p]
    OBVIOUS
  <2>2. Seen(p, s, TRUE)
    BY <1>2, <2>1, OneSeen
  <2>3. s \in {"INTERRUPTIBLE", "UNINTERRUPTIBLE"} \cup {"RUNNING", "ZOMBIE"}
    BY <1>2, <2>1 DEF Sleeping
  <2>4. SchedView!SetState(p)
    BY <1>1, <1>2, <2>2, <2>3, ViewActions
  <2> QED
    BY <2>4 DEF SchedView!Next
<1>3. CASE /\ array[p] # None /\ state[p] # "RUNNING" /\ array'[p] = None
           /\ state'[p] = state[p]
  <2>1. Seen(p, state[p], FALSE)
    BY <1>3, OneSeen
  <2>2. SchedView!Deactivate(p)
    BY <1>1, <1>3, <2>1, ViewActions
  <2> QED
    BY <2>2 DEF SchedView!Next
<1>4. CASE state[p] \in Sleeping \cup {"none"} /\ state'[p] = "RUNNING" /\ array'[p] # None
  <2>1. Seen(p, "RUNNING", TRUE)
    BY <1>4, OneSeen
  <2>2. SchedView!WakeUp(p) \/ SchedView!Fork(p)
    BY <1>1, <1>4, <2>1, ViewActions DEF Sleeping
  <2> QED
    BY <2>2 DEF SchedView!Next
<1>5. CASE /\ state[p] = "ZOMBIE" /\ state'[p] = "none"
           /\ array[p] = None /\ array'[p] = None
  <2>1. Seen(p, "none", FALSE)
    BY <1>5, OneSeen
  <2>2. SchedView!Release(p)
    BY <1>1, <1>5, <2>1, ViewActions
  <2> QED
    BY <2>2 DEF SchedView!Next
<1> QED
    BY <1>2, <1>3, <1>4, <1>5

\* What runs outside schedule() is queued.
LEMMA RunningIsQueued ==
    ASSUME SchedInv, NEW c \in CPUs, cpc[c] = "run", curr[c] \in Tasks
    PROVE  array[curr[c]] # None
    BY DEF SchedInv, SwitchInv, InSchedule

LEMMA WakeView ==
    ASSUME SchedInv, NEW p \in Threads, NEW sync \in BOOLEAN, TryToWakeUp(p, sync)
    PROVE  SameView \/ SchedView!Next
<1>0. QueueTypes
    BY TypesOfQueues DEF SchedInv
<1>1. PICK c \in CPUs : c = cpu[p]
    BY <1>0 DEF QueueTypes
<1>2. \A u \in Tasks \ {p} : SameTask(u)
  <2>1. state' = state \/ state' = [state EXCEPT ![p] = "RUNNING"]
    BY DEF TryToWakeUp
  <2>2. array' = array \/ array' = [array EXCEPT ![p] = <<c, "active">>]
    BY <1>1 DEF TryToWakeUp, Activate
  <2> QED
    BY <1>0, <2>1, <2>2, Names DEF QueueTypes, SameTask
<1>3. CASE p \notin Tasks
    BY <1>2, <1>3, Unseen
<1>4. CASE p \in Tasks /\ state[p] \notin Sleeping
  <2>1. UNCHANGED <<state, array>>
    BY <1>4 DEF TryToWakeUp
  <2> QED
    BY <2>1, Unseen DEF SameTask
<1>5. CASE p \in Tasks /\ state[p] \in Sleeping
  <2>1. state' = [state EXCEPT ![p] = "RUNNING"]
    BY <1>5 DEF TryToWakeUp
  <2>2. state'[p] = "RUNNING"
    BY <1>0, <2>1 DEF QueueTypes
  <2>3. array'[p] # None
    <3>1. CASE array[p] = None
      <4>1. array' = [array EXCEPT ![p] = <<c, "active">>]
        BY <1>1, <1>5, <3>1 DEF TryToWakeUp, OffQueue, Activate
      <4> QED
        BY <1>0, <4>1, ArrayNames DEF QueueTypes
    <3>2. CASE array[p] # None
      BY <1>5, <3>2 DEF TryToWakeUp, OffQueue
    <3> QED
      BY <3>1, <3>2
  <2> QED
    BY <1>2, <1>5, <2>2, <2>3, OneTaskStep
<1> QED
    BY <1>3, <1>4, <1>5

\* Only schedule() takes a task off the queue; the rest of it, and balancing,
\* is not seen.
LEMMA ScheduleRefines ==
    ASSUME SchedInv, NEW c \in CPUs, Sched(c)
    PROVE  SameView \/ SchedView!Next
<1>0. QueueTypes
    BY TypesOfQueues DEF SchedInv
<1>1. CASE Schedule(c)
  <2>1. PICK prev \in Threads : prev = curr[c]
    BY <1>0 DEF QueueTypes
  <2>2. /\ cpc[c] = "run"
        /\ \/ UNCHANGED <<state, array>>
           \/ /\ state[prev] = "INTERRUPTIBLE" /\ prev \in Tasks /\ array' = array
              /\ state' = [state EXCEPT ![prev] = "RUNNING"]
           \/ /\ state[prev] # "RUNNING" /\ state' = state
              /\ array' = [array EXCEPT ![prev] = None]
    BY <1>1, <2>1 DEF Schedule, taskVars
  <2>3. \A u \in Tasks \ {prev} : SameTask(u)
    BY <1>0, <2>2, Names DEF QueueTypes, SameTask
  <2>4. CASE prev \notin Tasks
    BY <2>3, <2>4, Unseen
  <2>5. CASE prev \in Tasks
    <3>1. array[prev] # None
      BY <2>1, <2>2, <2>5, RunningIsQueued
    <3>2. CASE UNCHANGED <<state, array>>
      BY <3>2, Unseen DEF SameTask
    <3>3. CASE /\ state[prev] = "INTERRUPTIBLE" /\ array' = array
               /\ state' = [state EXCEPT ![prev] = "RUNNING"]
      <4>1. state'[prev] = "RUNNING"
        BY <1>0, <3>3 DEF QueueTypes
      <4> QED
        BY <2>3, <2>5, <3>1, <3>3, <4>1, OneTaskStep
    <3>4. CASE /\ state[prev] # "RUNNING" /\ state' = state
               /\ array' = [array EXCEPT ![prev] = None]
      <4>1. array'[prev] = None
        BY <1>0, <3>4 DEF QueueTypes
      <4> QED
        BY <2>3, <2>5, <3>1, <3>4, <4>1, OneTaskStep
    <3> QED
      BY <2>2, <3>2, <3>3, <3>4
  <2> QED
    BY <2>4, <2>5
<1>2. CASE PickNext(c)
  <2>1. state' = state
    BY <1>2 DEF PickNext
  <2>2. PICK S \in SUBSET Queueable :
            /\ \A p \in S : array[p] # None
            /\ \/ array' = array
               \/ array' = [p \in DOMAIN array |-> IF p \in S THEN <<c, "active">> ELSE array[p]]
    <3>1. \A a \in {"active", "expired"} :
              InArray(c, a) \in SUBSET Queueable /\ \A p \in InArray(c, a) : array[p] # None
      BY ArrayNames DEF InArray, Queueable
    <3> QED
      BY <1>2, <3>1 DEF PickNext
  <2>3. \A u \in Tasks : SameTask(u)
    BY <1>0, <2>1, <2>2, ArrayNames, Names DEF QueueTypes, SameTask
  <2> QED
    BY <2>3, Unseen
<1>3. CASE PickIdle(c) \/ PickAgain(c) \/ BalanceIdle(c) \/ LockBusiest(c) \/ Relock(c)
  <2>1. UNCHANGED <<state, array>>
    BY <1>3 DEF PickIdle, PickAgain, BalanceIdle, LockBusiest, Relock, taskVars
  <2> QED
    BY <2>1, Unseen DEF SameTask
<1>4. CASE Tick(c)
  <2>1. /\ state' = state
        /\ \/ array' = array
           \/ /\ array[curr[c]] = <<c, "active">>
              /\ array' = [array EXCEPT ![curr[c]] = <<c, "expired">>]
    BY <1>4 DEF Tick
  <2>2. \A u \in Tasks : SameTask(u)
    BY <1>0, <2>1, ArrayNames, Names DEF QueueTypes, SameTask
  <2> QED
    BY <2>2, Unseen
<1>5. CASE Pull(c)
  <2>1. state' = state
    BY <1>5 DEF Pull
  <2>2. PICK S \in SUBSET Tasks :
            /\ \A p \in S : array[p] # None
            /\ array' = [p \in DOMAIN array |-> IF p \in S THEN <<c, "active">> ELSE array[p]]
    BY <1>5 DEF Pull, CanMigrate
  <2>3. \A u \in Tasks : SameTask(u)
    BY <1>0, <2>1, <2>2, ArrayNames, Names DEF QueueTypes, SameTask
  <2> QED
    BY <2>3, Unseen
<1> QED
    BY <1>1, <1>2, <1>3, <1>4, <1>5 DEF Sched

\* The migration threads are not seen, but for the wakeup of the caller.
LEMMA MigrationRefines ==
    ASSUME SchedInv, NEW c \in CPUs, Migration(c)
    PROVE  SameView \/ SchedView!Next
<1>0. QueueTypes /\ RequestInv
    BY TypesOfQueues DEF SchedInv
<1>1. CASE MtTop(c)
  <2>1. array' = array /\ state' = [state EXCEPT ![migration_thread(c)] = "INTERRUPTIBLE"]
    BY <1>1 DEF MtTop
  <2>2. \A u \in Tasks : SameTask(u)
    BY <1>0, <2>1, Names DEF QueueTypes, SameTask
  <2> QED
    BY <2>2, Unseen
<1>2. CASE MtDest(c) \/ MtRepeat(c) \/ MtLock(c)
  <2>1. UNCHANGED <<state, array>>
    BY <1>2 DEF MtDest, MtRepeat, MtLock, taskVars
  <2> QED
    BY <2>1, Unseen DEF SameTask
<1>3. CASE MtMove(c)
  <2>1. PICK dest \in CPUs : dest = req[c].dest
    BY <1>3 DEF SchedInv, BusyInv, Busy, MtMove
  <2>2. /\ state' = state
        /\ \/ array' = array
           \/ /\ array[Moved(c)] # None
              /\ array' = [array EXCEPT ![Moved(c)] = <<dest, "active">>]
    BY <1>3, <2>1 DEF MtMove
  <2>3. \A u \in Tasks : SameTask(u)
    BY <1>0, <2>2, ArrayNames, Names DEF QueueTypes, SameTask
  <2> QED
    BY <2>3, Unseen
<1>4. CASE MtComplete(c)
  <2>1. TryToWakeUp(req[c].caller, FALSE) /\ mpc[c] = "complete"
    BY <1>4 DEF MtComplete
  <2>2. req[c].caller \in Threads
    BY <1>0, <2>1, Names DEF RequestInv
  <2> QED
    BY <2>1, <2>2, WakeView
<1> QED
    BY <1>1, <1>2, <1>3, <1>4 DEF Migration

\* What the tasks do: their own states, wakeups, fork and release_task.
LEMMA TaskStepRefines ==
    ASSUME SchedInv, NEW c \in CPUs, TaskStep(c)
    PROVE  SameView \/ SchedView!Next
<1>0. QueueTypes /\ RequestInv
    BY TypesOfQueues DEF SchedInv
<1>1. ASSUME NEW q \in Tasks, SetState(c, q) \/ Exit(c, q) \/ WaitForCompletion(c, q)
      PROVE  SameView \/ SchedView!Next
  <2>1. /\ cpc[c] = "run" /\ curr[c] = q /\ array' = array
        /\ \/ state' = state
           \/ /\ state[q] # "ZOMBIE"
              /\ \E s \in Sleeping \cup {"RUNNING", "ZOMBIE"} : state' = [state EXCEPT ![q] = s]
    BY <1>1 DEF SetState, Exit, WaitForCompletion, Runs, Sleeping
  <2>2. array[q] # None
    BY <2>1, RunningIsQueued
  <2>3. \A u \in Tasks \ {q} : SameTask(u)
    BY <1>0, <2>1, Names DEF QueueTypes, SameTask
  <2>4. CASE state' = state
    BY <2>1, <2>4, Unseen DEF SameTask
  <2>5. CASE state' # state
    <3>1. state'[q] \in Sleeping \cup {"RUNNING", "ZOMBIE"}
      BY <1>0, <2>1, <2>5, Names DEF QueueTypes
    <3> QED
      BY <2>1, <2>2, <2>3, <2>5, <3>1, OneTaskStep
  <2> QED
    BY <2>4, <2>5
<1>2. ASSUME NEW q \in Tasks, Yield(c, q)
      PROVE  SameView \/ SchedView!Next
  <2>1. /\ cpc[c] = "run" /\ curr[c] = q /\ state' = state
        /\ array' = [array EXCEPT ![q] = <<c, "expired">>]
    BY <1>2 DEF Yield, Runs
  <2>2. array[q] # None
    BY <2>1, RunningIsQueued
  <2>3. \A u \in Tasks : SameTask(u)
    BY <1>0, <2>1, <2>2, ArrayNames, Names DEF QueueTypes, SameTask
  <2> QED
    BY <2>3, Unseen
<1>3. ASSUME NEW q \in Tasks, WakeMigrationThread(c, q)
      PROVE  SameView \/ SchedView!Next
  <2>1. doing[q] = "wakemt" /\ TryToWakeUp(migration_thread(arg[q].rq), FALSE)
    BY <1>3 DEF WakeMigrationThread
  <2>2. migration_thread(arg[q].rq) \in Threads
    BY <1>0, <2>1, Names DEF RequestInv
  <2> QED
    BY <2>1, <2>2, WakeView
<1>4. ASSUME NEW q \in Tasks, NEW p \in Tasks, WakeUpSync(c, q, p)
      PROVE  SameView \/ SchedView!Next
  <2>1. UNCHANGED <<state, array>> \/ TryToWakeUp(p, TRUE)
    BY <1>4 DEF WakeUpSync
  <2>2. CASE UNCHANGED <<state, array>>
    BY <2>2, Unseen DEF SameTask
  <2>3. CASE TryToWakeUp(p, TRUE)
    BY <2>3, WakeView, Names
  <2> QED
    BY <2>1, <2>2, <2>3
<1>5. ASSUME NEW q \in Tasks, NEW p \in Tasks, Setscheduler(c, q, p)
      PROVE  SameView \/ SchedView!Next
  <2>1. PICK d \in CPUs : d = cpu[p]
    BY <1>0, Names DEF QueueTypes
  <2>2. /\ array[p] # None /\ state' = state
        /\ array' = [array EXCEPT ![p] = <<d, "active">>]
    BY <1>5, <2>1 DEF Setscheduler
  <2>3. \A u \in Tasks : SameTask(u)
    BY <1>0, <2>2, ArrayNames, Names DEF QueueTypes, SameTask
  <2> QED
    BY <2>3, Unseen
<1>6. ASSUME NEW q \in Tasks, NEW p \in Tasks, Fork(c, q, p)
      PROVE  SameView \/ SchedView!Next
  <2>1. /\ cpc[c] = "run" /\ curr[c] = q /\ state[p] = "none"
        /\ state' = [state EXCEPT ![p] = "RUNNING"]
        /\ array' = [array EXCEPT ![p] = array[q]]
    BY <1>6 DEF Fork, Runs
  <2>2. array[q] # None
    BY <2>1, RunningIsQueued
  <2>3. /\ state'[p] = "RUNNING" /\ array'[p] # None
        /\ \A u \in Tasks \ {p} : SameTask(u)
    BY <1>0, <2>1, <2>2, Names DEF QueueTypes, SameTask
  <2> QED
    BY <2>1, <2>3, OneTaskStep
<1>7. ASSUME NEW q \in Tasks, NEW p \in Tasks, ReleaseTask(c, q, p)
      PROVE  SameView \/ SchedView!Next
  <2>1. /\ state[p] = "ZOMBIE" /\ curr[cpu[p]] # p /\ array' = array
        /\ state' = [state EXCEPT ![p] = "none"]
    BY <1>7 DEF ReleaseTask, wait_task_inactive, task_running
  <2>2. array[p] = None
    BY <2>1 DEF SchedInv, QueueInv, RunnableIsQueued
  <2>3. state'[p] = "none" /\ \A u \in Tasks \ {p} : SameTask(u)
    BY <1>0, <2>1, Names DEF QueueTypes, SameTask
  <2> QED
    BY <2>1, <2>2, <2>3, OneTaskStep
<1>8. ASSUME NEW q \in Tasks, NEW p \in Tasks, NEW mask, SetCpusAllowed(c, q, p, mask)
      PROVE  SameView \/ SchedView!Next
    BY <1>8, Unseen DEF SetCpusAllowed, SameTask
<1> QED
    BY <1>1, <1>2, <1>3, <1>4, <1>5, <1>6, <1>7, <1>8 DEF TaskStep

LEMMA StepRefines ==
    ASSUME SchedInv, [Next]_vars
    PROVE  SameView \/ SchedView!Next
<1>1. ASSUME NEW p \in Tasks, WakeUp(p)
      PROVE  SameView \/ SchedView!Next
    BY <1>1, WakeView, Names DEF WakeUp
<1>2. CASE UNCHANGED vars
    BY <1>2, Unseen DEF vars, taskVars, SameTask
<1>3. ASSUME NEW c \in CPUs, Sched(c) \/ Migration(c) \/ TaskStep(c)
      PROVE  SameView \/ SchedView!Next
    BY <1>3, ScheduleRefines, MigrationRefines, TaskStepRefines
<1> QED
    BY <1>1, <1>2, <1>3 DEF Next

\* For any number of CPUs the scheduler is what the sleeping and waking code
\* takes it for.
THEOREM SchedulerImplementsTaskSched == Spec => ImplementsTaskSched
<1>1. Init => SchedView!Init
  <2> SUFFICES ASSUME Init PROVE SchedView!Init
    OBVIOUS
  <2>1. TState = [p \in Tasks |-> "RUNNING"]
    BY Names DEF Init, TState, Threads
  <2>2. \A p \in Tasks : array[p] # None
    <3>1. 0 \in CPUs
      BY RunQueueAssumption DEF CPUs
    <3> QED
      BY <3>1, ArrayNames, Names DEF Init, Threads
  <2>3. TQueued = [p \in Tasks |-> TRUE]
    BY <2>2 DEF TQueued
  <2> QED
    BY <2>1, <2>3, Zenon DEF SchedView!Init, TState, TQueued
<1>2. SchedInv /\ [Next]_vars => [SchedView!Next]_<<TState, TQueued>>
    BY StepRefines DEF SameView
<1>3. SchedInv /\ [Next]_vars =>
        [SchedView!Next]_<<[p \in Tasks |-> state[p]], [p \in Tasks |-> array[p] # None]>>
    BY <1>2 DEF TState, TQueued
<1> QED
    BY <1>1, <1>3, SchedInvariant, PTL DEF Spec, ImplementsTaskSched, SchedView!Spec
=============================================================================
