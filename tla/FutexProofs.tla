---------------------------- MODULE FutexProofs ----------------------------
(***************************************************************************)
(* Proofs about Futex, for any number of threads, address spaces and       *)
(* pages: a waiter that was taken off the queue returns 0 and no other     *)
(* does, no futex_q is used after its call has its result, and a waiter    *)
(* whose word stays in core is found by the thread that changed the word.  *)
(***************************************************************************)
EXTENDS Futex, ListFacts

-----------------------------------------------------------------------------
(***************************************************************************)
(* The queue.                                                              *)
(***************************************************************************)

\* list_add_tail of a new entry.
LEMMA Enqueued ==
    ASSUME queue \in Seq(Threads), NEW t \in Threads, queue' = Append(queue, t)
    PROVE  /\ queue' \in Seq(Threads) /\ Len(queue') = Len(queue) + 1
           /\ Range(queue') = Range(queue) \cup {t}
           /\ IsInjective(queue) /\ t \notin Range(queue) => IsInjective(queue')
  BY AppendElements, AppendInjective

\* list_del_init: exactly this entry is gone.
LEMMA Dequeued ==
    ASSUME queue \in Seq(Threads), IsInjective(queue), NEW i \in DOMAIN queue,
           Dequeue(i)
    PROVE  /\ queue' \in Seq(Threads) /\ Len(queue') = Len(queue) - 1
           /\ queue[i] \in Threads
           /\ Range(queue') = Range(queue) \ {queue[i]}
           /\ IsInjective(queue')
<1>1. PICK l \in Seq(Threads) : l = queue
  OBVIOUS
<1>2. i \in 1..Len(l) /\ queue' = SubSeq(l, 1, i - 1) \o SubSeq(l, i + 1, Len(l))
  BY <1>1 DEF Dequeue
<1> QED
  BY <1>1, <1>2, DeletedInjective

\* The callbacks move entries, none is lost or repeated.
LEMMA Rehashed ==
    ASSUME queue \in Seq(Threads), IsInjective(queue), NEW us, NEW p,
           Callbacks(us, p)
    PROVE  /\ queue' \in Seq(Threads) /\ Len(queue') = Len(queue)
           /\ Range(queue') = Range(queue)
           /\ IsInjective(queue')
<1>1. PICK order \in Bijection(DOMAIN queue, DOMAIN queue) :
        queue' = [i \in DOMAIN queue |-> queue[order[i]]]
  BY DEF Callbacks
<1> DEFINE D == DOMAIN queue
<1>2. /\ order \in [D -> D]
      /\ \A i, j \in D : order[i] = order[j] => i = j
      /\ \A j \in D : \E i \in D : order[i] = j
  BY Zenon DEF Bijection, Injection, Surjection, IsInjective
<1>3. D = 1..Len(queue) /\ Len(queue) \in Nat /\ \A i \in D : queue[i] \in Threads
  OBVIOUS
<1>4. /\ DOMAIN queue' = D
      /\ \A i \in D : queue'[i] = queue[order[i]] /\ order[i] \in D
  BY <1>1, <1>2
<1>5. queue' \in Seq(Threads) /\ Len(queue') = Len(queue)
  <2>1. queue' = [i \in 1..Len(queue) |-> queue[order[i]]]
    BY <1>1, <1>3
  <2>2. \A i \in 1..Len(queue) : queue[order[i]] \in Threads
    BY <1>3, <1>4
  <2> QED
    BY <1>3, <2>1, <2>2
<1> HIDE DEF D
<1>6. Range(queue') = Range(queue)
  <2>1. Range(queue') \subseteq Range(queue)
    BY <1>4 DEF Range, D
  <2>2. \A j \in D : queue[j] \in Range(queue')
    <3> SUFFICES ASSUME NEW j \in D PROVE queue[j] \in Range(queue')
      OBVIOUS
    <3>1. PICK i \in D : order[i] = j
      BY <1>2
    <3>2. queue'[i] = queue[j] /\ i \in DOMAIN queue'
      BY <1>4, <3>1
    <3> QED
      BY <3>2 DEF Range
  <2> QED
    BY <2>1, <2>2 DEF Range, D
<1>7. IsInjective(queue')
  <2>1. \A i, j \in D : queue[i] = queue[j] => i = j
    BY DEF IsInjective, D
  <2> QED
    BY <1>2, <1>4, <2>1 DEF IsInjective
<1> QED
  BY <1>5, <1>6, <1>7
-----------------------------------------------------------------------------
(***************************************************************************)
(* The kinds of steps.                                                     *)
(***************************************************************************)

\* A step of the memory management alone.
MmStep == \E m \in Mms : \/ SwapOut(m) \/ SwapIn(m) \/ Unmap(m) \/ Map(m)
                         \/ \E n \in Mms : Fork(m, n)

\* A fault pins a page or lets go of it, or do_wp_page reuses the page.
Pins(t) == \/ WpReuse(t)
           \/ \E l \in {"wait_fault", "wake_fault"} : Faulted(t, l) \/ Refault(t, l)

\* The places of a thread that has no futex_q, no lock and no result.
OuterPCs == {"idle", "wait", "wait_fault", "store", "wp_copy", "stored",
             "wake_fault"}

\* A step from one of them to another.
Outer(t) ==
    \/ FutexWait(t) \/ Store(t) \/ Stores(t) \/ StoreFaults(t) \/ WpCopy(t)
    \/ WpRace(t)
    \/ MustFault(t, "wait", "wait_fault") \/ MustFault(t, "stored", "wake_fault")
    \/ \E l \in {"wait_fault", "wake_fault"} : PinFails(t, l)

\* Every step is one of these, or of futex_wait, futex_wake or break_cow.
LEMMA StepCases ==
    ASSUME Next
    PROVE  \/ MmStep
           \/ \E t \in Threads :
                \/ Pins(t) \/ Outer(t) \/ WaitStep(t) \/ WakeStep(t)
                \/ InvalidateVcache(t) \/ EstablishPte(t) \/ Timeout(t) \/ Signal(t)
  BY Zenon DEF Next, MmStep, Pins, Outer, Fault, StoreStep

\* What the queues and the threads see of the memory management.
LEMMA QuietEffect ==
    ASSUME MmStep \/ \E t \in Threads : Pins(t)
    PROVE  UNCHANGED <<lockVars, listVars, taskVars, new_page, this, woken, ret,
                       told, pc>>
  BY DEF MmStep, Pins, SwapOut, SwapIn, Unmap, Map, Fork, MmUnchanged, WpReuse,
         Faulted, Refault, callVars

\* What they see of the steps from one outer place to another.
LEMMA OuterEffect ==
    ASSUME NEW t \in Threads, Outer(t)
    PROVE  /\ pc[t] \in OuterPCs
           /\ \E l \in OuterPCs : pc' = [pc EXCEPT ![t] = l]
           /\ UNCHANGED <<lockVars, listVars, taskVars, this, woken, ret, told>>
<1>1. CASE FutexWait(t) \/ Store(t) \/ Stores(t)
  BY <1>1 DEF FutexWait, Store, Stores, Goto, OuterPCs, callVars
<1>2. CASE StoreFaults(t) \/ WpCopy(t) \/ WpRace(t)
  BY <1>2 DEF StoreFaults, WpCopy, WpRace, Goto, OuterPCs, callVars
<1>3. CASE \/ MustFault(t, "wait", "wait_fault")
           \/ MustFault(t, "stored", "wake_fault")
           \/ \E l \in {"wait_fault", "wake_fault"} : PinFails(t, l)
  BY <1>3 DEF MustFault, PinFails, Goto, OuterPCs, callVars
<1> QED
  BY <1>1, <1>2, <1>3 DEF Outer

-----------------------------------------------------------------------------
(***************************************************************************)
(* Types.                                                                  *)
(***************************************************************************)

\* One value of a function is replaced.
LEMMA ExceptType ==
    ASSUME NEW D, NEW R, NEW f \in [D -> R], NEW d, NEW v \in R
    PROVE  [f EXCEPT ![d] = v] \in [D -> R]
    OBVIOUS

\* The types of what the memory management uses, of the locks and lists, of the
\* tasks, and of the calls.
MmTypes ==
    /\ pte \in [Mms -> Pages \cup {None}] /\ present \in [Mms -> BOOLEAN]
    /\ cow \in [Mms -> BOOLEAN] /\ word \in [Pages -> 0..1]
    /\ page \in [Threads -> Pages \cup {None}]
    /\ new_page \in [Threads -> Pages \cup {None}]

ListTypes ==
    /\ ptl \in [Mms -> Threads \cup {None}]
    /\ vcache_lock \in Threads \cup {None}
    /\ queue \in Seq(Threads)
    /\ qpage \in [Threads -> Pages \cup {None}]
    /\ vcache \subseteq Threads
    /\ this \in Threads \cup {None} /\ woken \in Nat

Results == {"none", "0", "EFAULT", "EWOULDBLOCK", "ETIMEDOUT", "EINTR"}

TaskTypes ==
    /\ waiters \subseteq Threads
    /\ state \in [Threads -> {"RUNNING", "INTERRUPTIBLE"}]
    /\ expired \in [Threads -> BOOLEAN] /\ sigpending \in [Threads -> BOOLEAN]
    /\ ret \in [Threads -> Results]
    /\ told \in [Threads -> BOOLEAN] /\ pc \in [Threads -> PCs]

LEMMA AllTypes == TypeOK <=> MmTypes /\ ListTypes /\ TaskTypes
  BY Zenon DEF TypeOK, MmTypes, ListTypes, TaskTypes, Results

LEMMA MmTypesStep ==
    ASSUME MmTypes, Next
    PROVE  MmTypes'
<1>0. Mm \in [Threads -> Mms]
  BY FutexAssumption
<1>1. CASE MmStep
  <2>1. PICK m \in Mms : \/ SwapOut(m) \/ SwapIn(m) \/ Unmap(m) \/ Map(m)
                         \/ \E n \in Mms : Fork(m, n)
    BY <1>1 DEF MmStep
  <2>2. CASE SwapOut(m) \/ Unmap(m)
    BY <2>2 DEF MmTypes, SwapOut, Unmap, MmUnchanged, callVars
  <2>5. CASE Map(m)
    <3>1. PICK p \in Pages : /\ pte' = [pte EXCEPT ![m] = p]
                             /\ word' = [word EXCEPT ![p] = 0]
      BY <2>5 DEF Map
    <3>2. 0 \in 0..1
      OBVIOUS
    <3>3. word' \in [Pages -> 0..1]
      BY <3>1, <3>2, ExceptType DEF MmTypes
    <3> QED
      BY <2>5, <3>1, <3>3 DEF MmTypes, Map, MmUnchanged, callVars
  <2>3. CASE SwapIn(m)
    <3>1. pte[m] \in Pages /\ word[pte[m]] \in 0..1
      BY <2>3 DEF MmTypes, SwapIn
    <3>2. pte' \in [Mms -> Pages \cup {None}]
      BY <2>3 DEF MmTypes, SwapIn
    <3>3. word' \in [Pages -> 0..1]
      BY <2>3, <3>1, ExceptType DEF MmTypes, SwapIn
    <3> QED
      BY <2>3, <3>2, <3>3 DEF MmTypes, SwapIn, MmUnchanged, callVars
  <2>4. CASE \E n \in Mms : Fork(m, n)
    BY <2>4 DEF MmTypes, Fork, MmUnchanged, callVars
  <2> QED
    BY <2>1, <2>2, <2>3, <2>4, <2>5
<1>2. ASSUME NEW t \in Threads, Pins(t) PROVE MmTypes'
  BY <1>0, <1>2 DEF MmTypes, Pins, WpReuse, Faulted, Refault, mmVars, callVars
<1>3. ASSUME NEW t \in Threads, Outer(t) PROVE MmTypes'
  <2>1. CASE WpCopy(t)
    <3>1. pte[Mm[t]] \in Pages /\ word[pte[Mm[t]]] \in 0..1
      BY <1>0, <2>1 DEF MmTypes, WpCopy, Mapped
    <3>2. PICK p \in Pages : /\ new_page' = [new_page EXCEPT ![t] = p]
                             /\ word' = [word EXCEPT ![p] = word[pte[Mm[t]]]]
      BY <2>1 DEF WpCopy
    <3>3. word' \in [Pages -> 0..1]
      BY <3>1, <3>2, ExceptType DEF MmTypes
    <3>4. page' = [page EXCEPT ![t] = pte[Mm[t]]] /\ UNCHANGED <<pte, present, cow>>
      BY <2>1 DEF WpCopy
    <3> QED
      BY <3>1, <3>2, <3>3, <3>4 DEF MmTypes
  <2>2. CASE WpRace(t)
    BY <2>2 DEF MmTypes, WpRace, mmVars
  <2>3. CASE Stores(t)
    BY <1>0, <2>3 DEF MmTypes, Stores, Mapped, callVars
  <2>4. CASE ~(WpCopy(t) \/ WpRace(t) \/ Stores(t))
    <3>1. UNCHANGED <<mmVars, callVars>>
      BY <1>3, <2>4 DEF Outer, FutexWait, Store, StoreFaults, MustFault, PinFails
    <3> QED
      BY <3>1 DEF MmTypes, mmVars, callVars
  <2> QED
    BY <2>1, <2>2, <2>3, <2>4
<1>4. ASSUME NEW t \in Threads, WaitStep(t) PROVE MmTypes'
  <2>1. UNCHANGED <<mmVars, new_page>>
    BY <1>4 DEF WaitStep, QueueMe, GetUser, AddWaitQueue, SetState, Check,
                ScheduleReturns, UnqueueMe, WaitReturns, callVars
  <2>2. \/ page' = page
        \/ page' = [page EXCEPT ![t] = None]
        \/ page' = [page EXCEPT ![t] = pte[Mm[t]]]
    BY <1>4 DEF WaitStep, QueueMe, Pin, GetUser, AddWaitQueue, SetState, Check,
                ScheduleReturns, UnqueueMe, WaitReturns, callVars
  <2> QED
    BY <1>0, <2>1, <2>2 DEF MmTypes, mmVars
<1>5. ASSUME NEW t \in Threads, WakeStep(t) PROVE MmTypes'
  <2>1. UNCHANGED <<mmVars, new_page>>
    BY <1>5 DEF WakeStep, WakeStart, WakeOne, Tell, WakeEnd
  <2>2. \/ page' = page
        \/ page' = [page EXCEPT ![t] = None]
        \/ page' = [page EXCEPT ![t] = pte[Mm[t]]]
    BY <1>5 DEF WakeStep, WakeStart, WakeOne, Tell, WakeEnd, Pin
  <2> QED
    BY <1>0, <2>1, <2>2 DEF MmTypes, mmVars
<1>6. ASSUME NEW t \in Threads, InvalidateVcache(t) \/ Timeout(t) \/ Signal(t)
      PROVE  MmTypes'
  BY <1>6 DEF MmTypes, InvalidateVcache, Timeout, Signal, mmVars, callVars
<1>7. ASSUME NEW t \in Threads, EstablishPte(t) PROVE MmTypes'
  BY <1>0, <1>7 DEF MmTypes, EstablishPte
<1> QED
  BY <1>1, <1>2, <1>3, <1>4, <1>5, <1>6, <1>7, StepCases

LEMMA ListTypesStep ==
    ASSUME MmTypes, ListTypes, IsInjective(queue), Next
    PROVE  ListTypes'
<1>0. Mm \in [Threads -> Mms]
  BY FutexAssumption
<1>1. CASE MmStep \/ \E t \in Threads : Pins(t)
  BY <1>1, QuietEffect DEF ListTypes, lockVars, listVars
<1>2. ASSUME NEW t \in Threads, Outer(t) PROVE ListTypes'
  BY <1>2, OuterEffect DEF ListTypes, lockVars, listVars
<1>3. ASSUME NEW t \in Threads, WaitStep(t) PROVE ListTypes'
  <2>1. CASE QueueMe(t)
    <3>1. queue' \in Seq(Threads)
      BY <2>1, Enqueued DEF QueueMe, ListTypes
    <3>2. page'[t] \in Pages \cup {None}
      BY <1>0, <2>1 DEF QueueMe, Pin, MmTypes
    <3> QED
      BY <2>1, <3>1, <3>2 DEF QueueMe, ListTypes, lockVars
  <2>2. CASE UnqueueMe(t)
    <3>1. queue' \in Seq(Threads)
      BY <2>2, Dequeued DEF UnqueueMe, ListTypes
    <3> QED
      BY <2>2, <3>1 DEF UnqueueMe, ListTypes, lockVars
  <2>3. CASE WaitReturns(t)
    BY <2>3 DEF WaitReturns, ListTypes, lockVars
  <2>4. CASE GetUser(t) \/ AddWaitQueue(t) \/ SetState(t) \/ Check(t)
             \/ ScheduleReturns(t)
    BY <2>4 DEF GetUser, AddWaitQueue, SetState, Check, ScheduleReturns, ListTypes,
                lockVars, listVars, callVars
  <2> QED
    BY <1>3, <2>1, <2>2, <2>3, <2>4 DEF WaitStep
<1>4. ASSUME NEW t \in Threads, WakeStep(t) PROVE ListTypes'
  <2>1. CASE WakeOne(t)
    <3>1. PICK i \in DOMAIN queue : /\ Dequeue(i)
                                    /\ vcache' = vcache \ {queue[i]}
                                    /\ this' = queue[i]
      BY <2>1 DEF WakeOne, Matching
    <3>2. queue' \in Seq(Threads) /\ queue[i] \in Threads
      BY <3>1, Dequeued DEF ListTypes
    <3> QED
      BY <2>1, <3>1, <3>2 DEF WakeOne, ListTypes, lockVars
  <2>2. CASE WakeStart(t) \/ Tell(t) \/ WakeEnd(t)
    BY <1>0, <2>2 DEF WakeStart, Tell, WakeEnd, ListTypes, lockVars, listVars
  <2> QED
    BY <1>4, <2>1, <2>2 DEF WakeStep
<1>5. ASSUME NEW t \in Threads, InvalidateVcache(t) PROVE ListTypes'
  <2> DEFINE us == {u \in Registered(Mm[t]) : Queued(u)}
  <2>1. Callbacks(us, new_page[t])
    BY <1>5 DEF InvalidateVcache
  <2> HIDE DEF us
  <2>2. queue' \in Seq(Threads)
    BY <2>1, Rehashed DEF ListTypes
  <2>3. qpage' \in [Threads -> Pages \cup {None}]
    BY <2>1 DEF Callbacks, Rehash, ListTypes, MmTypes
  <2> QED
    BY <1>0, <1>5, <2>2, <2>3 DEF InvalidateVcache, ListTypes, callVars
<1>6. ASSUME NEW t \in Threads, EstablishPte(t) \/ Timeout(t) \/ Signal(t)
      PROVE  ListTypes'
  BY <1>6 DEF EstablishPte, Timeout, Signal, ListTypes, lockVars, listVars, callVars
<1> QED
  BY <1>1, <1>2, <1>3, <1>4, <1>5, <1>6, StepCases

LEMMA TaskTypesStep ==
    ASSUME ListTypes, TaskTypes, Next
    PROVE  TaskTypes'
<1>1. CASE MmStep \/ \E t \in Threads : Pins(t)
  BY <1>1, QuietEffect DEF TaskTypes, taskVars
<1>2. ASSUME NEW t \in Threads, Outer(t) PROVE TaskTypes'
  <2>1. \E l \in PCs : pc' = [pc EXCEPT ![t] = l]
    BY <1>2, OuterEffect DEF OuterPCs, PCs, WaitPCs, WakePCs
  <2> QED
    BY <1>2, <2>1, OuterEffect DEF TaskTypes, taskVars
<1>3. ASSUME NEW t \in Threads, WaitStep(t) PROVE TaskTypes'
  <2>1. \E l \in PCs : pc' = [pc EXCEPT ![t] = l]
    BY <1>3 DEF WaitStep, QueueMe, GetUser, AddWaitQueue, SetState, Check,
                ScheduleReturns, UnqueueMe, WaitReturns, Awake, Goto, PCs, WaitPCs
  <2>2. \E r \in Results : ret' = [ret EXCEPT ![t] = r]
    <3>1. ret[t] \in Results /\ ret = [ret EXCEPT ![t] = ret[t]]
      BY DEF TaskTypes
    <3>2. CASE QueueMe(t) \/ AddWaitQueue(t) \/ SetState(t)
      BY <3>1, <3>2 DEF QueueMe, AddWaitQueue, SetState, callVars
    <3>3. CASE GetUser(t) \/ WaitReturns(t)
      BY <3>3 DEF GetUser, WaitReturns, Results
    <3>4. CASE Check(t) \/ ScheduleReturns(t)
      BY <3>1, <3>4 DEF Check, ScheduleReturns, Awake, Results
    <3>5. CASE UnqueueMe(t)
      BY <3>1, <3>5 DEF UnqueueMe, WokenResult, Results
    <3> QED
      BY <1>3, <3>2, <3>3, <3>4, <3>5 DEF WaitStep
  <2>3. ret' \in [Threads -> Results] /\ pc' \in [Threads -> PCs]
    BY <2>1, <2>2 DEF TaskTypes
  <2>4. /\ waiters' \subseteq Threads
        /\ state' \in [Threads -> {"RUNNING", "INTERRUPTIBLE"}]
    BY <1>3 DEF WaitStep, QueueMe, GetUser, AddWaitQueue, SetState, Check,
                ScheduleReturns, UnqueueMe, WaitReturns, Awake, TaskTypes, taskVars
  <2>5. /\ expired' \in [Threads -> BOOLEAN] /\ sigpending' \in [Threads -> BOOLEAN]
        /\ told' \in [Threads -> BOOLEAN]
    BY <1>3 DEF WaitStep, QueueMe, GetUser, AddWaitQueue, SetState, Check,
                ScheduleReturns, UnqueueMe, WaitReturns, TaskTypes, taskVars, callVars
  <2> QED
    BY <2>3, <2>4, <2>5 DEF TaskTypes
<1>4. ASSUME NEW t \in Threads, WakeStep(t) PROVE TaskTypes'
  <2>1. CASE WakeOne(t)
    BY <2>1 DEF WakeOne, Goto, PCs, WakePCs, TaskTypes, taskVars
  <2>2. CASE WakeStart(t) \/ Tell(t) \/ WakeEnd(t)
    BY <2>2 DEF WakeStart, Tell, WakeEnd, Goto, PCs, WakePCs, TaskTypes, taskVars
  <2> QED
    BY <1>4, <2>1, <2>2 DEF WakeStep
<1>5. ASSUME NEW t \in Threads, InvalidateVcache(t) \/ EstablishPte(t)
      PROVE  TaskTypes'
  BY <1>5 DEF InvalidateVcache, EstablishPte, Goto, PCs, TaskTypes, taskVars, callVars
<1>6. ASSUME NEW t \in Threads, Timeout(t) \/ Signal(t) PROVE TaskTypes'
  BY <1>6 DEF Timeout, Signal, TaskTypes, callVars
<1> QED
  BY <1>1, <1>2, <1>3, <1>4, <1>5, <1>6, StepCases

-----------------------------------------------------------------------------
(***************************************************************************)
(* The locks.                                                              *)
(***************************************************************************)

\* The places where a thread holds a page_table_lock.
HoldPCs == {"wp_set", "scan", "tell"}

LEMMA LocksStep ==
    ASSUME ListTypes, TaskTypes, LockInv, Next
    PROVE  LockInv'
<1>0. Mm \in [Threads -> Mms] /\ None \notin Threads
  BY FutexAssumption
<1>a. ASSUME NEW t \in Threads, NEW l, pc' = [pc EXCEPT ![t] = l], UNCHANGED lockVars,
             pc[t] \notin HoldPCs, l \notin HoldPCs
      PROVE  LockInv'
  BY <1>a DEF LockInv, HoldPCs, lockVars, TaskTypes
<1>1. CASE MmStep \/ \E t \in Threads : Pins(t)
  BY <1>1, QuietEffect DEF LockInv, lockVars
<1>2. ASSUME NEW t \in Threads, Outer(t) PROVE LockInv'
  <2>1. PICK l \in OuterPCs : pc' = [pc EXCEPT ![t] = l]
    BY <1>2, OuterEffect
  <2> QED
    BY <1>2, <1>a, <2>1, OuterEffect DEF OuterPCs, HoldPCs
<1>3. ASSUME NEW t \in Threads, WaitStep(t) PROVE LockInv'
  <2>1. \E l \in WaitPCs \cup {"idle"} : pc' = [pc EXCEPT ![t] = l]
    BY <1>3 DEF WaitStep, QueueMe, GetUser, AddWaitQueue, SetState, Check,
                ScheduleReturns, UnqueueMe, WaitReturns, Awake, Goto, WaitPCs
  <2>2. pc[t] \in WaitPCs /\ UNCHANGED lockVars
    BY <1>3 DEF WaitStep, QueueMe, Pin, GetUser, AddWaitQueue, SetState, Check,
                ScheduleReturns, UnqueueMe, WaitReturns, WaitPCs
  <2> QED
    BY <1>a, <2>1, <2>2 DEF WaitPCs, HoldPCs
<1>4. ASSUME NEW t \in Threads, WakeOne(t) \/ Tell(t) PROVE LockInv'
  BY <1>4 DEF WakeOne, Tell, Goto, LockInv, lockVars, TaskTypes
<1>5. ASSUME NEW t \in Threads, WakeStart(t) PROVE LockInv'
  <2>1. /\ ptl[Mm[t]] = None /\ vcache_lock = None
        /\ ptl' = [ptl EXCEPT ![Mm[t]] = t] /\ vcache_lock' = t
        /\ pc' = [pc EXCEPT ![t] = "scan"]
    BY <1>5 DEF WakeStart, Pin, FutexMmFree, Goto
  <2> QED
    BY <1>0, <2>1 DEF LockInv, ListTypes, TaskTypes
<1>6. ASSUME NEW t \in Threads, WakeEnd(t) PROVE LockInv'
  <2>1. /\ pc[t] = "scan" /\ pc' = [pc EXCEPT ![t] = "idle"]
        /\ ptl' = [ptl EXCEPT ![Mm[t]] = None] /\ vcache_lock' = None
    BY <1>6 DEF WakeEnd, Goto
  <2> QED
    BY <1>0, <2>1 DEF LockInv, ListTypes, TaskTypes
<1>7. ASSUME NEW t \in Threads, InvalidateVcache(t) PROVE LockInv'
  <2>1. /\ pc[t] = "wp_copy" /\ pc' = [pc EXCEPT ![t] = "wp_set"]
        /\ ptl[Mm[t]] = None /\ ptl' = [ptl EXCEPT ![Mm[t]] = t]
        /\ vcache_lock' = vcache_lock
    BY <1>7 DEF InvalidateVcache, Goto
  <2> QED
    BY <1>0, <2>1 DEF LockInv, ListTypes, TaskTypes
<1>8. ASSUME NEW t \in Threads, EstablishPte(t) PROVE LockInv'
  <2>1. /\ pc[t] = "wp_set" /\ pc' = [pc EXCEPT ![t] = "store"]
        /\ ptl' = [ptl EXCEPT ![Mm[t]] = None] /\ vcache_lock' = vcache_lock
    BY <1>8 DEF EstablishPte, Goto
  <2> QED
    BY <1>0, <2>1 DEF LockInv, ListTypes, TaskTypes
<1>9. ASSUME NEW t \in Threads, Timeout(t) \/ Signal(t) PROVE LockInv'
  BY <1>9 DEF Timeout, Signal, LockInv, lockVars
<1> QED
  BY <1>1, <1>2, <1>3, <1>4, <1>5, <1>6, <1>7, <1>8, <1>9, StepCases DEF WakeStep

\* Under vcache_lock there is one thread, and without it nobody is being told.
LEMMA OneWaker ==
    ASSUME ListTypes, LockInv, QueueInv
    PROVE  /\ \A t, u \in Threads : pc[t] \in {"scan", "tell"} /\ pc[u] \in {"scan", "tell"}
                                      => t = u
           /\ vcache_lock = None => this = None
           /\ \A t \in Threads : pc[t] = "scan" => this = None /\ vcache_lock = t
<1>0. None \notin Threads
  BY FutexAssumption
<1>1. \A t, u \in Threads : pc[t] \in {"scan", "tell"} /\ pc[u] \in {"scan", "tell"} => t = u
  BY DEF LockInv
<1>2. vcache_lock = None => this = None
  BY <1>0 DEF LockInv, QueueInv
<1>3. \A t \in Threads : pc[t] = "scan" => this = None /\ vcache_lock = t
  BY <1>1 DEF LockInv, QueueInv
<1> QED
  BY <1>1, <1>2, <1>3

-----------------------------------------------------------------------------
(***************************************************************************)
(* The queue, the vcache and the waker.                                    *)
(***************************************************************************)

\* The queue is never longer than there are threads.
LEMMA QueueLength ==
    ASSUME ListTypes, IsInjective(queue)
    PROVE  Cardinality(Threads) \in Nat /\ Len(queue) <= Cardinality(Threads)
<1>1. IsFiniteSet(Threads) /\ queue \in Seq(Threads)
  BY FutexAssumption DEF ListTypes
<1>2. Range(queue) \subseteq Threads
  BY <1>1 DEF Range
<1>3. Cardinality(Range(queue)) = Len(queue)
  BY <1>1, InjectiveCardinality
<1> QED
  BY <1>1, <1>2, <1>3, FS_Subset, FS_CardinalityType

LEMMA QueueStep ==
    ASSUME ListTypes, TaskTypes, LockInv, QueueInv, Next
    PROVE  QueueInv'
<1>0. None \notin Threads
  BY FutexAssumption
<1>1. CASE MmStep \/ \E t \in Threads : Pins(t)
  BY <1>1, QuietEffect DEF QueueInv, Queued, lockVars, listVars
<1>a. ASSUME NEW t \in Threads, NEW l, pc' = [pc EXCEPT ![t] = l],
             UNCHANGED <<vcache_lock, queue, vcache, this, woken>>,
             pc[t] # "tell", l # "tell",
             Queued(t) \/ this = t => l \in InWait
      PROVE  QueueInv'
  <2>1. IsInjective(queue)' /\ \A u \in Threads : u \in vcache' <=> Queued(u)'
    BY <1>a DEF QueueInv, Queued
  <2>2. \A u \in Threads : Queued(u)' \/ this' = u => pc'[u] \in InWait
    BY <1>a DEF QueueInv, Queued, TaskTypes
  <2>3. /\ this' # None => ~Queued(this)' /\ \E u \in Threads : pc'[u] = "tell"
        /\ \A u \in Threads : pc'[u] = "tell" => this' # None
    BY <1>a DEF QueueInv, Queued, TaskTypes
  <2> QED
    BY <1>a, <2>1, <2>2, <2>3 DEF QueueInv
<1>2. ASSUME NEW t \in Threads, Outer(t) PROVE QueueInv'
  <2>1. PICK l \in OuterPCs : pc' = [pc EXCEPT ![t] = l]
    BY <1>2, OuterEffect
  <2>2. ~Queued(t) /\ this # t /\ pc[t] # "tell" /\ l # "tell"
    BY <1>2, OuterEffect DEF QueueInv, OuterPCs, InWait
  <2> QED
    BY <1>2, <1>a, <2>1, <2>2, OuterEffect DEF lockVars, listVars
<1>3. ASSUME NEW t \in Threads, QueueMe(t) PROVE QueueInv'
  <2>1. /\ pc[t] \in {"wait", "wait_fault"} /\ pc' = [pc EXCEPT ![t] = "get_user"]
        /\ vcache_lock = None /\ vcache_lock' = None
        /\ queue' = Append(queue, t) /\ vcache' = vcache \cup {t}
        /\ this' = this /\ woken' = woken
    BY <1>3 DEF QueueMe, Pin, FutexMmFree, Goto, lockVars
  <2>2. ~Queued(t) /\ this = None /\ woken = 0
    BY <2>1, OneWaker DEF QueueInv, InWait
  <2>3. Range(queue') = Range(queue) \cup {t} /\ IsInjective(queue')
    BY <2>1, <2>2, Enqueued DEF ListTypes, QueueInv, Queued
  <2>4. \A u \in Threads : Queued(u)' <=> Queued(u) \/ u = t
    BY <2>3 DEF Queued
  <2>5. \A u \in Threads : pc'[u] # "tell"
    BY <1>0, <2>1 DEF LockInv, TaskTypes
  <2> QED
    BY <1>0, <2>1, <2>2, <2>3, <2>4, <2>5 DEF QueueInv, TaskTypes, InWait
<1>4. ASSUME NEW t \in Threads,
             GetUser(t) \/ AddWaitQueue(t) \/ SetState(t) \/ Check(t) \/ ScheduleReturns(t)
      PROVE  QueueInv'
  <2>1. \E l \in InWait : pc' = [pc EXCEPT ![t] = l]
    BY <1>4 DEF GetUser, AddWaitQueue, SetState, Check, ScheduleReturns, Awake, Goto,
                InWait
  <2>2. pc[t] \in InWait /\ UNCHANGED <<vcache_lock, queue, vcache, this, woken>>
    BY <1>4 DEF GetUser, AddWaitQueue, SetState, Check, ScheduleReturns, InWait,
                lockVars, listVars, callVars
  <2> QED
    BY <1>a, <2>1, <2>2 DEF InWait
<1>5. ASSUME NEW t \in Threads, UnqueueMe(t) PROVE QueueInv'
  <2>1. /\ pc[t] = "unqueue" /\ pc' = [pc EXCEPT ![t] = "unpin"]
        /\ vcache_lock = None /\ vcache_lock' = None
        /\ this' = this /\ woken' = woken
        /\ vcache' = IF Queued(t) THEN vcache \ {t} ELSE vcache
    BY <1>5 DEF UnqueueMe, UnqueueLock, Goto, lockVars
  <2>2. this = None /\ woken = 0
    BY <2>1, OneWaker DEF QueueInv
  <2>3. Range(queue') = Range(queue) \ {t} /\ IsInjective(queue')
    <3>1. CASE ~Queued(t) /\ UNCHANGED queue
      BY <3>1 DEF QueueInv, Queued
    <3>2. CASE \E i \in DOMAIN queue : queue[i] = t /\ Dequeue(i)
      BY <3>2, Dequeued DEF QueueInv, ListTypes
    <3> QED
      BY <1>5, <3>1, <3>2 DEF UnqueueMe
  <2>4. \A u \in Threads : Queued(u)' <=> Queued(u) /\ u # t
    BY <2>3 DEF Queued
  <2>5. \A u \in Threads : pc'[u] # "tell"
    BY <1>0, <2>1 DEF LockInv, TaskTypes
  <2>6. \A u \in Threads : u \in vcache' <=> Queued(u)'
    BY <2>1, <2>4 DEF QueueInv
  <2>7. \A u \in Threads : Queued(u)' => pc'[u] \in InWait
    BY <2>1, <2>4 DEF QueueInv, TaskTypes
  <2> QED
    BY <1>0, <2>1, <2>2, <2>3, <2>5, <2>6, <2>7 DEF QueueInv
<1>6. ASSUME NEW t \in Threads, WaitReturns(t) PROVE QueueInv'
  <2>1. /\ pc[t] = "unpin" /\ pc' = [pc EXCEPT ![t] = "idle"]
        /\ UNCHANGED <<vcache_lock, queue, vcache, this, woken>>
    BY <1>6 DEF WaitReturns, Goto, lockVars
  <2>2. ~(Queued(t) \/ this = t)
    BY <2>1 DEF QueueInv, InWait
  <2> QED
    BY <1>a, <2>1, <2>2
<1>7. ASSUME NEW t \in Threads, WakeStart(t) PROVE QueueInv'
  <2>1. /\ pc[t] \in {"stored", "wake_fault"} /\ pc' = [pc EXCEPT ![t] = "scan"]
        /\ vcache_lock = None /\ vcache_lock' = t /\ woken' = 0
        /\ UNCHANGED <<queue, vcache, this>>
    BY <1>7 DEF WakeStart, Pin, FutexMmFree, Goto, listVars
  <2>2. this = None
    BY <2>1, OneWaker
  <2>3. Len(queue) \in Nat /\ Len(queue) <= Cardinality(Threads)
    BY QueueLength DEF QueueInv, ListTypes
  <2>4. \A u \in Threads : pc'[u] # "tell"
    BY <1>0, <2>1 DEF LockInv, TaskTypes
  <2>5. \A u \in Threads : (Queued(u)' <=> Queued(u)) /\ (Queued(u) => u # t)
    BY <2>1 DEF Queued, QueueInv, InWait
  <2>6. woken' + Len(queue') + 0 <= Cardinality(Threads)
    BY <2>1, <2>3
  <2>7. \A u \in Threads : Queued(u)' => pc'[u] \in InWait
    BY <2>1, <2>5 DEF QueueInv, TaskTypes
  <2> QED
    BY <1>0, <2>1, <2>2, <2>4, <2>5, <2>6, <2>7 DEF QueueInv
<1>8. ASSUME NEW t \in Threads, WakeOne(t) PROVE QueueInv'
  <2>1. /\ pc[t] = "scan" /\ pc' = [pc EXCEPT ![t] = "tell"]
        /\ vcache_lock' = vcache_lock /\ woken' = woken
    BY <1>8 DEF WakeOne, Goto, lockVars
  <2>2. this = None /\ vcache_lock = t
    BY <2>1, OneWaker
  <2>3. PICK i \in DOMAIN queue : /\ Dequeue(i)
                                  /\ vcache' = vcache \ {queue[i]}
                                  /\ this' = queue[i]
    BY <1>8 DEF WakeOne, Matching
  <2>4. /\ queue[i] \in Threads /\ Len(queue') = Len(queue) - 1
        /\ Range(queue') = Range(queue) \ {queue[i]} /\ IsInjective(queue')
    BY <2>3, Dequeued DEF QueueInv, ListTypes
  <2>5. Queued(queue[i])
    BY DEF Queued, Range
  <2>6. \A u : Queued(u)' <=> Queued(u) /\ u # queue[i]
    BY <2>4 DEF Queued
  <2>7. pc[queue[i]] \in InWait /\ queue[i] # t
    BY <2>1, <2>4, <2>5 DEF QueueInv, InWait
  <2>8. \A u \in Threads : Queued(u)' \/ this' = u => pc'[u] \in InWait
    BY <2>1, <2>3, <2>4, <2>6, <2>7 DEF QueueInv, TaskTypes, InWait
  <2>9. \A u \in Threads : u \in vcache' <=> Queued(u)'
    BY <2>3, <2>6 DEF QueueInv
  <2>10. this' # None /\ ~Queued(this)' /\ pc'[t] = "tell"
    BY <1>0, <2>1, <2>3, <2>4 DEF TaskTypes, Queued
  <2>11. woken' + Len(queue') + 1 <= Cardinality(Threads) /\ vcache_lock' # None
    <3>1. woken + Len(queue) + 0 <= Cardinality(Threads)
      BY <1>0, <2>2 DEF QueueInv
    <3>2. woken \in Nat /\ Len(queue) \in Nat /\ Cardinality(Threads) \in Nat
      BY QueueLength DEF QueueInv, ListTypes
    <3> QED
      BY <1>0, <2>1, <2>2, <2>4, <3>1, <3>2
  <2> QED
    BY <2>4, <2>8, <2>9, <2>10, <2>11 DEF QueueInv
<1>9. ASSUME NEW t \in Threads, Tell(t) PROVE QueueInv'
  <2>1. /\ pc[t] = "tell" /\ pc' = [pc EXCEPT ![t] = "scan"] /\ this' = None
        /\ woken' = woken + 1 /\ UNCHANGED <<vcache_lock, queue, vcache>>
    BY <1>9 DEF Tell, Goto, lockVars, listVars
  <2>2. this # None /\ vcache_lock = t
    BY <2>1 DEF QueueInv, LockInv
  <2>3. \A u \in Threads : pc'[u] # "tell"
    BY <2>1, OneWaker DEF TaskTypes
  <2>4. \A u \in Threads : (Queued(u)' <=> Queued(u)) /\ (Queued(u) => u # t)
    BY <2>1 DEF Queued, QueueInv, InWait
  <2>5. \A u \in Threads : Queued(u)' => pc'[u] \in InWait
    BY <2>1, <2>4 DEF QueueInv, TaskTypes
  <2>6. woken' + Len(queue') + 0 <= Cardinality(Threads)
    <3>1. woken + Len(queue) + 1 <= Cardinality(Threads)
      BY <1>0, <2>2 DEF QueueInv
    <3>2. woken \in Nat /\ Len(queue) \in Nat /\ Cardinality(Threads) \in Nat
      BY QueueLength DEF QueueInv, ListTypes
    <3> QED
      BY <2>1, <3>1, <3>2
  <2> QED
    BY <1>0, <2>1, <2>2, <2>3, <2>4, <2>5, <2>6 DEF QueueInv
<1>10. ASSUME NEW t \in Threads, WakeEnd(t) PROVE QueueInv'
  <2>1. /\ pc[t] = "scan" /\ pc' = [pc EXCEPT ![t] = "idle"] /\ vcache_lock' = None
        /\ woken' = 0 /\ UNCHANGED <<this, queue, vcache>>
    BY <1>10 DEF WakeEnd, Goto, listVars
  <2>2. this = None
    BY <2>1, OneWaker
  <2>3. \A u \in Threads : pc'[u] # "tell"
    BY <2>1, OneWaker DEF TaskTypes
  <2>4. \A u \in Threads : (Queued(u)' <=> Queued(u)) /\ (Queued(u) => u # t)
    BY <2>1 DEF Queued, QueueInv, InWait
  <2>5. \A u \in Threads : Queued(u)' => pc'[u] \in InWait
    BY <2>1, <2>4 DEF QueueInv, TaskTypes
  <2> QED
    BY <1>0, <2>1, <2>2, <2>3, <2>4, <2>5 DEF QueueInv
<1>11. ASSUME NEW t \in Threads, InvalidateVcache(t) PROVE QueueInv'
  <2> DEFINE us == {u \in Registered(Mm[t]) : Queued(u)}
  <2>1. /\ pc[t] = "wp_copy" /\ pc' = [pc EXCEPT ![t] = "wp_set"]
        /\ Callbacks(us, new_page[t]) /\ UNCHANGED <<vcache_lock, vcache, this, woken>>
    BY <1>11 DEF InvalidateVcache, Goto, callVars
  <2> HIDE DEF us
  <2>2. /\ Len(queue') = Len(queue) /\ Range(queue') = Range(queue)
        /\ IsInjective(queue')
    BY <2>1, Rehashed DEF QueueInv, ListTypes
  <2>3. \A u : Queued(u)' <=> Queued(u)
    BY <2>2 DEF Queued
  <2>4. ~Queued(t) /\ this # t
    BY <2>1 DEF QueueInv, InWait
  <2>5. \A u \in Threads : Queued(u)' \/ this' = u => pc'[u] \in InWait
    BY <2>1, <2>3, <2>4 DEF QueueInv, TaskTypes
  <2>6. /\ this' # None => ~Queued(this)' /\ \E u \in Threads : pc'[u] = "tell"
        /\ \A u \in Threads : pc'[u] = "tell" => this' # None
    BY <2>1, <2>3 DEF QueueInv, Queued, TaskTypes
  <2> QED
    BY <2>1, <2>2, <2>3, <2>5, <2>6 DEF QueueInv
<1>12. ASSUME NEW t \in Threads, EstablishPte(t) PROVE QueueInv'
  <2>1. /\ pc[t] = "wp_set" /\ pc' = [pc EXCEPT ![t] = "store"]
        /\ UNCHANGED <<vcache_lock, queue, vcache, this, woken>>
    BY <1>12 DEF EstablishPte, Goto, listVars
  <2>2. ~(Queued(t) \/ this = t)
    BY <2>1 DEF QueueInv, InWait
  <2> QED
    BY <1>a, <2>1, <2>2
<1>13. ASSUME NEW t \in Threads, Timeout(t) \/ Signal(t) PROVE QueueInv'
  BY <1>13 DEF Timeout, Signal, QueueInv, Queued, lockVars, listVars, callVars
<1> QED
  BY <1>1, <1>2, <1>3, <1>4, <1>5, <1>6, <1>7, <1>8, <1>9, <1>10, <1>11, <1>12,
     <1>13, StepCases DEF WaitStep, WakeStep

-----------------------------------------------------------------------------
(***************************************************************************)
(* What a waiter knows and returns.                                        *)
(***************************************************************************)

\* ToldInv, SleepInv and WakeupsKept of one thread.
ToldOf(t) ==
    /\ pc[t] \in InWait => (told[t] <=> ~Queued(t))
    /\ told[t] => pc[t] \in InWait \cup {"unpin"}
    /\ pc[t] \in {"check", "schedule"} /\ Queued(t) /\ state[t] = "RUNNING"
          => expired[t] \/ sigpending[t]
    /\ pc[t] = "unqueue" /\ Queued(t) => ret[t] # "0"
    /\ pc[t] = "unpin" => (ret[t] = "0" <=> told[t])
    /\ pc[t] \in {"set_state", "check", "schedule"} => t \in waiters
    /\ pc[t] = "schedule" /\ state[t] = "INTERRUPTIBLE" /\ ~Queued(t) => this = t

LEMMA ToldParts ==
    ToldInv /\ SleepInv /\ WakeupsKept <=> \A t \in Threads : ToldOf(t)
  BY DEF ToldInv, SleepInv, WakeupsKept, ToldOf

\* The step does not touch t.
Untouched(t) ==
    /\ pc'[t] = pc[t] /\ told'[t] = told[t] /\ ret'[t] = ret[t]
    /\ state'[t] = state[t]
    /\ expired'[t] = expired[t] /\ sigpending'[t] = sigpending[t]
    /\ t \in waiters' <=> t \in waiters
    /\ Queued(t)' <=> Queued(t)
    /\ this = t => this' = t

LEMMA UntouchedTold ==
    ASSUME NEW t \in Threads, ToldOf(t), Untouched(t)
    PROVE  ToldOf(t)'
  BY DEF ToldOf, Untouched

LEMMA ToldStep ==
    ASSUME ListTypes, TaskTypes, LockInv, QueueInv, Next,
           \A t \in Threads : ToldOf(t)
    PROVE  \A t \in Threads : ToldOf(t)'
<1>0. None \notin Threads
  BY FutexAssumption
<1> SUFFICES ASSUME NEW v \in Threads PROVE ToldOf(v)'
  OBVIOUS
<1>1. ToldOf(v)
  OBVIOUS
<1>2. CASE MmStep \/ \E t \in Threads : Pins(t)
  BY <1>1, <1>2, QuietEffect DEF ToldOf, Queued, listVars, taskVars
<1>3. ASSUME NEW t \in Threads, Outer(t) PROVE ToldOf(v)'
  <2>1. PICK l \in OuterPCs : pc' = [pc EXCEPT ![t] = l]
    BY <1>3, OuterEffect
  <2>2. pc[t] \in OuterPCs /\ UNCHANGED <<listVars, taskVars, this, ret, told>>
    BY <1>3, OuterEffect
  <2>3. CASE v = t
    BY <1>1, <2>1, <2>2, <2>3
    DEF ToldOf, OuterPCs, InWait, TaskTypes, listVars, taskVars
  <2>4. CASE v # t
    BY <1>1, <2>1, <2>2, <2>4, UntouchedTold
    DEF Untouched, Queued, TaskTypes, listVars, taskVars
  <2> QED
    BY <2>3, <2>4
<1>4. ASSUME NEW t \in Threads, QueueMe(t) PROVE ToldOf(v)'
  <2>1. /\ pc[t] \in {"wait", "wait_fault"} /\ pc' = [pc EXCEPT ![t] = "get_user"]
        /\ queue' = Append(queue, t) /\ UNCHANGED <<taskVars, this, ret, told>>
    BY <1>4 DEF QueueMe, Pin, Goto
  <2>2. Range(queue') = Range(queue) \cup {t}
    BY <2>1, Enqueued DEF ListTypes
  <2>3. CASE v = t
    <3>1. Queued(t)'
      BY <2>2 DEF Queued
    <3> QED
      BY <1>1, <2>1, <2>3, <3>1 DEF ToldOf, InWait, TaskTypes
  <2>4. CASE v # t
    BY <1>1, <2>1, <2>2, <2>4, UntouchedTold DEF Untouched, Queued, TaskTypes, taskVars
  <2> QED
    BY <2>3, <2>4
<1>5. ASSUME NEW t \in Threads,
             GetUser(t) \/ AddWaitQueue(t) \/ SetState(t) \/ Check(t) \/ ScheduleReturns(t)
      PROVE  ToldOf(v)'
  <2>1. UNCHANGED <<queue, this, told, expired, sigpending>>
    BY <1>5 DEF GetUser, AddWaitQueue, SetState, Check, ScheduleReturns, listVars,
                taskVars, callVars
  <2>2. CASE v # t
    <3>1. /\ \E l : pc' = [pc EXCEPT ![t] = l]
          /\ ret'[v] = ret[v] /\ state'[v] = state[v]
          /\ v \in waiters' <=> v \in waiters
      BY <1>5, <2>2 DEF GetUser, AddWaitQueue, SetState, Check, ScheduleReturns, Awake,
                        Goto, taskVars, callVars, TaskTypes
    <3> QED
      BY <1>1, <2>1, <2>2, <3>1, UntouchedTold DEF Untouched, Queued, TaskTypes
  <2>3. CASE v = t /\ GetUser(t)
    BY <1>1, <2>1, <2>3 DEF GetUser, Goto, ToldOf, Queued, InWait, TaskTypes, taskVars
  <2>4. CASE v = t /\ AddWaitQueue(t)
    BY <1>1, <2>1, <2>4 DEF AddWaitQueue, Goto, ToldOf, Queued, InWait, TaskTypes
  <2>5. CASE v = t /\ SetState(t)
    BY <1>1, <2>1, <2>5 DEF SetState, Goto, ToldOf, Queued, InWait, TaskTypes
  <2>6. CASE v = t /\ Check(t)
    BY <1>1, <2>1, <2>6 DEF Check, MustSleep, Awake, Goto, ToldOf, Queued, InWait, TaskTypes
  <2>7. CASE v = t /\ ScheduleReturns(t)
    <3>1. /\ pc[t] = "schedule" /\ pc' = [pc EXCEPT ![t] = "unqueue"]
          /\ state[t] = "RUNNING" \/ sigpending[t]
          /\ expired[t] \/ sigpending[t] => ret'[t] # "0"
      BY <2>7 DEF ScheduleReturns, Sleeps, Awake, Goto, TaskTypes
    <3>2. Queued(t)' => ret'[t] # "0"
      BY <1>1, <2>1, <2>7, <3>1 DEF ToldOf, Queued
    <3>3. pc'[t] = "unqueue" /\ (told'[t] <=> ~Queued(t)')
      BY <1>1, <2>1, <2>7, <3>1 DEF ToldOf, Queued, InWait, TaskTypes
    <3> QED
      BY <2>7, <3>2, <3>3 DEF ToldOf, InWait
  <2> QED
    BY <1>5, <2>2, <2>3, <2>4, <2>5, <2>6, <2>7
<1>6. ASSUME NEW t \in Threads, UnqueueMe(t) PROVE ToldOf(v)'
  <2>1. /\ pc[t] = "unqueue" /\ pc' = [pc EXCEPT ![t] = "unpin"]
        /\ ret' = [ret EXCEPT ![t] = WokenResult(t)]
        /\ UNCHANGED <<taskVars, this, told>>
    BY <1>6 DEF UnqueueMe, Goto
  <2>2. CASE v = t
    <3>1. WokenResult(t) = "0" <=> told[t]
      BY <1>1, <2>1, <2>2 DEF WokenResult, ToldOf, InWait
    <3> QED
      BY <2>1, <2>2, <3>1 DEF ToldOf, InWait, TaskTypes
  <2>3. CASE v # t
    <3>1. Queued(v)' <=> Queued(v)
      <4>1. CASE ~Queued(t) /\ UNCHANGED queue
        BY <4>1 DEF Queued
      <4>2. CASE \E i \in DOMAIN queue : queue[i] = t /\ Dequeue(i)
        BY <2>3, <4>2, Dequeued DEF Queued, QueueInv, ListTypes
      <4> QED
        BY <1>6, <4>1, <4>2 DEF UnqueueMe
    <3> QED
      BY <1>1, <2>1, <2>3, <3>1, UntouchedTold DEF Untouched, TaskTypes, taskVars
  <2> QED
    BY <2>2, <2>3
<1>7. ASSUME NEW t \in Threads, WaitReturns(t) PROVE ToldOf(v)'
  <2>1. CASE v = t
    BY <1>7, <2>1 DEF WaitReturns, Goto, ToldOf, InWait, TaskTypes
  <2>2. CASE v # t
    <3>1. Untouched(v)
      BY <1>7, <2>2 DEF WaitReturns, Goto, Untouched, Queued, TaskTypes
    <3> QED
      BY <1>1, <3>1, UntouchedTold
  <2> QED
    BY <2>1, <2>2
<1>8. ASSUME NEW t \in Threads, WakeStart(t) \/ WakeEnd(t) \/ EstablishPte(t)
      PROVE  ToldOf(v)'
  <2>1. /\ pc[t] \notin InWait \cup {"unpin"}
        /\ \E l \in {"scan", "idle", "store"} : pc' = [pc EXCEPT ![t] = l]
        /\ UNCHANGED <<listVars, taskVars, this, ret, told>>
    BY <1>8 DEF WakeStart, Pin, WakeEnd, EstablishPte, Goto, InWait
  <2>2. CASE v = t
    BY <1>1, <2>1, <2>2 DEF ToldOf, InWait, TaskTypes
  <2>3. CASE v # t
    BY <1>1, <2>1, <2>3, UntouchedTold DEF Untouched, Queued, TaskTypes, listVars, taskVars
  <2> QED
    BY <2>2, <2>3
<1>9. ASSUME NEW t \in Threads, WakeOne(t) PROVE ToldOf(v)'
  <2>1. /\ pc[t] = "scan" /\ pc' = [pc EXCEPT ![t] = "tell"]
        /\ UNCHANGED <<taskVars, ret>>
    BY <1>9 DEF WakeOne, Goto
  <2>2. PICK i \in DOMAIN queue : /\ Dequeue(i) /\ this' = queue[i]
                                  /\ told' = [told EXCEPT ![queue[i]] = TRUE]
    BY <1>9 DEF WakeOne, Matching
  <2>3. /\ queue[i] \in Threads /\ Queued(queue[i]) /\ this = None
        /\ \A u : Queued(u)' <=> Queued(u) /\ u # queue[i]
    BY <2>1, <2>2, Dequeued, OneWaker DEF Queued, Range, QueueInv, ListTypes
  <2>4. pc[queue[i]] \in InWait
    BY <2>3 DEF QueueInv
  <2>5. CASE v = queue[i]
    <3>1. pc'[v] = pc[v] /\ told'[v] /\ ~Queued(v)' /\ this' = v /\ pc[v] \in InWait
      BY <2>1, <2>2, <2>3, <2>4, <2>5 DEF TaskTypes, InWait
    <3> QED
      BY <1>1, <2>1, <3>1 DEF ToldOf, InWait, taskVars
  <2>6. CASE v = t
    <3>1. pc'[v] = "tell" /\ told'[v] = told[v]
      BY <2>1, <2>2, <2>3, <2>4, <2>6 DEF TaskTypes, InWait
    <3>2. ~told[v]
      BY <1>1, <2>1, <2>6 DEF ToldOf, InWait
    <3> QED
      BY <3>1, <3>2 DEF ToldOf, InWait
  <2>7. CASE v # queue[i] /\ v # t
    <3>1. /\ pc'[v] = pc[v] /\ told'[v] = told[v] /\ this # v
          /\ Queued(v)' <=> Queued(v)
      BY <1>0, <2>1, <2>2, <2>3, <2>7 DEF TaskTypes
    <3> QED
      BY <1>1, <2>1, <3>1, UntouchedTold DEF Untouched, taskVars
  <2> QED
    BY <2>5, <2>6, <2>7
<1>10. ASSUME NEW t \in Threads, Tell(t) PROVE ToldOf(v)'
  <2>1. /\ pc[t] = "tell" /\ pc' = [pc EXCEPT ![t] = "scan"]
        /\ UNCHANGED <<queue, waiters, expired, sigpending, ret, told>>
        /\ state' = IF this \in waiters THEN [state EXCEPT ![this] = "RUNNING"] ELSE state
    BY <1>10 DEF Tell, Goto, listVars
  <2>2. this # t /\ this # None /\ ~Queued(this)
    BY <2>1 DEF QueueInv, InWait
  <2>3. CASE v = this
    <3>1. pc'[v] = pc[v] /\ ~Queued(v)' /\ (v \in waiters => state'[v] = "RUNNING")
      BY <2>1, <2>2, <2>3 DEF Queued, TaskTypes
    <3> QED
      BY <1>1, <2>1, <2>2, <2>3, <3>1 DEF ToldOf
  <2>4. CASE v = t
    <3>1. pc'[v] = "scan" /\ ~told'[v]
      BY <1>1, <2>1, <2>4 DEF ToldOf, InWait, TaskTypes
    <3> QED
      BY <3>1 DEF ToldOf, InWait
  <2>5. CASE v # this /\ v # t
    <3>1. pc'[v] = pc[v] /\ state'[v] = state[v]
      BY <2>1, <2>5 DEF TaskTypes
    <3> QED
      BY <1>1, <2>1, <2>5, <3>1, UntouchedTold DEF Untouched, Queued
  <2> QED
    BY <2>3, <2>4, <2>5
<1>11. ASSUME NEW t \in Threads, InvalidateVcache(t) PROVE ToldOf(v)'
  <2> DEFINE us == {u \in Registered(Mm[t]) : Queued(u)}
  <2>1. /\ pc[t] = "wp_copy" /\ pc' = [pc EXCEPT ![t] = "wp_set"]
        /\ Callbacks(us, new_page[t]) /\ UNCHANGED <<taskVars, this, ret, told>>
    BY <1>11 DEF InvalidateVcache, Goto, callVars
  <2> HIDE DEF us
  <2>2. Queued(v)' <=> Queued(v)
    BY <2>1, Rehashed DEF Queued, QueueInv, ListTypes
  <2>3. CASE v = t
    BY <1>1, <2>1, <2>3 DEF ToldOf, InWait, TaskTypes
  <2>4. CASE v # t
    BY <1>1, <2>1, <2>2, <2>4, UntouchedTold DEF Untouched, TaskTypes, taskVars
  <2> QED
    BY <2>3, <2>4
<1>12. ASSUME NEW t \in Threads, Timeout(t) \/ Signal(t) PROVE ToldOf(v)'
  BY <1>1, <1>12 DEF Timeout, Signal, ToldOf, Queued, TaskTypes, listVars, callVars
<1> QED
  BY <1>2, <1>3, <1>4, <1>5, <1>6, <1>7, <1>8, <1>9, <1>10, <1>11, <1>12,
     StepCases DEF WaitStep, WakeStep

-----------------------------------------------------------------------------
(***************************************************************************)
(* Pages.                                                                  *)
(***************************************************************************)

\* The three parts of PageInv: pages that can be written, unfinished copies, and
\* the mapping under page_table_lock.
CowInv == \A m, n \in Mms : pte[m] # None /\ ~cow[m] /\ pte[n] = pte[m] => n = m

CopyOf(t) ==
    /\ new_page[t] # None <=> pc[t] \in {"wp_copy", "wp_set"}
    /\ new_page[t] # None =>
        /\ \A m \in Mms : pte[m] # new_page[t]
        /\ \A u \in Threads : new_page[u] = new_page[t] => u = t
        /\ page[t] # None
        /\ word[new_page[t]] # 0 => word[page[t]] # 0

HeldOf(t) == pc[t] \in HoldPCs => page[t] = pte[Mm[t]] /\ page[t] # None

LEMMA PageParts ==
    PageInv <=> CowInv /\ \A t \in Threads : CopyOf(t) /\ HeldOf(t)
  BY DEF PageInv, CowInv, CopyOf, HeldOf, HoldPCs

LEMMA PagePartsNext ==
    PageInv' <=> CowInv' /\ \A t \in Threads : CopyOf(t)' /\ HeldOf(t)'
  BY DEF PageInv, CowInv, CopyOf, HeldOf, HoldPCs

\* A page is mapped into m and gets its contents: nobody else has it.
LEMMA FreshPage ==
    ASSUME MmTypes, PageInv, NEW m \in Mms, NEW p \in Pages, Free(p), NEW w,
           pte' = [pte EXCEPT ![m] = p], word' = [word EXCEPT ![p] = w],
           UNCHANGED <<page, new_page, pc>>
    PROVE  \A t \in Threads : CopyOf(t)'
<1> SUFFICES ASSUME NEW t \in Threads PROVE CopyOf(t)'
  OBVIOUS
<1>0. None \notin Pages
  BY FutexAssumption
<1>1. CopyOf(t)
  BY PageParts
<1>2. new_page[t] # p /\ page[t] # p
  BY DEF Free, Pinned
<1>3. ASSUME new_page[t] # None
      PROVE  word'[new_page[t]] = word[new_page[t]] /\ word'[page[t]] = word[page[t]]
  BY <1>1, <1>2, <1>3 DEF CopyOf, MmTypes
<1>4. ASSUME NEW n \in Mms PROVE pte'[n] = p \/ pte'[n] = pte[n]
  BY DEF MmTypes
<1> QED
  BY <1>1, <1>2, <1>3, <1>4 DEF CopyOf

\* The steps of the memory management.
LEMMA MmPages ==
    ASSUME MmTypes, LockInv, PageInv, MmStep
    PROVE  PageInv'
<1>0. Mm \in [Threads -> Mms] /\ None \notin Threads /\ None \notin Pages
  BY FutexAssumption
<1>1. PICK m \in Mms : \/ SwapOut(m) \/ SwapIn(m) \/ Unmap(m) \/ Map(m)
                       \/ \E n \in Mms : Fork(m, n)
  BY DEF MmStep
<1>2. UNCHANGED <<page, new_page, pc>>
  BY <1>1 DEF SwapOut, SwapIn, Unmap, Map, Fork, MmUnchanged, callVars
<1>3. CowInv /\ \A t \in Threads : CopyOf(t) /\ HeldOf(t)
  BY PageParts
<1>4. ptl[m] = None => \A t \in Threads : Mm[t] = m => pc[t] \notin HoldPCs
  BY <1>0 DEF LockInv, HoldPCs
<1>5. CASE SwapOut(m)
  BY <1>2, <1>5 DEF SwapOut, PageInv
<1>6. CASE SwapIn(m)
  <2>1. ptl[m] = None /\ cow' = [cow EXCEPT ![m] = TRUE] /\ pte[m] # None
    BY <1>6 DEF SwapIn
  <2>2. CASE UNCHANGED <<pte, word>>
    <3>1. CowInv'
      BY <1>3, <2>1, <2>2 DEF CowInv, MmTypes
    <3>2. \A t \in Threads : CopyOf(t)' /\ HeldOf(t)'
      BY <1>2, <1>3, <2>2 DEF CopyOf, HeldOf
    <3> QED
      BY <3>1, <3>2, PagePartsNext
  <2>3. ASSUME NEW p \in Pages, Free(p), pte' = [pte EXCEPT ![m] = p],
               word' = [word EXCEPT ![p] = word[pte[m]]]
        PROVE  PageInv'
    <3>1. CowInv'
      BY <1>0, <1>3, <2>1, <2>3 DEF CowInv, MmTypes, Free, Sharers
    <3>2. \A t \in Threads : CopyOf(t)'
      BY <1>2, <2>3, FreshPage
    <3>3. \A t \in Threads : HeldOf(t)'
      BY <1>0, <1>2, <1>3, <1>4, <2>1, <2>3 DEF HeldOf, MmTypes
    <3> QED
      BY <3>1, <3>2, <3>3, PagePartsNext
  <2> QED
    BY <1>6, <2>2, <2>3 DEF SwapIn
<1>7. CASE Unmap(m)
  <2>1. /\ ptl[m] = None /\ pte' = [pte EXCEPT ![m] = None]
        /\ UNCHANGED <<cow, word>>
    BY <1>7 DEF Unmap
  <2>2. CowInv'
    BY <1>3, <2>1 DEF CowInv, MmTypes
  <2>3. \A t \in Threads : CopyOf(t)'
    BY <1>2, <1>3, <2>1 DEF CopyOf, MmTypes
  <2>4. \A t \in Threads : HeldOf(t)'
    BY <1>0, <1>2, <1>3, <1>4, <2>1 DEF HeldOf, MmTypes
  <2> QED
    BY <2>2, <2>3, <2>4, PagePartsNext
<1>8. CASE Map(m)
  <2>1. PICK p \in Pages : /\ Free(p) /\ pte' = [pte EXCEPT ![m] = p]
                           /\ word' = [word EXCEPT ![p] = 0]
    BY <1>8 DEF Map
  <2>2. cow' = [cow EXCEPT ![m] = FALSE] /\ pte[m] = None
    BY <1>8 DEF Map
  <2>3. CowInv'
    BY <1>0, <1>3, <2>1, <2>2 DEF CowInv, MmTypes, Free, Sharers
  <2>4. \A t \in Threads : CopyOf(t)'
    BY <1>2, <2>1, FreshPage
  <2>5. \A t \in Threads : HeldOf(t)'
    BY <1>0, <1>2, <1>3, <2>1, <2>2 DEF HeldOf, MmTypes
  <2> QED
    BY <2>3, <2>4, <2>5, PagePartsNext
<1>9. ASSUME NEW n \in Mms, Fork(m, n) PROVE PageInv'
  <2>1. /\ m # n /\ pte' = [pte EXCEPT ![n] = pte[m]] /\ word' = word
        /\ cow' = [cow EXCEPT ![m] = TRUE, ![n] = TRUE]
        /\ \A t \in Threads : Mm[t] = n => pc[t] = "idle"
    BY <1>9 DEF Fork
  <2>2. CowInv'
    BY <1>3, <2>1 DEF CowInv, MmTypes
  <2>3. \A t \in Threads : CopyOf(t)'
    BY <1>2, <1>3, <2>1 DEF CopyOf, MmTypes
  <2>4. \A t \in Threads : HeldOf(t)'
    BY <1>0, <1>2, <1>3, <2>1 DEF HeldOf, HoldPCs, MmTypes
  <2> QED
    BY <2>2, <2>3, <2>4, PagePartsNext
<1> QED
  BY <1>1, <1>5, <1>6, <1>7, <1>8, <1>9

LEMMA PagesStep ==
    ASSUME MmTypes, TaskTypes, LockInv, PageInv, Next
    PROVE  PageInv'
<1>0. Mm \in [Threads -> Mms] /\ None \notin Threads /\ None \notin Pages
  BY FutexAssumption
<1>1. CowInv /\ \A t \in Threads : CopyOf(t) /\ HeldOf(t)
  BY PageParts
<1>a. ASSUME NEW t \in Threads, UNCHANGED <<mmVars, new_page>>,
             pc[t] \notin {"wp_copy", "wp_set"}, pc'[t] \notin {"wp_copy", "wp_set"},
             HeldOf(t)',
             \A u \in Threads \ {t} : page'[u] = page[u] /\ pc'[u] = pc[u]
      PROVE  PageInv'
  <2>1. CowInv'
    BY <1>1, <1>a DEF CowInv, mmVars
  <2>2. CopyOf(t)'
    BY <1>1, <1>a DEF CopyOf
  <2>3. \A u \in Threads \ {t} : CopyOf(u)' /\ HeldOf(u)'
    BY <1>1, <1>a DEF CopyOf, HeldOf, mmVars
  <2> QED
    BY <1>a, <2>1, <2>2, <2>3, PagePartsNext
<1>2. CASE MmStep
  BY <1>2, MmPages
<1>3. ASSUME NEW t \in Threads, Pins(t) PROVE PageInv'
  <2>1. CASE WpReuse(t)
    <3>1. /\ Exclusive(pte[Mm[t]]) /\ cow' = [cow EXCEPT ![Mm[t]] = FALSE]
          /\ UNCHANGED <<pte, word, page, new_page, pc>>
      BY <2>1 DEF WpReuse, callVars
    <3>2. \A n \in Mms : pte[n] = pte[Mm[t]] => n = Mm[t]
      <4>1. PICK m \in Mms : Sharers(pte[Mm[t]]) = {m}
        BY <3>1 DEF Exclusive
      <4>2. Mm[t] \in Sharers(pte[Mm[t]])
        BY <1>0 DEF Sharers
      <4>3. \A n \in Mms : pte[n] = pte[Mm[t]] => n \in Sharers(pte[Mm[t]])
        BY DEF Sharers
      <4> QED
        BY <4>1, <4>2, <4>3
    <3>3. CowInv'
      BY <1>0, <1>1, <3>1, <3>2 DEF CowInv, MmTypes
    <3>4. \A u \in Threads : CopyOf(u)' /\ HeldOf(u)'
      BY <1>1, <3>1 DEF CopyOf, HeldOf
    <3> QED
      BY <3>3, <3>4, PagePartsNext
  <2>2. ASSUME NEW l \in {"wait_fault", "wake_fault"}, Faulted(t, l) \/ Refault(t, l)
        PROVE  PageInv'
    <3>1. /\ pc[t] = l /\ pc' = pc /\ UNCHANGED <<mmVars, new_page>>
          /\ \E x : page' = [page EXCEPT ![t] = x]
      BY <2>2 DEF Faulted, Refault
    <3> QED
      BY <1>a, <3>1 DEF HeldOf, HoldPCs, MmTypes
  <2> QED
    BY <1>3, <2>1, <2>2 DEF Pins
<1>4. ASSUME NEW t \in Threads, Outer(t) PROVE PageInv'
  <2>1. CASE WpCopy(t)
    <3>1. PICK p \in Pages : /\ Free(p) /\ new_page' = [new_page EXCEPT ![t] = p]
                             /\ word' = [word EXCEPT ![p] = word[pte[Mm[t]]]]
      BY <2>1 DEF WpCopy
    <3>2. /\ pc' = [pc EXCEPT ![t] = "wp_copy"]
          /\ page' = [page EXCEPT ![t] = pte[Mm[t]]]
          /\ pte[Mm[t]] # None /\ UNCHANGED <<pte, cow>>
      BY <2>1 DEF WpCopy, Mapped, Goto
    <3>3. /\ \A n \in Mms : pte[n] # p
          /\ \A u \in Threads : page[u] # p /\ new_page[u] # p
      BY <3>1 DEF Free, Sharers, Pinned
    <3>4. CopyOf(t)'
      BY <1>0, <3>1, <3>2, <3>3 DEF CopyOf, MmTypes, TaskTypes
    <3>5. HeldOf(t)'
      BY <3>2 DEF HeldOf, HoldPCs, TaskTypes
    <3>6. ASSUME NEW u \in Threads, u # t PROVE CopyOf(u)' /\ HeldOf(u)'
      <4>1. /\ pc'[u] = pc[u] /\ page'[u] = page[u] /\ new_page'[u] = new_page[u]
            /\ new_page'[t] = p
            /\ \A v \in Threads : v # t => new_page'[v] = new_page[v]
        BY <3>1, <3>2, <3>6 DEF MmTypes, TaskTypes
      <4>2. HeldOf(u)'
        BY <1>1, <3>2, <4>1 DEF HeldOf
      <4>3. ASSUME new_page[u] # None
            PROVE  word'[new_page[u]] = word[new_page[u]] /\ word'[page[u]] = word[page[u]]
        BY <1>1, <3>1, <3>3, <4>3 DEF CopyOf, MmTypes
      <4> QED
        BY <1>1, <3>2, <3>3, <4>1, <4>2, <4>3 DEF CopyOf
    <3> QED
      BY <1>1, <3>2, <3>4, <3>5, <3>6, PagePartsNext DEF CowInv
  <2>2. CASE WpRace(t)
    <3>1. /\ pc[t] = "wp_copy" /\ pc' = [pc EXCEPT ![t] = "store"]
          /\ page' = [page EXCEPT ![t] = None]
          /\ new_page' = [new_page EXCEPT ![t] = None] /\ UNCHANGED mmVars
      BY <2>2 DEF WpRace, Goto
    <3>2. CopyOf(t)' /\ HeldOf(t)'
      BY <3>1 DEF CopyOf, HeldOf, HoldPCs, MmTypes, TaskTypes
    <3>3. ASSUME NEW u \in Threads, u # t PROVE CopyOf(u)' /\ HeldOf(u)'
      <4>1. /\ pc'[u] = pc[u] /\ page'[u] = page[u] /\ new_page'[u] = new_page[u]
            /\ new_page'[t] = None
            /\ \A v \in Threads : v # t => new_page'[v] = new_page[v]
        BY <3>1, <3>3 DEF MmTypes, TaskTypes
      <4> QED
        BY <1>1, <3>1, <4>1 DEF CopyOf, HeldOf, mmVars
    <3> QED
      BY <1>1, <3>1, <3>2, <3>3, PagePartsNext DEF CowInv, mmVars
  <2>3. CASE Stores(t)
    <3>1. /\ pc[t] = "store" /\ pc' = [pc EXCEPT ![t] = "stored"]
          /\ word' = [word EXCEPT ![pte[Mm[t]]] = 1] /\ Mm[t] \in Mms
          /\ UNCHANGED <<pte, cow, page, new_page>>
      BY <1>0, <2>3 DEF Stores, Goto, callVars
    <3>2. ASSUME NEW u \in Threads PROVE CopyOf(u)' /\ HeldOf(u)'
      <4>1. /\ pc'[u] \in {"wp_copy", "wp_set"} <=> pc[u] \in {"wp_copy", "wp_set"}
            /\ pc'[u] \in HoldPCs <=> pc[u] \in HoldPCs
        BY <3>1 DEF HoldPCs, TaskTypes
      <4>2. HeldOf(u)'
        BY <1>1, <3>1, <4>1 DEF HeldOf
      <4>3. ASSUME new_page[u] # None
            PROVE  /\ word'[new_page[u]] = word[new_page[u]]
                   /\ word[page[u]] # 0 => word'[page[u]] # 0
        BY <1>1, <3>1, <4>3 DEF CopyOf, MmTypes
      <4> QED
        BY <1>1, <3>1, <4>1, <4>2, <4>3 DEF CopyOf
    <3> QED
      BY <1>1, <3>1, <3>2, PagePartsNext DEF CowInv
  <2>4. CASE ~(WpCopy(t) \/ WpRace(t) \/ Stores(t))
    <3>1. UNCHANGED <<mmVars, callVars>>
      BY <1>4, <2>4 DEF Outer, FutexWait, Store, StoreFaults, MustFault, PinFails
    <3>2. /\ \E l \in OuterPCs \ {"wp_copy"} : pc' = [pc EXCEPT ![t] = l]
          /\ pc[t] \in OuterPCs \ {"wp_copy"}
      BY <1>4, <2>4 DEF Outer, FutexWait, Store, StoreFaults, MustFault, PinFails, Goto,
                        OuterPCs
    <3> QED
      BY <1>a, <3>1, <3>2 DEF HeldOf, HoldPCs, OuterPCs, callVars, TaskTypes
  <2> QED
    BY <2>1, <2>2, <2>3, <2>4
<1>5. ASSUME NEW t \in Threads, WaitStep(t) PROVE PageInv'
  <2>1. UNCHANGED <<mmVars, new_page>> /\ pc[t] \in WaitPCs
    BY <1>5 DEF WaitStep, QueueMe, Pin, GetUser, AddWaitQueue, SetState, Check,
                ScheduleReturns, UnqueueMe, WaitReturns, callVars, WaitPCs
  <2>2. \E l \in WaitPCs \cup {"idle"} : pc' = [pc EXCEPT ![t] = l]
    BY <1>5 DEF WaitStep, QueueMe, GetUser, AddWaitQueue, SetState, Check,
                ScheduleReturns, UnqueueMe, WaitReturns, Awake, Goto, WaitPCs
  <2>3. page' = page \/ \E x : page' = [page EXCEPT ![t] = x]
    BY <1>5 DEF WaitStep, QueueMe, Pin, GetUser, AddWaitQueue, SetState, Check,
                ScheduleReturns, UnqueueMe, WaitReturns, callVars
  <2> QED
    BY <1>a, <2>1, <2>2, <2>3 DEF HeldOf, HoldPCs, WaitPCs, MmTypes, TaskTypes
<1>6. ASSUME NEW t \in Threads, WakeStart(t) PROVE PageInv'
  <2>1. /\ pc[t] \in {"stored", "wake_fault"} /\ pc' = [pc EXCEPT ![t] = "scan"]
        /\ page' = [page EXCEPT ![t] = pte[Mm[t]]] /\ pte[Mm[t]] # None
        /\ UNCHANGED <<mmVars, new_page>>
    BY <1>6 DEF WakeStart, Pin, Mapped, Goto
  <2>2. HeldOf(t)'
    BY <2>1 DEF HeldOf, mmVars, MmTypes
  <2> QED
    BY <1>a, <2>1, <2>2 DEF MmTypes, TaskTypes
<1>7. ASSUME NEW t \in Threads, WakeOne(t) \/ Tell(t) PROVE PageInv'
  <2>1. /\ pc[t] \in {"scan", "tell"}
        /\ \E l \in {"scan", "tell"} : pc' = [pc EXCEPT ![t] = l]
        /\ UNCHANGED <<mmVars, page, new_page>>
    BY <1>7 DEF WakeOne, Tell, Goto
  <2>2. HeldOf(t)'
    BY <1>1, <2>1 DEF HeldOf, HoldPCs, mmVars, TaskTypes
  <2> QED
    BY <1>a, <2>1, <2>2 DEF TaskTypes
<1>8. ASSUME NEW t \in Threads, WakeEnd(t) PROVE PageInv'
  <2>1. /\ pc[t] = "scan" /\ pc' = [pc EXCEPT ![t] = "idle"]
        /\ page' = [page EXCEPT ![t] = None] /\ UNCHANGED <<mmVars, new_page>>
    BY <1>8 DEF WakeEnd, Goto
  <2> QED
    BY <1>a, <2>1 DEF HeldOf, HoldPCs, MmTypes, TaskTypes
<1>9. ASSUME NEW t \in Threads, InvalidateVcache(t) PROVE PageInv'
  <2>1. /\ pc[t] = "wp_copy" /\ pc' = [pc EXCEPT ![t] = "wp_set"]
        /\ pte[Mm[t]] = page[t] /\ UNCHANGED <<mmVars, page, new_page>>
    BY <1>9 DEF InvalidateVcache, PteSame, Goto, callVars
  <2>2. HeldOf(t)' /\ CopyOf(t)'
    BY <1>1, <2>1 DEF HeldOf, CopyOf, HoldPCs, mmVars, TaskTypes
  <2>3. \A u \in Threads \ {t} : HeldOf(u)' /\ CopyOf(u)'
    BY <1>1, <2>1 DEF HeldOf, CopyOf, mmVars, TaskTypes
  <2> QED
    BY <1>1, <2>1, <2>2, <2>3, PagePartsNext DEF CowInv, mmVars
<1>10. ASSUME NEW t \in Threads, EstablishPte(t) PROVE PageInv'
  <2>1. /\ pc[t] = "wp_set" /\ pc' = [pc EXCEPT ![t] = "store"] /\ Mm[t] \in Mms
        /\ pte' = [pte EXCEPT ![Mm[t]] = new_page[t]]
        /\ cow' = [cow EXCEPT ![Mm[t]] = FALSE]
        /\ page' = [page EXCEPT ![t] = None]
        /\ new_page' = [new_page EXCEPT ![t] = None] /\ word' = word
    BY <1>0, <1>10 DEF EstablishPte, Goto
  <2>2. /\ new_page[t] # None /\ \A n \in Mms : pte[n] # new_page[t]
        /\ \A u \in Threads : new_page[u] = new_page[t] => u = t
    BY <1>1, <2>1 DEF CopyOf
  <2>3. CowInv'
    BY <1>1, <2>1, <2>2 DEF CowInv, MmTypes
  <2>4. CopyOf(t)' /\ HeldOf(t)'
    BY <2>1 DEF CopyOf, HeldOf, HoldPCs, MmTypes, TaskTypes
  <2>5. ASSUME NEW u \in Threads, u # t PROVE CopyOf(u)' /\ HeldOf(u)'
    <3>1. /\ pc'[u] = pc[u] /\ page'[u] = page[u] /\ new_page'[u] = new_page[u]
          /\ new_page'[t] = None
          /\ \A v \in Threads : v # t => new_page'[v] = new_page[v]
      BY <2>1, <2>5 DEF MmTypes, TaskTypes
    <3>2. pc[u] \in HoldPCs => Mm[u] # Mm[t]
      BY <2>1, <2>5 DEF LockInv, HoldPCs
    <3>3. HeldOf(u)'
      BY <1>0, <1>1, <2>1, <3>1, <3>2 DEF HeldOf, MmTypes
    <3>4. \A n \in Mms : pte'[n] = new_page[t] \/ pte'[n] = pte[n]
      BY <2>1 DEF MmTypes
    <3>5. CopyOf(u)'
      BY <1>1, <2>1, <2>2, <2>5, <3>1, <3>4 DEF CopyOf
    <3> QED
      BY <3>3, <3>5
  <2> QED
    BY <2>3, <2>4, <2>5, PagePartsNext
<1>11. ASSUME NEW t \in Threads, Timeout(t) \/ Signal(t) PROVE PageInv'
  BY <1>11 DEF Timeout, Signal, PageInv, mmVars, callVars
<1> QED
  BY <1>2, <1>3, <1>4, <1>5, <1>6, <1>7, <1>8, <1>9, <1>10, <1>11, StepCases
  DEF WakeStep

-----------------------------------------------------------------------------
(***************************************************************************)
(* Waiters in core.                                                        *)
(***************************************************************************)

\* The thread has found the value that it waits to see changed.
SeenPCs == {"add", "set_state", "check", "schedule"}

\* The parts of CoreInv for one thread: the page it is queued on, and who comes
\* to wake it.
QpageOf(t) ==
    Queued(t) =>
        /\ (\A u \in Threads : Mm[u] = Mm[t] => pc[u] # "wp_set")
              => qpage[t] = pte[Mm[t]]
        /\ \A u \in Threads : Mm[u] = Mm[t] /\ pc[u] = "wp_set"
              => qpage[t] = new_page[u]

WakerOf(t) ==
    (Queued(t) \/ this = t) /\ pc[t] \in SeenPCs /\ word[pte[Mm[t]]] # 0
        => WakerComes(t)

CoreOf(t) ==
    InCore(Mm[t]) /\ pc[t] \in InWait => Mapped(Mm[t]) /\ QpageOf(t) /\ WakerOf(t)

LEMMA CoreParts == CoreInv <=> \A t \in Threads : CoreOf(t)
  BY DEF CoreInv, CoreOf, QpageOf, WakerOf, SeenPCs

\* Neither the page of v's word nor the threads that copy or wake change.
LEMMA CoreStable ==
    ASSUME NEW v \in Threads, InCore(Mm[v]), pc[v] \in InWait, CoreOf(v),
           pte'[Mm[v]] = pte[Mm[v]], present'[Mm[v]] = present[Mm[v]],
           word'[pte[Mm[v]]] # 0 => word[pte[Mm[v]]] # 0 \/ WakerComes(v)',
           qpage'[v] = qpage[v], Queued(v)' => Queued(v),
           this' = v => this = v \/ Queued(v),
           pc'[v] \in SeenPCs => pc[v] \in SeenPCs,
           \A u \in Threads : Mm[u] = Mm[v] =>
               /\ pc'[u] = "wp_set" <=> pc[u] = "wp_set"
               /\ pc[u] = "wp_set" => new_page'[u] = new_page[u]
               /\ pc[u] \in WakePCs => pc'[u] \in WakePCs
    PROVE  CoreOf(v)'
<1>1. Mapped(Mm[v])' /\ QpageOf(v)'
  BY DEF CoreOf, Mapped, QpageOf
<1>2. WakerComes(v) => WakerComes(v)'
  BY DEF WakerComes
<1>3. WakerOf(v)'
  BY <1>2 DEF CoreOf, WakerOf
<1> QED
  BY <1>1, <1>3 DEF CoreOf

\* The memory management leaves a word in core where and what it is.
LEMMA CoreMm ==
    ASSUME MmTypes, MmStep, NEW v \in Threads, InCore(Mm[v]), pc[v] \in InWait,
           Mapped(Mm[v])
    PROVE  /\ pte'[Mm[v]] = pte[Mm[v]] /\ present'[Mm[v]] = present[Mm[v]]
           /\ word'[pte[Mm[v]]] = word[pte[Mm[v]]]
<1>0. Mm[v] \in Mms
  BY FutexAssumption
<1>1. PICK m \in Mms : \/ SwapOut(m) \/ SwapIn(m) \/ Unmap(m) \/ Map(m)
                       \/ \E n \in Mms : Fork(m, n)
  BY DEF MmStep
<1>2. CASE SwapOut(m)
  BY <1>0, <1>2 DEF SwapOut, InCore, MmTypes
<1>3. CASE SwapIn(m)
  <2>1. m # Mm[v] /\ present' = [present EXCEPT ![m] = TRUE]
    BY <1>3 DEF SwapIn, Mapped
  <2>2. present'[Mm[v]] = present[Mm[v]]
    BY <1>0, <2>1 DEF MmTypes
  <2>3. ASSUME NEW p \in Pages, Free(p), pte' = [pte EXCEPT ![m] = p],
               word' = [word EXCEPT ![p] = word[pte[m]]]
        PROVE  pte'[Mm[v]] = pte[Mm[v]] /\ word'[pte[Mm[v]]] = word[pte[Mm[v]]]
    <3>1. pte[Mm[v]] # p
      BY <1>0, <2>3 DEF Free, Sharers
    <3> QED
      BY <1>0, <2>1, <2>3, <3>1 DEF MmTypes
  <2> QED
    BY <1>3, <2>2, <2>3 DEF SwapIn
<1>4. CASE Unmap(m)
  BY <1>0, <1>4 DEF Unmap, InCore, MmTypes
<1>5. CASE Map(m)
  <2>1. m # Mm[v] /\ present' = [present EXCEPT ![m] = TRUE]
    BY <1>5 DEF Map, Mapped
  <2>2. PICK p \in Pages : /\ Free(p) /\ pte' = [pte EXCEPT ![m] = p]
                           /\ word' = [word EXCEPT ![p] = 0]
    BY <1>5 DEF Map
  <2>3. pte[Mm[v]] # p
    BY <1>0, <2>2 DEF Free, Sharers
  <2>4. present'[Mm[v]] = present[Mm[v]]
    BY <1>0, <2>1 DEF MmTypes
  <2>5. pte'[Mm[v]] = pte[Mm[v]]
    BY <1>0, <2>1, <2>2 DEF MmTypes
  <2>6. word'[pte[Mm[v]]] = word[pte[Mm[v]]]
    <3>1. pte[Mm[v]] \in Pages
      BY <1>0 DEF Mapped, MmTypes
    <3> QED
      BY <2>2, <2>3, <3>1 DEF MmTypes
  <2> QED
    BY <2>4, <2>5, <2>6
<1>6. ASSUME NEW n \in Mms, Fork(m, n)
      PROVE  /\ pte'[Mm[v]] = pte[Mm[v]] /\ present'[Mm[v]] = present[Mm[v]]
             /\ word'[pte[Mm[v]]] = word[pte[Mm[v]]]
  <2>1. n # Mm[v]
    BY <1>6 DEF Fork, InWait
  <2> QED
    BY <1>0, <1>6, <2>1 DEF Fork, MmTypes
<1> QED
  BY <1>1, <1>2, <1>3, <1>4, <1>5, <1>6

\* A store is seen by the waiters of its own address space only, and its thread
\* comes to wake them.
LEMMA CoreOuter ==
    ASSUME MmTypes, TaskTypes, PageInv, NEW t \in Threads, Outer(t),
           NEW v \in Threads, pc[v] \in InWait, Mapped(Mm[v])
    PROVE  /\ pte' = pte /\ present' = present
           /\ word'[pte[Mm[v]]] # 0 => word[pte[Mm[v]]] # 0 \/ WakerComes(v)'
           /\ Mm[t] = Mm[v] /\ pc[t] \in WakePCs => pc'[t] \in WakePCs
           /\ \A u \in Threads \ {t} : new_page'[u] = new_page[u]
<1>0. Mm[v] \in Mms /\ Mm[t] \in Mms
  BY FutexAssumption
<1>1. CASE WpCopy(t)
  <2>1. PICK p \in Pages : /\ Free(p) /\ new_page' = [new_page EXCEPT ![t] = p]
                           /\ word' = [word EXCEPT ![p] = word[pte[Mm[t]]]]
    BY <1>1 DEF WpCopy
  <2>2. p # pte[Mm[v]]
    BY <1>0, <2>1 DEF Free, Sharers
  <2> QED
    BY <1>1, <2>1, <2>2 DEF WpCopy, MmTypes, WakePCs
<1>2. CASE Stores(t)
  <2>1. /\ pc[t] = "store" /\ pc' = [pc EXCEPT ![t] = "stored"]
        /\ pte[Mm[t]] # None /\ ~cow[Mm[t]]
        /\ word' = [word EXCEPT ![pte[Mm[t]]] = 1]
        /\ UNCHANGED <<pte, present, new_page>>
    BY <1>2 DEF Stores, Mapped, Goto, callVars
  <2>2. CASE pte[Mm[v]] = pte[Mm[t]]
    <3>1. Mm[v] = Mm[t]
      BY <1>0, <2>1, <2>2 DEF PageInv
    <3>2. WakerComes(v)'
      BY <2>1, <3>1 DEF WakerComes, WakePCs, TaskTypes
    <3> QED
      BY <2>1, <3>2 DEF WakePCs
  <2>3. CASE pte[Mm[v]] # pte[Mm[t]]
    BY <2>1, <2>3 DEF WakePCs, MmTypes
  <2> QED
    BY <2>2, <2>3
<1>3. CASE WpRace(t)
  BY <1>3 DEF WpRace, WakePCs, MmTypes, mmVars
<1>4. CASE FutexWait(t) \/ Store(t) \/ StoreFaults(t)
  BY <1>4 DEF FutexWait, Store, StoreFaults, WakePCs, mmVars, callVars
<1>5. CASE MustFault(t, "wait", "wait_fault") \/ MustFault(t, "stored", "wake_fault")
  BY <1>5 DEF MustFault, Goto, WakePCs, TaskTypes, mmVars, callVars
<1>6. CASE \E l \in {"wait_fault", "wake_fault"} : PinFails(t, l)
  BY <1>6 DEF PinFails, Mapped, mmVars, callVars
<1> QED
  BY <1>1, <1>2, <1>3, <1>4, <1>5, <1>6 DEF Outer

\* A FUTEX_WAKE for everybody leaves nobody of its address space queued.
LEMMA WakeComplete ==
    ASSUME MmTypes, ListTypes, LockInv, QueueInv, PageInv, Num >= Cardinality(Threads),
           NEW t \in Threads, WakeEnd(t), NEW v \in Threads, InCore(Mm[v]),
           CoreOf(v), Mm[v] = Mm[t]
    PROVE  ~Queued(v) /\ this # v
<1>0. None \notin Threads /\ Num \in Nat
  BY FutexAssumption
<1>1. pc[t] = "scan" /\ (EnoughWoken \/ Matching(page[t]) = {})
  BY DEF WakeEnd
<1>2. this = None /\ vcache_lock = t
  BY <1>1, OneWaker
<1> SUFFICES ASSUME Queued(v) PROVE FALSE
  BY <1>0, <1>2
<1>3. PICK i \in DOMAIN queue : queue[i] = v
  BY DEF Queued, Range
<1>4. CASE EnoughWoken
  <2>1. woken + Len(queue) + 0 <= Cardinality(Threads) /\ woken >= Num
    BY <1>0, <1>2, <1>4 DEF QueueInv, EnoughWoken
  <2>2. woken \in Nat /\ Len(queue) \in Nat /\ Cardinality(Threads) \in Nat
    BY QueueLength DEF QueueInv, ListTypes
  <2>3. Len(queue) >= 1
    BY <1>3 DEF ListTypes
  <2> QED
    BY <1>0, <2>1, <2>2, <2>3
<1>5. CASE Matching(page[t]) = {}
  <2>0. Mm[v] \in Mms
    BY FutexAssumption
  <2>1. page[t] = pte[Mm[v]] /\ ptl[Mm[v]] = t
    BY <1>1, <2>0 DEF PageInv, LockInv
  <2>2. \A u \in Threads : Mm[u] = Mm[v] => pc[u] # "wp_set"
    BY <1>1, <2>0, <2>1 DEF LockInv
  <2>3. pc[v] \in InWait
    BY DEF QueueInv
  <2>4. qpage[v] = page[t]
    BY <2>1, <2>2, <2>3 DEF CoreOf, QpageOf
  <2> QED
    BY <1>3, <1>5, <2>4 DEF Matching
<1> QED
  BY <1>1, <1>4, <1>5

LEMMA CoreStep ==
    ASSUME MmTypes, ListTypes, TaskTypes, LockInv, QueueInv, PageInv, CoreInv, Next,
           Num >= Cardinality(Threads)
    PROVE  CoreInv'
<1>0. Mm \in [Threads -> Mms] /\ None \notin Threads
  BY FutexAssumption
<1>1. SUFFICES ASSUME NEW v \in Threads, InCore(Mm[v]), pc'[v] \in InWait
               PROVE  CoreOf(v)'
  BY DEF CoreInv, CoreOf, QpageOf, WakerOf, SeenPCs
<1>2. CoreOf(v) /\ (pc[v] \in InWait => Mapped(Mm[v])) /\ Mm[v] \in Mms
  BY <1>0, <1>1, CoreParts DEF CoreOf
<1>3. CASE MmStep
  <2>1. UNCHANGED <<qpage, queue, new_page, this, pc>>
    BY <1>3, QuietEffect DEF listVars
  <2>2. pc[v] \in InWait
    BY <1>1, <2>1
  <2> QED
    BY <1>1, <1>2, <1>3, <2>1, <2>2, CoreMm, CoreStable DEF Queued
<1>4. ASSUME NEW t \in Threads, Pins(t) PROVE CoreOf(v)'
  <2>1. UNCHANGED <<qpage, queue, new_page, this, pc>>
    BY <1>4, QuietEffect DEF listVars
  <2>2. UNCHANGED <<pte, present, word>>
    BY <1>4 DEF Pins, WpReuse, Faulted, Refault, mmVars
  <2>3. pc[v] \in InWait
    BY <1>1, <2>1
  <2> QED
    BY <1>1, <1>2, <2>1, <2>2, <2>3, CoreStable DEF Queued
<1>5. ASSUME NEW t \in Threads, Outer(t) PROVE CoreOf(v)'
  <2>1. PICK l \in OuterPCs : pc' = [pc EXCEPT ![t] = l]
    BY <1>5, OuterEffect
  <2>2. pc[t] \in OuterPCs /\ UNCHANGED <<qpage, queue, this>>
    BY <1>5, OuterEffect DEF listVars
  <2>3. v # t /\ pc'[v] = pc[v] /\ pc[v] \in InWait
    BY <1>1, <2>1 DEF OuterPCs, InWait, TaskTypes
  <2>4. /\ pte' = pte /\ present' = present
        /\ word'[pte[Mm[v]]] # 0 => word[pte[Mm[v]]] # 0 \/ WakerComes(v)'
        /\ Mm[t] = Mm[v] /\ pc[t] \in WakePCs => pc'[t] \in WakePCs
        /\ \A u \in Threads \ {t} : new_page'[u] = new_page[u]
    BY <1>2, <1>5, <2>3, CoreOuter
  <2>5. \A u \in Threads : Mm[u] = Mm[v] =>
            /\ pc'[u] = "wp_set" <=> pc[u] = "wp_set"
            /\ pc[u] = "wp_set" => new_page'[u] = new_page[u]
            /\ pc[u] \in WakePCs => pc'[u] \in WakePCs
    BY <2>1, <2>2, <2>4 DEF OuterPCs, TaskTypes
  <2> QED
    BY <1>1, <1>2, <2>2, <2>3, <2>4, <2>5, CoreStable DEF Queued
<1>6. ASSUME NEW t \in Threads, QueueMe(t) PROVE CoreOf(v)'
  <2>1. /\ pc[t] \in {"wait", "wait_fault"} /\ pc' = [pc EXCEPT ![t] = "get_user"]
        /\ ptl[Mm[t]] = None /\ Mapped(Mm[t])
        /\ queue' = Append(queue, t)
        /\ qpage' = [qpage EXCEPT ![t] = page'[t]]
        /\ page' = [page EXCEPT ![t] = pte[Mm[t]]]
        /\ UNCHANGED <<mmVars, new_page, this>>
    BY <1>6 DEF QueueMe, Pin, FutexMmFree, Goto
  <2>2. CASE v = t
    <3>1. \A u \in Threads : Mm[u] = Mm[v] => pc'[u] # "wp_set"
      BY <1>0, <2>1, <2>2 DEF LockInv, TaskTypes
    <3>2. qpage'[v] = pte'[Mm[v]] /\ Mapped(Mm[v])'
      BY <2>1, <2>2 DEF ListTypes, MmTypes, Mapped, mmVars
    <3>3. pc'[v] = "get_user"
      BY <2>1, <2>2 DEF TaskTypes
    <3>4. QpageOf(v)'
      BY <3>1, <3>2 DEF QpageOf
    <3>5. WakerOf(v)'
      BY <3>3 DEF WakerOf, SeenPCs
    <3> QED
      BY <3>2, <3>4, <3>5 DEF CoreOf
  <2>3. CASE v # t
    <3>1. /\ pc'[v] = pc[v] /\ qpage'[v] = qpage[v] /\ (Queued(v)' => Queued(v))
          /\ pc[v] \in InWait
      BY <1>1, <2>1, <2>3, Enqueued DEF TaskTypes, ListTypes, Queued
    <3>2. \A u \in Threads : /\ pc'[u] = "wp_set" <=> pc[u] = "wp_set"
                             /\ pc[u] \in WakePCs => pc'[u] \in WakePCs
      BY <2>1 DEF TaskTypes, WakePCs
    <3> QED
      BY <1>1, <1>2, <2>1, <3>1, <3>2, CoreStable DEF mmVars
  <2> QED
    BY <2>2, <2>3
<1>7. ASSUME NEW t \in Threads, GetUser(t) \/ AddWaitQueue(t) \/ SetState(t) \/ Check(t)
                                 \/ ScheduleReturns(t)
      PROVE  CoreOf(v)'
  <2>1. UNCHANGED <<mmVars, listVars, new_page, this>> /\ pc[t] \in InWait
    BY <1>7 DEF GetUser, AddWaitQueue, SetState, Check, ScheduleReturns, InWait, callVars
  <2>2. PICK l \in InWait : pc' = [pc EXCEPT ![t] = l]
    BY <1>7 DEF GetUser, AddWaitQueue, SetState, Check, ScheduleReturns, Awake, Goto,
                InWait
  <2>3. /\ pc[v] \in InWait
        /\ \A u \in Threads : /\ pc'[u] = "wp_set" <=> pc[u] = "wp_set"
                              /\ pc[u] \in WakePCs => pc'[u] \in WakePCs
    BY <1>1, <2>1, <2>2 DEF TaskTypes, WakePCs, InWait
  <2>4. CASE pc'[v] \in SeenPCs => pc[v] \in SeenPCs
    BY <1>1, <1>2, <2>1, <2>3, <2>4, CoreStable DEF Queued, mmVars, listVars
  <2>5. CASE ~(pc'[v] \in SeenPCs => pc[v] \in SeenPCs)
    <3>1. v = t /\ l = "add"
      BY <1>7, <2>2, <2>5 DEF GetUser, AddWaitQueue, SetState, Check, ScheduleReturns,
                              Goto, Awake, SeenPCs, TaskTypes
    <3>2. word[pte[Mm[v]]] = 0
      BY <1>7, <2>2, <2>5, <3>1 DEF GetUser, AddWaitQueue, SetState, Check,
                              ScheduleReturns, Goto, SeenPCs, TaskTypes
    <3>3. WakerOf(v)' /\ Mapped(Mm[v])' /\ QpageOf(v)'
      <4>1. WakerOf(v)'
        BY <2>1, <3>2 DEF WakerOf, mmVars
      <4>2. Mapped(Mm[v])'
        BY <1>2, <2>1, <2>3 DEF Mapped, mmVars
      <4>3. QpageOf(v)'
        BY <1>1, <1>2, <2>1, <2>3 DEF CoreOf, QpageOf, Queued, mmVars, listVars
      <4> QED
        BY <4>1, <4>2, <4>3
    <3> QED
      BY <3>3 DEF CoreOf
  <2> QED
    BY <2>4, <2>5
<1>8. ASSUME NEW t \in Threads, UnqueueMe(t) \/ WaitReturns(t) PROVE CoreOf(v)'
  <2>1. /\ UNCHANGED <<mmVars, new_page, this>> /\ pc[t] \in {"unqueue", "unpin"}
        /\ \E l \in {"unpin", "idle"} : pc' = [pc EXCEPT ![t] = l]
        /\ \A u \in Threads \ {t} : qpage'[u] = qpage[u]
    BY <1>8 DEF UnqueueMe, WaitReturns, Goto, ListTypes
  <2>2. v # t /\ pc'[v] = pc[v] /\ pc[v] \in InWait
    BY <1>1, <2>1 DEF InWait, TaskTypes
  <2>3. Queued(v)' => Queued(v)
    <3>1. CASE UNCHANGED queue
      BY <3>1 DEF Queued
    <3>2. CASE \E i \in DOMAIN queue : queue[i] = t /\ Dequeue(i)
      BY <3>2, Dequeued DEF Queued, QueueInv, ListTypes
    <3> QED
      BY <1>8, <3>1, <3>2 DEF UnqueueMe, WaitReturns
  <2>4. \A u \in Threads : /\ pc'[u] = "wp_set" <=> pc[u] = "wp_set"
                           /\ pc[u] \in WakePCs => pc'[u] \in WakePCs
    BY <2>1 DEF TaskTypes, WakePCs
  <2> QED
    BY <1>1, <1>2, <2>1, <2>2, <2>3, <2>4, CoreStable DEF mmVars
<1>9. ASSUME NEW t \in Threads, WakeStart(t) \/ Tell(t) PROVE CoreOf(v)'
  <2>1. /\ UNCHANGED <<mmVars, listVars, new_page>> /\ pc[t] \in WakePCs
        /\ pc' = [pc EXCEPT ![t] = "scan"] /\ this' \in {this, None}
    BY <1>9 DEF WakeStart, Pin, Tell, Goto, WakePCs
  <2>2. v # t /\ pc'[v] = pc[v] /\ pc[v] \in InWait
    BY <1>1, <2>1 DEF InWait, TaskTypes
  <2>3. \A u \in Threads : /\ pc'[u] = "wp_set" <=> pc[u] = "wp_set"
                           /\ pc[u] \in WakePCs => pc'[u] \in WakePCs
    BY <2>1 DEF TaskTypes, WakePCs
  <2>4. this' = v => this = v
    BY <1>0, <2>1
  <2> QED
    BY <1>1, <1>2, <2>1, <2>2, <2>3, <2>4, CoreStable DEF Queued, mmVars, listVars
<1>10. ASSUME NEW t \in Threads, WakeOne(t) PROVE CoreOf(v)'
  <2>1. /\ UNCHANGED <<mmVars, qpage, new_page>> /\ pc[t] = "scan"
        /\ pc' = [pc EXCEPT ![t] = "tell"]
    BY <1>10 DEF WakeOne, Goto
  <2>2. v # t /\ pc'[v] = pc[v] /\ pc[v] \in InWait
    BY <1>1, <2>1 DEF InWait, TaskTypes
  <2>3. PICK i \in DOMAIN queue : Dequeue(i) /\ this' = queue[i]
    BY <1>10 DEF WakeOne, Matching
  <2>4. (Queued(v)' => Queued(v)) /\ (this' = v => Queued(v))
    BY <2>3, Dequeued DEF Queued, Range, QueueInv, ListTypes
  <2>5. \A u \in Threads : /\ pc'[u] = "wp_set" <=> pc[u] = "wp_set"
                           /\ pc[u] \in WakePCs => pc'[u] \in WakePCs
    BY <2>1 DEF TaskTypes, WakePCs
  <2> QED
    BY <1>1, <1>2, <2>1, <2>2, <2>4, <2>5, CoreStable DEF mmVars
<1>11. ASSUME NEW t \in Threads, WakeEnd(t) PROVE CoreOf(v)'
  <2>1. /\ UNCHANGED <<mmVars, listVars, new_page, this>> /\ pc[t] = "scan"
        /\ pc' = [pc EXCEPT ![t] = "idle"]
    BY <1>11 DEF WakeEnd, Goto
  <2>2. v # t /\ pc'[v] = pc[v] /\ pc[v] \in InWait
    BY <1>1, <2>1 DEF InWait, TaskTypes
  <2>3. CASE Mm[t] = Mm[v]
    <3>1. ~Queued(v) /\ this # v
      BY <1>1, <1>2, <1>11, <2>3, WakeComplete
    <3>2. ~Queued(v)' /\ this' # v /\ Mapped(Mm[v])'
      BY <1>2, <2>1, <2>2, <3>1 DEF Queued, Mapped, mmVars, listVars
    <3> QED
      BY <3>2 DEF CoreOf, QpageOf, WakerOf
  <2>4. CASE Mm[t] # Mm[v]
    <3>1. \A u \in Threads : Mm[u] = Mm[v] => pc'[u] = pc[u]
      BY <2>1, <2>4 DEF TaskTypes
    <3> QED
      BY <1>1, <1>2, <2>1, <2>2, <3>1, CoreStable DEF Queued, mmVars, listVars
  <2> QED
    BY <2>3, <2>4
<1>12. ASSUME NEW t \in Threads, InvalidateVcache(t) PROVE CoreOf(v)'
  <2> DEFINE us == {u \in Registered(Mm[t]) : Queued(u)}
  <2>1. /\ pc[t] = "wp_copy" /\ pc' = [pc EXCEPT ![t] = "wp_set"]
        /\ ptl[Mm[t]] = None
        /\ Callbacks(us, new_page[t]) /\ UNCHANGED <<mmVars, new_page, this>>
    BY <1>12 DEF InvalidateVcache, Goto, callVars
  <2>2. qpage'[v] = IF v \in us THEN new_page[t] ELSE qpage[v]
    BY <2>1 DEF Callbacks, Rehash, ListTypes
  <2>3. v \in us <=> Mm[v] = Mm[t] /\ Queued(v)
    BY DEF Registered, QueueInv
  <2> HIDE DEF us
  <2>4. v # t /\ pc'[v] = pc[v] /\ pc[v] \in InWait
    BY <1>1, <2>1 DEF InWait, TaskTypes
  <2>5. Queued(v)' <=> Queued(v)
    BY <2>1, Rehashed DEF Queued, QueueInv, ListTypes
  <2>6. \A u \in Threads : pc[u] \in WakePCs => pc'[u] \in WakePCs
    BY <2>1 DEF TaskTypes, WakePCs
  <2>7. CASE Mm[v] = Mm[t]
    <3>1. \A u \in Threads : Mm[u] = Mm[v] /\ pc'[u] = "wp_set" => u = t
      BY <1>0, <2>1, <2>7 DEF LockInv, TaskTypes
    <3>2. pc'[t] = "wp_set"
      BY <2>1 DEF TaskTypes
    <3>3. QpageOf(v)'
      BY <2>1, <2>2, <2>3, <2>5, <2>7, <3>1, <3>2 DEF QpageOf
    <3>4. WakerComes(v) => WakerComes(v)'
      BY <2>6 DEF WakerComes
    <3>5. WakerOf(v)'
      BY <1>1, <1>2, <2>1, <2>4, <2>5, <3>4 DEF CoreOf, WakerOf, mmVars
    <3>6. Mapped(Mm[v])'
      BY <1>2, <2>1, <2>4 DEF Mapped, mmVars
    <3> QED
      BY <3>3, <3>5, <3>6 DEF CoreOf
  <2>8. CASE Mm[v] # Mm[t]
    <3>1. \A u \in Threads : Mm[u] = Mm[v] => pc'[u] = pc[u]
      BY <2>1, <2>8 DEF TaskTypes
    <3>2. qpage'[v] = qpage[v]
      BY <2>2, <2>3, <2>8
    <3> QED
      BY <1>1, <1>2, <2>1, <2>4, <2>5, <3>1, <3>2, CoreStable DEF mmVars
  <2> QED
    BY <2>7, <2>8
<1>13. ASSUME NEW t \in Threads, EstablishPte(t) PROVE CoreOf(v)'
  <2>1. /\ pc[t] = "wp_set" /\ pc' = [pc EXCEPT ![t] = "store"] /\ Mm[t] \in Mms
        /\ pte' = [pte EXCEPT ![Mm[t]] = new_page[t]]
        /\ new_page' = [new_page EXCEPT ![t] = None]
        /\ UNCHANGED <<present, word, listVars, this>>
    BY <1>0, <1>13 DEF EstablishPte, Goto
  <2>2. v # t /\ pc'[v] = pc[v] /\ pc[v] \in InWait
    BY <1>1, <2>1 DEF InWait, TaskTypes
  <2>3. \A u \in Threads : pc[u] \in WakePCs => pc'[u] \in WakePCs
    BY <2>1 DEF TaskTypes, WakePCs
  <2>4. CASE Mm[t] = Mm[v]
    <3>1. /\ new_page[t] # None /\ page[t] = pte[Mm[v]]
          /\ word[new_page[t]] # 0 => word[page[t]] # 0
      BY <2>1, <2>4 DEF PageInv
    <3>2. pte'[Mm[v]] = new_page[t]
      BY <2>1, <2>4 DEF MmTypes
    <3>3. Mapped(Mm[v])'
      BY <1>2, <2>1, <2>2, <3>1, <3>2 DEF Mapped
    <3>4. \A u \in Threads : Mm[u] = Mm[v] => pc'[u] # "wp_set"
      BY <2>1, <2>4 DEF LockInv, TaskTypes
    <3>5. Queued(v) => qpage[v] = new_page[t]
      BY <1>1, <1>2, <2>1, <2>2, <2>4 DEF CoreOf, QpageOf
    <3>6. QpageOf(v)'
      BY <2>1, <3>2, <3>4, <3>5 DEF QpageOf, Queued, listVars
    <3>7. WakerComes(v) => WakerComes(v)'
      BY <2>3 DEF WakerComes
    <3>8. WakerOf(v)'
      BY <1>1, <1>2, <2>1, <2>2, <3>1, <3>2, <3>7 DEF CoreOf, WakerOf, Queued, listVars
    <3> QED
      BY <3>3, <3>6, <3>8 DEF CoreOf
  <2>5. CASE Mm[t] # Mm[v]
    <3>1. pte'[Mm[v]] = pte[Mm[v]]
      BY <1>2, <2>1, <2>5 DEF MmTypes
    <3>2. \A u \in Threads : Mm[u] = Mm[v] => pc'[u] = pc[u] /\ new_page'[u] = new_page[u]
      BY <2>1, <2>5 DEF TaskTypes, MmTypes
    <3> QED
      BY <1>1, <1>2, <2>1, <2>2, <3>1, <3>2, CoreStable DEF Queued, listVars
  <2> QED
    BY <2>4, <2>5
<1>14. ASSUME NEW t \in Threads, Timeout(t) \/ Signal(t) PROVE CoreOf(v)'
  <2>1. UNCHANGED <<mmVars, listVars, new_page, this, pc>>
    BY <1>14 DEF Timeout, Signal, callVars
  <2> QED
    BY <1>1, <1>2, <2>1, CoreStable DEF Queued, mmVars, listVars
<1> QED
  BY <1>3, <1>4, <1>5, <1>6, <1>7, <1>8, <1>9, <1>10, <1>11, <1>12, <1>13, <1>14,
     StepCases DEF WaitStep, WakeStep

-----------------------------------------------------------------------------
(***************************************************************************)
(* The theorems.                                                           *)
(***************************************************************************)

\* Nothing is queued, held, copied or told in the beginning.
LEMMA InitFutex == Init => FutexInv
<1> SUFFICES ASSUME Init PROVE FutexInv
  OBVIOUS
<1>0. Mm \in [Threads -> Mms] /\ None \notin Threads /\ None \notin Pages
  BY FutexAssumption
<1>1. PICK p \in Pages : pte = [m \in Mms |-> p]
  BY DEF Init, InitMapped
<1>2. /\ queue = <<>> /\ queue \in Seq(Threads) /\ DOMAIN queue = {}
      /\ Range(queue) = {}
  <2>1. queue = <<>>
    BY DEF Init, InitMapped
  <2>2. queue \in Seq(Threads) /\ DOMAIN queue = {}
    BY <2>1
  <2> QED
    BY <2>1, <2>2 DEF Range
<1>3. /\ pc = [t \in Threads |-> "idle"] /\ told = [t \in Threads |-> FALSE]
      /\ new_page = [t \in Threads |-> None] /\ cow = [m \in Mms |-> TRUE]
      /\ vcache = {} /\ this = None /\ woken = 0 /\ vcache_lock = None
      /\ ptl = [m \in Mms |-> None]
  BY DEF Init, InitMapped
<1>4. MmTypes
  <2>1. 0 \in 0..1
    OBVIOUS
  <2>2. word = [q \in Pages |-> 0] /\ present = [m \in Mms |-> TRUE]
        /\ page = [t \in Threads |-> None]
    BY DEF Init, InitMapped
  <2>3. word \in [Pages -> 0..1]
    BY <2>1, <2>2
  <2> QED
    BY <1>1, <1>3, <2>2, <2>3 DEF MmTypes
<1>5. ListTypes
  BY <1>2, <1>3 DEF ListTypes, Init, InitMapped
<1>6. TaskTypes
  BY <1>3 DEF TaskTypes, Init, InitMapped, PCs, Results
<1>7. LockInv
  BY <1>0, <1>3 DEF LockInv
<1>8. QueueInv
  BY <1>0, <1>2, <1>3 DEF QueueInv, Queued, IsInjective
<1>9. ToldInv /\ SleepInv /\ WakeupsKept
  BY <1>3 DEF ToldInv, SleepInv, WakeupsKept, InWait
<1>10. PageInv
  BY <1>3 DEF PageInv
<1>11. CoreInv
  BY <1>3 DEF CoreInv, InWait
<1> QED
  BY <1>4, <1>5, <1>6, <1>7, <1>8, <1>9, <1>10, <1>11, AllTypes DEF FutexInv, WaitInv

\* Without CoreInv the invariant holds for every number a FUTEX_WAKE asks for.
LEMMA WaitStepInv ==
    WaitInv /\ PageInv /\ [Next]_vars => WaitInv' /\ PageInv'
<1> SUFFICES ASSUME WaitInv, PageInv, [Next]_vars PROVE WaitInv' /\ PageInv'
  OBVIOUS
<1>1. CASE UNCHANGED vars
  BY <1>1 DEF vars, mmVars, lockVars, listVars, taskVars, callVars, WaitInv, TypeOK,
              LockInv, QueueInv, ToldInv, SleepInv, WakeupsKept, PageInv, Queued
<1>2. CASE Next
  <2>1. /\ MmTypes /\ ListTypes /\ TaskTypes /\ LockInv /\ QueueInv
        /\ IsInjective(queue) /\ \A t \in Threads : ToldOf(t)
    BY AllTypes, ToldParts DEF WaitInv, QueueInv
  <2>2. MmTypes' /\ ListTypes' /\ TaskTypes'
    BY <1>2, <2>1, MmTypesStep, ListTypesStep, TaskTypesStep
  <2>3. LockInv' /\ QueueInv' /\ PageInv'
    BY <1>2, <2>1, LocksStep, QueueStep, PagesStep
  <2>4. \A t \in Threads : ToldOf(t)'
    BY <1>2, <2>1, ToldStep
  <2>5. TypeOK'
    BY <2>2 DEF TypeOK, MmTypes, ListTypes, TaskTypes, Results
  <2>6. ToldInv' /\ SleepInv' /\ WakeupsKept'
    BY <2>4 DEF ToldOf, ToldInv, SleepInv, WakeupsKept
  <2> QED
    BY <2>3, <2>5, <2>6 DEF WaitInv
<1> QED
  BY <1>1, <1>2

\* The invariant of futex_wait, futex_wake and do_wp_page: who holds the locks,
\* that queue and vcache agree, what a waiter that is off the queue returns, and
\* that an unfinished copy of the page is nobody else's.
THEOREM WaitInvariant == Spec => [](WaitInv /\ PageInv)
<1>1. Init => WaitInv /\ PageInv
  BY InitFutex DEF FutexInv
<1> QED
  BY <1>1, WaitStepInv, PTL DEF Spec

\* futex_wait returns 0 to exactly the waiters that a futex_wake took off the
\* queue, whatever timers, signals and faults come in between.
THEOREM WokenWaitersReturnZero == Spec => []WakeupsKept
<1>1. WaitInv => WakeupsKept
  BY DEF WaitInv
<1> QED
  BY <1>1, WaitInvariant, PTL

\* No queue, no vcache chain and no futex_wake refers to the futex_q of a call
\* that has its result.
THEOREM FutexQsStayValid == Spec => []NoUseAfterReturn
<1>1. WaitInv => NoUseAfterReturn
  BY DEF WaitInv, QueueInv, NoUseAfterReturn, InWait
<1> QED
  BY <1>1, WaitInvariant, PTL

\* The whole invariant, for a FUTEX_WAKE that asks for all waiters: a waiter
\* whose word stays in core is queued on the page that the word is in, and
\* somebody comes if the word has changed.
THEOREM CoreInvariant ==
    ASSUME Num >= Cardinality(Threads)
    PROVE  Spec => []FutexInv
<1>1. FutexInv /\ [Next]_vars => FutexInv'
  <2> SUFFICES ASSUME FutexInv, [Next]_vars PROVE FutexInv'
    OBVIOUS
  <2>1. WaitInv' /\ PageInv'
    BY WaitStepInv DEF FutexInv
  <2>2. CASE UNCHANGED vars
    <3>1. CoreInv'
      BY <2>2 DEF vars, mmVars, lockVars, listVars, taskVars, callVars, FutexInv,
                  CoreInv, Queued, Mapped, WakerComes
    <3> QED
      BY <2>1, <3>1 DEF FutexInv
  <2>3. CASE Next
    <3>1. /\ MmTypes /\ ListTypes /\ TaskTypes /\ LockInv /\ QueueInv /\ PageInv
          /\ CoreInv
      BY AllTypes DEF FutexInv, WaitInv
    <3>2. CoreInv'
      BY <2>3, <3>1, CoreStep
    <3> QED
      BY <2>1, <3>2 DEF FutexInv
  <2> QED
    BY <2>2, <2>3
<1> QED
  BY <1>1, InitFutex, PTL DEF Spec

\* The callbacks of the vcache suffice for copy on write: in an address space that
\* is neither swapped nor unmapped a waiter sleeps on a changed word only while
\* the thread that changed it is on its way with a FUTEX_WAKE for everybody.
THEOREM CoreWakeupsNeverLost ==
    ASSUME Num >= Cardinality(Threads)
    PROVE  Spec => []NoLostWakeupInCore
<1>1. FutexInv => NoLostWakeupInCore
  <2> SUFFICES ASSUME FutexInv, NEW t \in Threads, InCore(Mm[t]), Outdated(t)
               PROVE  WakerComes(t)
    BY DEF NoLostWakeupInCore
  <2>1. /\ pc[t] = "schedule" /\ state[t] = "INTERRUPTIBLE"
        /\ word[pte[Mm[t]]] # 0
    BY DEF Outdated, Sleeps
  <2>2. Queued(t) \/ this = t
    BY <2>1 DEF FutexInv, WaitInv, SleepInv
  <2> QED
    BY <2>1, <2>2 DEF FutexInv, CoreInv, InWait
<1> QED
  BY <1>1, CoreInvariant, PTL
=============================================================================
