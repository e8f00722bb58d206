------------------------------- MODULE Futex -------------------------------
(***************************************************************************)
(* Futexes (kernel/futex.c) and the virtual mapping cache they rely on     *)
(* (mm/vcache.c), with the parts of mm/ that change which page a user      *)
(* address is mapped to: copy on write (do_wp_page), swapping, fork and    *)
(* munmap.                                                                 *)
(*                                                                         *)
(* One user address, mapped privately in every address space, holds the    *)
(* futex word.  A thread waits until the word is not 0; another stores 1   *)
(* and calls FUTEX_WAKE.  futex_lock is only taken under vcache_lock, so   *)
(* one variable stands for both; what runs under it without being seen     *)
(* from outside is one action.                                             *)
(***************************************************************************)
EXTENDS Integers, Sequences, FiniteSets, Functions

CONSTANTS Threads,
          Mms,        \* the address spaces
          Mm,         \* Mm[t]: current->mm of thread t
          Pages,      \* the page frames
          Num,        \* the number of waiters a FUTEX_WAKE asks for
          Swapping,   \* the address spaces whose pages are swapped out
          Unmapping,  \* those in which a thread may unmap the word
          None

ASSUME FutexAssumption ==
    /\ Mm \in [Threads -> Mms]
    /\ Num \in Nat
    /\ Swapping \subseteq Mms /\ Unmapping \subseteq Mms
    /\ IsFiniteSet(Threads)
    /\ None \notin Threads \cup Pages

VARIABLES
    pte,        \* pte[m]: the page the word is mapped to, or that is swapped
                \* out; None if the word is not mapped at all
    present,    \* present[m]: the page is present
    cow,        \* cow[m]: the pte is write protected
    word,       \* word[p]: what page p holds at the word's offset
    ptl,        \* ptl[m]: the holder of m's page_table_lock
    vcache_lock,
    queue,      \* futex_queues: the threads of the futex_qs, in order
    qpage,      \* qpage[t]: q.page
    vcache,     \* the threads whose q.vcache is attached
    waiters,    \* the threads that are on their q.waiters
    state,      \* the state of the task
    expired,    \* expired[t]: the timer of schedule_timeout has expired
    sigpending,
    page,       \* page[t]: the local page of futex_wait or futex_wake, pinned
    new_page,   \* new_page[t]: the local new_page of do_wp_page
    this,       \* the local this of futex_wake
    woken,      \* the local ret of futex_wake
    ret,        \* ret[t]: the result of the system call
    told,       \* told[t]: a futex_wake counted t as woken (for the properties)
    pc

mmVars   == <<pte, present, cow, word>>
lockVars == <<ptl, vcache_lock>>
listVars == <<queue, qpage, vcache>>
taskVars == <<waiters, state, expired, sigpending>>
callVars == <<page, new_page, this, woken, ret, told>>
vars == <<mmVars, lockVars, listVars, taskVars, callVars, pc>>

(***************************************************************************)
(* Where a thread can be.  In futex_wait:                                  *)
(*   wait        about to lock and pin        wait_fault  faulting in      *)
(*   get_user    queued                       add         before           *)
(*   set_state                                            add_wait_queue   *)
(*   check       before list_empty(&q.list)   schedule    in schedule      *)
(*   unqueue     about to call unqueue_me     unpin       ret is final     *)
(* storing 1:  store, wp_copy (do_wp_page has dropped page_table_lock),    *)
(*             wp_set (the callbacks are done), stored                     *)
(* In futex_wake: wake_fault, scan, tell                                   *)
(***************************************************************************)
WaitPCs == {"wait", "wait_fault", "get_user", "add", "set_state", "check",
            "schedule", "unqueue", "unpin"}
WakePCs == {"stored", "wake_fault", "scan", "tell"}
PCs     == WaitPCs \cup WakePCs \cup {"idle", "store", "wp_copy", "wp_set"}

Goto(t, l) == pc' = [pc EXCEPT ![t] = l]

\* The address spaces of ms have the word mapped, all to the same page.
InitMapped(ms) ==
    /\ \E p \in Pages : pte = [m \in Mms |-> IF m \in ms THEN p ELSE None]
    /\ present = [m \in Mms |-> TRUE]
    /\ cow = [m \in Mms |-> TRUE]
    /\ word = [p \in Pages |-> 0]
    /\ ptl = [m \in Mms |-> None]
    /\ vcache_lock = None
    /\ queue = <<>>
    /\ qpage = [t \in Threads |-> None]
    /\ vcache = {}
    /\ waiters = {}
    /\ state = [t \in Threads |-> "RUNNING"]
    /\ expired = [t \in Threads |-> FALSE]
    /\ sigpending = [t \in Threads |-> FALSE]
    /\ page = [t \in Threads |-> None]
    /\ new_page = [t \in Threads |-> None]
    /\ this = None
    /\ woken = 0
    /\ ret = [t \in Threads |-> "none"]
    /\ told = [t \in Threads |-> FALSE]
    /\ pc = [t \in Threads |-> "idle"]

\* All address spaces share one page: they come from one fork.
Init == InitMapped(Mms)

-----------------------------------------------------------------------------
(***************************************************************************)
(* Pages.                                                                  *)
(***************************************************************************)
Pinned(p)  == \E t \in Threads : page[t] = p
Sharers(p) == {m \in Mms : pte[m] = p}
Free(p)    == /\ Sharers(p) = {}
              /\ ~Pinned(p)
              /\ \A t \in Threads : new_page[t] # p

\* can_share_swap_page: nobody else has a reference.
Exclusive(p) == (\E m \in Mms : Sharers(p) = {m}) /\ ~Pinned(p)

\* lock_futex_mm.
FutexMmFree(m) == ptl[m] = None /\ vcache_lock = None

\* follow_page finds the page.
Mapped(m) == pte[m] # None /\ present[m]

-----------------------------------------------------------------------------
(***************************************************************************)
(* __pin_page.  The fault is taken without the locks: what it brought in   *)
(* is compared with the mapping once they are taken again.                 *)
(***************************************************************************)
Faulted(t, l) ==
    /\ pc[t] = l
    /\ page[t] = None
    /\ Mapped(Mm[t])                           \* get_user_pages
    /\ page' = [page EXCEPT ![t] = pte[Mm[t]]]
    /\ UNCHANGED <<mmVars, lockVars, listVars, taskVars, new_page, this, woken,
                   ret, told, pc>>

\* put_page(page); goto repeat_lookup
Refault(t, l) ==
    /\ pc[t] = l
    /\ page[t] # None
    /\ FutexMmFree(Mm[t])
    /\ ~(Mapped(Mm[t]) /\ pte[Mm[t]] = page[t])
    /\ page' = [page EXCEPT ![t] = None]
    /\ UNCHANGED <<mmVars, lockVars, listVars, taskVars, new_page, this, woken,
                   ret, told, pc>>

\* The locks are taken and the page is pinned.
Pin(t, first, fault) ==
    /\ FutexMmFree(Mm[t])
    /\ Mapped(Mm[t])
    /\ \/ pc[t] = first
       \/ pc[t] = fault /\ page[t] = pte[Mm[t]]
    /\ page' = [page EXCEPT ![t] = pte[Mm[t]]]

MustFault(t, first, fault) ==
    /\ pc[t] = first
    /\ FutexMmFree(Mm[t])
    /\ ~Mapped(Mm[t])
    /\ Goto(t, fault)
    /\ UNCHANGED <<mmVars, lockVars, listVars, taskVars, callVars>>

\* get_user_pages fails: there is no mapping.
PinFails(t, fault) ==
    /\ pc[t] = fault
    /\ page[t] = None
    /\ pte[Mm[t]] = None
    /\ Goto(t, "idle")                         \* -EFAULT
    /\ UNCHANGED <<mmVars, lockVars, listVars, taskVars, callVars>>

-----------------------------------------------------------------------------
(***************************************************************************)
(* futex_wait.                                                             *)
(***************************************************************************)
FutexWait(t) ==
    /\ pc[t] = "idle"
    /\ Goto(t, "wait")
    /\ UNCHANGED <<mmVars, lockVars, listVars, taskVars, callVars>>

\* __queue_me
QueueMe(t) ==
    /\ Pin(t, "wait", "wait_fault")
    /\ qpage' = [qpage EXCEPT ![t] = page'[t]]
    /\ queue' = Append(queue, t)
    /\ vcache' = vcache \cup {t}               \* __attach_vcache
    /\ Goto(t, "get_user")
    /\ UNCHANGED <<mmVars, lockVars, taskVars, new_page, this, woken, ret,
                   told>>

\* Reads through the page table: the word may be in another page by now.
GetUser(t) ==
    /\ pc[t] = "get_user"
    /\ \/ /\ pte[Mm[t]] = None
          /\ ret' = [ret EXCEPT ![t] = "EFAULT"]
          /\ Goto(t, "unqueue")
       \/ /\ Mapped(Mm[t]) /\ word[pte[Mm[t]]] # 0
          /\ ret' = [ret EXCEPT ![t] = "EWOULDBLOCK"]
          /\ Goto(t, "unqueue")
       \/ /\ Mapped(Mm[t]) /\ word[pte[Mm[t]]] = 0
          /\ ret' = [ret EXCEPT ![t] = "0"]
          /\ Goto(t, "add")
    /\ UNCHANGED <<mmVars, lockVars, listVars, taskVars, page, new_page, this,
                   woken, told>>

AddWaitQueue(t) ==
    /\ pc[t] = "add"
    /\ waiters' = waiters \cup {t}
    /\ Goto(t, "set_state")
    /\ UNCHANGED <<mmVars, lockVars, listVars, state, expired, sigpending,
                   callVars>>

SetState(t) ==
    /\ pc[t] = "set_state"
    /\ state' = [state EXCEPT ![t] = "INTERRUPTIBLE"]
    /\ Goto(t, "check")
    /\ UNCHANGED <<mmVars, lockVars, listVars, waiters, expired, sigpending,
                   callVars>>

Queued(t) == t \in Range(queue)

\* list_del_init of the i-th entry.
Dequeue(i) == queue' = SubSeq(queue, 1, i - 1) \o SubSeq(queue, i + 1, Len(queue))

\* !list_empty(&q.list), without any lock.
MustSleep(t) == Queued(t)

\* set_current_state(TASK_RUNNING) and the results that follow; time == 0 if the
\* timer has expired.
Awake(t) ==
    /\ state' = [state EXCEPT ![t] = "RUNNING"]
    /\ ret' = IF expired[t] THEN [ret EXCEPT ![t] = "ETIMEDOUT"]
              ELSE IF sigpending[t] THEN [ret EXCEPT ![t] = "EINTR"]
              ELSE ret
    /\ Goto(t, "unqueue")

Check(t) ==
    /\ pc[t] = "check"
    /\ \/ /\ MustSleep(t)
          /\ Goto(t, "schedule")
          /\ UNCHANGED <<state, ret>>
       \/ /\ ~MustSleep(t)
          /\ Awake(t)
    /\ UNCHANGED <<mmVars, lockVars, listVars, waiters, expired, sigpending,
                   page, new_page, this, woken, told>>

Sleeps(t) == /\ pc[t] = "schedule"
             /\ state[t] = "INTERRUPTIBLE"
             /\ ~sigpending[t]

ScheduleReturns(t) ==
    /\ pc[t] = "schedule"
    /\ ~Sleeps(t)
    /\ Awake(t)
    /\ UNCHANGED <<mmVars, lockVars, listVars, waiters, expired, sigpending,
                   page, new_page, this, woken, told>>

\* process_timeout; the timer may also expire after another wakeup.
Timeout(t) ==
    /\ pc[t] = "schedule"
    /\ ~expired[t]
    /\ expired' = [expired EXCEPT ![t] = TRUE]
    /\ state' = [state EXCEPT ![t] = "RUNNING"]
    /\ UNCHANGED <<mmVars, lockVars, listVars, waiters, sigpending, callVars,
                   pc>>

Signal(t) ==
    /\ pc[t] \in WaitPCs
    /\ ~sigpending[t]
    /\ sigpending' = [sigpending EXCEPT ![t] = TRUE]
    /\ state' = [state EXCEPT ![t] = "RUNNING"]
    /\ UNCHANGED <<mmVars, lockVars, listVars, waiters, expired, callVars, pc>>

\* Mutant: unqueue_me looks at q.list without the locks.
UnqueueLockless(t) == vcache_lock = None \/ ~Queued(t)

UnqueueLock(t) == vcache_lock = None

\* Mutant: the task keeps the result it had.
WokenKeepsResult(t) == ret[t]

\* Were we woken up anyway?
WokenResult(t) == IF Queued(t) THEN ret[t] ELSE "0"

\* unqueue_me
UnqueueMe(t) ==
    /\ pc[t] = "unqueue"
    /\ UnqueueLock(t)
    /\ ret' = [ret EXCEPT ![t] = WokenResult(t)]
    /\ \/ \E i \in DOMAIN queue : queue[i] = t /\ Dequeue(i)
       \/ ~Queued(t) /\ UNCHANGED queue
    /\ vcache' = IF Queued(t) THEN vcache \ {t} ELSE vcache
    /\ Goto(t, "unpin")
    /\ UNCHANGED <<mmVars, lockVars, qpage, taskVars, page, new_page, this,
                   woken, told>>

\* unpin_page(page) and return: q is gone.  A signal is then handled.
WaitReturns(t) ==
    /\ pc[t] = "unpin"
    /\ page' = [page EXCEPT ![t] = None]
    /\ qpage' = [qpage EXCEPT ![t] = None]
    /\ waiters' = waiters \ {t}
    /\ expired' = [expired EXCEPT ![t] = FALSE]
    /\ sigpending' = [sigpending EXCEPT ![t] = FALSE]
    /\ ret' = [ret EXCEPT ![t] = "none"]
    /\ told' = [told EXCEPT ![t] = FALSE]
    /\ Goto(t, "idle")
    /\ UNCHANGED <<mmVars, lockVars, queue, vcache, state, new_page, this,
                   woken>>

-----------------------------------------------------------------------------
(***************************************************************************)
(* A thread stores 1 into the word: do_wp_page if the page is write        *)
(* protected.                                                              *)
(***************************************************************************)
Store(t) ==
    /\ pc[t] = "idle"
    /\ pte[Mm[t]] # None
    /\ Goto(t, "store")
    /\ UNCHANGED <<mmVars, lockVars, listVars, taskVars, callVars>>

Stores(t) ==
    /\ pc[t] = "store"
    /\ Mapped(Mm[t]) /\ ~cow[Mm[t]]
    /\ word' = [word EXCEPT ![pte[Mm[t]]] = 1]
    /\ Goto(t, "stored")
    /\ UNCHANGED <<pte, present, cow, lockVars, listVars, taskVars, callVars>>

\* The thread has no mapping to store to: it is killed, another takes its place.
StoreFaults(t) ==
    /\ pc[t] = "store"
    /\ pte[Mm[t]] = None
    /\ Goto(t, "idle")
    /\ UNCHANGED <<mmVars, lockVars, listVars, taskVars, callVars>>

\* The page is reused: nobody else has it.
WpReuse(t) ==
    /\ pc[t] = "store"
    /\ Mapped(Mm[t]) /\ cow[Mm[t]]
    /\ ptl[Mm[t]] = None
    /\ Exclusive(pte[Mm[t]])
    /\ cow' = [cow EXCEPT ![Mm[t]] = FALSE]
    /\ UNCHANGED <<pte, present, word, lockVars, listVars, taskVars, callVars,
                   pc>>

\* page_cache_get(old_page); alloc_page; copy_cow_page, page_table_lock dropped.
\* An exclusive page is copied too if it is locked.
WpCopy(t) ==
    /\ pc[t] = "store"
    /\ Mapped(Mm[t]) /\ cow[Mm[t]]
    /\ ptl[Mm[t]] = None
    /\ page' = [page EXCEPT ![t] = pte[Mm[t]]]
    /\ \E p \in Pages :
        /\ Free(p)
        /\ new_page' = [new_page EXCEPT ![t] = p]
        /\ word' = [word EXCEPT ![p] = word[pte[Mm[t]]]]
    /\ Goto(t, "wp_copy")
    /\ UNCHANGED <<pte, present, cow, lockVars, listVars, taskVars, this,
                   woken, ret, told>>

\* Whom invalidate_vcache calls back for address space m.
Registered(m) == {u \in vcache : Mm[u] = m}

\* Mutant: the entry moves to the new chain, q->page stays.
RehashChainOnly(us, p) == qpage

\* q->page = new_page
Rehash(us, p) == [u \in DOMAIN qpage |-> IF u \in us THEN p ELSE qpage[u]]

\* order[i] is the entry that comes to place i when the threads of us, one after
\* the other, go to the tail of the queue.
MovesToTail(us, order) ==
    \A i, j \in DOMAIN queue : i < j =>
        LET u == queue[order[i]]
            v == queue[order[j]]
        IN  IF u \in us <=> v \in us THEN order[i] < order[j] ELSE v \in us

\* futex_vcache_callback, for every u of us: list_del and list_add_tail.
Callbacks(us, p) ==
    /\ qpage' = Rehash(us, p)
    /\ \E order \in Bijection(DOMAIN queue, DOMAIN queue) :
          /\ MovesToTail(us, order)
          /\ queue' = [i \in DOMAIN queue |-> queue[order[i]]]

PteSame(t) == Mapped(Mm[t]) /\ pte[Mm[t]] = page[t] /\ cow[Mm[t]]

\* break_cow under page_table_lock, up to the end of invalidate_vcache.
InvalidateVcache(t) ==
    /\ pc[t] = "wp_copy"
    /\ ptl[Mm[t]] = None
    /\ PteSame(t)
    /\ vcache = {} \/ vcache_lock = None
    /\ ptl' = [ptl EXCEPT ![Mm[t]] = t]
    /\ Callbacks({u \in Registered(Mm[t]) : Queued(u)}, new_page[t])
    /\ Goto(t, "wp_set")
    /\ UNCHANGED <<mmVars, vcache_lock, vcache, taskVars, callVars>>

\* establish_pte; both pages are released, page_table_lock too.
EstablishPte(t) ==
    /\ pc[t] = "wp_set"
    /\ pte' = [pte EXCEPT ![Mm[t]] = new_page[t]]
    /\ cow' = [cow EXCEPT ![Mm[t]] = FALSE]
    /\ ptl' = [ptl EXCEPT ![Mm[t]] = None]
    /\ page' = [page EXCEPT ![t] = None]
    /\ new_page' = [new_page EXCEPT ![t] = None]
    /\ Goto(t, "store")
    /\ UNCHANGED <<present, word, vcache_lock, listVars, taskVars, this, woken,
                   ret, told>>

\* The pte has changed meanwhile: the copy is thrown away.
WpRace(t) ==
    /\ pc[t] = "wp_copy"
    /\ ptl[Mm[t]] = None
    /\ ~PteSame(t)
    /\ page' = [page EXCEPT ![t] = None]
    /\ new_page' = [new_page EXCEPT ![t] = None]
    /\ Goto(t, "store")
    /\ UNCHANGED <<mmVars, lockVars, listVars, taskVars, this, woken, ret,
                   told>>

-----------------------------------------------------------------------------
(***************************************************************************)
(* futex_wake.  The locks are held from WakeStart to WakeEnd.              *)
(***************************************************************************)
WakeStart(t) ==
    /\ Pin(t, "stored", "wake_fault")
    /\ ptl' = [ptl EXCEPT ![Mm[t]] = t]
    /\ vcache_lock' = t
    /\ woken' = 0
    /\ Goto(t, "scan")
    /\ UNCHANGED <<mmVars, listVars, taskVars, new_page, this, ret, told>>

\* The places of the entries of the chain that match (page, offset).
Matching(p) == {i \in DOMAIN queue : qpage[queue[i]] = p}

EnoughWoken == woken > 0 /\ woken >= Num

\* list_del_init; __detach_vcache
WakeOne(t) ==
    /\ pc[t] = "scan"
    /\ ~EnoughWoken
    /\ \E i \in Matching(page[t]) :
        /\ \A j \in Matching(page[t]) : i <= j
        /\ Dequeue(i)
        /\ vcache' = vcache \ {queue[i]}
        /\ this' = queue[i]
        /\ told' = [told EXCEPT ![queue[i]] = TRUE]
    /\ Goto(t, "tell")
    /\ UNCHANGED <<mmVars, lockVars, qpage, taskVars, page, new_page, woken,
                   ret>>

\* tell_waiter; ret++
Tell(t) ==
    /\ pc[t] = "tell"
    /\ state' = IF this \in waiters THEN [state EXCEPT ![this] = "RUNNING"]
                ELSE state
    /\ woken' = woken + 1
    /\ this' = None
    /\ Goto(t, "scan")
    /\ UNCHANGED <<mmVars, lockVars, listVars, waiters, expired, sigpending,
                   page, new_page, ret, told>>

\* unlock_futex_mm; unpin_page
WakeEnd(t) ==
    /\ pc[t] = "scan"
    /\ EnoughWoken \/ Matching(page[t]) = {}
    /\ ptl' = [ptl EXCEPT ![Mm[t]] = None]
    /\ vcache_lock' = None
    /\ woken' = 0
    /\ page' = [page EXCEPT ![t] = None]
    /\ Goto(t, "idle")
    /\ UNCHANGED <<mmVars, listVars, taskVars, new_page, this, ret, told>>

-----------------------------------------------------------------------------
(***************************************************************************)
(* What else happens to the mapping, under page_table_lock.                *)
(***************************************************************************)
MmUnchanged == UNCHANGED <<lockVars, listVars, taskVars, callVars, pc>>

\* try_to_swap_out
SwapOut(m) ==
    /\ m \in Swapping
    /\ Mapped(m) /\ ptl[m] = None
    /\ present' = [present EXCEPT ![m] = FALSE]
    /\ UNCHANGED <<pte, cow, word>>
    /\ MmUnchanged

\* do_swap_page: the page is found in the swap cache, or it was freed, if nobody
\* had a reference, and the word is read into another one.
SwapIn(m) ==
    /\ pte[m] # None /\ ~present[m] /\ ptl[m] = None
    /\ \/ UNCHANGED <<pte, word>>
       \/ \E p \in Pages :
            /\ Exclusive(pte[m]) /\ Free(p)
            /\ pte' = [pte EXCEPT ![m] = p]
            /\ word' = [word EXCEPT ![p] = word[pte[m]]]
    /\ present' = [present EXCEPT ![m] = TRUE]
    /\ cow' = [cow EXCEPT ![m] = TRUE]
    /\ MmUnchanged

\* A process forks: the child's address space n was not in use.
Fork(m, n) ==
    /\ m # n
    /\ \A t \in Threads : Mm[t] = n => pc[t] = "idle"
    /\ pte[m] # None /\ ptl[m] = None
    /\ pte' = [pte EXCEPT ![n] = pte[m]]
    /\ present' = [present EXCEPT ![n] = present[m]]
    /\ cow' = [cow EXCEPT ![m] = TRUE, ![n] = TRUE]
    /\ UNCHANGED word
    /\ MmUnchanged

\* munmap, and a new anonymous mapping at the same address.
Unmap(m) ==
    /\ m \in Unmapping
    /\ pte[m] # None /\ ptl[m] = None
    /\ pte' = [pte EXCEPT ![m] = None]
    /\ UNCHANGED <<present, cow, word>>
    /\ MmUnchanged

Map(m) ==
    /\ pte[m] = None
    /\ \E p \in Pages :
        /\ Free(p)
        /\ pte' = [pte EXCEPT ![m] = p]
        /\ word' = [word EXCEPT ![p] = 0]
    /\ present' = [present EXCEPT ![m] = TRUE]
    /\ cow' = [cow EXCEPT ![m] = FALSE]
    /\ MmUnchanged

-----------------------------------------------------------------------------
Fault(t) ==
    \/ MustFault(t, "wait", "wait_fault") \/ MustFault(t, "stored", "wake_fault")
    \/ \E l \in {"wait_fault", "wake_fault"} :
            Faulted(t, l) \/ Refault(t, l) \/ PinFails(t, l)

WaitStep(t) ==
    \/ QueueMe(t) \/ GetUser(t) \/ AddWaitQueue(t) \/ SetState(t) \/ Check(t)
    \/ ScheduleReturns(t) \/ UnqueueMe(t) \/ WaitReturns(t)

StoreStep(t) ==
    \/ Stores(t) \/ StoreFaults(t) \/ WpReuse(t) \/ WpCopy(t)
    \/ InvalidateVcache(t) \/ EstablishPte(t) \/ WpRace(t)

WakeStep(t) == WakeStart(t) \/ WakeOne(t) \/ Tell(t) \/ WakeEnd(t)

Next ==
    \/ \E t \in Threads :
        \/ FutexWait(t) \/ Store(t) \/ Fault(t) \/ WaitStep(t) \/ StoreStep(t)
        \/ WakeStep(t) \/ Timeout(t) \/ Signal(t)
    \/ \E m \in Mms : \/ SwapOut(m) \/ SwapIn(m) \/ Unmap(m) \/ Map(m)
                      \/ \E n \in Mms : Fork(m, n)

Spec == Init /\ [][Next]_vars

-----------------------------------------------------------------------------
(***************************************************************************)
(* Properties.                                                             *)
(***************************************************************************)

\* Every variable has its type.
TypeOK ==
    /\ pte \in [Mms -> Pages \cup {None}]
    /\ present \in [Mms -> BOOLEAN]
    /\ cow \in [Mms -> BOOLEAN]
    /\ word \in [Pages -> 0..1]
    /\ ptl \in [Mms -> Threads \cup {None}]
    /\ vcache_lock \in Threads \cup {None}
    /\ queue \in Seq(Threads)
    /\ qpage \in [Threads -> Pages \cup {None}]
    /\ vcache \subseteq Threads
    /\ waiters \subseteq Threads
    /\ state \in [Threads -> {"RUNNING", "INTERRUPTIBLE"}]
    /\ expired \in [Threads -> BOOLEAN]
    /\ sigpending \in [Threads -> BOOLEAN]
    /\ page \in [Threads -> Pages \cup {None}]
    /\ new_page \in [Threads -> Pages \cup {None}]
    /\ this \in Threads \cup {None}
    /\ woken \in Nat
    /\ ret \in [Threads -> {"none", "0", "EFAULT", "EWOULDBLOCK", "ETIMEDOUT",
                            "EINTR"}]
    /\ told \in [Threads -> BOOLEAN]
    /\ pc \in [Threads -> PCs]

\* A FUTEX_WAKE that counted a waiter as woken has woken it: futex_wait returns 0
\* to exactly the waiters that some futex_wake took off the queue, even if the
\* word had changed, the mapping was gone, the timer expired or a signal came
\* before it noticed.
WakeupsKept == \A t \in Threads : pc[t] = "unpin" => (ret[t] = "0" <=> told[t])

\* A futex_q lives on the stack of futex_wait.  No queue, no vcache chain and no
\* futex_wake that still has to call tell_waiter refers to one whose function
\* has got its result and may return.
NoUseAfterReturn ==
    \A t \in Threads : Queued(t) \/ t \in vcache \/ this = t
        => pc[t] \in {"get_user", "add", "set_state", "check", "schedule",
                      "unqueue"}

\* A thread that stored into t's word is on its way to wake t.
WakerComes(t) == \E u \in Threads : Mm[u] = Mm[t] /\ pc[u] \in WakePCs

\* t sleeps on a word that is not what it waited for.
Outdated(t) == Sleeps(t) /\ pte[Mm[t]] # None /\ word[pte[Mm[t]]] # 0

\* "we have to rehash any futexes that were pending on the old physical page"
\* (kernel/futex.c:187): a waiter sleeps on a word that is not what it waited
\* for only as long as a thread that stored into the word is still on its way to
\* wake it.
NoLostWakeup == \A t \in Threads : Outdated(t) => WakerComes(t)

\* An address space whose pages stay where copy on write puts them.
InCore(m) == m \notin Swapping \cup Unmapping

\* The same for the waiters whose page is neither swapped out nor unmapped;
\* NoLostWakeup alone fails with swapping.
NoLostWakeupInCore ==
    \A t \in Threads : InCore(Mm[t]) /\ Outdated(t) => WakerComes(t)

-----------------------------------------------------------------------------
(***************************************************************************)
(* The inductive invariant.                                                *)
(***************************************************************************)

\* Where a thread's futex_q is in use.
InWait == {"get_user", "add", "set_state", "check", "schedule", "unqueue"}

\* Who holds the locks: a waker both of them, do_wp_page its page_table_lock.
LockInv ==
    /\ \A t \in Threads : vcache_lock = t <=> pc[t] \in {"scan", "tell"}
    /\ \A t \in Threads, m \in Mms :
            ptl[m] = t <=> m = Mm[t] /\ pc[t] \in {"wp_set", "scan", "tell"}

\* The queue and the vcache have the same entries, each once and of a thread in
\* futex_wait; this is one that has just been taken off; and what the waker has
\* counted is no longer in the queue.
QueueInv ==
    /\ IsInjective(queue)
    /\ \A t \in Threads : t \in vcache <=> Queued(t)
    /\ \A t \in Threads : Queued(t) \/ this = t => pc[t] \in InWait
    /\ this # None => ~Queued(this) /\ \E u \in Threads : pc[u] = "tell"
    /\ \A u \in Threads : pc[u] = "tell" => this # None
    /\ IF vcache_lock = None THEN woken = 0
       ELSE woken + Len(queue) + (IF this = None THEN 0 ELSE 1)
                <= Cardinality(Threads)

\* A waiter is told exactly if it is off the queue; one that nobody told leaves
\* with an error.
ToldInv ==
    \A t \in Threads :
        /\ pc[t] \in InWait => (told[t] <=> ~Queued(t))
        /\ told[t] => pc[t] \in InWait \cup {"unpin"}
        /\ pc[t] \in {"check", "schedule"} /\ Queued(t) /\ state[t] = "RUNNING"
              => expired[t] \/ sigpending[t]
        /\ pc[t] = "unqueue" /\ Queued(t) => ret[t] # "0"

\* A waiter that is off the queue does not sleep, or will be woken by the one
\* who took it off.
SleepInv ==
    \A t \in Threads :
        /\ pc[t] \in {"set_state", "check", "schedule"} => t \in waiters
        /\ pc[t] = "schedule" /\ state[t] = "INTERRUPTIBLE" /\ ~Queued(t)
              => this = t

\* A page that can be written is mapped once.  The page of an unfinished copy is
\* mapped nowhere, and holds something only if the old page does.  Under
\* page_table_lock the mapping stays as it is.
PageInv ==
    /\ \A m, n \in Mms : pte[m] # None /\ ~cow[m] /\ pte[n] = pte[m] => n = m
    /\ \A t \in Threads :
        /\ new_page[t] # None <=> pc[t] \in {"wp_copy", "wp_set"}
        /\ new_page[t] # None =>
            /\ \A m \in Mms : pte[m] # new_page[t]
            /\ \A u \in Threads : new_page[u] = new_page[t] => u = t
            /\ page[t] # None
            /\ word[new_page[t]] # 0 => word[page[t]] # 0
        /\ pc[t] \in {"wp_set", "scan", "tell"} =>
            page[t] = pte[Mm[t]] /\ page[t] # None

\* A waiter in core is queued on the page that its word is in, or will be in.
\* If the word is not what it waited for, a waker comes.
CoreInv ==
    \A t \in Threads : InCore(Mm[t]) /\ pc[t] \in InWait =>
        /\ Mapped(Mm[t])
        /\ Queued(t) =>
            /\ (\A u \in Threads : Mm[u] = Mm[t] => pc[u] # "wp_set")
                  => qpage[t] = pte[Mm[t]]
            /\ \A u \in Threads : Mm[u] = Mm[t] /\ pc[u] = "wp_set"
                  => qpage[t] = new_page[u]
        /\ /\ Queued(t) \/ this = t
           /\ pc[t] \in {"add", "set_state", "check", "schedule"}
           /\ word[pte[Mm[t]]] # 0
           => WakerComes(t)

WaitInv == TypeOK /\ LockInv /\ QueueInv /\ ToldInv /\ SleepInv /\ WakeupsKept
FutexInv == WaitInv /\ PageInv /\ CoreInv
=============================================================================
