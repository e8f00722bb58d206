------------------------------- MODULE RwSem -------------------------------
(***************************************************************************)
(* Read/write semaphores with the xadd algorithm                           *)
(* (CONFIG_RWSEM_XCHGADD_ALGORITHM): the inline fast paths of              *)
(* include/asm-i386/rwsem.h and the contention paths of lib/rwsem.c.       *)
(*                                                                         *)
(* count packs two numbers: the low 16 bits count the active lockers       *)
(* (holders and lockers in transit), the high 16 bits hold -1 for every    *)
(* waiter and for every writer.  The fast paths change count without any   *)
(* lock; wait_lock protects only the list of waiters.  One action is one   *)
(* atomic access to count, or one write another CPU can observe.           *)
(***************************************************************************)
EXTENDS Integers, Sequences, FiniteSets, Functions

CONSTANTS Tasks,    \* the tasks that use the semaphore
          NoTask    \* wait_lock when nobody holds it

ASSUME TasksAssumption ==
    /\ IsFiniteSet(Tasks)
    /\ Cardinality(Tasks) < 32768     \* the waiting part of count is 16 bits
    /\ NoTask \notin Tasks

VARIABLES
    count,      \* sem->count
    wait_lock,  \* sem->wait_lock: its holder or NoTask
    caller,     \* which function took wait_lock: rwsem_down_failed_common
                \* ("down") or rwsem_wake ("up")
    wait_list,  \* sem->wait_list: the owners of the rwsem_waiters, in order
    granting,   \* the readers __rwsem_do_wake has granted but not told yet
    tsk,        \* the local tsk of __rwsem_do_wake between waiter->task = NULL
                \* and wake_up_process(tsk)
    waiting,    \* waiting[t]: t's waiter->task is not NULL
    mode,       \* mode[t]: what t wants or holds ("read" or "write")
    state,      \* the task's state, as set_task_state and wake_up_process set it
    usage,      \* the reference count of the task structure
    pc          \* where each task is

vars == <<count, wait_lock, caller, wait_list, granting, tsk, waiting, mode,
          state, usage, pc>>

Modes == {"read", "write"}
States == {"RUNNING", "UNINTERRUPTIBLE"}

ACTIVE_BIAS  == 1
ACTIVE_RANGE == 65536             \* ACTIVE_MASK + 1
WAITING_BIAS == -65536
WRITE_BIAS   == WAITING_BIAS + ACTIVE_BIAS

\* count & RWSEM_ACTIVE_MASK
Active(c) == c % ACTIVE_RANGE

(***************************************************************************)
(* Where a task can be.                                                    *)
(*   idle        not using the semaphore        exited   has exited        *)
(*   hold        holds the lock in mode[t]                                 *)
(*   failed      the fast path of a lock failed, count is already changed  *)
(*   enqueue     sleeping state is set, about to take wait_lock            *)
(*   check       in the loop of rwsem_down_failed_common                   *)
(*   schedule    in schedule()                                             *)
(*   rwsem_wake  an unlock found waiters, about to take wait_lock          *)
(* and, holding wait_lock, the places of WakePcs in __rwsem_do_wake.       *)
(***************************************************************************)
WakePcs == {"do_wake", "undo", "grant_write", "grant_read", "tell", "wake",
            "unlock"}
PCs == {"idle", "exited", "hold", "failed", "enqueue", "check", "schedule",
        "rwsem_wake"} \cup WakePcs

Goto(t, l) == pc' = [pc EXCEPT ![t] = l]

Init ==
    /\ count = 0                        \* RWSEM_UNLOCKED_VALUE
    /\ wait_lock = NoTask
    /\ caller = "up"
    /\ wait_list = <<>>
    /\ granting = <<>>
    /\ tsk = NoTask
    /\ waiting = [t \in Tasks |-> FALSE]
    /\ mode = [t \in Tasks |-> "read"]
    /\ state = [t \in Tasks |-> "RUNNING"]
    /\ usage = [t \in Tasks |-> 1]
    /\ pc = [t \in Tasks |-> "idle"]

queueVars == <<wait_lock, caller, wait_list, granting, tsk, waiting>>

-----------------------------------------------------------------------------
(***************************************************************************)
(* The inline fast paths.                                                  *)
(***************************************************************************)

\* incl, then js: not granted when the new count is negative.
DownRead(t) ==
    /\ pc[t] = "idle"
    /\ count' = count + ACTIVE_BIAS
    /\ mode' = [mode EXCEPT ![t] = "read"]
    /\ Goto(t, IF count' < 0 THEN "failed" ELSE "hold")
    /\ UNCHANGED <<queueVars, state, usage>>

\* The cmpxchg loop gives up when the new count would not be positive.
DownReadTrylock(t) ==
    /\ pc[t] = "idle"
    /\ count + ACTIVE_BIAS > 0
    /\ count' = count + ACTIVE_BIAS
    /\ mode' = [mode EXCEPT ![t] = "read"]
    /\ Goto(t, "hold")
    /\ UNCHANGED <<queueVars, state, usage>>

\* xadd, then testl: granted only when the old count was 0.
DownWrite(t) ==
    /\ pc[t] = "idle"
    /\ count' = count + WRITE_BIAS
    /\ mode' = [mode EXCEPT ![t] = "write"]
    /\ Goto(t, IF count # 0 THEN "failed" ELSE "hold")
    /\ UNCHANGED <<queueVars, state, usage>>

DownWriteTrylock(t) ==
    /\ pc[t] = "idle"
    /\ count = 0
    /\ count' = WRITE_BIAS
    /\ mode' = [mode EXCEPT ![t] = "write"]
    /\ Goto(t, "hold")
    /\ UNCHANGED <<queueVars, state, usage>>

\* js on the new count, then decw on the low word of the old one.
UpReadWakes(old) == old - ACTIVE_BIAS < 0 /\ Active(old) = ACTIVE_BIAS

UpRead(t) ==
    /\ pc[t] = "hold" /\ mode[t] = "read"
    /\ count' = count - ACTIVE_BIAS
    /\ Goto(t, IF UpReadWakes(count) THEN "rwsem_wake" ELSE "idle")
    /\ UNCHANGED <<queueVars, mode, state, usage>>

\* jnz on the new count, then decw on the low word of the old one.
UpWriteWakes(old) == old - WRITE_BIAS # 0 /\ Active(old) = ACTIVE_BIAS

UpWrite(t) ==
    /\ pc[t] = "hold" /\ mode[t] = "write"
    /\ count' = count - WRITE_BIAS
    /\ Goto(t, IF UpWriteWakes(count) THEN "rwsem_wake" ELSE "idle")
    /\ UNCHANGED <<queueVars, mode, state, usage>>

-----------------------------------------------------------------------------
(***************************************************************************)
(* rwsem_down_failed_common.                                               *)
(***************************************************************************)
SetTaskState(t) ==
    /\ pc[t] = "failed"
    /\ state' = [state EXCEPT ![t] = "UNINTERRUPTIBLE"]
    /\ Goto(t, "enqueue")
    /\ UNCHANGED <<count, queueVars, mode, usage>>

\* Mutant: the waiting reader adds no waiting part to count.
AdjustmentNoWaiting(m) == -ACTIVE_BIAS

\* A reader gives back its active part and becomes a waiter; a writer, whose
\* fast path already added the waiting part, gives back the active part only.
Adjustment(m) == IF m = "read" THEN WAITING_BIAS - ACTIVE_BIAS ELSE -ACTIVE_BIAS

\* Mutant: the waiter takes no reference to its task structure.
GetTaskStructForgotten(t) == UNCHANGED usage

GetTaskStruct(t) == usage' = [usage EXCEPT ![t] = @ + 1]

\* wait_lock is taken here and held until Unlock.
Enqueue(t) ==
    /\ pc[t] = "enqueue"
    /\ wait_lock = NoTask
    /\ wait_lock' = t
    /\ waiting' = [waiting EXCEPT ![t] = TRUE]
    /\ GetTaskStruct(t)
    /\ wait_list' = Append(wait_list, t)
    /\ count' = count + Adjustment(mode[t])
    /\ caller' = "down"
    /\ Goto(t, IF Active(count') = 0 THEN "do_wake" ELSE "unlock")
    /\ UNCHANGED <<granting, tsk, mode, state>>

\* for (;;) { if (!waiter->task) break; schedule(); ... }
Check(t) ==
    /\ pc[t] = "check"
    /\ \/ /\ waiting[t]
          /\ Goto(t, "schedule")
          /\ UNCHANGED state
       \/ /\ ~waiting[t]
          /\ Goto(t, "hold")
          /\ state' = [state EXCEPT ![t] = "RUNNING"]
    /\ UNCHANGED <<count, queueVars, mode, usage>>

\* schedule() returns once the state is RUNNING; then the state is set again.
Schedule(t) ==
    /\ pc[t] = "schedule"
    /\ state[t] = "RUNNING"
    /\ state' = [state EXCEPT ![t] = "UNINTERRUPTIBLE"]
    /\ Goto(t, "check")
    /\ UNCHANGED <<count, queueVars, mode, usage>>

-----------------------------------------------------------------------------
(***************************************************************************)
(* rwsem_wake and __rwsem_do_wake.                                         *)
(***************************************************************************)
RwsemWake(t) ==
    /\ pc[t] = "rwsem_wake"
    /\ wait_lock = NoTask
    /\ wait_lock' = t
    /\ caller' = "up"
    /\ Goto(t, IF wait_list # <<>> THEN "do_wake" ELSE "unlock")
    /\ UNCHANGED <<count, wait_list, granting, tsk, waiting, mode, state,
                   usage>>

\* Mutant: grant whatever the active part was.
MayGrantAlways(old) == TRUE

\* if (oldcount & RWSEM_ACTIVE_MASK) goto undo
MayGrant(old) == Active(old) = 0

\* try_again: only a transition of the active part from 0 to 1 may grant.
DoWake(t) ==
    /\ pc[t] = "do_wake"
    /\ count' = count + ACTIVE_BIAS
    /\ Goto(t, IF ~MayGrant(count) THEN "undo"
               ELSE IF mode[Head(wait_list)] = "write" THEN "grant_write"
               ELSE "grant_read")
    /\ UNCHANGED <<queueVars, mode, state, usage>>

\* Whether the undo code goes back to try_again, from the count it leaves.
UndoRetries(new) == new = 0

Undo(t) ==
    /\ pc[t] = "undo"
    /\ count' = count - ACTIVE_BIAS
    /\ Goto(t, IF UndoRetries(count') THEN "do_wake" ELSE "unlock")
    /\ UNCHANGED <<queueVars, mode, state, usage>>

\* list_del; tsk = waiter->task; waiter->task = NULL
GrantWrite(t) ==
    /\ pc[t] = "grant_write"
    /\ wait_list' = Tail(wait_list)
    /\ tsk' = Head(wait_list)
    /\ waiting' = [waiting EXCEPT ![Head(wait_list)] = FALSE]
    /\ Goto(t, "wake")
    /\ UNCHANGED <<count, wait_lock, caller, granting, mode, state, usage>>

\* The number of readers at the front of the list (the do-while loop).
Woken(l) ==
    CHOOSE n \in 1..Len(l) :
        /\ \A i \in 1..n : mode[l[i]] = "read"
        /\ n = Len(l) \/ mode[l[n + 1]] = "write"

\* Mutant: DoWake's own increment is not subtracted.
GrantedCountTwice(n) == n * (ACTIVE_BIAS - WAITING_BIAS)

\* The first reader's active part is the one DoWake added.
GrantedCount(n) == n * (ACTIVE_BIAS - WAITING_BIAS) - ACTIVE_BIAS

\* rwsem_atomic_add.  The list is cut after the readers are told; nobody else
\* can look at it before, because wait_lock is held.
GrantRead(t) ==
    /\ pc[t] = "grant_read"
    /\ LET n == Woken(wait_list) IN
        /\ count' = count + GrantedCount(n)
        /\ granting' = SubSeq(wait_list, 1, n)
        /\ wait_list' = SubSeq(wait_list, n + 1, Len(wait_list))
    /\ Goto(t, "tell")
    /\ UNCHANGED <<wait_lock, caller, tsk, waiting, mode, state, usage>>

\* Mutant: every reader is released before the list has been walked.
ReleaseWaiterEarly(l) == [t \in Tasks |-> waiting[t] /\ t \notin Range(l)]

\* waiter->task = NULL, for the first of the granted readers.
ReleaseWaiter(l) == [waiting EXCEPT ![Head(l)] = FALSE]

\* next = waiter->list.next; tsk = waiter->task; waiter->task = NULL
Tell(t) ==
    /\ pc[t] = "tell"
    /\ tsk' = Head(granting)
    /\ granting' = Tail(granting)
    /\ waiting' = ReleaseWaiter(granting)
    /\ Goto(t, "wake")
    /\ UNCHANGED <<count, wait_lock, caller, wait_list, mode, state, usage>>

\* wake_up_process(tsk); put_task_struct(tsk)
Wake(t) ==
    /\ pc[t] = "wake"
    /\ state' = [state EXCEPT ![tsk] = "RUNNING"]
    /\ usage' = [usage EXCEPT ![tsk] = @ - 1]
    /\ tsk' = NoTask
    /\ Goto(t, IF granting # <<>> THEN "tell" ELSE "unlock")
    /\ UNCHANGED <<count, wait_lock, caller, wait_list, granting, waiting, mode>>

Unlock(t) ==
    /\ pc[t] = "unlock"
    /\ wait_lock' = NoTask
    /\ Goto(t, IF caller = "down" THEN "check" ELSE "idle")
    /\ UNCHANGED <<count, caller, wait_list, granting, tsk, waiting, mode, state,
                   usage>>

-----------------------------------------------------------------------------
(***************************************************************************)
(* The users: a task may exit when it does not use the semaphore; its      *)
(* structure is free once its reference count is 0 and is then used again  *)
(* for a new task.                                                         *)
(***************************************************************************)
Exit(t) ==
    /\ pc[t] = "idle"
    /\ usage' = [usage EXCEPT ![t] = @ - 1]
    /\ Goto(t, "exited")
    /\ UNCHANGED <<count, queueVars, mode, state>>

Fork(t) ==
    /\ pc[t] = "exited"
    /\ usage[t] = 0
    /\ usage' = [usage EXCEPT ![t] = 1]
    /\ state' = [state EXCEPT ![t] = "RUNNING"]
    /\ Goto(t, "idle")
    /\ UNCHANGED <<count, queueVars, mode>>

Step(t) ==
    \/ DownRead(t) \/ DownReadTrylock(t) \/ DownWrite(t) \/ DownWriteTrylock(t)
    \/ UpRead(t) \/ UpWrite(t)
    \/ SetTaskState(t) \/ Enqueue(t) \/ Check(t) \/ Schedule(t)
    \/ RwsemWake(t) \/ DoWake(t) \/ Undo(t) \/ GrantWrite(t) \/ GrantRead(t)
    \/ Tell(t) \/ Wake(t) \/ Unlock(t)
    \/ Exit(t) \/ Fork(t)

Next == \E t \in Tasks : Step(t)

Spec == Init /\ [][Next]_vars

-----------------------------------------------------------------------------
(***************************************************************************)
(* Properties.                                                             *)
(***************************************************************************)

\* Every variable has its type; a reference count is never negative.
TypeOK ==
    /\ count \in Int
    /\ wait_lock \in Tasks \cup {NoTask}
    /\ caller \in {"down", "up"}
    /\ wait_list \in Seq(Tasks)
    /\ granting \in Seq(Tasks)
    /\ tsk \in Tasks \cup {NoTask}
    /\ waiting \in [Tasks -> BOOLEAN]
    /\ mode \in [Tasks -> Modes]
    /\ state \in [Tasks -> States]
    /\ usage \in [Tasks -> Nat]
    /\ pc \in [Tasks -> PCs]

Holds(t, m) == pc[t] = "hold" /\ mode[t] = m

\* A writer inside down_write ... up_write is alone: no reader and no other
\* writer is inside, whatever the interleaving of fast paths and grants.
MutualExclusion ==
    \A t, u \in Tasks : (Holds(t, "write") /\ t # u) => pc[u] # "hold"

\* t is past rwsem_down_failed_common's spin_lock and not yet returned.
InSlowPath(t) == \/ pc[t] \in {"check", "schedule"}
                 \/ (pc[t] \in WakePcs /\ caller = "down")

\* t was given the lock by a waker and has not looked at its waiter yet.
Granted(t) == InSlowPath(t) /\ (~waiting[t] \/ t \in Range(granting))

\* t holds the lock, in the eyes of count.
Owns(t) == pc[t] = "hold" \/ Granted(t)

\* The tasks whose part of count is an active one: holders, lockers in
\* transit, granted tasks, and a waker that has incremented count but has not
\* passed the increment on.
ActiveTasks ==
    {t \in Tasks : Owns(t) \/ pc[t] \in {"failed", "enqueue"}}
Borrowing == {t \in Tasks : pc[t] \in {"undo", "grant_write", "grant_read"}}

\* The tasks with a waiting part in count: the queue, and every writer from
\* its fast path to its up_write.
WaitTasks ==
    {t \in Tasks : \/ t \in Range(wait_list)
                   \/ /\ mode[t] = "write"
                      /\ Owns(t) \/ pc[t] \in {"failed", "enqueue"}}

\* count is always the sum of what the tasks put into it: no path of the fast
\* paths, of the failed lockers' adjustment, of the grants or of the undo code
\* loses or duplicates a bias.
CountAccounting ==
    count = Cardinality(ActiveTasks) + Cardinality(Borrowing)
            + WAITING_BIAS * Cardinality(WaitTasks)

\* wake_up_process and put_task_struct only touch a task structure to which
\* somebody still has a reference: the task may have noticed its grant, left
\* and exited between waiter->task = NULL and wake_up_process(tsk).
WakeTargetAlive == tsk # NoTask => usage[tsk] > 0

\* A waker only follows waiters that still exist: a waiter lives on the stack
\* of rwsem_down_failed_common, which returns once waiter->task is NULL.
NoUseAfterReturn ==
    \A t \in Range(wait_list) \cup Range(granting) : InSlowPath(t) /\ waiting[t]

\* The semaphore implements the first come, first served lock of RwLock; the
\* lock is granted when count says so, before the waiter is told.
Lock == INSTANCE RwLock WITH
    readers <- {t \in Tasks : Owns(t) /\ mode[t] = "read"},
    writers <- {t \in Tasks : Owns(t) /\ mode[t] = "write"},
    queue   <- [i \in 1..Len(wait_list) |-> <<wait_list[i], mode[wait_list[i]]>>]

ImplementsRwLock == Lock!LockSpec

\* A task at rest: outside, holding the lock, or asleep.
AtRest(t) ==
    \/ pc[t] \in {"idle", "exited", "hold"}
    \/ /\ pc[t] = "schedule"
       /\ state[t] = "UNINTERRUPTIBLE"

\* lib/rwsem.c:112 "undo the change to count, but check for a transition 1->0"
\* and 141 "if there are no longer active locks, wake the front queued
\* process(es) up": no task sleeps on a lock that nobody holds while nobody is
\* on the way to wake it.
NoLostWakeup ==
    (wait_list # <<>> /\ \A t \in Tasks : AtRest(t))
        => \E t \in Tasks : pc[t] = "hold"

-----------------------------------------------------------------------------
(***************************************************************************)
(* The inductive invariant behind the properties: who holds wait_lock, what *)
(* the lists contain, and what the reference counts count.                 *)
(***************************************************************************)
LockInv ==
    /\ \A t \in Tasks :
        /\ pc[t] \in WakePcs => wait_lock = t
        /\ pc[t] \in {"do_wake", "undo", "grant_write", "grant_read"}
              => wait_list # <<>>
        /\ pc[t] = "grant_write" => mode[Head(wait_list)] = "write"
        /\ pc[t] = "grant_read" => mode[Head(wait_list)] = "read"
        /\ pc[t] = "tell" => granting # <<>>
        /\ pc[t] = "wake" => tsk # NoTask
    /\ tsk # NoTask => \E t \in Tasks : pc[t] = "wake"
    /\ granting # <<>> => \E t \in Tasks : pc[t] \in {"tell", "wake"}

QueueInv ==
    /\ IsInjective(wait_list)
    /\ IsInjective(granting)
    /\ Range(wait_list) \cap Range(granting) = {}
    /\ \A t \in Tasks :
        /\ waiting[t] <=> t \in Range(wait_list) \cup Range(granting)
        /\ waiting[t] => InSlowPath(t)
        /\ t \in Range(granting) => mode[t] = "read"

\* The references to a task structure: the task's own, and the waiter's, which
\* the waker inherits.
OwnReference(t)    == IF pc[t] = "exited" THEN 0 ELSE 1
WaiterReference(t) == IF waiting[t] \/ tsk = t THEN 1 ELSE 0

UsageInv ==
    /\ \A t \in Tasks : usage[t] = OwnReference(t) + WaiterReference(t)
    /\ tsk # NoTask => ~waiting[tsk]

ListInv == TypeOK /\ LockInv /\ QueueInv /\ UsageInv

\* Nobody but a lone writer holds the lock together with others; while a grant
\* is under way nobody holds it.
OwnerInv ==
    /\ \A t, u \in Tasks : (Owns(t) /\ mode[t] = "write" /\ Owns(u)) => t = u
    /\ \A t \in Tasks : pc[t] \in {"grant_write", "grant_read"}
                         => \A u \in Tasks : ~Owns(u)

Inv == ListInv /\ CountAccounting /\ OwnerInv
=============================================================================
