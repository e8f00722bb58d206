------------------------------ MODULE RunQueue ------------------------------
(***************************************************************************)
(* The run queues of the O(1) scheduler (kernel/sched.c): schedule(),      *)
(* try_to_wake_up(), load_balance(), scheduler_tick(), set_cpus_allowed()  *)
(* with the migration threads, fork and exit as far as the queues see      *)
(* them.                                                                   *)
(*                                                                         *)
(* A section under one rq->lock is one action.  load_balance() and the     *)
(* migration threads hold two locks, taken one after the other, and        *)
(* load_balance() may drop the first one meanwhile; there the locks are    *)
(* variables and every acquisition is an action.  Priorities and cache     *)
(* affinity are abstracted: any task of the active array may be the next,  *)
(* except that a migration thread (real-time, highest priority) is first.  *)
(***************************************************************************)
EXTENDS Integers, Sequences, FiniteSets, FiniteSetsExt, Functions

CONSTANTS
    NR_CPUS,     \* number of CPUs; rq->lock addresses ascend with the number
    Tasks,       \* the ordinary tasks
    Movers,      \* those that call set_cpus_allowed
    Schedulers,  \* those that call setscheduler
    Syncers,     \* those that do synchronous wakeups
    Mortals,     \* those that may exit
    MaxLoad,     \* bound on nr_uninterruptible, which setscheduler can raise
    None         \* no lock holder, no array

CPUs  == 0 .. NR_CPUS - 1
Idle  == {<<"idle", c>> : c \in CPUs}
Mts   == {<<"migration", c>> : c \in CPUs}
idle(c) == <<"idle", c>>
migration_thread(c) == <<"migration", c>>
Kthreads == Idle \cup Mts

ASSUME RunQueueAssumption ==
    /\ NR_CPUS \in Nat \ {0}
    /\ IsFiniteSet(Tasks)
    /\ Movers \subseteq Tasks /\ Schedulers \subseteq Tasks /\ Syncers \subseteq Tasks
    /\ Mortals \subseteq Tasks /\ MaxLoad \in Nat
    /\ Tasks \cap Kthreads = {}
    /\ None \notin Tasks \cup CPUs \cup (CPUs \X {"active", "expired"})

VARIABLES
    state,         \* p->state; "none" if there is no such task
    cpu,           \* task_cpu(p)
    cpus_allowed,  \* p->cpus_allowed
    array,         \* p->array: None or the CPU and which of its two arrays
    curr,          \* rq->curr
    nr_running,    \* rq->nr_running
    nr_uninterruptible, \* rq->nr_uninterruptible, summed over the queues: only
                   \* the sum is ever read
    need_resched,  \* need_resched of the CPU's idle task
    lock,          \* rq->lock: the CPU that holds it, or None
    cpc,           \* where a CPU is while interrupts are off
    busiest,       \* the other queue of load_balance or of the migration
    doing,         \* where an ordinary task is in a call that takes several steps
    arg,           \* its argument: the other task, and its run queue
    migration_queue, \* rq->migration_queue: the callers of set_cpus_allowed
    done,          \* req.done of that caller
    mpc,           \* where the migration thread of a CPU is
    req            \* the request and the destination it works on

taskVars  == <<state, cpu, cpus_allowed, array>>
rqVars    == <<curr, nr_running, nr_uninterruptible, need_resched>>
lockVars  == <<lock, cpc, busiest>>
callVars  == <<doing, arg, migration_queue, done>>
mtVars    == <<mpc, req>>
vars      == <<taskVars, rqVars, lockVars, callVars, mtVars>>

Sleeping == {"INTERRUPTIBLE", "UNINTERRUPTIBLE"}
States   == Sleeping \cup {"RUNNING", "ZOMBIE", "none"}
NoReq    == [caller |-> None, dest |-> None]

\* All CPUs idle, their migration threads asleep, the tasks queued on CPU 0.
Init ==
    /\ state = [p \in Tasks \cup Kthreads |->
                    IF p \in Mts THEN "INTERRUPTIBLE" ELSE "RUNNING"]
    /\ cpu = [p \in Tasks \cup Kthreads |-> IF p \in Kthreads THEN p[2] ELSE 0]
    /\ cpus_allowed = [p \in Tasks \cup Mts |-> IF p \in Mts THEN {p[2]} ELSE CPUs]
    /\ array = [p \in Tasks \cup Kthreads |->
                    IF p \in Tasks THEN <<0, "active">> ELSE None]
    /\ curr = [c \in CPUs |-> idle(c)]
    /\ nr_running = [c \in CPUs |-> IF c = 0 THEN Cardinality(Tasks) ELSE 0]
    /\ nr_uninterruptible = 0
    /\ need_resched = [c \in CPUs |-> TRUE]
    /\ lock = [c \in CPUs |-> None]
    /\ cpc = [c \in CPUs |-> "run"]
    /\ busiest = [c \in CPUs |-> None]
    /\ doing = [p \in Tasks |-> "free"]
    /\ arg = [p \in Tasks |-> None]
    /\ migration_queue = [c \in CPUs |-> <<>>]
    /\ done = [p \in Tasks |-> FALSE]
    /\ mpc = [c \in CPUs |-> "top"]
    /\ req = [c \in CPUs |-> NoReq]

-----------------------------------------------------------------------------
task_running(c, p) == curr[c] = p

\* What runs on CPU c with interrupts enabled.
Runs(c, p) == cpc[c] = "run" /\ curr[c] = p

\* rq->lock can be taken.
Unlocked(c) == lock[c] = None

Plus(f, c, n) == [f EXCEPT ![c] = @ + n]

Uninterruptible(p) == IF state[p] = "UNINTERRUPTIBLE" THEN 1 ELSE 0

InArray(c, a) == {p \in Tasks \cup Mts : array[p] = <<c, a>>}

\* resched_task(rq->curr): the idle task has the lowest priority of all.
ReschedIfIdle(c) ==
    need_resched' = [need_resched EXCEPT ![c] = @ \/ curr[c] = idle(c)]

-----------------------------------------------------------------------------
(***************************************************************************)
(* schedule().                                                             *)
(***************************************************************************)
\* Its first part, until prev is off the queue if it has to be.  An
\* interruptible task may have a signal pending.
Schedule(c) ==
    LET prev == curr[c] IN
    /\ cpc[c] = "run"
    /\ prev \in Idle => need_resched[c]
    /\ prev \in Tasks => doing[prev] \in {"free", "wait", "yield"}
    /\ prev \in Mts => mpc[c] = "sched"
    /\ Unlocked(c)
    /\ lock' = [lock EXCEPT ![c] = c]
    /\ cpc' = [cpc EXCEPT ![c] = "pick"]
    /\ doing' = IF prev \in Tasks /\ doing[prev] = "yield"
                THEN [doing EXCEPT ![prev] = "free"] ELSE doing
    /\ mpc' = IF prev \in Mts THEN [mpc EXCEPT ![c] = "top"] ELSE mpc
    /\ \/ /\ state[prev] = "RUNNING"
          /\ UNCHANGED <<taskVars, nr_running, nr_uninterruptible>>
       \/ /\ state[prev] = "INTERRUPTIBLE" /\ prev \in Tasks
          /\ state' = [state EXCEPT ![prev] = "RUNNING"]
          /\ UNCHANGED <<cpu, cpus_allowed, array, nr_running, nr_uninterruptible>>
       \/ /\ state[prev] # "RUNNING"
          /\ nr_running' = Plus(nr_running, c, -1)
          /\ nr_uninterruptible' = nr_uninterruptible + Uninterruptible(prev)
          /\ array' = [array EXCEPT ![prev] = None]
          /\ UNCHANGED <<state, cpu, cpus_allowed>>
    /\ UNCHANGED <<curr, need_resched, busiest, arg, migration_queue, done, req>>

\* The switch to next, and the end of the section.
SwitchTo(c, next) ==
    /\ curr' = [curr EXCEPT ![c] = next]
    /\ need_resched' = [need_resched EXCEPT ![c] = FALSE]
    /\ lock' = [lock EXCEPT ![c] = None]
    /\ cpc' = [cpc EXCEPT ![c] = "run"]
    /\ UNCHANGED <<nr_running, nr_uninterruptible, busiest>>

\* Any task of the active array, the migration thread first.
Candidates(a) == IF a \cap Mts # {} THEN a \cap Mts ELSE a

\* If the active array is empty, the arrays are swapped.
PickNext(c) ==
    /\ cpc[c] = "pick"
    /\ nr_running[c] > 0
    /\ LET swap == InArray(c, "active") = {}
           from == IF swap THEN InArray(c, "expired") ELSE InArray(c, "active")
       IN /\ array' = IF ~swap THEN array
                      ELSE [p \in DOMAIN array |->
                               IF p \in from THEN <<c, "active">> ELSE array[p]]
          /\ \E next \in Candidates(from) : SwitchTo(c, next)
    /\ UNCHANGED <<state, cpu, cpus_allowed, callVars, mtVars>>

\* find_busiest_queue, lock-free: with at least two tasks, and if this CPU is
\* not idle, more than it has itself.
MaybeBusiest(c, isIdle) ==
    {b \in CPUs \ {c} : nr_running[b] > 1 /\ (isIdle \/ nr_running[b] > nr_running[c])}

\* Nothing to run: load_balance(rq, 1), or the idle task if there is no other
\* queue to take from.
PickIdle(c) ==
    /\ \/ cpc[c] = "pick" /\ nr_running[c] = 0 /\ MaybeBusiest(c, TRUE) = {}
       \/ cpc[c] = "pulled" /\ nr_running[c] = 0
    /\ SwitchTo(c, idle(c))
    /\ UNCHANGED <<taskVars, callVars, mtVars>>

\* After load_balance in schedule(): back to pick_next_task.
PickAgain(c) ==
    /\ cpc[c] = "pulled" /\ nr_running[c] > 0
    /\ cpc' = [cpc EXCEPT ![c] = "pick"]
    /\ UNCHANGED <<taskVars, rqVars, lock, busiest, callVars, mtVars>>

-----------------------------------------------------------------------------
(***************************************************************************)
(* load_balance(), called by schedule() or by the tick.  cpc is "want"     *)
(* while spinning for the busiest queue's lock, "dropped" if this queue's  *)
(* lock was given up for it, "relock" while taking it again, "both" with   *)
(* both, and "pulled" when schedule() goes on.                             *)
(***************************************************************************)
\* Mutant: this queue's lock is kept whatever the order.
AscendingNot(c, b) == TRUE

\* Whether c may wait for b's lock with its own held.
Ascending(c, b) == c < b

\* double_lock_balance: trylock first, with this queue's lock held.
DoubleLockBalance(c, b, from) ==
    /\ busiest' = [busiest EXCEPT ![c] = [rq |-> b, from |-> from]]
    /\ \/ /\ lock[b] = None
          /\ lock' = [lock EXCEPT ![c] = c, ![b] = c]
          /\ cpc' = [cpc EXCEPT ![c] = "both"]
       \/ /\ lock[b] # None
          /\ lock' = [lock EXCEPT ![c] = IF Ascending(c, b) THEN c ELSE None]
          /\ cpc' = [cpc EXCEPT ![c] = IF Ascending(c, b) THEN "want" ELSE "dropped"]

\* From schedule().  prev is off the queue but still rq->curr.
BalanceIdle(c) ==
    /\ cpc[c] = "pick" /\ nr_running[c] = 0
    /\ \E b \in MaybeBusiest(c, TRUE) : DoubleLockBalance(c, b, "schedule")
    /\ UNCHANGED <<taskVars, rqVars, callVars, mtVars>>

\* scheduler_tick: a task that used up its time slice changes to the expired
\* array (an interactive one stays); every so often the tick balances.
Tick(c) ==
    /\ cpc[c] = "run" /\ Unlocked(c)
    /\ \/ /\ curr[c] \in Tasks /\ array[curr[c]] = <<c, "active">>
          /\ array' = [array EXCEPT ![curr[c]] = <<c, "expired">>]
       \/ UNCHANGED array
    /\ \/ array' # array /\ UNCHANGED lockVars
       \/ \E b \in MaybeBusiest(c, curr[c] = idle(c)) : DoubleLockBalance(c, b, "tick")
    /\ UNCHANGED <<state, cpu, cpus_allowed, rqVars, callVars, mtVars>>

LockBusiest(c) ==
    /\ cpc[c] \in {"want", "dropped"}
    /\ Unlocked(busiest[c].rq)
    /\ lock' = [lock EXCEPT ![busiest[c].rq] = c]
    /\ cpc' = [cpc EXCEPT ![c] = IF cpc[c] = "want" THEN "both" ELSE "relock"]
    /\ UNCHANGED <<taskVars, rqVars, busiest, callVars, mtVars>>

Relock(c) ==
    /\ cpc[c] = "relock"
    /\ Unlocked(c)
    /\ lock' = [lock EXCEPT ![c] = c]
    /\ cpc' = [cpc EXCEPT ![c] = "both"]
    /\ UNCHANGED <<taskVars, rqVars, busiest, callVars, mtVars>>

\* Mutant: a task may be pulled while its CPU is still running it.
CanMigrateRunning(p, b, c) == array[p] # None /\ cpu[p] = b /\ c \in cpus_allowed[p]

\* CAN_MIGRATE_TASK; the cache may forbid it too.
CanMigrate(p, b, c) ==
    /\ array[p] # None /\ cpu[p] = b
    /\ ~task_running(b, p)
    /\ c \in cpus_allowed[p]

\* pull_task for one task if this CPU is idle, for some otherwise; none if the
\* other queue is not longer any more.  set_need_resched() is for whoever runs
\* here, and matters if that is the idle task.  Then busiest is unlocked, and in
\* a tick this queue as well.
Pull(c) ==
    LET b == busiest[c].rq
        isIdle == busiest[c].from = "schedule" \/ curr[c] = idle(c)
    IN
    /\ cpc[c] = "both"
    /\ \E S \in SUBSET {p \in Tasks : CanMigrate(p, b, c)} :
        /\ S # {} => nr_running[b] > nr_running[c]
        /\ isIdle => Cardinality(S) <= 1
        /\ array' = [p \in DOMAIN array |-> IF p \in S THEN <<c, "active">> ELSE array[p]]
        /\ cpu' = [p \in DOMAIN cpu |-> IF p \in S THEN c ELSE cpu[p]]
        /\ nr_running' = [nr_running EXCEPT ![b] = @ - Cardinality(S), ![c] = @ + Cardinality(S)]
        /\ need_resched' = [need_resched EXCEPT ![c] = @ \/ (S # {} /\ curr[c] = idle(c))]
    /\ lock' = [lock EXCEPT ![b] = None,
                            ![c] = IF busiest[c].from = "schedule" THEN c ELSE None]
    /\ cpc' = [cpc EXCEPT ![c] = IF busiest[c].from = "schedule" THEN "pulled" ELSE "run"]
    /\ busiest' = [busiest EXCEPT ![c] = None]
    /\ UNCHANGED <<state, cpus_allowed, curr, nr_uninterruptible, callVars, mtVars>>

-----------------------------------------------------------------------------
(***************************************************************************)
(* try_to_wake_up().                                                       *)
(***************************************************************************)
\* Mutant: what is off the queue is told by what runs.
OffQueueByCurr(p) == ~task_running(cpu[p], p)

\* !p->array: a task on its way through schedule() may be off its queue and
\* still be rq->curr.
OffQueue(p) == array[p] = None

\* activate_task, under the lock of the task's queue; without a synchronous
\* wakeup the queue's CPU is told if it idles.
Activate(p, sync) ==
    LET c == cpu[p] IN
    /\ array' = [array EXCEPT ![p] = <<c, "active">>]
    /\ nr_running' = Plus(nr_running, c, 1)
    /\ nr_uninterruptible' = nr_uninterruptible - Uninterruptible(p)
    /\ IF sync THEN UNCHANGED need_resched ELSE ReschedIfIdle(c)

\* A sleeping task runs; if it was off the queue it is put on it.
TryToWakeUp(p, sync) ==
    /\ Unlocked(cpu[p])
    /\ state' = IF state[p] \in Sleeping THEN [state EXCEPT ![p] = "RUNNING"] ELSE state
    /\ IF state[p] \in Sleeping /\ OffQueue(p)
       THEN Activate(p, sync)
       ELSE UNCHANGED <<array, nr_running, nr_uninterruptible, need_resched>>
    /\ UNCHANGED <<cpus_allowed, curr>>

\* An interrupt or another task wakes p, from any CPU.
WakeUp(p) ==
    /\ state[p] \in Sleeping
    /\ \E c \in CPUs : cpc[c] = "run"
    /\ TryToWakeUp(p, FALSE)
    /\ UNCHANGED <<cpu, lockVars, callVars, mtVars>>

MayFastMigrate(p, c) ==
    /\ OffQueue(p)
    /\ ~task_running(cpu[p], p)
    /\ cpu[p] # c
    /\ c \in cpus_allowed[p]

\* A synchronous wakeup by q: a task that is fully asleep changes to this CPU
\* first, with the lock of its old queue; then everything starts again.
WakeUpSync(c, q, p) ==
    /\ Runs(c, q) /\ q \in Syncers \ {p}
    /\ \/ doing[q] = "free" /\ state[q] = "RUNNING" /\ state[p] \in Sleeping
       \/ doing[q] = "rewake" /\ arg[q].task = p
    /\ Unlocked(cpu[p])
    /\ \/ /\ state[p] \in Sleeping /\ MayFastMigrate(p, c)
          /\ cpu' = [cpu EXCEPT ![p] = c]
          /\ doing' = [doing EXCEPT ![q] = "rewake"]
          /\ arg' = [arg EXCEPT ![q] = [task |-> p, rq |-> None]]
          /\ UNCHANGED <<state, cpus_allowed, array, rqVars>>
       \/ /\ ~(state[p] \in Sleeping /\ MayFastMigrate(p, c))
          /\ TryToWakeUp(p, TRUE)
          /\ doing' = [doing EXCEPT ![q] = "free"]
          /\ arg' = [arg EXCEPT ![q] = None]
          /\ UNCHANGED cpu
    /\ UNCHANGED <<lockVars, migration_queue, done, mtVars>>

-----------------------------------------------------------------------------
(***************************************************************************)
(* What the running task does.                                             *)
(***************************************************************************)
\* It announces that it is going to sleep, or that it does not have to.
SetState(c, p) ==
    /\ Runs(c, p)
    /\ doing[p] = "free" /\ state[p] # "ZOMBIE"
    /\ \E s \in (Sleeping \cup {"RUNNING"}) \ {state[p]} :
            state' = [state EXCEPT ![p] = s]
    /\ UNCHANGED <<cpu, cpus_allowed, array, rqVars, lockVars, callVars, mtVars>>

\* sys_sched_yield, before it calls schedule().
Yield(c, p) ==
    /\ Runs(c, p) /\ Unlocked(c)
    /\ doing[p] = "free" /\ state[p] = "RUNNING"
    /\ array' = [array EXCEPT ![p] = <<c, "expired">>]
    /\ doing' = [doing EXCEPT ![p] = "yield"]
    /\ UNCHANGED <<state, cpu, cpus_allowed, rqVars, lockVars, arg, migration_queue, done, mtVars>>

\* setscheduler: deactivate_task and __activate_task.
Setscheduler(c, q, p) ==
    /\ Runs(c, q) /\ q \in Schedulers
    /\ doing[q] = "free" /\ state[q] = "RUNNING"
    /\ Unlocked(cpu[p])
    /\ array[p] # None
    /\ nr_uninterruptible < MaxLoad
    /\ array' = [array EXCEPT ![p] = <<cpu[p], "active">>]
    /\ nr_uninterruptible' = nr_uninterruptible + Uninterruptible(p)
    /\ UNCHANGED <<state, cpu, cpus_allowed, curr, nr_running, need_resched, lockVars, callVars, mtVars>>

\* wake_up_forked_process: the child is put beside its parent.
Fork(c, q, p) ==
    /\ Runs(c, q) /\ Unlocked(c)
    /\ q \in Tasks /\ doing[q] = "free" /\ state[q] = "RUNNING"
    /\ state[p] = "none"
    /\ state' = [state EXCEPT ![p] = "RUNNING"]
    /\ cpu' = [cpu EXCEPT ![p] = c]
    /\ cpus_allowed' = [cpus_allowed EXCEPT ![p] = cpus_allowed[q]]
    /\ array' = [array EXCEPT ![p] = array[q]]
    /\ nr_running' = Plus(nr_running, c, 1)
    /\ UNCHANGED <<curr, nr_uninterruptible, need_resched, lockVars, callVars, mtVars>>

\* do_exit, before its last schedule().
Exit(c, p) ==
    /\ Runs(c, p) /\ p \in Mortals
    /\ doing[p] = "free" /\ state[p] = "RUNNING"
    /\ state' = [state EXCEPT ![p] = "ZOMBIE"]
    /\ UNCHANGED <<cpu, cpus_allowed, array, rqVars, lockVars, callVars, mtVars>>

\* Mutant: release_task does not wait.
Inactive(p) == TRUE

\* wait_task_inactive, with the lock of the task's queue.
wait_task_inactive(p) == Unlocked(cpu[p]) /\ ~task_running(cpu[p], p)

\* release_task by the parent: the task structure and its stack are gone.
ReleaseTask(c, q, p) ==
    /\ Runs(c, q) /\ doing[q] = "free" /\ state[q] = "RUNNING"
    /\ state[p] = "ZOMBIE"
    /\ wait_task_inactive(p)
    /\ state' = [state EXCEPT ![p] = "none"]
    /\ UNCHANGED <<cpu, cpus_allowed, array, rqVars, lockVars, callVars, mtVars>>

-----------------------------------------------------------------------------
(***************************************************************************)
(* set_cpus_allowed() and the migration thread.                            *)
(***************************************************************************)
SetCpusAllowed(c, q, p, mask) ==
    LET r == cpu[p] IN
    /\ Runs(c, q) /\ q \in Movers
    /\ doing[q] = "free" /\ state[q] = "RUNNING"
    /\ state[p] \notin {"none", "ZOMBIE"}
    /\ Unlocked(r)
    /\ cpus_allowed' = [cpus_allowed EXCEPT ![p] = mask]
    /\ \/ /\ r \in mask
          /\ UNCHANGED <<cpu, callVars>>
       \/ /\ r \notin mask
          /\ array[p] = None /\ ~task_running(r, p)
          /\ cpu' = [cpu EXCEPT ![p] = Min(mask)]
          /\ UNCHANGED callVars
       \/ /\ r \notin mask
          /\ ~(array[p] = None /\ ~task_running(r, p))
          /\ migration_queue' = [migration_queue EXCEPT ![r] = <<q>> \o @]
          /\ doing' = [doing EXCEPT ![q] = "wakemt"]
          /\ arg' = [arg EXCEPT ![q] = [task |-> p, rq |-> r]]
          /\ done' = [done EXCEPT ![q] = FALSE]
          /\ UNCHANGED cpu
    /\ UNCHANGED <<state, array, rqVars, lockVars, mtVars>>

\* wake_up_process(rq->migration_thread)
WakeMigrationThread(c, q) ==
    /\ Runs(c, q) /\ doing[q] = "wakemt"
    /\ TryToWakeUp(migration_thread(arg[q].rq), FALSE)
    /\ doing' = [doing EXCEPT ![q] = "wait"]
    /\ UNCHANGED <<cpu, lockVars, arg, migration_queue, done, mtVars>>

\* wait_for_completion(&req.done), each time around.
WaitForCompletion(c, q) ==
    /\ Runs(c, q) /\ doing[q] = "wait" /\ state[q] = "RUNNING"
    /\ \/ /\ done[q]
          /\ doing' = [doing EXCEPT ![q] = "free"]
          /\ arg' = [arg EXCEPT ![q] = None]
          /\ done' = [done EXCEPT ![q] = FALSE]
          /\ UNCHANGED state
       \/ /\ ~done[q]
          /\ state' = [state EXCEPT ![q] = "UNINTERRUPTIBLE"]
          /\ UNCHANGED <<doing, arg, done>>
    /\ UNCHANGED <<cpu, cpus_allowed, array, rqVars, lockVars, migration_queue, mtVars>>

\* The top of the migration thread's loop.
MtTop(c) ==
    /\ Runs(c, migration_thread(c)) /\ mpc[c] = "top" /\ Unlocked(c)
    /\ state' = [state EXCEPT ![migration_thread(c)] = "INTERRUPTIBLE"]
    /\ \/ /\ migration_queue[c] = <<>>
          /\ mpc' = [mpc EXCEPT ![c] = "sched"]
          /\ UNCHANGED <<migration_queue, req>>
       \/ /\ migration_queue[c] # <<>>
          /\ req' = [req EXCEPT ![c].caller = Head(migration_queue[c])]
          /\ migration_queue' = [migration_queue EXCEPT ![c] = Tail(@)]
          /\ mpc' = [mpc EXCEPT ![c] = "got"]
    /\ UNCHANGED <<cpu, cpus_allowed, array, rqVars, lockVars, doing, arg, done>>

Moved(c) == arg[req[c].caller].task

\* cpu_dest is read without a lock.
MtDest(c) ==
    /\ Runs(c, migration_thread(c)) /\ mpc[c] = "got"
    /\ req' = [req EXCEPT ![c].dest = Min(cpus_allowed[Moved(c)])]
    /\ mpc' = [mpc EXCEPT ![c] = "repeat"]
    /\ UNCHANGED <<taskVars, rqVars, lockVars, callVars>>

\* cpu_src is read, and interrupts are disabled.
MtRepeat(c) ==
    /\ Runs(c, migration_thread(c)) /\ mpc[c] = "repeat"
    /\ busiest' = [busiest EXCEPT ![c] = [rq |-> cpu[Moved(c)], from |-> "migration"]]
    /\ cpc' = [cpc EXCEPT ![c] = "first"]
    /\ UNCHANGED <<taskVars, rqVars, lock, callVars, mtVars>>

\* double_rq_lock: in ascending order.
MtLock(c) ==
    LET both == {busiest[c].rq, req[c].dest}
        next == IF cpc[c] = "first" THEN Min(both) ELSE Max(both)
    IN
    /\ cpc[c] \in {"first", "second"}
    /\ Unlocked(next)
    /\ lock' = [lock EXCEPT ![next] = c]
    /\ cpc' = [cpc EXCEPT ![c] =
                  IF cpc[c] = "first" /\ Cardinality(both) = 2 THEN "second" ELSE "move"]
    /\ UNCHANGED <<taskVars, rqVars, busiest, callVars, mtVars>>

\* With both locks: if the task is still on this thread's CPU it is moved; if it
\* has changed its CPU meanwhile, the locks are the wrong ones.
MtMove(c) ==
    LET p == Moved(c)
        src == busiest[c].rq
        dest == req[c].dest
    IN
    /\ cpc[c] = "move"
    /\ \/ /\ cpu[p] = src /\ src = c
          /\ cpu' = [cpu EXCEPT ![p] = dest]
          /\ IF array[p] = None
             THEN UNCHANGED <<array, nr_running, nr_uninterruptible, need_resched>>
             ELSE /\ array' = [array EXCEPT ![p] = <<dest, "active">>]
                  /\ nr_running' = Plus(Plus(nr_running, src, -1), dest, 1)
                  /\ nr_uninterruptible' = nr_uninterruptible + Uninterruptible(p)
                  /\ ReschedIfIdle(dest)
          /\ mpc' = [mpc EXCEPT ![c] = "complete"]
       \/ /\ cpu[p] = src /\ src # c
          /\ mpc' = [mpc EXCEPT ![c] = "complete"]
          /\ UNCHANGED <<cpu, array, nr_running, nr_uninterruptible, need_resched>>
       \/ /\ cpu[p] # src
          /\ UNCHANGED <<mpc, cpu, array, nr_running, nr_uninterruptible, need_resched>>
    /\ lock' = [lock EXCEPT ![src] = None, ![dest] = None]
    /\ cpc' = [cpc EXCEPT ![c] = "run"]
    /\ busiest' = [busiest EXCEPT ![c] = None]
    /\ UNCHANGED <<state, cpus_allowed, curr, callVars, req>>

\* complete(&req->done): done and the wakeup of the caller.
MtComplete(c) ==
    LET q == req[c].caller IN
    /\ Runs(c, migration_thread(c)) /\ mpc[c] = "complete"
    /\ done' = [done EXCEPT ![q] = TRUE]
    /\ TryToWakeUp(q, FALSE)
    /\ mpc' = [mpc EXCEPT ![c] = "top"]
    /\ req' = [req EXCEPT ![c] = NoReq]
    /\ UNCHANGED <<cpu, lockVars, doing, arg, migration_queue>>

-----------------------------------------------------------------------------
Sched(c) ==
    \/ Schedule(c) \/ PickNext(c) \/ PickIdle(c) \/ PickAgain(c)
    \/ BalanceIdle(c) \/ Tick(c) \/ LockBusiest(c) \/ Relock(c) \/ Pull(c)

Migration(c) ==
    \/ MtTop(c) \/ MtDest(c) \/ MtRepeat(c) \/ MtLock(c) \/ MtMove(c) \/ MtComplete(c)

TaskStep(c) == \E q \in Tasks :
    \/ SetState(c, q) \/ Yield(c, q) \/ Exit(c, q)
    \/ WakeMigrationThread(c, q) \/ WaitForCompletion(c, q)
    \/ \E p \in Tasks :
        \/ WakeUpSync(c, q, p) \/ Setscheduler(c, q, p) \/ Fork(c, q, p) \/ ReleaseTask(c, q, p)
        \/ \E mask \in (SUBSET CPUs) \ {{}} : SetCpusAllowed(c, q, p, mask)

Next ==
    \/ \E c \in CPUs : Sched(c) \/ Migration(c) \/ TaskStep(c)
    \/ \E p \in Tasks : WakeUp(p)

Spec == Init /\ [][Next]_vars

-----------------------------------------------------------------------------
(***************************************************************************)
(* Properties.                                                             *)
(***************************************************************************)

\* Every variable has its type.
TypeOK ==
    /\ state \in [Tasks \cup Kthreads -> States]
    /\ cpu \in [Tasks \cup Kthreads -> CPUs]
    /\ cpus_allowed \in [Tasks \cup Mts -> (SUBSET CPUs) \ {{}}]
    /\ array \in [Tasks \cup Kthreads -> {None} \cup CPUs \X {"active", "expired"}]
    /\ curr \in [CPUs -> Tasks \cup Kthreads]
    /\ nr_running \in [CPUs -> Nat]
    /\ nr_uninterruptible \in Int
    /\ need_resched \in [CPUs -> BOOLEAN]
    /\ lock \in [CPUs -> CPUs \cup {None}]
    /\ cpc \in [CPUs -> {"run", "pick", "pulled", "want", "dropped", "relock", "both",
                         "first", "second", "move"}]
    /\ busiest \in [CPUs -> {None} \cup [rq : CPUs, from : {"schedule", "tick", "migration"}]]
    /\ doing \in [Tasks -> {"free", "yield", "rewake", "wakemt", "wait"}]
    /\ arg \in [Tasks -> {None} \cup [task : Tasks, rq : CPUs \cup {None}]]
    /\ migration_queue \in [CPUs -> Seq(Tasks)]
    /\ done \in [Tasks -> BOOLEAN]
    /\ req \in [CPUs -> [caller : Tasks \cup {None}, dest : CPUs \cup {None}]]
    /\ mpc \in [CPUs -> {"top", "sched", "got", "repeat", "complete"}]

\* A task runs on one CPU at a time, the one its task_cpu() names, and it is
\* never one whose structure and stack have been released: the switch away from
\* it is over before anybody else may move, run or free it.
RunsOnce ==
    /\ \A c \in CPUs : cpu[curr[c]] = c /\ state[curr[c]] # "none"
    /\ \A c, d \in CPUs : c # d => curr[c] # curr[d]

\* No wakeup is lost between a sleeper, its wakers and the balancing CPUs: a task
\* that is to run is queued, whoever was moving it.
RunnableIsQueued ==
    \A p \in Tasks \cup Mts :
        /\ state[p] = "RUNNING" => array[p] # None
        /\ array[p] # None /\ state[p] # "RUNNING" => curr[cpu[p]] = p

\* A queued task is on a queue of its own CPU, nr_running is the length of the
\* two arrays whenever the queue's lock is free, so that schedule() never looks
\* for a task in empty arrays, and exactly the tasks that are to run are queued.
QueuesExact ==
    /\ \A p \in Tasks \cup Mts : array[p] # None => array[p][1] = cpu[p]
    /\ \A c \in CPUs : nr_running[c] =
            Cardinality(InArray(c, "active")) + Cardinality(InArray(c, "expired"))
    /\ RunnableIsQueued

\* c spins for a lock that d holds.
WaitsFor(c, d) ==
    \/ cpc[c] \in {"want", "dropped"} /\ lock[busiest[c].rq] = d
    \/ cpc[c] = "relock" /\ lock[c] = d
    \/ cpc[c] = "first" /\ lock[Min({busiest[c].rq, req[c].dest})] = d
    \/ cpc[c] = "second" /\ lock[Max({busiest[c].rq, req[c].dest})] = d

\* "lock acquire operations must be ordered by ascending &runqueue": in no group
\* of CPUs does each spin for a run queue lock that another of the group, or
\* itself, holds.
NoLockCycle ==
    \A D \in (SUBSET CPUs) \ {{}} : \E c \in D : \A d \in D : ~WaitsFor(c, d)

\* "current number of uninterruptible-sleeping threads": the sum over the queues,
\* whichever queue a sleeper left and came back to.
UninterruptibleCount ==
    nr_uninterruptible =
        Cardinality({p \in Tasks : state[p] = "UNINTERRUPTIBLE" /\ array[p] = None})

\* "no CPU should stay idle if there is work to do": a CPU that idles with a task
\* on its queue has been told to reschedule.
NoIdleWithWork ==
    \A c \in CPUs :
        Runs(c, idle(c)) /\ nr_running[c] > 0 => need_resched[c]

\* "Migrate the thread to a proper CPU": when no set_cpus_allowed is under way,
\* every task is on a CPU of its mask.
OnAllowedCpu ==
    (\A q \in Tasks : doing[q] = "free") =>
        \A p \in Tasks : state[p] # "none" => cpu[p] \in cpus_allowed[p]

\* For the code that sleeps and wakes, the whole is TaskSched: a task leaves its
\* queue only by its own schedule() in a state in which it is not to run, and a
\* wakeup sets the state and queues the task in one step, even if the task
\* changes its CPU meanwhile or is still being switched away.
SchedView == INSTANCE TaskSched WITH
    state <- [p \in Tasks |-> state[p]],
    on_rq <- [p \in Tasks |-> array[p] # None]
ImplementsTaskSched == SchedView!Spec
-----------------------------------------------------------------------------
(***************************************************************************)
(* The inductive invariant behind RunsOnce, QueuesExact, NoLockCycle and   *)
(* ImplementsTaskSched.                                                    *)
(***************************************************************************)

\* The threads of a CPU stay there; the idle task always runs.
KthreadInv ==
    \A c \in CPUs : /\ cpu[idle(c)] = c /\ state[idle(c)] = "RUNNING"
                    /\ cpu[migration_thread(c)] = c
                    /\ state[migration_thread(c)] \in {"RUNNING", "INTERRUPTIBLE"}

CurrInv == \A c \in CPUs : cpu[curr[c]] = c /\ state[curr[c]] # "none"

\* The tasks on the two arrays of c.
OnQueue(c) == {p \in Tasks \cup Mts : array[p] # None /\ array[p][1] = c}

QueueInv ==
    /\ \A p \in Tasks \cup Mts : array[p] # None => array[p][1] = cpu[p]
    /\ RunnableIsQueued

CountInv == \A c \in CPUs : nr_running[c] = Cardinality(OnQueue(c))

\* c is in schedule() and has not switched yet.
InSchedule(c) ==
    \/ cpc[c] \in {"pick", "pulled"}
    \/ cpc[c] \in {"want", "dropped", "relock", "both"} /\ busiest[c].from = "schedule"

\* What runs is queued; in schedule() it may be off the queue, and then it is not
\* left on the queue in a state in which it is not to run.
SwitchInv ==
    \A c \in CPUs : curr[c] \in Tasks \cup Mts =>
        IF InSchedule(c) THEN array[curr[c]] # None => state[curr[c]] = "RUNNING"
                         ELSE array[curr[c]] # None

\* The other queue is known while it is in use, and who may wait for what.
Busy(c) ==
    /\ cpc[c] \in {"want", "dropped", "relock", "both"} =>
          busiest[c] \in [rq : CPUs \ {c}, from : {"schedule", "tick"}]
    /\ cpc[c] = "want" => c < busiest[c].rq
    /\ cpc[c] \in {"dropped", "relock"} => busiest[c].rq < c
    /\ cpc[c] \in {"first", "second", "move"} =>
          /\ busiest[c] \in [rq : CPUs, from : {"migration"}]
          /\ req[c].dest \in CPUs
          /\ mpc[c] = "repeat" /\ curr[c] = migration_thread(c)
    /\ cpc[c] = "second" => busiest[c].rq # req[c].dest

BusyInv == \A c \in CPUs : Busy(c)

\* c holds the lock of x's queue.
Holds(c, x) ==
    \/ cpc[c] \in {"pick", "pulled", "want", "both"} /\ x = c
    \/ cpc[c] \in {"relock", "both"} /\ x = busiest[c].rq
    \/ cpc[c] = "second" /\ x = Min({busiest[c].rq, req[c].dest})
    \/ cpc[c] = "move" /\ x \in {busiest[c].rq, req[c].dest}

LockInv == \A c, x \in CPUs : lock[x] = c <=> Holds(c, x)

\* The migration thread of c works on the request of q.
Serves(c, q) == mpc[c] \in {"got", "repeat", "complete"} /\ req[c].caller = q

\* A request is in one place, and its caller waits while it is there.
RequestInv ==
    /\ \A c \in CPUs : /\ mpc[c] \in {"got", "repeat", "complete"} => req[c].caller \in Tasks
                       /\ mpc[c] \in {"repeat", "complete"} => req[c].dest \in CPUs
                       /\ IsInjective(migration_queue[c])
    /\ \A q \in Tasks : doing[q] \in {"wakemt", "wait"} =>
            arg[q] \in [task : Tasks, rq : CPUs]
    /\ \A c \in CPUs, q \in Tasks :
            q \in Range(migration_queue[c]) \/ Serves(c, q) =>
                doing[q] \in {"wakemt", "wait"} /\ ~done[q]
    /\ \A c, d \in CPUs, q \in Tasks :
            /\ q \in Range(migration_queue[c]) /\ q \in Range(migration_queue[d]) => c = d
            /\ Serves(c, q) /\ Serves(d, q) => c = d
            /\ ~(Serves(c, q) /\ q \in Range(migration_queue[d]))

SchedInv == /\ TypeOK /\ KthreadInv /\ CurrInv /\ QueueInv /\ CountInv /\ SwitchInv
            /\ BusyInv /\ LockInv /\ RequestInv
=============================================================================
