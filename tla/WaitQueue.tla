----------------------------- MODULE WaitQueue -----------------------------
(***************************************************************************)
(* A wait queue (include/linux/wait.h, kernel/fork.c) and the part of the  *)
(* scheduler that its users see: the task state, whether the task is on a  *)
(* run queue, schedule() and try_to_wake_up() (kernel/sched.c).            *)
(*                                                                         *)
(* A component that sleeps on a wait queue extends this module and puts    *)
(* these operators into its own actions.  The scan of __wake_up_common is  *)
(* one step per queued task: only the queue's lock is held meanwhile, and  *)
(* the tasks further down change their state without it.                   *)
(***************************************************************************)
EXTENDS Integers, Sequences, FiniteSets, Functions

CONSTANTS Tasks,     \* the tasks that may wait
          NoTask     \* the lock's holder when nobody holds it

ASSUME TasksAssumption ==
    IsFiniteSet(Tasks) /\ NoTask \notin Tasks

VARIABLES
    state,      \* p->state
    on_rq,      \* p->array is not NULL: the task is on a run queue
    sigpending, \* p->sigpending
    task_list,  \* q->task_list: the tasks of the entries, first to last
    exclusive,  \* exclusive[t]: t's entry has WQ_FLAG_EXCLUSIVE
    q_lock,     \* q->lock: its holder or NoTask
    scan,       \* what the scan of __wake_up_common still has to look at
    nr          \* nr_exclusive of that scan

queueVars == <<task_list, exclusive>>
scanVars  == <<q_lock, scan, nr>>
schedVars == <<state, on_rq, sigpending>>
wqVars    == <<queueVars, scanVars, schedVars>>

Sleeping == {"INTERRUPTIBLE", "UNINTERRUPTIBLE"}
States   == Sleeping \cup {"RUNNING"}

WqInit ==
    /\ state = [t \in Tasks |-> "RUNNING"]
    /\ on_rq = [t \in Tasks |-> TRUE]
    /\ sigpending = [t \in Tasks |-> FALSE]
    /\ task_list = <<>>
    /\ exclusive = [t \in Tasks |-> FALSE]
    /\ q_lock = NoTask
    /\ scan = <<>>
    /\ nr = 0

-----------------------------------------------------------------------------
\* The queue.  Every operation runs under q->lock.
add_wait_queue_exclusive(t) ==
    /\ q_lock = NoTask
    /\ task_list' = Append(task_list, t)
    /\ exclusive' = [exclusive EXCEPT ![t] = TRUE]

\* list_del of t's entry, and its flags are gone with it.
remove_wait_queue(t) ==
    /\ q_lock = NoTask
    /\ \E i \in 1..Len(task_list) :
          /\ task_list[i] = t
          /\ task_list' = SubSeq(task_list, 1, i - 1)
                             \o SubSeq(task_list, i + 1, Len(task_list))
    /\ exclusive' = [exclusive EXCEPT ![t] = FALSE]

-----------------------------------------------------------------------------
\* The scheduler.
set_state(t, s) == state' = [state EXCEPT ![t] = s]

\* What schedule() finds in prev->state: a task that does not run any more, or
\* an interruptible one with a signal, which keeps running.
MustDeactivate(t) ==
    /\ state[t] # "RUNNING"
    /\ ~(state[t] = "INTERRUPTIBLE" /\ sigpending[t])

\* schedule() until it switches to another task.
ScheduleOut(t) ==
    /\ on_rq[t]
    /\ \/ /\ MustDeactivate(t)
          /\ on_rq' = [on_rq EXCEPT ![t] = FALSE]
          /\ UNCHANGED state
       \/ /\ ~MustDeactivate(t)
          /\ state' = [state EXCEPT ![t] = "RUNNING"]
          /\ UNCHANGED on_rq

\* try_to_wake_up: a sleeping task runs; it succeeds if it was off the run queue.
WakesUp(p, mode)  == state[p] \in mode
Succeeds(p, mode) == WakesUp(p, mode) /\ ~on_rq[p]

try_to_wake_up(p, mode) ==
    /\ state' = IF WakesUp(p, mode) THEN [state EXCEPT ![p] = "RUNNING"] ELSE state
    /\ on_rq' = IF Succeeds(p, mode) THEN [on_rq EXCEPT ![p] = TRUE] ELSE on_rq

\* signal_wake_up: the signal is pending before the task is woken.
signal_wake_up(t) ==
    /\ sigpending' = [sigpending EXCEPT ![t] = TRUE]
    /\ try_to_wake_up(t, {"INTERRUPTIBLE"})

-----------------------------------------------------------------------------
\* __wake_up: takes q->lock, scans, releases it.
WakeUpStart(t, n) ==
    /\ q_lock = NoTask
    /\ q_lock' = t
    /\ scan' = task_list
    /\ nr' = n

\* Whether this entry counts against nr_exclusive.
WakeCounts(p, mode) == exclusive[p] /\ Succeeds(p, mode)

WakeUpOne(t, mode) ==
    /\ q_lock = t
    /\ scan # <<>>
    /\ LET p == Head(scan) IN
        /\ try_to_wake_up(p, mode)
        /\ nr' = IF WakeCounts(p, mode) THEN nr - 1 ELSE nr
        /\ scan' = IF WakeCounts(p, mode) /\ nr' = 0 THEN <<>> ELSE Tail(scan)
    /\ UNCHANGED q_lock

WakeUpEnd(t) ==
    /\ q_lock = t
    /\ scan = <<>>
    /\ q_lock' = NoTask
    /\ nr' = 0
    /\ UNCHANGED scan

WqTypeOK ==
    /\ state \in [Tasks -> States]
    /\ on_rq \in [Tasks -> BOOLEAN]
    /\ sigpending \in [Tasks -> BOOLEAN]
    /\ task_list \in Seq(Tasks)
    /\ exclusive \in [Tasks -> BOOLEAN]
    /\ q_lock \in Tasks \cup {NoTask}
    /\ scan \in Seq(Tasks)
    /\ nr \in Int
=============================================================================
