----------------------------- MODULE Semaphore -----------------------------
(***************************************************************************)
(* Counting semaphores on i386: the fast paths of                          *)
(* include/asm-i386/semaphore.h and the contention paths of                *)
(* arch/i386/kernel/semaphore.c.                                           *)
(*                                                                         *)
(* count is decremented by every attempt.  sleepers, under semaphore_lock, *)
(* is what the waiters have left in count; every critical section adds it  *)
(* back, so that the sign of count tells whether the semaphore is free.    *)
(***************************************************************************)
EXTENDS WaitQueue

CONSTANTS Permits,     \* what sema_init sets count to
          Signalled    \* the tasks that are sent signals

ASSUME PermitsAssumption == Permits \in Nat /\ Signalled \subseteq Tasks

VARIABLES
    count,           \* sem->count
    sleepers,        \* sem->sleepers
    semaphore_lock,  \* its holder or NoTask
    kind,            \* kind[t]: the slow path t is in, if it can sleep
    retval,          \* retval[t]: "hold" if the slow path took a permit
    pc

semVars == <<count, sleepers, semaphore_lock, kind, retval>>
vars    == <<wqVars, semVars, pc>>

(***************************************************************************)
(* Where a task can be.                                                    *)
(*   idle, hold      outside; it has a permit                              *)
(*   failed          a fast path left count negative                       *)
(*   add             the sleeping state is set, not yet on sem->wait       *)
(*   first           about to count itself in sleepers                     *)
(*   schedule        in schedule()                                         *)
(*   retry           about to take semaphore_lock again                    *)
(*   remove          it has its answer, still on sem->wait                 *)
(*   running         __down sets its state after, __down_interruptible     *)
(*                   before it leaves sem->wait                            *)
(*   wake, scan      about to call wake_up(&sem->wait), and in it          *)
(*   trylock         a trylock left count negative                         *)
(***************************************************************************)
PCs   == {"idle", "hold", "failed", "add", "first", "schedule", "retry",
          "remove", "running", "wake", "scan", "trylock"}
Kinds == {"down", "down_interruptible", "none"}

Goto(t, l) == pc' = [pc EXCEPT ![t] = l]

\* sema_init
Init ==
    /\ WqInit
    /\ count = Permits
    /\ sleepers = 0
    /\ semaphore_lock = NoTask
    /\ kind = [t \in Tasks |-> "none"]
    /\ retval = [t \in Tasks |-> "idle"]
    /\ pc = [t \in Tasks |-> "idle"]

-----------------------------------------------------------------------------
\* down and down_interruptible: decl, js.
Down(t) ==
    /\ pc[t] = "idle"
    /\ count' = count - 1
    /\ \/ /\ count' >= 0
          /\ Goto(t, "hold")
          /\ UNCHANGED kind
       \/ /\ count' < 0
          /\ Goto(t, "failed")
          /\ \E k \in {"down", "down_interruptible"} :
                kind' = [kind EXCEPT ![t] = k]
    /\ UNCHANGED <<wqVars, sleepers, semaphore_lock, retval>>

\* down_trylock: decl, js.
DownTrylock(t) ==
    /\ pc[t] = "idle"
    /\ count' = count - 1
    /\ Goto(t, IF count' < 0 THEN "trylock" ELSE "hold")
    /\ UNCHANGED <<wqVars, sleepers, semaphore_lock, kind, retval>>

\* Mutant: jl instead of jle.
UpWakesLate(new) == new < 0

\* jle: somebody had made count negative.
UpWakes(new) == new <= 0

\* up: incl, jle.
Up(t) ==
    /\ pc[t] = "hold"
    /\ count' = count + 1
    /\ Goto(t, IF UpWakes(count') THEN "wake" ELSE "idle")
    /\ UNCHANGED <<wqVars, sleepers, semaphore_lock, kind, retval>>

-----------------------------------------------------------------------------
SleepState(t) == IF kind[t] = "down" THEN "UNINTERRUPTIBLE" ELSE "INTERRUPTIBLE"

SetTaskState(t) ==
    /\ pc[t] = "failed"
    /\ set_state(t, SleepState(t))
    /\ Goto(t, "add")
    /\ UNCHANGED <<queueVars, scanVars, on_rq, sigpending, semVars>>

AddWait(t) ==
    /\ pc[t] = "add"
    /\ add_wait_queue_exclusive(t)
    /\ Goto(t, "first")
    /\ UNCHANGED <<scanVars, schedVars, semVars>>

Interrupted(t) == kind[t] = "down_interruptible" /\ sigpending[t]

\* Mutant: the interrupted task takes only its own part out of count.
GiveBackOne(s) == 1

\* atomic_add(sleepers, &sem->count) of the interrupted task.
GiveBack(s) == s

\* Mutant: sleepers is left alone when the permit is taken.
SleepersWhenTakenStale(s) == s

SleepersWhenTaken(s) == 0

\* One pass of the loop under semaphore_lock, s being the local sleepers.
TryTake(t, s) ==
    /\ semaphore_lock = NoTask
    /\ \/ /\ Interrupted(t)
          /\ sleepers' = 0
          /\ count' = count + GiveBack(s)
          /\ Goto(t, "remove")
          /\ UNCHANGED retval                           \* -EINTR
       \/ /\ ~Interrupted(t)
          /\ count' = count + (s - 1)
          /\ \/ /\ count' >= 0
                /\ sleepers' = SleepersWhenTaken(s)
                /\ retval' = [retval EXCEPT ![t] = "hold"]
                /\ Goto(t, "remove")
             \/ /\ count' < 0
                /\ sleepers' = 1
                /\ Goto(t, "schedule")
                /\ UNCHANGED retval
    /\ UNCHANGED <<wqVars, semaphore_lock, kind>>

FirstTry(t) == pc[t] = "first" /\ TryTake(t, sleepers + 1)

Retry(t) == pc[t] = "retry" /\ TryTake(t, sleepers)

Schedule(t) ==
    /\ pc[t] = "schedule"
    /\ ScheduleOut(t)
    /\ UNCHANGED <<queueVars, scanVars, sigpending, semVars, pc>>

\* schedule() has returned: the state is set again.
ScheduleReturns(t) ==
    /\ pc[t] = "schedule"
    /\ on_rq[t] /\ state[t] = "RUNNING"
    /\ set_state(t, SleepState(t))
    /\ Goto(t, "retry")
    /\ UNCHANGED <<queueVars, scanVars, on_rq, sigpending, semVars>>

\* Mutant: a task that gives up because of a signal wakes nobody.
PassOnIfTaken(t) == Goto(t, IF retval[t] = "hold" THEN "wake" ELSE "idle")

\* wake_up(&sem->wait) comes last, with or without a permit: the wakeup that
\* brought this task here may have been meant for another one.
PassOn(t) == Goto(t, "wake")

\* remove_wait_queue is the second of the last two steps of
\* __down_interruptible, and the first of those of __down.
RemoveWait(t) ==
    /\ \/ pc[t] = "remove" /\ kind[t] = "down" /\ Goto(t, "running")
       \/ pc[t] = "running" /\ kind[t] # "down" /\ PassOn(t)
    /\ remove_wait_queue(t)
    /\ UNCHANGED <<scanVars, schedVars, semVars>>

SetRunning(t) ==
    /\ \/ pc[t] = "remove" /\ kind[t] # "down" /\ Goto(t, "running")
       \/ pc[t] = "running" /\ kind[t] = "down" /\ PassOn(t)
    /\ set_state(t, "RUNNING")
    /\ UNCHANGED <<queueVars, scanVars, on_rq, sigpending, semVars>>

\* __down_trylock: semaphore_lock is held until the end of wake_up.
Trylock(t) ==
    /\ pc[t] = "trylock"
    /\ semaphore_lock = NoTask
    /\ sleepers' = 0
    /\ count' = count + (sleepers + 1)
    /\ \/ /\ count' >= 0
          /\ semaphore_lock' = t
          /\ Goto(t, "wake")
       \/ /\ count' < 0
          /\ Goto(t, "idle")
          /\ UNCHANGED semaphore_lock
    /\ UNCHANGED <<wqVars, kind, retval>>

-----------------------------------------------------------------------------
Wake(t) ==
    /\ pc[t] = "wake"
    /\ WakeUpStart(t, 1)
    /\ Goto(t, "scan")
    /\ UNCHANGED <<queueVars, schedVars, semVars>>

Scan(t) ==
    /\ pc[t] = "scan"
    /\ WakeUpOne(t, Sleeping)
    /\ UNCHANGED <<queueVars, sigpending, semVars, pc>>

\* Releases q->lock and, in __down_trylock, semaphore_lock.
ScanDone(t) ==
    /\ pc[t] = "scan"
    /\ WakeUpEnd(t)
    /\ semaphore_lock' = IF semaphore_lock = t THEN NoTask ELSE semaphore_lock
    /\ Goto(t, retval[t])
    /\ retval' = [retval EXCEPT ![t] = "idle"]
    /\ kind' = [kind EXCEPT ![t] = "none"]
    /\ UNCHANGED <<queueVars, schedVars, count, sleepers>>

-----------------------------------------------------------------------------
\* The users of the semaphore: a signal arrives while t is in its operation; the
\* task handles it when it is out of the operation.
Signal(t) ==
    /\ t \in Signalled
    /\ ~sigpending[t]
    /\ pc[t] # "idle"
    /\ signal_wake_up(t)
    /\ UNCHANGED <<queueVars, scanVars, semVars, pc>>

HandleSignal(t) ==
    /\ sigpending[t]
    /\ pc[t] = "idle"
    /\ sigpending' = [sigpending EXCEPT ![t] = FALSE]
    /\ UNCHANGED <<queueVars, scanVars, state, on_rq, semVars, pc>>

\* What a task in the middle of an operation does next.
Step(t) ==
    \/ SetTaskState(t) \/ AddWait(t) \/ FirstTry(t) \/ Retry(t)
    \/ Schedule(t) \/ ScheduleReturns(t)
    \/ RemoveWait(t) \/ SetRunning(t) \/ Trylock(t)
    \/ Wake(t) \/ Scan(t) \/ ScanDone(t)

Next == \E t \in Tasks :
    \/ Down(t) \/ DownTrylock(t) \/ Up(t) \/ Step(t)
    \/ Signal(t) \/ HandleSignal(t)

Spec == Init /\ [][Next]_vars

\* The scheduler runs every task that can take a step, and who has a permit gives
\* it back.  A task spinning for a lock is promised nothing: the i386 spin locks
\* are not fair.
Fairness == \A t \in Tasks : WF_vars(Step(t)) /\ WF_vars(Up(t))

\* So a task that keeps trying can keep the others from semaphore_lock; here the
\* tasks stop asking for the semaphore at some time.
NewAttempt == \E t \in Tasks : Down(t) \/ DownTrylock(t)

FairSpec == Spec /\ Fairness /\ <>[][~NewAttempt]_vars

-----------------------------------------------------------------------------
(***************************************************************************)
(* Properties.                                                             *)
(***************************************************************************)

\* Every variable has its type; sleepers is 0 or 1 whenever semaphore_lock is
\* free.
TypeOK ==
    /\ WqTypeOK
    /\ count \in Int
    /\ sleepers \in {0, 1}
    /\ semaphore_lock \in Tasks \cup {NoTask}
    /\ kind \in [Tasks -> Kinds]
    /\ retval \in [Tasks -> {"hold", "idle"}]
    /\ pc \in [Tasks -> PCs]

\* t has a permit: it took one and has not called up().
Owns(t) == \/ pc[t] = "hold"
           \/ /\ pc[t] \in {"remove", "running", "wake", "scan"}
              /\ retval[t] = "hold"

\* t has decremented count and has not been in a critical section since.
Unsettled(t) == pc[t] \in {"failed", "add", "first", "trylock"}

Owners  == {t \in Tasks : Owns(t)}
Pending == {t \in Tasks : Unsettled(t)}

\* Never more tasks than permits are between down() and up(), whatever the
\* trylocks and the signalled waiters correct in count meanwhile.
AtMostPermits == Cardinality(Owners) <= Permits

\* The corrections of count are exact: what is missing from it is the permits
\* in use, the attempts that have not reached their critical section, and
\* sleepers.  One lost or repeated correction shows for ever.
CountBalance ==
    count = Permits - Cardinality(Owners) - Cardinality(Pending) - sleepers

Asleep(t) == pc[t] = "schedule" /\ ~on_rq[t]

\* "make sure that we're on the wakeup list before we synchronize so that we
\* cannot lose wakeup events": when nobody is in the middle of an operation,
\* nobody sleeps while a permit is free.
NoLostWakeup ==
    (/\ \A t \in Tasks : pc[t] \in {"idle", "hold"} \/ Asleep(t)
     /\ \E t \in Tasks : Asleep(t))
        => Cardinality(Owners) = Permits

\* t is in __down or __down_interruptible and has no answer yet.
Waiting(t) == pc[t] \in {"failed", "add", "first", "schedule", "retry"}

\* Every waiter gets a permit or its signal: one wakeup is passed on from waiter
\* to waiter, and no signalled task, trylock or waiter that was not yet asleep
\* swallows it.
WaitersServed == \A t \in Tasks : Waiting(t) ~> ~Waiting(t)

-----------------------------------------------------------------------------
(***************************************************************************)
(* The inductive invariant behind AtMostPermits.                           *)
(***************************************************************************)
PermitTypes ==
    /\ count \in Int
    /\ sleepers \in {0, 1}
    /\ retval \in [Tasks -> {"hold", "idle"}]
    /\ pc \in [Tasks -> PCs]

\* Only a slow path that took a permit is on its way back to "hold".
RetvalInv ==
    \A t \in Tasks :
        retval[t] = "hold" => pc[t] \in {"remove", "running", "wake", "scan"}

PermitInv == PermitTypes /\ RetvalInv /\ CountBalance /\ AtMostPermits

-----------------------------------------------------------------------------
(***************************************************************************)
(* The inductive invariant behind NoLostWakeup.                            *)
(***************************************************************************)

\* Only a wakeup or a signal gets t out of schedule().
Stuck(t) == pc[t] = "schedule" /\ MustDeactivate(t)

\* u is on its way to semaphore_lock or to a wake_up(), or its scan has yet to
\* meet a task that is stuck.
WillWake(u) ==
    \/ pc[u] \in {"failed", "add", "first", "retry", "trylock",
                   "remove", "running", "wake"}
    \/ pc[u] = "schedule" /\ ~MustDeactivate(u)
    \/ /\ pc[u] = "scan"
       /\ q_lock = u
       /\ \E i \in 1..Len(scan) : Stuck(scan[i])

\* A task is on sem->wait from before it looks at count until it has its answer.
WaitersQueued ==
    \A t \in Tasks : pc[t] \in {"first", "schedule", "retry"}
                        => \E i \in 1..Len(task_list) : task_list[i] = t

\* A task leaves its run queue only in schedule().
OffRunQueue == \A t \in Tasks : ~on_rq[t] => Stuck(t)

\* With sleepers set and every permit in use, count is negative, and the next
\* up() wakes somebody.
WakeupOwed ==
    (\E t \in Tasks : Stuck(t))
        => \/ \E u \in Tasks : WillWake(u)
           \/ sleepers = 1 /\ Cardinality(Owners) = Permits

WakeInv == /\ TypeOK /\ PermitInv
           /\ WaitersQueued /\ OffRunQueue /\ WakeupOwed
=============================================================================
