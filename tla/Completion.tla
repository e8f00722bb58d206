----------------------------- MODULE Completion -----------------------------
(***************************************************************************)
(* Completions (include/linux/completion.h, kernel/sched.c): complete(),   *)
(* complete_all() and wait_for_completion() on a wait queue, with done as  *)
(* the unsigned integer of a limited width that it is.                     *)
(*                                                                         *)
(* A completion is static, or on the stack of the task that waits for it   *)
(* (Owner), as the vfork, migration and module code use it: then it is     *)
(* gone as soon as the wait has returned.                                  *)
(***************************************************************************)
EXTENDS WaitQueue

CONSTANTS
    Waiters,     \* the tasks that wait
    Completers,  \* the tasks that complete
    Owner,       \* the waiter on whose stack it is, or NoTask if it is static
    MaxPosts,    \* calls of complete or complete_all before it is set up again
    UINT_MAX     \* the largest value of done, 2^w - 1

CompletionAssumption ==
    /\ Waiters \subseteq Tasks /\ Completers \subseteq Tasks
    /\ Owner = NoTask \/ Waiters = {Owner}
    /\ MaxPosts \in Nat
    /\ UINT_MAX \in Nat /\ UINT_MAX % 2 = 1
    /\ 2 * MaxPosts + 2 * Cardinality(Tasks) < UINT_MAX \div 2

VARIABLES
    done,     \* x->done
    pc,
    alive,    \* the memory of the completion is still there
    posted,   \* calls of complete since it was set up
    served,   \* waits that have returned since then
    alls      \* calls of complete_all since it was set up

compVars == <<done, pc, alive, posted, served, alls>>
vars     == <<wqVars, compVars>>

(***************************************************************************)
(* Where a task can be.                                                    *)
(*   idle       outside                                                    *)
(*   schedule   on x->wait, in its sleeping state, in schedule()           *)
(*   relock     about to take x->wait.lock and to look at done again       *)
(*   scan       in __wake_up_common with x->wait.lock                      *)
(***************************************************************************)
PCs == {"idle", "schedule", "relock", "scan"}

Goto(t, l) == pc' = [pc EXCEPT ![t] = l]

Init ==
    /\ WqInit
    /\ done = 0
    /\ pc = [t \in Tasks |-> "idle"]
    /\ alive = TRUE
    /\ posted = 0 /\ served = 0 /\ alls = 0

Width(n) == n % (UINT_MAX + 1)

-----------------------------------------------------------------------------
\* The wait is over: done--, and the lock is released.  What was on the stack of
\* the waiter is gone after its last wait.
Return(t) ==
    /\ done' = Width(done - 1)
    /\ served' = served + 1
    /\ alive' = (t # Owner \/ served' < MaxPosts)
    /\ Goto(t, "idle")
    /\ state' = state

\* Mutant: the lock is not taken to look at done.
Lockless == TRUE

\* spin_lock(&x->wait.lock)
WaitLock == q_lock = NoTask

\* wait_for_completion until it sleeps or returns.
Wait(t) ==
    /\ pc[t] = "idle" /\ alive /\ served < MaxPosts + Cardinality(Tasks)
    /\ WaitLock
    /\ \/ /\ done # 0
          /\ Return(t)
          /\ UNCHANGED queueVars
       \/ /\ done = 0
          /\ task_list' = Append(task_list, t)
          /\ exclusive' = [exclusive EXCEPT ![t] = TRUE]
          /\ set_state(t, "UNINTERRUPTIBLE")
          /\ Goto(t, "schedule")
          /\ UNCHANGED <<done, served, alive>>
    /\ UNCHANGED <<on_rq, sigpending, scanVars, posted, alls>>

Schedule(t) ==
    /\ pc[t] = "schedule"
    /\ ScheduleOut(t)
    /\ Goto(t, "relock")
    /\ UNCHANGED <<sigpending, queueVars, scanVars, done, alive, posted, served, alls>>

\* __remove_wait_queue
Unlink(t) ==
    /\ \E i \in 1 .. Len(task_list) :
          /\ task_list[i] = t
          /\ task_list' = SubSeq(task_list, 1, i - 1)
                             \o SubSeq(task_list, i + 1, Len(task_list))
    /\ exclusive' = [exclusive EXCEPT ![t] = FALSE]

\* Woken up: the loop looks again.
Relock(t) ==
    /\ pc[t] = "relock" /\ on_rq[t]
    /\ WaitLock
    /\ \/ /\ done # 0
          /\ Return(t)
          /\ Unlink(t)
       \/ /\ done = 0
          /\ set_state(t, "UNINTERRUPTIBLE")
          /\ Goto(t, "schedule")
          /\ UNCHANGED <<queueVars, done, served, alive>>
    /\ UNCHANGED <<on_rq, sigpending, scanVars, posted, alls>>

-----------------------------------------------------------------------------

\* What complete_all adds.
AllAdds == UINT_MAX \div 2

\* Both together are called MaxPosts times at most.
Calls == posted + alls

\* complete and complete_all until the scan; nr_exclusive is 1 and 0.
Complete(t) ==
    /\ pc[t] = "idle" /\ alive /\ Calls < MaxPosts
    /\ WakeUpStart(t, 1)
    /\ done' = Width(done + 1)
    /\ posted' = posted + 1
    /\ Goto(t, "scan")
    /\ UNCHANGED <<schedVars, queueVars, alive, served, alls>>

\* The one caller (fs/exec.c:1389) has its completion in an mm_struct: complete_all is
\* not called for one on a stack.
CompleteAll(t) ==
    /\ pc[t] = "idle" /\ alive /\ Calls < MaxPosts /\ Owner = NoTask
    /\ WakeUpStart(t, 0)
    /\ done' = Width(done + AllAdds)
    /\ alls' = alls + 1
    /\ Goto(t, "scan")
    /\ UNCHANGED <<schedVars, queueVars, alive, posted, served>>

\* __wake_up_common(.., TASK_UNINTERRUPTIBLE | TASK_INTERRUPTIBLE, ..), one entry.
ScanOne(t) == WakeUpOne(t, Sleeping)

Scan(t) ==
    /\ pc[t] = "scan"
    /\ ScanOne(t)
    /\ UNCHANGED <<sigpending, queueVars, compVars>>

ScanEnd(t) ==
    /\ pc[t] = "scan"
    /\ WakeUpEnd(t)
    /\ Goto(t, "idle")
    /\ UNCHANGED <<queueVars, schedVars, done, alive, posted, served, alls>>

\* INIT_COMPLETION, or a new one on the owner's stack.
Reinit ==
    /\ Calls = MaxPosts
    /\ \A t \in Tasks : pc[t] = "idle"
    /\ done' = 0 /\ alive' = TRUE
    /\ posted' = 0 /\ served' = 0 /\ alls' = 0
    /\ UNCHANGED <<wqVars, pc>>

-----------------------------------------------------------------------------
Run(t) == Schedule(t) \/ Relock(t) \/ Scan(t) \/ ScanEnd(t)

Next ==
    \/ \E t \in Tasks : Run(t)
    \/ \E t \in Waiters : Wait(t)
    \/ \E t \in Completers : Complete(t) \/ CompleteAll(t)
    \/ Reinit

Spec == Init /\ [][Next]_vars

-----------------------------------------------------------------------------
Waiting(t) == pc[t] \in {"schedule", "relock"}
Inside     == {t \in Tasks : Waiting(t)}
Awake      == {t \in Tasks : Waiting(t) /\ state[t] = "RUNNING"}
Asleep     == {t \in Tasks : Waiting(t) /\ state[t] # "RUNNING"}

\* Every variable has its type.
TypeOK ==
    /\ WqTypeOK
    /\ done \in 0 .. UINT_MAX
    /\ pc \in [Tasks -> PCs]
    /\ alive \in BOOLEAN
    /\ posted \in Nat /\ alls \in Nat /\ Calls <= MaxPosts
    /\ served \in Nat

\* One complete() lets one waiter through: no wait returns without its complete,
\* and none of them is used up by a waiter that goes on sleeping.
OneEach == alls = 0 => done = posted - served

\* No completion is stranded: when the lock is free, as many waiters are awake as
\* done allows to return, even if a wakeup met one that was already awake or had
\* not gone to sleep yet.
NoLostWakeup ==
    q_lock = NoTask /\ Asleep # {} => Cardinality(Awake) >= done

\* After complete_all nobody blocks any more, however many have passed since.  A second
\* complete_all adds up to UINT_MAX - 1 only, and so brings done within two complete()
\* of 0: it is closed again then, and in no other case.
AllForGood == alls # 0 /\ done = 0 => alls % 2 = 0 /\ posted - served = alls

\* The completion is not touched after the memory it is in is gone: the owner
\* cannot return before whoever woke it has let go of the lock.
NoUseAfterReturn == ~alive => \A t \in Tasks : pc[t] = "idle"

\* What the users of completions rely on.
CompletionSound == OneEach /\ NoLostWakeup /\ AllForGood /\ NoUseAfterReturn

-----------------------------------------------------------------------------
(***************************************************************************)
(* The inductive invariant behind CompletionSound.                         *)
(***************************************************************************)
\* done is exact, after every complete_all too: two of them take 2 from it.  A waiter
\* that still sleeps will also come out of its wait, beyond the bound on calls.
CountInv ==
    /\ alls % 2 = 0 =>
          \/ posted - served >= alls /\ done = posted - served - alls
          \/ posted - served < alls /\ done = posted - served - alls + UINT_MAX + 1
    /\ alls % 2 = 1 => done = posted - served - (alls - 1) + AllAdds
    /\ alls = 0 => served <= posted
    /\ served + Cardinality(Inside) <= MaxPosts + 2 * Cardinality(Tasks)

\* Who scans has the lock, who waits is queued, and who is neither runs.
TaskInv ==
    \A t \in Tasks :
        /\ pc[t] = "scan" <=> q_lock = t
        /\ Waiting(t) => t \in Waiters /\ t \in Range(task_list)
        /\ pc[t] = "relock" /\ on_rq[t] => state[t] = "RUNNING"
        /\ ~Waiting(t) => state[t] = "RUNNING"

\* complete() is still to wake someone.
Owing == q_lock # NoTask /\ nr = 1

\* What the scan has passed is awake, until complete() may stop.
ScanInv ==
    /\ q_lock # NoTask /\ nr = 1 => Asleep \subseteq Range(scan)
    /\ q_lock # NoTask => nr <= 1

\* complete_all has still to wake the rest.
InAll == q_lock # NoTask /\ nr # 1 /\ scan # <<>>

\* As many are awake as done lets through, but for those that are to be woken.
WakeInv ==
    \/ Asleep = {}
    \/ InAll /\ Asleep \subseteq Range(scan)
    \/ Cardinality(Awake) + (IF Owing THEN 1 ELSE 0) >= done

\* A completion on a stack ends with a wait of the owner, when nobody is at it.
StackInv == ~alive => \A t \in Tasks : pc[t] = "idle"

CompletionInv == TypeOK /\ CountInv /\ TaskInv /\ ScanInv /\ WakeInv /\ StackInv
=============================================================================
