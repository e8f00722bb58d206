------------------------------ MODULE Keventd ------------------------------
(***************************************************************************)
(* Task queues (include/linux/tqueue.h, __run_task_queue of                *)
(* kernel/softirq.c) and keventd, the kernel thread that runs one of them  *)
(* in process context (kernel/context.c): schedule_task(),                 *)
(* context_thread() and flush_scheduled_tasks().                           *)
(*                                                                         *)
(* A task is a tq_struct.  Its user leaves an item of work where the       *)
(* routine of the task finds it and calls schedule_task; the routine takes *)
(* everything that was left, as do_free_pages_ok_no_irq of mm/page_alloc.c *)
(* does.  An item is named by the process that left it.                    *)
(***************************************************************************)
EXTENDS Naturals, Sequences, FiniteSets

CONSTANTS
    Procs,    \* the processes and interrupt handlers that schedule and flush
    Works,    \* the tq_structs of users
    Users,    \* who uses which: a set of <<process, tq_struct>>
    Readds,   \* the tq_structs whose routine schedules itself again
    Dummy     \* dummy_task, the tq_struct of flush_scheduled_tasks

KeventdAssumption ==
    /\ Users \subseteq Procs \X Works
    /\ Readds \subseteq Works
    /\ Dummy \notin Works

VARIABLES
    sync,      \* tq_struct -> bit 0 of sync
    tq,        \* tq_context
    head,      \* the list __run_task_queue has taken and not yet run
    cur,       \* the tq_struct it is at
    left,      \* tq_struct -> the items left for its routine
    doing,     \* the items the running routine has taken
    kpc,       \* where keventd is
    kstate,    \* its task state
    waiting,   \* it is on context_task_wq
    signal,    \* it has a signal pending
    pc,        \* where a process is
    target,    \* the tq_struct a process schedules
    state,     \* the task state of a process
    flushers,  \* the processes on context_task_done
    count,     \* count of flush_scheduled_tasks
    owed       \* process -> the items that were left when its flush began

queueVars == <<sync, tq, head, cur>>
workVars  == <<left, doing, owed>>
kVars     == <<kpc, kstate, waiting, signal>>
pVars     == <<pc, target, state, flushers, count>>
vars      == <<queueVars, workVars, kVars, pVars>>

TqStructs == Works \cup {Dummy}

(***************************************************************************)
(* Where keventd can be in its loop, and a process in its call.            *)
(*   start       context_thread has not begun                              *)
(*   prepare     about to set its state                                    *)
(*   add, test   before add_wait_queue and before TQ_ACTIVE                *)
(*   schedule    in schedule()                                             *)
(*   remove      before remove_wait_queue                                  *)
(*   take        before run_task_queue                                     *)
(*   next        in the loop of __run_task_queue                           *)
(*   call        before the call of the routine of cur                     *)
(*   body        in that routine                                           *)
(*   again       the routine has set sync and not yet taken tqueue_lock    *)
(*   done        before wake_up(&context_task_done)                        *)
(*   reap        before the look at its signals                            *)
(*                                                                         *)
(*   idle        outside                                                   *)
(*   mark, link  in queue_task, before test_and_set_bit and list_add_tail  *)
(*   wake        before wake_up(&context_task_wq)                          *)
(*   flush       before add_wait_queue in flush_scheduled_tasks            *)
(*   round       at the head of its loop                                   *)
(*   sleep       in schedule()                                             *)
(*   leave       before remove_wait_queue                                  *)
(***************************************************************************)
KPCs == {"start", "prepare", "add", "test", "schedule", "remove", "take", "next",
         "call", "body", "again", "done", "reap"}
PCs  == {"idle", "mark", "link", "wake", "flush", "round", "sleep", "leave"}

KGoto(l)   == kpc' = l
Goto(p, l) == pc' = [pc EXCEPT ![p] = l]

Init ==
    /\ sync = [t \in TqStructs |-> FALSE]
    /\ tq = <<>> /\ head = <<>> /\ cur = Dummy
    /\ left = [t \in Works |-> {}] /\ doing = {}
    /\ kpc = "start" /\ kstate = "RUNNING" /\ waiting = FALSE /\ signal = FALSE
    /\ pc = [p \in Procs |-> "idle"]
    /\ target = [p \in Procs |-> Dummy]
    /\ state = [p \in Procs |-> "RUNNING"]
    /\ flushers = {}
    /\ count = [p \in Procs |-> 0]
    /\ owed = [p \in Procs |-> {}]

\* The items that have not been worked off.
Unfinished == doing \cup UNION {left[t] : t \in Works}

-----------------------------------------------------------------------------
(***************************************************************************)
(* schedule_task.  It may be called before keventd has started.            *)
(***************************************************************************)
\* The user leaves an item and calls schedule_task.
Schedule(p, t) ==
    /\ pc[p] = "idle" /\ <<p, t>> \in Users /\ p \notin Unfinished
    /\ left' = [left EXCEPT ![t] = @ \cup {p}]
    /\ target' = [target EXCEPT ![p] = t]
    /\ Goto(p, "mark")
    /\ UNCHANGED <<queueVars, doing, owed, kVars, state, flushers, count>>

\* queue_task: test_and_set_bit(0, &task->sync), and nothing else if it was set.
Mark(p) ==
    /\ pc[p] = "mark"
    /\ sync' = [sync EXCEPT ![target[p]] = TRUE]
    /\ Goto(p, IF sync[target[p]] THEN "wake" ELSE "link")
    /\ UNCHANGED <<tq, head, cur, workVars, kVars, target, state, flushers, count>>

\* queue_task: list_add_tail under tqueue_lock.
Link(p) ==
    /\ pc[p] = "link"
    /\ tq' = Append(tq, target[p])
    /\ Goto(p, "wake")
    /\ UNCHANGED <<sync, head, cur, workVars, kVars, target, state, flushers, count>>

\* wake_up(&context_task_wq), and the return to the user or to flush_scheduled_tasks.
Wake(p) ==
    /\ pc[p] = "wake"
    /\ kstate' = IF waiting THEN "RUNNING" ELSE kstate
    /\ Goto(p, IF target[p] = Dummy THEN "sleep" ELSE "idle")
    /\ UNCHANGED <<queueVars, workVars, kpc, waiting, signal, target, state, flushers,
                   count>>

-----------------------------------------------------------------------------
(***************************************************************************)
(* flush_scheduled_tasks.                                                  *)
(***************************************************************************)
\* The items whose schedule_task has returned.
Scheduled == {q \in Unfinished : pc[q] \notin {"mark", "link", "wake"}
                                 \/ target[q] = Dummy}

Flush(p) ==
    /\ pc[p] = "idle"
    /\ owed' = [owed EXCEPT ![p] = Scheduled]
    /\ count' = [count EXCEPT ![p] = 0]
    /\ target' = [target EXCEPT ![p] = Dummy]
    /\ Goto(p, "flush")
    /\ UNCHANGED <<queueVars, left, doing, kVars, state, flushers>>

\* add_wait_queue(&context_task_done, &wait)
FlushAdd(p) ==
    /\ pc[p] = "flush"
    /\ flushers' = flushers \cup {p}
    /\ Goto(p, "round")
    /\ UNCHANGED <<queueVars, workVars, kVars, target, state, count>>

\* count < 2 after this round
More(p) == count[p] + 1 < 2

\* set_current_state(TASK_UNINTERRUPTIBLE), and on to schedule_task(&dummy_task).
Round(p) ==
    /\ pc[p] = "round"
    /\ state' = [state EXCEPT ![p] = "UNINTERRUPTIBLE"]
    /\ Goto(p, "mark")
    /\ UNCHANGED <<queueVars, workVars, kVars, target, flushers, count>>

\* schedule() returns when the process has been woken.
Slept(p) ==
    /\ pc[p] = "sleep" /\ state[p] = "RUNNING"
    /\ count' = [count EXCEPT ![p] = @ + 1]
    /\ Goto(p, IF More(p) THEN "round" ELSE "leave")
    /\ UNCHANGED <<queueVars, workVars, kVars, target, state, flushers>>

\* remove_wait_queue, and the return.
Leave(p) ==
    /\ pc[p] = "leave"
    /\ flushers' = flushers \ {p}
    /\ owed' = [owed EXCEPT ![p] = {}]
    /\ count' = [count EXCEPT ![p] = 0]
    /\ Goto(p, "idle")
    /\ UNCHANGED <<queueVars, left, doing, kVars, target, state>>

-----------------------------------------------------------------------------
(***************************************************************************)
(* context_thread.                                                         *)
(***************************************************************************)
Start ==
    /\ kpc = "start"
    /\ KGoto("prepare")
    /\ UNCHANGED <<queueVars, workVars, kstate, waiting, signal, pVars>>

\* set_task_state(curtask, TASK_INTERRUPTIBLE)
Prepare ==
    /\ kpc = "prepare"
    /\ kstate' = "INTERRUPTIBLE"
    /\ KGoto("add")
    /\ UNCHANGED <<queueVars, workVars, waiting, signal, pVars>>

\* add_wait_queue(&context_task_wq, &wait)
Add ==
    /\ kpc = "add"
    /\ waiting' = TRUE
    /\ KGoto("test")
    /\ UNCHANGED <<queueVars, workVars, kstate, signal, pVars>>

\* Mutant: the queue is not looked at once more before sleeping.
TestNothing ==
    /\ kpc = "test"
    /\ KGoto("schedule")
    /\ UNCHANGED <<queueVars, workVars, kstate, waiting, signal, pVars>>

\* if (TQ_ACTIVE(tq_context)) set_task_state(curtask, TASK_RUNNING)
Test ==
    /\ kpc = "test"
    /\ kstate' = IF tq # <<>> THEN "RUNNING" ELSE kstate
    /\ KGoto("schedule")
    /\ UNCHANGED <<queueVars, workVars, waiting, signal, pVars>>

\* schedule() returns: woken, never asleep, or with a signal.
Scheduler ==
    /\ kpc = "schedule" /\ (kstate = "RUNNING" \/ signal)
    /\ kstate' = "RUNNING"
    /\ KGoto("remove")
    /\ UNCHANGED <<queueVars, workVars, waiting, signal, pVars>>

Remove ==
    /\ kpc = "remove"
    /\ waiting' = FALSE
    /\ KGoto("take")
    /\ UNCHANGED <<queueVars, workVars, kstate, signal, pVars>>

\* run_task_queue: the whole list is taken under tqueue_lock, unless it is empty.
Take ==
    /\ kpc = "take"
    /\ head' = tq /\ tq' = <<>>
    /\ KGoto(IF tq = <<>> THEN "done" ELSE "next")
    /\ UNCHANGED <<sync, cur, workVars, kstate, waiting, signal, pVars>>

\* __run_task_queue: the next one leaves the list, and sync is cleared before its
\* routine is called so that it can be queued again.
Next1 ==
    /\ kpc = "next"
    /\ \/ /\ head = <<>>
          /\ KGoto("done")
          /\ UNCHANGED <<sync, head, cur>>
       \/ /\ head # <<>>
          /\ cur' = Head(head) /\ head' = Tail(head)
          /\ sync' = [sync EXCEPT ![Head(head)] = FALSE]
          /\ KGoto("call")
    /\ UNCHANGED <<tq, workVars, kstate, waiting, signal, pVars>>

\* if (f) f(data): dummy_task has none.  The routine takes what was left for it.
Call ==
    /\ kpc = "call"
    /\ \/ /\ cur = Dummy
          /\ KGoto("next")
          /\ UNCHANGED <<left, doing>>
       \/ /\ cur # Dummy
          /\ doing' = left[cur]
          /\ left' = [left EXCEPT ![cur] = {}]
          /\ KGoto("body")
    /\ UNCHANGED <<queueVars, owed, kstate, waiting, signal, pVars>>

\* The routine is through with its items.
Finish ==
    /\ doing' = {}
    /\ owed' = [p \in Procs |-> owed[p] \ doing]

\* The routine schedules itself again, or returns.
Body ==
    /\ kpc = "body"
    /\ Finish
    /\ \/ /\ cur \in Readds /\ ~sync[cur]
          /\ sync' = [sync EXCEPT ![cur] = TRUE]
          /\ KGoto("again")
       \/ /\ cur \notin Readds \/ sync[cur]
          /\ KGoto("next")
          /\ UNCHANGED sync
    /\ UNCHANGED <<tq, head, cur, left, kstate, waiting, signal, pVars>>

\* Its queue_task goes on to list_add_tail.  Its wake_up finds nobody: keventd, who
\* runs it, is not on context_task_wq.
Again ==
    /\ kpc = "again"
    /\ tq' = Append(tq, cur)
    /\ KGoto("next")
    /\ UNCHANGED <<sync, head, cur, workVars, kstate, waiting, signal, pVars>>

\* wake_up(&context_task_done): everyone there, no one waits exclusively.
Done ==
    /\ kpc = "done"
    /\ state' = [p \in Procs |-> IF p \in flushers THEN "RUNNING" ELSE state[p]]
    /\ KGoto("reap")
    /\ UNCHANGED <<queueVars, workVars, kstate, waiting, signal, pc, target, flushers,
                   count>>

\* Children are reaped and flush_signals clears what is pending.
Reap ==
    /\ kpc = "reap"
    /\ signal' = FALSE
    /\ KGoto("prepare")
    /\ UNCHANGED <<queueVars, workVars, kstate, waiting, pVars>>

\* A child of keventd ends: SIGCHLD, which wakes it from an interruptible sleep.
Sigchld ==
    /\ kpc # "start" /\ ~signal
    /\ signal' = TRUE
    /\ kstate' = "RUNNING"
    /\ UNCHANGED <<queueVars, workVars, kpc, waiting, pVars>>

-----------------------------------------------------------------------------
Keventd == \/ Start \/ Prepare \/ Add \/ Test \/ Scheduler \/ Remove
           \/ Take \/ Next1 \/ Call \/ Body \/ Again \/ Done \/ Reap

\* The steps of a call that has begun.
Step(p) == \/ Mark(p) \/ Link(p) \/ Wake(p)
           \/ FlushAdd(p) \/ Round(p) \/ Slept(p) \/ Leave(p)

Next ==
    \/ Keventd
    \/ Sigchld
    \/ \E p \in Procs : Step(p) \/ Flush(p) \/ \E t \in Works : Schedule(p, t)

Spec == Init /\ [][Next]_vars

FairSpec == Spec /\ WF_vars(Keventd) /\ \A p \in Procs : WF_vars(Step(p))

-----------------------------------------------------------------------------
\* The variables have their types, and a tq_struct is queued once.
TypeOK ==
    /\ sync \in [TqStructs -> BOOLEAN]
    /\ tq \in Seq(TqStructs) /\ head \in Seq(TqStructs) /\ cur \in TqStructs
    /\ Len(tq) + Len(head) <= Cardinality(TqStructs)
    /\ left \in [Works -> SUBSET Procs] /\ doing \in SUBSET Procs
    /\ kpc \in KPCs /\ kstate \in {"RUNNING", "INTERRUPTIBLE"}
    /\ waiting \in BOOLEAN /\ signal \in BOOLEAN
    /\ pc \in [Procs -> PCs] /\ target \in [Procs -> TqStructs]
    /\ state \in [Procs -> {"RUNNING", "UNINTERRUPTIBLE"}]
    /\ flushers \in SUBSET Procs /\ count \in [Procs -> 0 .. 2]
    /\ owed \in [Procs -> SUBSET Procs]

\* The members of a sequence.
Members(s) == {s[i] : i \in DOMAIN s}

\* Someone is between test_and_set_bit and list_add_tail of t.
Linking(t) ==
    \/ \E p \in Procs : pc[p] = "link" /\ target[p] = t
    \/ kpc = "again" /\ cur = t

\* The one bit sync stands for a place on a list: it is set exactly while the
\* tq_struct is on tq_context or on the list being run, or on its way there, and no
\* tq_struct is in two of these places (tqueue.h:103, softirq.c:355).
SyncIsQueued ==
    \A t \in TqStructs :
        /\ sync[t] <=> Linking(t) \/ t \in Members(tq) \cup Members(head)
        /\ Cardinality({i \in DOMAIN tq : tq[i] = t})
             + Cardinality({i \in DOMAIN head : head[i] = t})
             + Cardinality({p \in Procs : pc[p] = "link" /\ target[p] = t})
             + (IF kpc = "again" /\ cur = t THEN 1 ELSE 0) <= 1

\* What was left for a routine is found by it: schedule_task may answer that the task
\* is queued already, and the routine may be running just then, but one more call of
\* it is to come (softirq.c:355 against page_alloc.c:60 and 128).
NoLostWork ==
    \A t \in Works : left[t] # {} =>
        \/ t \in Members(tq) \cup Members(head) \/ Linking(t)
        \/ kpc = "call" /\ cur = t
        \/ \E p \in Procs : pc[p] = "mark" /\ target[p] = t

\* keventd does not sleep while its queue has something, unless the one who put it
\* there is about to wake it (context.c:98-101).
NoLostWakeup ==
    tq # <<>> /\ kpc = "schedule" /\ kstate = "INTERRUPTIBLE" /\ ~signal =>
        \E p \in Procs : pc[p] = "wake"

\* flush_scheduled_tasks returns when everything scheduled before it was called has
\* run to completion (context.c:116, and why twice: context.c:134-140).
FlushIsDone == \A p \in Procs : pc[p] = "leave" => owed[p] = {}

\* A flusher gets through although all of them share dummy_task and others keep
\* scheduling (context.c:141-150).
FlushEnds == \A p \in Procs : pc[p] = "flush" ~> pc[p] = "idle"

\* Whatever is left for a task is worked off.
WorkEnds == \A p \in Procs : p \in Unfinished ~> p \notin Unfinished

-----------------------------------------------------------------------------
\* No two processes use the same tq_struct.
OwnWork == \A x, y \in Users : x[2] = y[2] => x[1] = y[1]

\* What users of task queues rely on.  If two of them share a tq_struct, schedule_task may
\* return to one while the other has not linked it yet, and a flush would not wait for it.
KeventdSound == SyncIsQueued /\ NoLostWork /\ NoLostWakeup /\ (OwnWork => FlushIsDone)

(***************************************************************************)
(* The inductive invariant behind KeventdSound.                            *)
(***************************************************************************)
Types ==
    /\ sync \in [TqStructs -> BOOLEAN]
    /\ tq \in Seq(TqStructs) /\ head \in Seq(TqStructs) /\ cur \in TqStructs
    /\ left \in [Works -> SUBSET Procs] /\ doing \in SUBSET Procs
    /\ pc \in [Procs -> PCs] /\ target \in [Procs -> TqStructs]
    /\ state \in [Procs -> {"RUNNING", "UNINTERRUPTIBLE"}]
    /\ count \in [Procs -> Nat] /\ owed \in [Procs -> SUBSET Procs]

InRun == kpc \in {"next", "call", "body", "again"}

Once(s) == \A i, j \in DOMAIN s : s[i] = s[j] => i = j

\* A tq_struct is in one place.
PlaceInv ==
    /\ \A t \in TqStructs : sync[t] <=> Linking(t) \/ t \in Members(tq) \cup Members(head)
    /\ \A t \in TqStructs : Linking(t) => t \notin Members(tq) \cup Members(head)
    /\ Members(tq) \cap Members(head) = {}
    /\ Once(tq) /\ Once(head)
    /\ \A p, q \in Procs : pc[p] = "link" /\ pc[q] = "link" /\ target[p] = target[q] => p = q
    /\ \A p \in Procs : pc[p] = "link" /\ kpc = "again" => target[p] # cur

\* keventd has a list only while it runs it, and is on its wait queue before it looks.
RunInv ==
    /\ ~InRun => head = <<>>
    /\ kpc # "body" => doing = {}
    /\ kpc \in {"test", "schedule", "remove"} => waiting

\* A process works for itself, and waits for items only in flush_scheduled_tasks.
UserInv ==
    /\ \A t \in Works : \A p \in left[t] : <<p, t>> \in Users
    /\ \A p \in Procs :
        /\ target[p] # Dummy => <<p, target[p]>> \in Users
        /\ pc[p] \in {"flush", "round", "sleep", "leave"} => target[p] = Dummy
        /\ owed[p] # {} => target[p] = Dummy /\ pc[p] # "idle"
        /\ pc[p] = "leave" => count[p] >= 2

\* keventd has called wake_up(&context_task_done) since the last set_current_state of p.
Woken(p) == pc[p] \in {"mark", "link", "wake", "sleep"} /\ state[p] = "RUNNING"

\* The routine has taken x, or is about to.
InHand(x) == x \in doing \/ (kpc = "call" /\ cur \in Works /\ x \in left[cur])

\* Where the items are that p waits for: on one of the lists, before the first wakeup; on
\* the one that the next wakeup is behind, before the second; and finished after it.
FlushInv ==
    \A p \in Procs :
        /\ \A x \in owed[p] : InHand(x) \/ \E t \in Works : x \in left[t] /\
               (t \in Members(tq) \cup Members(head) \/ (kpc = "again" /\ cur = t))
        /\ count[p] >= 1 \/ Woken(p) => \A x \in owed[p] : InHand(x) \/ \E t \in Works : x \in left[t] /\
               t \in IF InRun \/ kpc = "done" THEN Members(head) ELSE Members(tq)
        /\ count[p] >= 2 \/ (count[p] >= 1 /\ Woken(p)) => owed[p] = {}

KeventdInv ==
    /\ Types /\ PlaceInv /\ RunInv /\ UserInv /\ NoLostWork /\ NoLostWakeup
    /\ OwnWork => FlushInv
=============================================================================
