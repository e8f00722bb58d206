----------------------------- MODULE TaskSched -----------------------------
(***************************************************************************)
(* What the sleeping and waking code sees of the scheduler: the state of a *)
(* task and whether it is on a run queue.  WaitQueue, and the components   *)
(* that extend it, take schedule() and try_to_wake_up() for such steps;    *)
(* RunQueue, with its CPUs, locks and migrations, implements them.         *)
(***************************************************************************)
CONSTANT Tasks

VARIABLES state, on_rq

Sleeping == {"INTERRUPTIBLE", "UNINTERRUPTIBLE"}

Init ==
    /\ state = [p \in Tasks |-> "RUNNING"]
    /\ on_rq = [p \in Tasks |-> TRUE]

Becomes(p, s, queued) ==
    /\ state' = [state EXCEPT ![p] = s]
    /\ on_rq' = [on_rq EXCEPT ![p] = queued]

\* The task itself, while it runs, changes its state; a signal may do it for it.
SetState(p) ==
    /\ on_rq[p] /\ state[p] # "ZOMBIE"
    /\ \E s \in Sleeping \cup {"RUNNING", "ZOMBIE"} : Becomes(p, s, TRUE)

\* schedule(): only a task that is not to run leaves the queue.
Deactivate(p) == on_rq[p] /\ state[p] # "RUNNING" /\ Becomes(p, state[p], FALSE)

\* A wakeup: state and queue change together, whether the task was off the
\* queue or still on its way.
WakeUp(p) == state[p] \in Sleeping /\ Becomes(p, "RUNNING", TRUE)

Fork(p)    == state[p] = "none" /\ Becomes(p, "RUNNING", TRUE)
Release(p) == state[p] = "ZOMBIE" /\ ~on_rq[p] /\ Becomes(p, "none", FALSE)

Next == \E p \in Tasks : SetState(p) \/ Deactivate(p) \/ WakeUp(p) \/ Fork(p) \/ Release(p)

Spec == Init /\ [][Next]_<<state, on_rq>>
=============================================================================
