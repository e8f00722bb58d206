--------------------------- MODULE TaskletPromise ---------------------------
(***************************************************************************)
(* What include/linux/interrupt.h promises of tasklets: a tasklet that is  *)
(* scheduled runs once, later; scheduling it again before it starts        *)
(* changes nothing; scheduling it while it runs makes it run once more; it *)
(* never runs on two CPUs at a time.                                       *)
(***************************************************************************)
CONSTANT Tasklets

VARIABLES queued,    \* the tasklets that are scheduled and have not started
          running    \* the tasklets whose function is running

Schedule(t) ==
    /\ t \notin queued
    /\ queued' = queued \cup {t}
    /\ UNCHANGED running

Start(t) ==
    /\ t \in queued
    /\ t \notin running
    /\ queued' = queued \ {t}
    /\ running' = running \cup {t}

Finish(t) ==
    /\ t \in running
    /\ running' = running \ {t}
    /\ UNCHANGED queued

PromiseInit == queued = {} /\ running = {}

PromiseNext == \E t \in Tasklets : Schedule(t) \/ Start(t) \/ Finish(t)

PromiseSpec == PromiseInit /\ [][PromiseNext]_<<queued, running>>
=============================================================================
