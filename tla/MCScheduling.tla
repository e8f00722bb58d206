---------------------------- MODULE MCScheduling ----------------------------
(***************************************************************************)
(* The scheduler and what lets a task sleep or work later, for TLC:        *)
(* RunQueue, Completion, Timer and Keventd.  A behaviour is one of one of  *)
(* them, which setup names; the others rest in an initial state.           *)
(*   runqueue   RunQueue with the constants of the configuration           *)
(*   static     a completion of its own, stack: on the stack of its waiter *)
(*   vectors    one timer, every time and delay, two levels of cascading   *)
(*   sleeper    a timer, a task in schedule_timeout and a user             *)
(*   keventd    one user of keventd and one process that flushes           *)
(*   shared     two users of the same tq_struct                            *)
(***************************************************************************)
EXTENDS RunQueue

CONSTANTS w1, w2, c1, c2, c3, k1, s1, u1, p1, p2, work

VARIABLES
    setup,
    wstate, on_rq, sigpending, task_list, exclusive, q_lock, scan, nr,
    cdone, wpc, alive, posted, served, alls,
    jiffies, timer_jiffies, index, vec, queued, rpc, running_timer, rearm, expires,
    pending, shutdown, gone, upc, uarg, spc, awake, added,
    sync, tq, head, cur, left, kdoing, kpc, kstate, waiting, signal, ppc, target, pstate,
    flushers, count, owed

completionVars == <<wstate, on_rq, sigpending, task_list, exclusive, q_lock, scan, nr,
                    cdone, wpc, alive, posted, served, alls>>
timerVars == <<jiffies, timer_jiffies, index, vec, queued, rpc, running_timer, rearm,
               expires, pending, shutdown, gone, upc, uarg, spc, awake, added>>
keventdVars == <<sync, tq, head, cur, left, kdoing, kpc, kstate, waiting, signal, ppc,
                 target, pstate, flushers, count, owed>>

-----------------------------------------------------------------------------
Static == INSTANCE Completion WITH
    Tasks <- {w1, w2, c1, c2}, Waiters <- {w1, w2}, Completers <- {c1, c2},
    NoTask <- None, Owner <- None, MaxPosts <- 5, UINT_MAX <- 63,
    state <- wstate, done <- cdone, pc <- wpc

Stack == INSTANCE Completion WITH
    Tasks <- {w1, c1, c2, c3}, Waiters <- {w1}, Completers <- {c1, c2, c3},
    NoTask <- None, Owner <- w1, MaxPosts <- 3, UINT_MAX <- 31,
    state <- wstate, done <- cdone, pc <- wpc

Vectors == INSTANCE Timer WITH
    TVR_BITS <- 2, TVN_BITS <- 2, NOOF_TVECS <- 3,
    KernelTimers <- {k1}, Sleepers <- {}, Users <- {u1},
    Delays <- {-2, -1, 0, 1, 3, 4, 15, 16, 29}, MaxLag <- 2, Start <- {0}

Sleeper == INSTANCE Timer WITH
    TVR_BITS <- 1, TVN_BITS <- 1, NOOF_TVECS <- 3,
    KernelTimers <- {k1}, Sleepers <- {s1}, Users <- {u1},
    Delays <- {-1, 0, 1}, MaxLag <- 1, Start <- {0}

OneUser == INSTANCE Keventd WITH
    Procs <- {p1, p2}, Works <- {work}, Users <- {<<p1, work>>}, Readds <- {work},
    Dummy <- None, doing <- kdoing, pc <- ppc, state <- pstate

TwoUsers == INSTANCE Keventd WITH
    Procs <- {p1, p2}, Works <- {work}, Users <- {p1, p2} \X {work}, Readds <- {work},
    Dummy <- None, doing <- kdoing, pc <- ppc, state <- pstate

ASSUME /\ Static!CompletionAssumption /\ Stack!CompletionAssumption
       /\ Vectors!TimerAssumption /\ Sleeper!TimerAssumption
       /\ OneUser!KeventdAssumption /\ TwoUsers!KeventdAssumption /\ OneUser!OwnWork

MCInit ==
    /\ Init
    /\ setup \in {"runqueue", "static", "stack", "vectors", "sleeper", "keventd", "shared"}
    /\ IF setup = "stack" THEN Stack!Init ELSE Static!Init
    /\ IF setup = "vectors" THEN Vectors!Init ELSE Sleeper!Init
    /\ OneUser!Init

MCNext ==
    /\ \/ /\ setup = "runqueue" /\ Next
          /\ UNCHANGED <<completionVars, timerVars, keventdVars>>
       \/ /\ \/ setup = "static" /\ Static!Next
             \/ setup = "stack" /\ Stack!Next
          /\ UNCHANGED <<vars, timerVars, keventdVars>>
       \/ /\ \/ setup = "vectors" /\ Vectors!Next
             \/ setup = "sleeper" /\ Sleeper!Next
          /\ UNCHANGED <<vars, completionVars, keventdVars>>
       \/ /\ \/ setup = "keventd" /\ OneUser!Next
             \/ setup = "shared" /\ TwoUsers!Next
          /\ UNCHANGED <<vars, completionVars, timerVars>>
    /\ UNCHANGED setup

MCSpec ==
    MCInit /\ [][MCNext]_<<setup, vars, completionVars, timerVars, keventdVars>>

-----------------------------------------------------------------------------
\* One complete() lets one waiter through, none is stranded, and after one
\* complete_all() nobody blocks (sched.c:1162-1210); a waiter on whose stack the
\* completion is cannot return before its completer has let go of it.
CompletionSound ==
    /\ setup = "static" => Static!TypeOK /\ Static!CompletionSound
    /\ setup = "stack" => Stack!CompletionSound

\* Cascading loses and doubles no timer and comes in time, also when jiffies wraps;
\* what del_timer_sync or schedule_timeout has left is not referred to any more, and
\* a sleeper has a timer that will wake it (timer.c:150-330, 870-930).
TimersSound ==
    /\ setup = "vectors" => Vectors!ListsSound /\ Vectors!NotLate
    /\ setup = "sleeper" => /\ Sleeper!TypeOK /\ Sleeper!ListsSound
                            /\ Sleeper!GoneIsGone /\ Sleeper!NoOversleep

\* No function is called before its time: "at least @timeout jiffies are guaranteed
\* to pass" (timer.c:819), also when jiffies wraps.
NeverEarly == [][setup = "vectors" => ~Vectors!CalledEarly]_timerVars

\* The bit sync stands for one place on a list, what was left for a routine is
\* found by it and keventd does not sleep over it, also if two share a tq_struct;
\* unless they do, flush_scheduled_tasks returns when everything scheduled before it
\* was called has run to completion (context.c:116).
KeventdSound ==
    /\ setup = "shared" => TwoUsers!TypeOK /\ TwoUsers!KeventdSound
    /\ setup = "keventd" => OneUser!KeventdSound
=============================================================================
