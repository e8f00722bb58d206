----------------------------- MODULE MCProgress -----------------------------
(***************************************************************************)
(* What must happen at last, for TLC.  A behaviour is one of a tasklet     *)
(* that runs a bottom half and can be killed, of load balancing, of leases *)
(* that opens break, or of exec in a thread group; setup says which, and   *)
(* the others rest in their initial state.  No symmetry.                   *)
(***************************************************************************)
EXTENDS Naturals, TLC

CONSTANTS None, c1, c2, a, t1, t2, f1, f2, init, e1, e2, e3

VARIABLES
    setup,
    pending, vec, irq, bh, softirq_pc, todo, mask, list, cur, kstate, kpc,
    sched, run, count, pushing, owner, global_bh_lock,
    nr_running, busy, prev_nr_running, found, arrivals,
    i_flock, bkl, lease_pc, arg, gone, asleep, sig, timedout, open,
    st, group, parent, real, traced, plist, esig, ign, kill, gexit, exit_pc, target,
    restore, bug

softirqVars == <<pending, vec, irq, bh, softirq_pc, todo, mask, list, cur, kstate, kpc,
                 sched, run, count, pushing, owner, global_bh_lock>>
balanceVars == <<nr_running, busy, prev_nr_running, found, arrivals>>
leaseVars   == <<i_flock, bkl, lease_pc, arg, gone, asleep, sig, timedout, open>>
exitVars    == <<st, group, parent, real, traced, plist, esig, ign, kill, gexit, exit_pc,
                 target, restore, bug>>

Cpus    == {c1, c2}
Openers == {t1, t2}
Threads == {init, e1, e2, e3}

Tasklet == INSTANCE Softirq WITH
    Tasklets <- {a}, Hi <- {a}, Bhs <- {a}, Ops <- {"kill"}, pc <- softirq_pc

Balance == INSTANCE LoadBalance WITH
    NR_CPUS <- 2, MaxRunning <- 4, MaxArrivals <- 4, Sticky <- FALSE

Lease == INSTANCE FlockLease WITH
    Tasks <- Openers, Files <- {f1, f2},
    FileOf <- (t1 :> f1) @@ (t2 :> f2),
    Flocks <- {}, Leases <- {"RDLCK", "WRLCK", "UNLCK"},
    Opens <- [write : BOOLEAN, nonblock : BOOLEAN],
    Renews <- FALSE, BreakTime <- TRUE, pc <- lease_pc

Exec == INSTANCE ExitWait WITH
    Tasks <- Threads, Reaper <- init, NoTask <- None, Modes <- {"child", "thread"},
    Waiters <- {}, Ignorers <- {}, Execs <- {e1, e2, e3}, Tracers <- {},
    Faults <- FALSE, pc <- exit_pc

ASSUME /\ Tasklet!SoftirqAssumption /\ Balance!LoadBalanceAssumption
       /\ Lease!FlockAssumption /\ Exec!ExitWaitAssumption

MCInit ==
    /\ setup \in {"tasklet", "balance", "lease", "exec"}
    /\ Tasklet!Init /\ Balance!Init /\ Lease!Init /\ Exec!Init

MCNext ==
    /\ \/ /\ setup = "tasklet" /\ Tasklet!Next
          /\ UNCHANGED <<balanceVars, leaseVars, exitVars>>
       \/ /\ setup = "balance" /\ Balance!Next
          /\ UNCHANGED <<softirqVars, leaseVars, exitVars>>
       \/ /\ setup = "lease" /\ Lease!Next
          /\ UNCHANGED <<softirqVars, balanceVars, exitVars>>
       \/ /\ setup = "exec" /\ Exec!Next
          /\ UNCHANGED <<softirqVars, balanceVars, leaseVars>>
    /\ UNCHANGED setup

\* The fairness of each module, for the one that is under way.
MCFairness ==
    /\ \A c \in Cpus : /\ WF_softirqVars(setup = "tasklet" /\ Tasklet!SoftirqStep(c))
                       /\ WF_softirqVars(setup = "tasklet" /\ Tasklet!Ksoftirqd(c))
                       /\ WF_softirqVars(setup = "tasklet" /\ Tasklet!GoOn(c))
    /\ WF_softirqVars(setup = "tasklet" /\ Tasklet!Owner(a))
    /\ \A c \in 0 .. 1 : /\ WF_balanceVars(setup = "balance" /\ Balance!FindBusiestQueue(c))
                         /\ WF_balanceVars(setup = "balance" /\ Balance!Pick(c))
                         /\ WF_balanceVars(setup = "balance" /\ Balance!Drop(c))
                         /\ SF_balanceVars(setup = "balance" /\ Balance!Pull(c))
    /\ WF_leaseVars(setup = "lease" /\ Lease!Expire)
    /\ \A t \in Openers : /\ WF_leaseVars(setup = "lease" /\ Lease!Step(t))
                          /\ WF_leaseVars(setup = "lease" /\ Lease!Timeout(t))
    /\ \A t \in Threads : /\ WF_exitVars(setup = "exec" /\ Exec!Step(t))
                          /\ WF_exitVars(setup = "exec" /\ t \in kill /\ Exec!Exit(t))

MCSpec ==
    /\ MCInit
    /\ [][MCNext]_<<setup, softirqVars, balanceVars, leaseVars, exitVars>>
    /\ MCFairness

-----------------------------------------------------------------------------
\* "If tasklet_schedule() is called, then tasklet is guaranteed to be executed on
\* some cpu at least once after this" (interrupt.h:93), unless it is killed.
ScheduledRuns == Tasklet!ScheduledRuns

\* A CPU without work gets some as long as another has two tasks to run.
WorkSpreads == Balance!WorkSpreads

\* An open that breaks a lease is not kept waiting for ever by a holder that does
\* not give it back, unless new leases are asked for again and again.
OpensEnd == Lease!OpensEnd

\* exec gets through once the other threads of the group have been killed.
ExecEnds == Exec!ExecEnds
=============================================================================
