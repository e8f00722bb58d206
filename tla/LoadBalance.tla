---------------------------- MODULE LoadBalance ----------------------------
(***************************************************************************)
(* How many tasks load_balance() moves (kernel/sched.c).  RunQueue shows   *)
(* that tasks survive the balancing; this module keeps its arithmetic: the *)
(* lengths that find_busiest_queue compares, the saved ones of the last    *)
(* time, the imbalance computed before the second lock is taken, and the   *)
(* loop that pulls.  A queue is its length and whether its CPU runs one of *)
(* its tasks.                                                              *)
(***************************************************************************)
EXTENDS Integers, FiniteSets, FiniteSetsExt

CONSTANTS
    NR_CPUS,      \* number of CPUs
    MaxRunning,   \* bound on the length of a queue
    MaxArrivals,  \* bound on the tasks that become runnable
    Sticky        \* whether a task may be bound to its CPU or hot in its cache

CPUs == 0 .. NR_CPUS - 1

LoadBalanceAssumption ==
    /\ NR_CPUS \in Nat \ {0} /\ MaxRunning \in Nat /\ MaxArrivals \in Nat
    /\ Sticky \in BOOLEAN

VARIABLES
    nr_running,      \* rq->nr_running
    busy,            \* rq->curr is not the idle task
    prev_nr_running, \* this_rq->prev_nr_running[i]
    found,           \* between the search and the lock of the busiest queue
    arrivals         \* tasks that have become runnable so far

vars == <<nr_running, busy, prev_nr_running, found, arrivals>>

NotFound == [busiest |-> -1, imbalance |-> 0, nr |-> 0, idle |-> FALSE, dropped |-> FALSE]

Init ==
    /\ nr_running = [c \in CPUs |-> 0]
    /\ busy = [c \in CPUs |-> FALSE]
    /\ prev_nr_running = [c \in CPUs |-> [i \in CPUs |-> 0]]
    /\ found = [c \in CPUs |-> NotFound]
    /\ arrivals = 0

Balancing(c) == found[c] # NotFound

\* c has its own lock from the search on, unless it has had to drop it.
Locked(c) == Balancing(c) /\ ~found[c].dropped

-----------------------------------------------------------------------------
\* A task wakes up on c.
Arrive(c) ==
    /\ ~Locked(c) /\ arrivals < MaxArrivals /\ nr_running[c] < MaxRunning
    /\ nr_running' = [nr_running EXCEPT ![c] = @ + 1]
    /\ arrivals' = arrivals + 1
    /\ UNCHANGED <<busy, prev_nr_running, found>>

\* The running task goes to sleep.
Leave(c) ==
    /\ ~Balancing(c) /\ busy[c]
    /\ nr_running' = [nr_running EXCEPT ![c] = @ - 1]
    /\ busy' = [busy EXCEPT ![c] = nr_running[c] > 1]
    /\ UNCHANGED <<prev_nr_running, found, arrivals>>

\* schedule() on an idle CPU that has got a task.
Pick(c) ==
    /\ ~Balancing(c) /\ ~busy[c] /\ nr_running[c] > 0
    /\ busy' = [busy EXCEPT ![c] = TRUE]
    /\ UNCHANGED <<nr_running, prev_nr_running, found, arrivals>>

-----------------------------------------------------------------------------
\* This queue's length: the longer of now and the last time.
ThisLoad(c, idle) ==
    IF idle THEN nr_running[c] ELSE Max({nr_running[c], prev_nr_running[c][c]})

\* Another queue's: the shorter.
Load(c, i, idle) ==
    IF idle THEN nr_running[i] ELSE Min({nr_running[i], prev_nr_running[c][i]})

\* Mutant: a queue with two tasks is not long enough.
LongEnoughForThree(load) == load > 2

LongEnough(load) == load > 1

\* The first of the longest other queues.
Busiest(c, idle) ==
    LET longest == {i \in CPUs \ {c} : /\ LongEnough(Load(c, i, idle))
                                       /\ \A j \in CPUs \ {c} : Load(c, j, idle) <= Load(c, i, idle)}
    IN IF longest = {} THEN -1 ELSE Min(longest)

\* find_busiest_queue until it wants the second lock.
FindBusiestQueue(c) ==
    LET idle == ~busy[c]
        b == Busiest(c, idle)
        imbalance == Load(c, b, idle) - ThisLoad(c, idle)
    IN
    /\ ~Balancing(c)
    /\ prev_nr_running' = [prev_nr_running EXCEPT ![c] = nr_running]
    /\ IF b # -1 /\ (idle \/ imbalance * 4 >= Load(c, b, idle))
       THEN found' = [found EXCEPT ![c] = [busiest |-> b, imbalance |-> imbalance,
                                           nr |-> ThisLoad(c, idle), idle |-> idle,
                                           dropped |-> FALSE]]
       ELSE UNCHANGED found
    /\ UNCHANGED <<nr_running, busy, arrivals>>

\* double_lock_balance when the trylock fails, as it may at any time, and the other
\* lock comes first in the order of the locks: this queue's is dropped.
Drop(c) ==
    /\ Locked(c) /\ found[c].busiest < c
    /\ found' = [found EXCEPT ![c].dropped = TRUE]
    /\ UNCHANGED <<nr_running, busy, prev_nr_running, arrivals>>

\* The length is taken again only after that.
ThisLoadLocked(c) ==
    IF found[c].dropped THEN ThisLoad(c, found[c].idle) ELSE found[c].nr

\* The loop of load_balance: "!idle && --imbalance" ends it.  From an imbalance
\* of 0 the counter goes down for ever.
Pulls(movable, imbalance, idle) ==
    CASE movable = 0    -> 0
      [] movable # 0 /\ idle -> 1
      [] movable # 0 /\ ~idle /\ imbalance > 0 -> Min({movable, imbalance})
      [] movable # 0 /\ ~idle /\ imbalance <= 0 -> movable

\* CAN_MIGRATE_TASK leaves the running one out.
Movable(b) == nr_running[b] - (IF busy[b] THEN 1 ELSE 0)

\* The rest of find_busiest_queue and load_balance, with both locks.
Pull(c) ==
    LET b == found[c].busiest IN
    /\ Balancing(c) /\ ~Locked(b)
    /\ \E movable \in (IF Sticky THEN 0 .. Movable(b) ELSE {Movable(b)}) :
        LET n == IF nr_running[b] <= ThisLoadLocked(c) THEN 0
                 ELSE Pulls(movable, found[c].imbalance \div 2, found[c].idle)
        IN nr_running' = [nr_running EXCEPT ![c] = @ + n, ![b] = @ - n]
    /\ found' = [found EXCEPT ![c] = NotFound]
    /\ UNCHANGED <<busy, prev_nr_running, arrivals>>

Next == \E c \in CPUs : Arrive(c) \/ Leave(c) \/ Pick(c) \/ FindBusiestQueue(c)
                           \/ Drop(c) \/ Pull(c)

Spec == Init /\ [][Next]_vars

\* Every CPU has its ticks and runs what it has.  It drops its lock or spins for the
\* other one until it gets it: that one is free most of the time, as a tick takes it
\* for a moment only.
Fairness == \A c \in CPUs :
    /\ WF_vars(FindBusiestQueue(c)) /\ WF_vars(Pick(c))
    /\ WF_vars(Drop(c)) /\ SF_vars(Pull(c))

FairSpec == Spec /\ Fairness

-----------------------------------------------------------------------------
\* Every variable has its type.
TypeOK ==
    /\ nr_running \in [CPUs -> Nat]
    /\ busy \in [CPUs -> BOOLEAN]
    /\ prev_nr_running \in [CPUs -> [CPUs -> Nat]]
    /\ found \in [CPUs -> [busiest : CPUs \cup {-1}, imbalance : Int, nr : Nat, idle : BOOLEAN,
                         dropped : BOOLEAN]]
    /\ arrivals \in 0 .. MaxArrivals

\* The task that runs is counted in its own queue: no balancing takes it away,
\* however stale the lengths were that it was based on.
RunningStays == \A c \in CPUs : busy[c] => nr_running[c] > 0

\* "no CPU should stay idle if there is work to do": an idle CPU beside a queue
\* with a waiting task gets one, unless the wait ends otherwise.
WorkSpreads ==
    \A c \in CPUs :
        (nr_running[c] = 0 /\ \E b \in CPUs : nr_running[b] > 1)
            ~> (nr_running[c] > 0 \/ \A b \in CPUs : nr_running[b] <= 1)

\* "We only want to steal a number of tasks equal to 1/2 the imbalance, otherwise
\* we'll just shift the imbalance to the new queue": a busy CPU that pulls more
\* than one task pulls no more than half of what it found.
HalfTheImbalance ==
    [][\A c \in CPUs :
         LET n == nr_running'[c] - nr_running[c] IN
         Balancing(c) /\ ~found[c].idle /\ ~Balancing(c)' /\ n > 1
            => 2 * n <= found[c].imbalance]_vars
=============================================================================
