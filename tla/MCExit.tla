------------------------------- MODULE MCExit -------------------------------
(***************************************************************************)
(* Processes and pages for TLC: ExitWait and Buddy.  A behaviour is one of *)
(* one of them, which setup names; the other rests in its initial state.   *)
(*   trace    ExitWait with the constants of the configuration: tracers,   *)
(*            and a put_user that may fail in wait4                        *)
(*   family   five tasks, children, siblings and threads                   *)
(*   exec     threads that call exec                                       *)
(*   ignore   parents that ignore SIGCHLD                                  *)
(*   zone     a zone whose size is no power of two                         *)
(*   local    two processes that free and get pages for themselves         *)
(***************************************************************************)
EXTENDS ExitWait, TLC

CONSTANTS
    a,        \* the task that may wait
    More,     \* the tasks of family beside Tasks
    Setups, q1, q2, NoBlock

VARIABLES
    setup,
    free, map, free_pages, doing, blk, low, used, deferred, drain, shrinking, local

zoneVars == <<free, map, free_pages, doing, blk, low, used, deferred, drain, shrinking, local>>

-----------------------------------------------------------------------------
Family == INSTANCE ExitWait WITH
    Tasks <- Tasks \cup More, Modes <- {"child", "sibling", "thread"},
    Tracers <- {}, Faults <- FALSE

Execve == INSTANCE ExitWait WITH
    Waiters <- {a}, Execs <- Tasks \ {Reaper}, Tracers <- {}, Faults <- FALSE

Ignore == INSTANCE ExitWait WITH
    Modes <- {"child", "sibling"}, Ignorers <- Tasks \ {Reaper}, Tracers <- {}, Faults <- FALSE

AZone == INSTANCE Buddy WITH Procs <- {}, MAX_ORDER <- 4, Size <- 13, Lru <- {}
Local == INSTANCE Buddy WITH Procs <- {q1, q2}, MAX_ORDER <- 3, Size <- 6, Lru <- {0, 1}

ASSUME /\ Family!ExitWaitAssumption /\ Execve!ExitWaitAssumption /\ Ignore!ExitWaitAssumption
       /\ AZone!BuddyAssumption /\ Local!BuddyAssumption

MCInit ==
    /\ setup \in Setups
    /\ IF setup = "family" THEN Family!Init ELSE Init
    /\ IF setup = "local" THEN Local!Init ELSE AZone!Init

MCNext ==
    /\ \/ /\ \/ setup = "trace" /\ Next
             \/ setup = "family" /\ Family!Next
             \/ setup = "exec" /\ Execve!Next
             \/ setup = "ignore" /\ Ignore!Next
          /\ UNCHANGED zoneVars
       \/ /\ \/ setup = "zone" /\ AZone!Next
             \/ setup = "local" /\ Local!Next
          /\ UNCHANGED vars
    /\ UNCHANGED setup

MCSpec == MCInit /\ [][MCNext]_<<setup, vars, zoneVars>>

\* The tasks that may do the same everywhere.
Symmetry == Permutations((Tasks \cup More) \ {Reaper, a})

-----------------------------------------------------------------------------
\* Nobody is left with a parent that has died, whatever the order in which the members
\* of a family exit (exit.c:516-549).
FamiliesLive == IF setup = "family" THEN Family!ParentsLive ELSE ParentsLive

\* A task is released once and after the members of its group, wait4 sleeps only for a
\* child that is still to die, a child nobody need wait for does not stay a zombie,
\* after de_thread the caller is alone, and without tracers no assertion of the code
\* fails (exit.c:62, 67-75, 860; signal.c:1240; exec.c:666).
ChildrenReaped ==
    /\ setup = "trace" => TypeOK /\ LeaderLast /\ ReapedOnce
    /\ setup = "family" => Family!LeaderLast /\ Family!NoBug /\ Family!NoLostWait
    /\ setup = "exec" => LeaderLast /\ NoBug
    /\ setup = "ignore" => AutoReaped /\ NoLostWait /\ NoBug

\* A bit of the map tells that one of two buddies is free, blocks that could be one are
\* one, the counter is exact (page_alloc.c:98-107), and every page is in one place.
BuddySound ==
    /\ setup = "zone" => /\ AZone!TypeOK /\ AZone!BitsTell
                         /\ AZone!NoneHidden /\ AZone!FreeCounted
    /\ setup = "local" => Local!OnePlace /\ Local!FreeCounted
=============================================================================
