------------------------------- MODULE MCFiles -------------------------------
(***************************************************************************)
(* File locks for TLC: PosixLock and FlockLease.  A behaviour is one of    *)
(* one of them, which setup names; the other rests in its initial state.   *)
(*   ranges   PosixLock with the constants of the configuration            *)
(*   close    another thread closes and opens the file meanwhile           *)
(*   chains   three processes that lock single bytes                       *)
(*   mandatory  reads and writes of a file with mandatory locking, and no  *)
(*            memory for a lock                                            *)
(*   flock    three tasks with files of their own                          *)
(*   fork     two of them share an open file                               *)
(*   lease    leases, and opens that break them                            *)
(***************************************************************************)
EXTENDS PosixLock, TLC

CONSTANTS Setups, p1, p2, p3, t1, t2, t3, f1, f2, f3

VARIABLES
    setup,
    f_flock, bkl, f_pc, arg, gone, f_asleep, f_sig, timedout, open

flockVars == <<f_flock, bkl, f_pc, arg, gone, f_asleep, f_sig, timedout, open>>

-----------------------------------------------------------------------------
Ask(type, start, end, block) == [type |-> type, start |-> start, end |-> end, wait |-> block]

\* All types on all ranges that do not reach the last byte.
InnerRanges ==
    {Ask(type, r[1], r[2], TRUE) :
        type \in Types,
        r \in {r \in (0 .. OFFSET_MAX - 1) \X (0 .. OFFSET_MAX - 1) : r[1] <= r[2]}}

NoAccess == {}

FewRanges == {Ask("WRLCK", 0, 0, TRUE), Ask("WRLCK", 0, 1, TRUE), Ask("RDLCK", 0, 1, TRUE),
              Ask("UNLCK", 0, 0, TRUE)}

\* Single bytes, of which the first is also shared, and giving everything back.
Chain == {Ask("WRLCK", b, b, TRUE) : b \in 0 .. OFFSET_MAX - 1}
            \cup {Ask("RDLCK", 0, 0, TRUE), Ask("UNLCK", 0, OFFSET_MAX, FALSE)}

Closing == INSTANCE PosixLock WITH
    Requests <- FewRanges, Closes <- TRUE

Chains == INSTANCE PosixLock WITH
    Procs <- {p1, p2, p3}, Requests <- Chain

Mandatory == INSTANCE PosixLock WITH
    Requests <- {Ask("RDLCK", 0, 0, TRUE), Ask("WRLCK", 1, 1, FALSE),
                 Ask("UNLCK", 0, OFFSET_MAX, FALSE)},
    Accesses <- {Ask("WRLCK", 0, 1, TRUE), Ask("RDLCK", 1, 1, FALSE)}, NoMemory <- TRUE

AllFlocks ==
    [type : {"RDLCK", "WRLCK"}, wait : BOOLEAN] \cup {[type |-> "UNLCK", wait |-> FALSE]}
OwnFiles == (t1 :> f1) @@ (t2 :> f2) @@ (t3 :> f3)

Own == INSTANCE FlockLease WITH
    Tasks <- {t1, t2, t3}, Files <- {f1, f2, f3}, FileOf <- OwnFiles,
    Flocks <- AllFlocks, Leases <- {}, Opens <- {[write |-> FALSE, nonblock |-> FALSE]},
    Renews <- FALSE, BreakTime <- TRUE,
    i_flock <- f_flock, pc <- f_pc, asleep <- f_asleep, sig <- f_sig

Fork == INSTANCE FlockLease WITH
    Tasks <- {t1, t2, t3}, Files <- {f1, f2},
    FileOf <- (t1 :> f1) @@ (t2 :> f1) @@ (t3 :> f2),
    Flocks <- AllFlocks, Leases <- {}, Opens <- {[write |-> FALSE, nonblock |-> FALSE]},
    Renews <- FALSE, BreakTime <- TRUE,
    i_flock <- f_flock, pc <- f_pc, asleep <- f_asleep, sig <- f_sig

Lease == INSTANCE FlockLease WITH
    Tasks <- {t1, t2, t3}, Files <- {f1, f2, f3}, FileOf <- OwnFiles,
    Flocks <- {}, Leases <- {"RDLCK", "WRLCK", "UNLCK"},
    Opens <- [write : BOOLEAN, nonblock : BOOLEAN],
    Renews <- FALSE, BreakTime <- TRUE,
    i_flock <- f_flock, pc <- f_pc, asleep <- f_asleep, sig <- f_sig

ASSUME Own!FlockAssumption /\ Fork!FlockAssumption /\ Lease!FlockAssumption

MCInit ==
    /\ setup \in Setups
    /\ CASE setup = "chains" -> Chains!Init
         [] setup = "mandatory" -> Mandatory!Init
         [] OTHER -> Init
    /\ IF setup = "fork" THEN Fork!Init ELSE Own!Init

MCNext ==
    /\ \/ /\ \/ setup = "ranges" /\ Next
             \/ setup = "close" /\ Closing!Next
             \/ setup = "chains" /\ Chains!Next
             \/ setup = "mandatory" /\ Mandatory!Next
          /\ UNCHANGED flockVars
       \/ /\ \/ setup = "flock" /\ Own!Next
             \/ setup = "fork" /\ Fork!Next
             \/ setup = "lease" /\ Lease!Next
          /\ UNCHANGED vars
    /\ UNCHANGED setup

MCSpec == MCInit /\ [][MCNext]_<<setup, vars, flockVars>>

\* The processes are interchangeable.
Symmetry == Permutations({p1, p2, p3})

-----------------------------------------------------------------------------
\* The list of locks stays sorted and merged; whoever sleeps is behind a lock that is
\* in his way or whose holder is about to wake him; when the file is closed no lock of
\* the process is left; an exclusive flock excludes all other open files, and an open
\* file that is not shared has one flock (locks.c:560-860, 960-1240, 1480-1600).
FileLocksSound ==
    /\ setup = "ranges" => TypeOK /\ SortedAndMerged /\ NoLostWakeup
    /\ setup = "close" => NoLostWakeup /\ NoStuckLock
    /\ setup \in {"chains", "mandatory"} => NoLostWakeup
    /\ setup = "flock" => /\ Own!TypeOK /\ Own!FlockExclusive
                          /\ Own!OneFlockPerFile /\ Own!NoLostWakeup
    /\ setup = "fork" => Fork!FlockExclusive /\ Fork!NoLostWakeup
    /\ setup = "lease" => Lease!NoLostWakeup
=============================================================================
