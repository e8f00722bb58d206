----------------------------- MODULE MCJournal -----------------------------
(***************************************************************************)
(* Journal for TLC.  A behaviour is one of three file systems, which setup *)
(* tells apart; all have the same variables.                               *)
(*   long      one handle, three transactions, a log that wraps            *)
(*   crash     two handles, two transactions, a crash and the recovery     *)
(*   restart   as long, but a truncate may have to restart its handle      *)
(***************************************************************************)
EXTENDS Integers, TLC

CONSTANTS h1, h2, inode, ind, v1, v2, Zeroed, None,
          Setups      \* which of them a run is about

VARIABLES setup, fs, log, sb, inflight, buf, data, role, running, committing, phase, hs,
          outstanding, coutstanding, datalist, cdatalist, freed, cfreed, revoke, cpl,
          clogstart, j, todo, stable, next, crashes

vars == <<setup, fs, log, sb, inflight, buf, data, role, running, committing, phase, hs,
          outstanding, coutstanding, datalist, cdatalist, freed, cfreed, revoke, cpl,
          clogstart, j, todo, stable, next, crashes>>

Long == INSTANCE Journal WITH
    Handles <- {h1}, Owner <- {inode}, Others <- {ind}, Values <- {v1, v2},
    Magic <- None, OwnerFirst <- TRUE, Restarts <- FALSE, LogLen <- 12,
    MaxBuffers <- 2, Reserved <- 6, Credits <- 2, TagsPerBlock <- 2,
    MaxTid <- 3, MaxCrashes <- 0

Crash == INSTANCE Journal WITH
    Handles <- {h1, h2}, Owner <- {inode}, Others <- {ind}, Values <- {v1, v2},
    Magic <- None, OwnerFirst <- TRUE, Restarts <- FALSE, LogLen <- 14,
    MaxBuffers <- 4, Reserved <- 6, Credits <- 2, TagsPerBlock <- 1,
    MaxTid <- 2, MaxCrashes <- 1

Restart == INSTANCE Journal WITH
    Handles <- {h1}, Owner <- {inode}, Others <- {ind}, Values <- {v1, v2},
    Magic <- None, OwnerFirst <- TRUE, Restarts <- TRUE, LogLen <- 10,
    MaxBuffers <- 2, Reserved <- 6, Credits <- 2, TagsPerBlock <- 2,
    MaxTid <- 2, MaxCrashes <- 0

ASSUME Long!JournalAssumption /\ Crash!JournalAssumption /\ Restart!JournalAssumption

Init ==
    /\ setup \in Setups
    /\ \/ setup = "long" /\ Long!Init
       \/ setup = "crash" /\ Crash!Init
       \/ setup = "restart" /\ Restart!Init

Next ==
    /\ \/ setup = "long" /\ Long!Next
       \/ setup = "crash" /\ Crash!Next
       \/ setup = "restart" /\ Restart!Next
    /\ UNCHANGED setup

Spec == Init /\ [][Next]_vars

\* Contents are only compared, and the two handles of "crash" are alike.
Symmetry == Permutations({v1, v2}) \cup Permutations({h1, h2})

-----------------------------------------------------------------------------
\* "It is atomic": whenever the power fails, and whichever of the outstanding writes
\* have reached the disk, recovery leaves the file system as it was at the end
\* of the last transaction whose commit has ended, or of the one that is being
\* committed; also if it fails again during recovery (commit.c:92, recovery.c:216).
Recoverable ==
    /\ setup = "long" => Long!TypeOK /\ Long!Recoverable
    /\ setup = "crash" => Crash!Recoverable

\* The log never fills up during a commit, which could not wait for a checkpoint
\* (journal.c:591), and the assertions of the code hold.
LogSuffices ==
    /\ setup = "long" => Long!LogNotFull /\ Long!Assertions
    /\ setup = "crash" => Crash!LogNotFull /\ Crash!Assertions
    /\ setup = "restart" => Restart!TypeOK /\ Restart!LogNotFull /\ Restart!Assertions
=============================================================================
