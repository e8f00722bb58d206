----------------------------- MODULE MCSoftirq -----------------------------
(***************************************************************************)
(* Softirq for TLC.  A behaviour is one of three machines, which setup     *)
(* tells apart: bottom halves (the constants of the configuration), two    *)
(* tasklets of different priority, or one whose owner disables, enables,   *)
(* kills and initialises it.  All have the same variables.                 *)
(***************************************************************************)
EXTENDS Softirq, TLC

CONSTANTS a, b

VARIABLE setup

Levels == INSTANCE Softirq WITH Hi <- {a}, Bhs <- {}, Ops <- {}

Owned == INSTANCE Softirq WITH
    Tasklets <- {a}, Hi <- {}, Bhs <- {}, Ops <- {"disable", "nosync", "kill"}

ASSUME Levels!SoftirqAssumption /\ Owned!SoftirqAssumption

MCInit == Init /\ setup \in {"bhs", "levels", "owned"}

MCNext ==
    /\ \/ setup = "bhs" /\ Next
       \/ setup = "levels" /\ Levels!Next
       \/ setup = "owned" /\ Owned!Next
    /\ UNCHANGED setup

MCSpec == MCInit /\ [][MCNext]_<<vars, setup>>

\* The CPUs are interchangeable.
Symmetry == Permutations(Cpus)
=============================================================================
