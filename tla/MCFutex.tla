------------------------------ MODULE MCFutex ------------------------------
(***************************************************************************)
(* Futex for TLC.  A behaviour is one of two machines: threads s, t and    *)
(* other in two address spaces that share pages until someone writes, or   *)
(* threads a and b in one address space, m3, that is swapped, unmapped and *)
(* mapped again.  The threads of the other machine are idle.               *)
(***************************************************************************)
EXTENDS Futex, TLC

CONSTANTS s, t, other, a, b, m1, m2, m3,
          Setups      \* which of the machines a run is about

VARIABLE setup

MCMm == [u \in Threads |->
            IF u = other THEN m2 ELSE IF u \in {a, b} THEN m3 ELSE m1]

MmOf(us) == [u \in us |-> Mm[u]]

Shared == INSTANCE Futex WITH
    Threads <- Threads \ {a, b}, Mms <- {m1, m2}, Mm <- MmOf(Threads \ {a, b}),
    Swapping <- Swapping \ {m3}, Unmapping <- Unmapping \ {m3}

Remapped == INSTANCE Futex WITH
    Threads <- {a, b}, Mms <- {m3}, Mm <- MmOf({a, b}), Num <- 1,
    Swapping <- {m3}, Unmapping <- {m3}

ASSUME Shared!FutexAssumption
ASSUME "remapped" \in Setups => Remapped!FutexAssumption

MCInit ==
    /\ setup \in Setups
    /\ \/ setup = "shared" /\ InitMapped({m1, m2})
       \/ setup = "remapped" /\ InitMapped({m3})

MCNext ==
    /\ \/ setup = "shared" /\ Shared!Next
       \/ setup = "remapped" /\ Remapped!Next
    /\ UNCHANGED setup

MCSpec == MCInit /\ [][MCNext]_<<vars, setup>>

\* The page frames are interchangeable.
Symmetry == Permutations(Pages)
=============================================================================
