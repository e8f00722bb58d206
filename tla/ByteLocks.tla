----------------------------- MODULE ByteLocks -----------------------------
(***************************************************************************)
(* What POSIX record locks promise, byte by byte: a granted request sets   *)
(* the bytes of its range, and no others, to its type for its owner, and   *)
(* it is granted only while no other owner has a conflicting lock on one   *)
(* of these bytes.  Closing the file drops everything of the owner.        *)
(***************************************************************************)
EXTENDS Integers

CONSTANTS Procs, OFFSET_MAX, None

VARIABLES
    held,   \* for each process, the type of its lock on each byte
    asked   \* the request of each process that is neither granted nor refused, or None

Offsets == 0 .. OFFSET_MAX
Excludes(a, b) == "WRLCK" \in {a, b} /\ "UNLCK" \notin {a, b}

Init ==
    /\ held = [p \in Procs |-> [b \in Offsets |-> "UNLCK"]]
    /\ asked = [p \in Procs |-> None]

Ask(p) ==
    /\ asked[p] = None
    /\ \E type \in {"RDLCK", "WRLCK", "UNLCK"}, from, to \in Offsets :
           asked' = [asked EXCEPT ![p] = [type |-> type, start |-> from, end |-> to]]
    /\ UNCHANGED held

Grant(p) ==
    /\ asked[p] # None
    /\ LET bytes == asked[p].start .. asked[p].end IN
       /\ \A q \in Procs \ {p}, b \in bytes : ~Excludes(asked[p].type, held[q][b])
       /\ held' = [held EXCEPT ![p] = [b \in Offsets |-> IF b \in bytes THEN asked[p].type ELSE @[b]]]
    /\ asked' = [asked EXCEPT ![p] = None]

Refuse(p) ==
    /\ asked[p] # None
    /\ asked' = [asked EXCEPT ![p] = None]
    /\ UNCHANGED held

Drop(p) ==
    /\ held' = [held EXCEPT ![p] = [b \in Offsets |-> "UNLCK"]]
    /\ UNCHANGED asked

Next == \E p \in Procs : Ask(p) \/ Grant(p) \/ Refuse(p) \/ Drop(p)
Spec == Init /\ [][Next]_<<held, asked>>
=============================================================================
