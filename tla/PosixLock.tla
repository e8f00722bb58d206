----------------------------- MODULE PosixLock -----------------------------
(***************************************************************************)
(* POSIX record locks on one file (fs/locks.c): fcntl(F_SETLK, F_SETLKW),  *)
(* the conflict scan, the deadlock test, blocking, the loop that merges    *)
(* and splits ranges, the removal of locks by close, and reads and writes  *)
(* of a file with mandatory locking.                                       *)
(*                                                                         *)
(* All of this runs under the big kernel lock, which a task gives up only  *)
(* when it sleeps, so what is between two sleeps is one action.  Each      *)
(* process has one thread that locks, reads and writes, and may have       *)
(* another one that closes and opens the file under it.                    *)
(***************************************************************************)
EXTENDS Integers, Sequences, FiniteSets, FiniteSetsExt, Functions

CONSTANTS
    Procs,
    OFFSET_MAX,
    Requests,   \* the locks that may be asked for: [type, start, end, wait]
    Accesses,   \* the reads (RDLCK) and writes (WRLCK) of the file, if it has mandatory locking
    Closes,     \* whether the other threads close and reopen the file
    NoMemory,   \* whether there may be no memory for a lock
    None

ASSUME PosixAssumption ==
    /\ OFFSET_MAX \in Nat
    /\ \A r \in Requests \cup Accesses :
        /\ r.type \in {"RDLCK", "WRLCK", "UNLCK"} /\ r.wait \in BOOLEAN
        /\ r.start \in 0 .. OFFSET_MAX /\ r.end \in r.start .. OFFSET_MAX
    /\ \A r \in Accesses : r.type # "UNLCK"
    /\ Closes \in BOOLEAN /\ NoMemory \in BOOLEAN
    /\ None \notin [type : {"RDLCK", "WRLCK", "UNLCK"}, start : Int, end : Int]

VARIABLES
    i_flock,   \* the locks of the inode: [owner, type, start, end, block], block being fl_block
    fl,        \* the file_lock of the call of each process: [type, start, end]
    wait,      \* whether that call blocks
    pc,
    asleep,    \* the processes that sleep in locks_block_on
    sig,       \* whether a signal is pending
    fd,        \* the file that the descriptor of each process refers to, or 0
    filp,      \* the file that the call was made on
    l_type,    \* the type that the caller asked for, in his struct flock
    closing,   \* how far the other thread is in close
    mandatory  \* whether the mode of the file asks for mandatory locking

vars == <<i_flock, fl, wait, pc, asleep, sig, fd, filp, l_type, closing, mandatory>>
fileVars == <<fd, filp, l_type, closing, mandatory>>

NoLock == [type |-> "UNLCK", start |-> 0, end |-> 0]

Init ==
    /\ i_flock = <<>>
    /\ fl = [p \in Procs |-> NoLock] /\ wait = [p \in Procs |-> FALSE]
    /\ pc = [p \in Procs |-> "idle"] /\ asleep = {} /\ sig = [p \in Procs |-> FALSE]
    /\ fd = [p \in Procs |-> 1] /\ filp = [p \in Procs |-> 0] /\ l_type = [p \in Procs |-> "UNLCK"]
    /\ closing = [p \in Procs |-> "no"] /\ mandatory = (Accesses # {})

Min2(a, b) == IF a < b THEN a ELSE b
Max2(a, b) == IF a > b THEN a ELSE b

\* end + 1 in an loff_t, which is signed
Succ(end) == IF end = OFFSET_MAX THEN -(OFFSET_MAX + 1) ELSE end + 1

locks_overlap(a, b) == a.end >= b.start /\ b.end >= a.start

\* posix_locks_conflict: lock keeps p from getting caller.
posix_locks_conflict(p, caller, lock) ==
    lock.owner # p /\ locks_overlap(caller, lock) /\ "WRLCK" \in {caller.type, lock.type}

\* The owner of the lock that p is queued on, which the search in blocked_list finds.
BlockedBy(p) == {i_flock[i].owner : i \in {i \in DOMAIN i_flock : p \in i_flock[i].block}}

\* Mutant: only the owner of the lock itself is looked at.
DirectDeadlock(p, lock) == lock.owner = p \/ p \in BlockedBy(lock.owner)

\* posix_locks_deadlock: p is met when one follows who waits for whom from the owner of lock.
posix_locks_deadlock(p, lock) ==
    \A met \in SUBSET Procs :
        lock.owner \in met /\ (\A q \in met : BlockedBy(q) \subseteq met) => p \in met

----------------------------------------------------------------------------
(***************************************************************************)
(* The loop of posix_lock_file over the locks of the caller.  done are the *)
(* locks before *before, rest those from there on; caller is the range     *)
(* that caller points to, the call's own file_lock or, when at # 0,        *)
(* done[at]; left is the index of left in done, or after the end of it.    *)
(***************************************************************************)
With(lock, range) == [lock EXCEPT !.type = range.type, !.start = range.start, !.end = range.end]

Merged(a, b) == [a EXCEPT !.start = Min2(@, b.start), !.end = Max2(@, b.end)]

\* Same type, and neither goto next_lock nor break.
Touches(caller, lock) == ~(lock.end < caller.start - 1) /\ ~(lock.start > Succ(caller.end))

Keep(s, lock) == [s EXCEPT !.done = Append(@, lock)]

\* locks_delete_lock
Delete(s, lock) == [s EXCEPT !.woken = @ \cup lock.block]
Stop(s, lock) == [s EXCEPT !.rest = Append(@, lock)]

\* The caller becomes range; so does the lock of the list that caller points to by now.
Becomes(s, range) ==
    IF s.at = 0 THEN [s EXCEPT !.caller = range]
    ELSE [s EXCEPT !.caller = range, !.done[s.at] = With(@, range)]

\* if (added) delete the lock, else let it take the place of the new one
Absorb(s, lock, range) ==
    IF s.added THEN Delete(Becomes(s, range), lock)
    ELSE [s EXCEPT !.done = Append(@, With(lock, range)), !.caller = range, !.at = Len(s.done) + 1, !.added = TRUE]

SameType(s, lock) ==
    LET range == Merged(s.caller, lock) IN
    IF lock.end < s.caller.start - 1 THEN Keep(s, lock)
    ELSE IF ~Touches(s.caller, lock) THEN Stop(s, lock)
    ELSE Absorb([s EXCEPT !.file = IF s.at = 0 THEN range ELSE @], lock, range)

OtherType(s, lock) ==
    LET t == [s EXCEPT !.added = @ \/ s.caller.type = "UNLCK",
                       !.left = IF lock.start < s.caller.start THEN Len(s.done) + 1 ELSE @]
    IN IF lock.end < s.caller.start THEN Keep(s, lock)
       ELSE IF lock.start > s.caller.end THEN Stop(s, lock)
       ELSE IF lock.end > s.caller.end THEN [Stop(t, lock) EXCEPT !.right = TRUE]
       ELSE IF lock.start < s.caller.start THEN Keep(t, lock)
       ELSE IF t.added THEN Delete(t, lock)
       ELSE Absorb(Delete(t, lock), [lock EXCEPT !.block = {}], s.caller)

\* One round of the loop, nothing any more after a break.
Process(s, lock) ==
    IF s.rest # <<>> THEN Stop(s, lock)
    ELSE IF s.caller.type = lock.type THEN SameType(s, lock)
    ELSE OtherType(s, lock)

\* The locks of p, from its first one to the next lock of somebody else.
FirstOwn(p) == LET own == {i \in DOMAIN i_flock : i_flock[i].owner = p}
               IN IF own = {} THEN Len(i_flock) + 1 ELSE Min(own)
EndOwn(p) == Max({i \in FirstOwn(p) - 1 .. Len(i_flock) : \A j \in FirstOwn(p) .. i : i_flock[j].owner = p})

Looped(p) ==
    LET start == [done |-> <<>>, rest |-> <<>>, caller |-> fl[p], file |-> fl[p], at |-> 0,
                  added |-> FALSE, left |-> 0, right |-> FALSE, woken |-> {}]
        upto[i \in FirstOwn(p) - 1 .. EndOwn(p)] ==
            IF i < FirstOwn(p) THEN start ELSE Process(upto[i - 1], i_flock[i])
    IN upto[EndOwn(p)]

RightPiece(lock, caller) == [lock EXCEPT !.start = Succ(caller.end), !.block = {}]

\* Mutant: the piece before the new lock keeps one byte too many.
LeftTooLong(lock, caller) == [lock EXCEPT !.end = caller.start, !.block = {}]

LeftPiece(lock, caller) == [lock EXCEPT !.end = caller.start - 1, !.block = {}]

\* Everybody who is woken, by the loop and by the cutting of left and right.
Woken(s) == s.woken \cup (UNION {s.done[i].block : i \in DOMAIN s.done \cap {s.left}})
                    \cup (UNION {s.rest[i].block : i \in {i \in DOMAIN s.rest : s.right /\ i = 1}})

\* What comes after the loop: the new lock, and the pieces of a lock that it cuts.
After(p, s) ==
    LET cut   == s.right /\ s.left = Len(s.done) + 1
        fresh == [owner |-> p, type |-> s.caller.type, start |-> s.caller.start, end |-> s.caller.end, block |-> {}]
    IN SubSeq(i_flock, 1, FirstOwn(p) - 1)
       \o [i \in DOMAIN s.done |-> IF i = s.left THEN LeftPiece(s.done[i], s.caller) ELSE s.done[i]]
       \o (IF cut THEN <<LeftPiece(s.rest[1], s.caller)>> ELSE <<>>)
       \o (IF s.added \/ s.caller.type = "UNLCK" THEN <<>> ELSE <<fresh>>)
       \o [i \in DOMAIN s.rest |-> IF i = 1 /\ s.right THEN RightPiece(s.rest[i], s.caller) ELSE s.rest[i]]
       \o SubSeq(i_flock, EndOwn(p) + 1, Len(i_flock))

----------------------------------------------------------------------------
\* locks_delete_block
Unqueued(p) == [i \in DOMAIN i_flock |-> [i_flock[i] EXCEPT !.block = @ \ {p}]]

\* fcntl_setlk up to do_it, or read and write up to locks_mandatory_area
Call(p, op, requests) ==
    /\ pc[p] = "idle" /\ fd[p] # 0
    /\ \E r \in requests :
           /\ fl' = [fl EXCEPT ![p] = [type |-> r.type, start |-> r.start, end |-> r.end]]
           /\ wait' = [wait EXCEPT ![p] = r.wait]
           /\ l_type' = [l_type EXCEPT ![p] = r.type]
    /\ filp' = [filp EXCEPT ![p] = fd[p]]
    /\ pc' = [pc EXCEPT ![p] = op]
    /\ UNCHANGED <<i_flock, asleep, sig, fd, closing, mandatory>>

fcntl_setlk(p) == Call(p, "lock", Requests)

\* locks_verify_area asks for more only if the mode of the file says so.
ReadWrite(p) == mandatory /\ Call(p, "io", Accesses)

Return(p) ==
    /\ pc' = [pc EXCEPT ![p] = "idle"]
    /\ fl' = [fl EXCEPT ![p] = NoLock] /\ wait' = [wait EXCEPT ![p] = FALSE]
    /\ filp' = [filp EXCEPT ![p] = 0] /\ l_type' = [l_type EXCEPT ![p] = "UNLCK"]
    /\ sig' = [sig EXCEPT ![p] = FALSE]
    /\ UNCHANGED <<asleep, fd, closing, mandatory>>

\* -ERESTARTSYS
Interrupted(p) ==
    /\ pc[p] \in {"lock", "io_again"} /\ p \notin asleep /\ sig[p]
    /\ i_flock' = Unqueued(p)
    /\ Return(p)

\* -ENOLCK: only the request that undoes a lock is worse off than if it had not been made.
OutOfMemory(p) ==
    /\ NoMemory /\ pc[p] = "lock" /\ fl[p].type = "UNLCK"
    /\ Return(p) /\ UNCHANGED i_flock

\* EAGAIN, EDEADLK, or locks_block_on
Blocked(p, lock, again) ==
    IF ~wait[p] \/ posix_locks_deadlock(p, i_flock[lock])
    THEN Return(p) /\ UNCHANGED i_flock
    ELSE /\ i_flock' = [i_flock EXCEPT ![lock].block = @ \cup {p}]
         /\ asleep' = asleep \cup {p} /\ pc' = [pc EXCEPT ![p] = again]
         /\ UNCHANGED <<fl, wait, sig, fileVars>>

\* posix_lock_file from lock_kernel, or from the wakeup in locks_block_on, on
posix_lock_file(p) ==
    /\ pc[p] = "lock" /\ p \notin asleep /\ ~sig[p]
    /\ LET inTheWay == {i \in DOMAIN i_flock : posix_locks_conflict(p, fl[p], i_flock[i])}
           s == Looped(p)
       IN IF fl[p].type # "UNLCK" /\ inTheWay # {}
          THEN Blocked(p, Min(inTheWay), "lock")
          ELSE /\ i_flock' = After(p, s)
               /\ asleep' = asleep \ Woken(s)
               /\ fl' = [fl EXCEPT ![p] = s.file]
               /\ pc' = [pc EXCEPT ![p] = "check"]
               /\ UNCHANGED <<wait, sig, fileVars>>

\* Mutant: the descriptor is not looked at again.
NoRecheck(p) == pc[p] = "check" /\ Return(p) /\ UNCHANGED i_flock

\* The end of fcntl_setlk: who has lost the race with close undoes the lock, and does so again
\* for as long as the descriptor does not refer to his file: the undo leaves l_type alone.
Recheck(p) ==
    /\ pc[p] = "check"
    /\ UNCHANGED i_flock
    /\ IF l_type[p] # "UNLCK" /\ filp[p] # fd[p]
       THEN /\ fl' = [fl EXCEPT ![p].type = "UNLCK"]
            /\ pc' = [pc EXCEPT ![p] = "lock"]
            /\ UNCHANGED <<wait, asleep, sig, fileVars>>
       ELSE Return(p)

\* locks_mandatory_area: the scan ends at a lock that starts behind the area.  The mode of
\* the file is looked at again only after a sleep.
locks_mandatory_area(p) ==
    /\ pc[p] \in {"io", "io_again"} /\ p \notin asleep /\ ~sig[p]
    /\ LET ends == {i \in DOMAIN i_flock : \/ i_flock[i].start > fl[p].end
                                           \/ posix_locks_conflict(p, fl[p], i_flock[i])}
       IN IF /\ pc[p] = "io" \/ mandatory
             /\ ends # {} /\ ~(i_flock[Min(ends)].start > fl[p].end)
          THEN Blocked(p, Min(ends), "io_again")
          ELSE /\ pc' = [pc EXCEPT ![p] = "access"]
               /\ UNCHANGED <<i_flock, fl, wait, asleep, sig, fileVars>>

\* The read or write itself
Access(p) == pc[p] = "access" /\ Return(p) /\ UNCHANGED i_flock

Signal(p) ==
    /\ pc[p] \in {"lock", "io_again"} /\ p \in asleep
    /\ sig' = [sig EXCEPT ![p] = TRUE] /\ asleep' = asleep \ {p}
    /\ UNCHANGED <<i_flock, fl, wait, pc, fileVars>>

\* chmod
ChangeMode ==
    /\ Accesses # {} /\ mandatory' = ~mandatory
    /\ UNCHANGED <<i_flock, fl, wait, pc, asleep, sig, fd, filp, l_type, closing>>

----------------------------------------------------------------------------
callVars == <<fl, wait, pc, sig, filp, l_type, mandatory>>

\* sys_close: the descriptor goes first
Close(p) ==
    /\ Closes /\ fd[p] # 0 /\ closing[p] = "no"
    /\ fd' = [fd EXCEPT ![p] = 0]
    /\ closing' = [closing EXCEPT ![p] = "look"]
    /\ UNCHANGED <<i_flock, asleep, callVars>>

\* if (!inode->i_flock) return, without a lock
Look(p) ==
    /\ closing[p] = "look"
    /\ closing' = [closing EXCEPT ![p] = IF i_flock = <<>> THEN "no" ELSE "remove"]
    /\ UNCHANGED <<i_flock, asleep, fd, callVars>>

\* What is left of the list without the locks of p.
Others(p) ==
    LET upto[i \in 0 .. Len(i_flock)] ==
            IF i = 0 THEN <<>>
            ELSE IF i_flock[i].owner = p THEN upto[i - 1]
            ELSE Append(upto[i - 1], i_flock[i])
    IN upto[Len(i_flock)]

locks_remove_posix(p) ==
    /\ closing[p] = "remove"
    /\ closing' = [closing EXCEPT ![p] = "no"]
    /\ i_flock' = Others(p)
    /\ asleep' = asleep \ UNION {i_flock[i].block : i \in {i \in DOMAIN i_flock : i_flock[i].owner = p}}
    /\ UNCHANGED <<fd, callVars>>

\* A new file in the same slot, or the one that a call still holds once more (dup2).
Open(p) ==
    /\ fd[p] = 0 /\ closing[p] = "no"
    /\ \E f \in {Min({1, 2} \ {filp[p]}), filp[p]} \ {0} : fd' = [fd EXCEPT ![p] = f]
    /\ UNCHANGED <<i_flock, asleep, closing, callVars>>

Next ==
    \/ \E p \in Procs :
        \/ fcntl_setlk(p) \/ posix_lock_file(p) \/ Recheck(p)
        \/ ReadWrite(p) \/ locks_mandatory_area(p) \/ Access(p)
        \/ Interrupted(p) \/ OutOfMemory(p) \/ Signal(p)
        \/ Close(p) \/ Look(p) \/ locks_remove_posix(p) \/ Open(p)
    \/ ChangeMode

Spec == Init /\ [][Next]_vars

----------------------------------------------------------------------------
Types == {"RDLCK", "WRLCK", "UNLCK"}

\* struct file_lock: what a call asks for, and a lock of the list
Ranges == [type : Types, start : Int, end : Int]
Locks  == [owner : Procs, type : {"RDLCK", "WRLCK"}, start : Int, end : Int, block : SUBSET Procs]

\* Every variable keeps its type.
TypeOK ==
    /\ i_flock \in Seq(Locks)
    /\ \A i \in DOMAIN i_flock : LET lock == i_flock[i] IN
        /\ lock.owner \notin lock.block
        /\ 0 <= lock.start /\ lock.start <= lock.end /\ lock.end <= OFFSET_MAX
    /\ fl \in [Procs -> [type : Types, start : 0 .. OFFSET_MAX, end : 0 .. OFFSET_MAX]]
    /\ wait \in [Procs -> BOOLEAN] /\ sig \in [Procs -> BOOLEAN] /\ mandatory \in BOOLEAN
    /\ pc \in [Procs -> {"idle", "lock", "check", "io", "io_again", "access"}] /\ asleep \subseteq Procs
    /\ fd \in [Procs -> 0 .. 2] /\ filp \in [Procs -> 0 .. 2] /\ l_type \in [Procs -> Types]
    /\ closing \in [Procs -> {"no", "look", "remove"}]

\* The list is as the comment above posix_lock_file says: the locks of a process are together
\* and sorted by their start, they do not overlap, and adjacent ones of one type are one lock.
SortedAndMerged ==
    \A i, j \in DOMAIN i_flock : i < j /\ i_flock[i].owner = i_flock[j].owner =>
        /\ \A k \in i .. j : i_flock[k].owner = i_flock[i].owner
        /\ i_flock[i].end < i_flock[j].start
        /\ i_flock[i].type = i_flock[j].type => i_flock[i].end + 1 < i_flock[j].start

\* The type of the lock of p on byte b.
Held(p, b) ==
    LET on == {i \in DOMAIN i_flock : i_flock[i].owner = p /\ b \in i_flock[i].start .. i_flock[i].end}
    IN IF on = {} THEN "UNLCK" ELSE i_flock[Min(on)].type

HeldBytes == [p \in Procs |-> [b \in 0 .. OFFSET_MAX |-> Held(p, b)]]
AskedFor  == [p \in Procs |-> IF pc[p] = "lock" THEN fl[p] ELSE None]

Bytes == INSTANCE ByteLocks WITH held <- HeldBytes, asked <- AskedFor

\* Merging, cutting and replacing locks in the list does to every byte what the caller asked
\* for and nothing else, and only when nobody else has a conflicting lock on it.
ImplementsByteLocks == Bytes!Spec

\* Nobody sleeps but behind a lock that is in the list and is in his way.
NoLostWakeup ==
    \A p \in asleep : \E i \in DOMAIN i_flock :
        p \in i_flock[i].block /\ posix_locks_conflict(p, fl[p], i_flock[i])

\* Of a ring of processes each of which waits for a lock of the next, one has got EDEADLK:
\* who sleeps waits, directly or through others that sleep, for somebody who is awake.
NoDeadlock ==
    \A set \in SUBSET asleep : set # {} => \E p \in set : ~(BlockedBy(p) \subseteq set)

\* The file of p, or the one that its call was made on, has been closed, and the removal of
\* the locks is over.
Closed(p) == closing[p] = "no" /\ IF pc[p] = "idle" THEN fd[p] = 0 ELSE filp[p] # fd[p]

\* When the file is closed, no lock is left by calls that raced with close: neither when they
\* have returned nor when they have undone the lock and look at the descriptor again.
NoStuckLock ==
    \A p \in Procs : Closed(p) /\ (pc[p] = "idle" \/ (pc[p] = "check" /\ fl[p].type = "UNLCK")) =>
        \A i \in DOMAIN i_flock : i_flock[i].owner # p

\* With mandatory locking a read or write goes on only if no lock of another process is in
\* its way (Documentation/mandatory.txt, section 4).
MandatoryLocksHold ==
    [][\A p \in Procs : locks_mandatory_area(p) /\ pc'[p] = "access" /\ mandatory =>
           \A i \in DOMAIN i_flock : ~posix_locks_conflict(p, fl[p], i_flock[i])]_vars

----------------------------------------------------------------------------
\* The inductive invariant of the sleepers: they are in a call that waits, each behind a
\* lock in its way, and no ring of them waits for itself.
SleepInv ==
    /\ i_flock \in Seq(Locks) /\ fl \in [Procs -> Ranges] /\ asleep \subseteq Procs
    /\ pc \in [Procs -> {"idle", "lock", "check", "io", "io_again", "access"}]
    /\ \A p \in asleep : pc[p] \in {"lock", "io_again"} /\ fl[p].type # "UNLCK"
    /\ \A p \in Procs : pc[p] \in {"io", "io_again"} => fl[p].type # "UNLCK"
    /\ NoLostWakeup /\ NoDeadlock

\* A range of the file.  What is locked stays before the last byte, behind which Succ wraps.
WithinFile(r) ==
    0 <= r.start /\ r.start <= r.end /\ r.end <= OFFSET_MAX /\ (r.type # "UNLCK" => r.end < OFFSET_MAX)

LastByteFree == \A r \in Requests : r.type # "UNLCK" => r.end < OFFSET_MAX

\* The inductive invariant of the list, if LastByteFree.
ListInv ==
    /\ i_flock \in Seq(Locks) /\ fl \in [Procs -> Ranges]
    /\ pc \in [Procs -> {"idle", "lock", "check", "io", "io_again", "access"}]
    /\ \A i \in DOMAIN i_flock : WithinFile(i_flock[i])
    /\ \A p \in Procs : pc[p] \in {"lock", "check"} => WithinFile(fl[p])
    /\ SortedAndMerged

\* Who asks for nothing but to unlock has no other request in hand.
AskedInv ==
    /\ l_type \in [Procs -> Types]
    /\ \A p \in Procs : l_type[p] = "UNLCK" => fl[p].type = "UNLCK"

\* The inductive invariant of close, if LastByteFree and ~NoMemory: after that p has a lock
\* only if fcntl_setlk is about to look at the descriptor or is undoing, in the range to undo.
CloseInv ==
    /\ fd \in [Procs -> 0 .. 2] /\ filp \in [Procs -> 0 .. 2]
    /\ sig \in [Procs -> BOOLEAN] /\ closing \in [Procs -> {"no", "look", "remove"}]
    /\ \A p \in Procs :
        /\ pc[p] # "idle" => filp[p] # 0
        /\ sig[p] => pc[p] \in {"lock", "io_again"} /\ fl[p].type # "UNLCK"
        /\ Closed(p) => \A b \in 0 .. OFFSET_MAX : Held(p, b) # "UNLCK" =>
            /\ pc[p] = IF fl[p].type = "UNLCK" THEN "lock" ELSE "check"
            /\ b \in fl[p].start .. fl[p].end
=============================================================================
