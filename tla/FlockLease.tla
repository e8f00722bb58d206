----------------------------- MODULE FlockLease -----------------------------
(***************************************************************************)
(* flock() and leases on one file (fs/locks.c): flock_lock_file with its   *)
(* change of the type of a lock, fcntl_setlease, the breaking of leases by *)
(* open (__get_lease) with its timeout, and the last close.                *)
(*                                                                         *)
(* Both kinds of locks are in the list i_flock of the inode.  The big      *)
(* kernel lock is given up in every sleep, and in the yield of             *)
(* locks_wake_up_blocks.                                                   *)
(***************************************************************************)
EXTENDS Integers, Sequences, FiniteSets, SequencesExt, FiniteSetsExt

CONSTANTS
    Tasks, Files,
    FileOf,      \* the open file that each task has after open; tasks may share one
    Flocks,      \* arguments of flock: [type, wait]
    Leases,      \* arguments of F_SETLEASE
    Opens,       \* how the file is opened: [write, nonblock]
    Renews,      \* whether leases are also asked for while an open waits for leases to be given back
    BreakTime,   \* lease_break_time > 0
    None

FlockAssumption ==
    /\ FileOf \in [Tasks -> Files]
    /\ \A f \in Flocks : f.type \in {"RDLCK", "WRLCK", "UNLCK"} /\ f.wait \in BOOLEAN
    /\ Leases \subseteq {"RDLCK", "WRLCK", "UNLCK"}
    /\ \A o \in Opens : o.write \in BOOLEAN /\ o.nonblock \in BOOLEAN
    /\ Renews \in BOOLEAN /\ BreakTime \in BOOLEAN

VARIABLES
    i_flock,  \* [lease, file, owner, type, breaking, timer, block]
    bkl,      \* who keeps the big kernel lock over the end of a step, or None
    pc,
    arg,      \* argument of the call of each task
    gone,     \* the lock that a task has taken from the list and that others are queued on
    asleep, sig,
    timedout, \* whether the sleep of a task has ended with its timeout
    open      \* the files that are open

vars == <<i_flock, bkl, pc, arg, gone, asleep, sig, timedout, open>>

Init ==
    /\ i_flock = <<>> /\ bkl = None /\ pc = [t \in Tasks |-> "idle"]
    /\ arg = [t \in Tasks |-> None] /\ gone = [t \in Tasks |-> {}]
    /\ asleep = {} /\ sig = [t \in Tasks |-> FALSE] /\ timedout = [t \in Tasks |-> FALSE]
    /\ open = {}

\* flock_make_lock and lease_alloc
Lock(t, lease, type) ==
    [lease |-> lease, file |-> FileOf[t], owner |-> t, type |-> type, breaking |-> FALSE, timer |-> "off", block |-> {}]

\* The length of the run of leases, or of flocks, at the head of the list.
Run(list, lease) == Max({n \in 0 .. Len(list) : \A i \in 1 .. n : list[i].lease = lease})

\* What list_del of the locks at the places in out leaves.
Without(list, out) ==
    LET left[n \in 0 .. Len(list)] ==
            IF n = 0 THEN <<>>
            ELSE IF n \in out THEN left[n - 1]
            ELSE Append(left[n - 1], list[n])
    IN left[Len(list)]

\* locks_delete_block: t is queued nowhere any more.
Unqueued(t) == [i \in DOMAIN i_flock |-> [i_flock[i] EXCEPT !.block = @ \ {t}]]
Drained(t) == [u \in Tasks |-> gone[u] \ {t}]

\* Whether t has the big kernel lock or can have it.
Runs(t) == t \notin asleep /\ bkl \in {None, t}

Return(t) ==
    /\ pc' = [pc EXCEPT ![t] = "idle"] /\ arg' = [arg EXCEPT ![t] = None]
    /\ sig' = [sig EXCEPT ![t] = FALSE] /\ timedout' = [timedout EXCEPT ![t] = FALSE]
    /\ bkl' = None /\ UNCHANGED open

\* Go on at to, with or without the big kernel lock.
Goto(t, to, lock) ==
    /\ pc' = [pc EXCEPT ![t] = to]
    /\ bkl' = IF lock THEN t ELSE None
    /\ UNCHANGED <<arg, sig, timedout, open>>

\* locks_block_on and locks_block_on_timeout
BlockOn(t, list, i, to) ==
    /\ i_flock' = [list EXCEPT ![i].block = @ \cup {t}]
    /\ asleep' = asleep \cup {t}
    /\ Goto(t, to, FALSE)

\* A signal ends a sleep; the task sees it when it runs.
Signal(t) ==
    /\ t \in asleep
    /\ asleep' = asleep \ {t} /\ sig' = [sig EXCEPT ![t] = TRUE]
    /\ UNCHANGED <<i_flock, bkl, pc, arg, gone, timedout, open>>

Interrupted(t) ==
    /\ Runs(t) /\ sig[t]
    /\ i_flock' = Unqueued(t) /\ gone' = Drained(t) /\ asleep' = asleep
    /\ Return(t)

----------------------------------------------------------------------------
(* flock *)

sys_flock(t) ==
    /\ pc[t] = "idle" /\ FileOf[t] \in open
    /\ \E f \in Flocks : arg' = [arg EXCEPT ![t] = f]
    /\ pc' = [pc EXCEPT ![t] = "search"]
    /\ UNCHANGED <<i_flock, bkl, gone, asleep, sig, timedout, open>>

flock_locks_conflict(t, lock) == lock.file # FileOf[t] /\ "WRLCK" \in {arg[t].type, lock.type}

\* The lock of this file that the search finds: an index, or 0.
Mine(t) == LET mine == {i \in 1 .. Run(i_flock, FALSE) : i_flock[i].file = FileOf[t]}
           IN IF mine = {} THEN 0 ELSE Min(mine)

\* Nothing to do: the same type already, or nothing to unlock
Nothing(t) ==
    /\ pc[t] = "search" /\ Runs(t)
    /\ arg[t].type = IF Mine(t) = 0 THEN "UNLCK" ELSE i_flock[Mine(t)].type
    /\ Return(t) /\ UNCHANGED <<i_flock, gone, asleep>>

Unlock(t) ==
    /\ pc[t] = "search" /\ Runs(t) /\ Mine(t) # 0 /\ arg[t].type = "UNLCK"
    /\ i_flock' = Without(i_flock, {Mine(t)}) /\ asleep' = asleep \ i_flock[Mine(t)].block
    /\ Return(t) /\ UNCHANGED gone

\* Who changes the type takes the lock from the list and lets the tasks behind it run first.
Change(t) ==
    /\ pc[t] = "search" /\ Runs(t) /\ Mine(t) # 0 /\ arg[t].type \notin {"UNLCK", i_flock[Mine(t)].type}
    /\ i_flock' = Without(i_flock, {Mine(t)}) /\ gone' = [gone EXCEPT ![t] = i_flock[Mine(t)].block]
    /\ Goto(t, "drain", TRUE) /\ UNCHANGED asleep

\* locks_wake_up_blocks(blocker, 1): wake one and yield, until all have left the block list
Drain(t) ==
    /\ pc[t] = "drain" /\ Runs(t) /\ gone[t] # {}
    /\ \E u \in gone[t] : asleep' = asleep \ {u}
    /\ Goto(t, "drain", FALSE) /\ UNCHANGED <<i_flock, gone>>

Free(t) ==
    /\ pc[t] = "drain" /\ Runs(t) /\ gone[t] = {}
    /\ Goto(t, "search", TRUE) /\ UNCHANGED <<i_flock, gone, asleep>>

\* No lock of this file, or no longer
Search(t) ==
    /\ pc[t] = "search" /\ Runs(t) /\ Mine(t) = 0 /\ arg[t].type # "UNLCK"
    /\ Goto(t, "repeat", TRUE) /\ UNCHANGED <<i_flock, gone, asleep>>

InTheWay(t) == {i \in 1 .. Run(i_flock, FALSE) : flock_locks_conflict(t, i_flock[i])}

\* flock_lock_file at repeat, which is also where it goes on after locks_block_on
Repeat(t) ==
    /\ pc[t] = "repeat" /\ Runs(t) /\ ~sig[t]
    /\ gone' = Drained(t)
    /\ IF InTheWay(t) = {}
       THEN i_flock' = <<Lock(t, FALSE, arg[t].type)>> \o Unqueued(t) /\ asleep' = asleep /\ Return(t)
       ELSE IF arg[t].wait
       THEN BlockOn(t, Unqueued(t), Min(InTheWay(t)), "repeat")
       ELSE i_flock' = Unqueued(t) /\ asleep' = asleep /\ Return(t)

----------------------------------------------------------------------------
(* Leases *)

\* Mutant: leases are for ever.
NeverOver(list) == [list |-> list, woken |-> {}]

\* time_out_leases: of the leases at the head that are being broken, those whose time is over
\* become what the breaker wants.
TimedOut(list) ==
    LET head == Max({n \in 0 .. Len(list) : \A i \in 1 .. n : list[i].lease /\ list[i].breaking})
        over == {i \in 1 .. head : list[i].timer = "over"}
        ended == [i \in DOMAIN list |->
            IF i \in over THEN [list[i] EXCEPT !.breaking = FALSE, !.block = {}] ELSE list[i]]
    IN [list |-> Without(ended, {i \in over : list[i].type = "UNLCK"}),
        woken |-> UNION {list[i].block : i \in over}]

\* d_count and i_count: the open files, and the tasks that are in open
Users == Cardinality(open) + Cardinality({t \in Tasks : pc[t] \in {"get_lease", "broken", "opened"}})

\* lease_modify on lease i
lease_modify(list, i, type) ==
    IF type = "UNLCK" THEN Without(list, {i})
    ELSE [list EXCEPT ![i].type = type, ![i].breaking = FALSE, ![i].block = {}]

MyLeases(t, list) == {i \in 1 .. Run(list, TRUE) : list[i].file = FileOf[t]}

\* Neither an exclusive lease of a file with other users, nor a new one while another is revoked
Refused(t, list, type) ==
    LET others == (1 .. Run(list, TRUE)) \ MyLeases(t, list) IN
    \/ type = "WRLCK" /\ (Users > 1 \/ others # {})
    \/ type = "RDLCK" /\ \E i \in others : list[i].breaking /\ list[i].type = "UNLCK"

\* fcntl_setlease
fcntl_setlease(t) == \E type \in Leases :
    LET now     == TimedOut(i_flock)
        mine    == MyLeases(t, now.list)
        refused == Refused(t, now.list, type)
        before  == IF mine = {} THEN Run(now.list, TRUE) ELSE Max(mine)
    IN /\ pc[t] = "idle" /\ bkl = None /\ FileOf[t] \in open
       /\ Renews \/ type = "UNLCK" \/ \A u \in Tasks : pc[u] # "broken"
       /\ i_flock' = IF refused \/ (mine = {} /\ type = "UNLCK") THEN now.list
                     ELSE IF mine # {} THEN lease_modify(now.list, before, type)
                     ELSE InsertAt(now.list, before + 1, Lock(t, TRUE, type))
       /\ asleep' = asleep \ (now.woken \cup IF refused \/ mine = {} THEN {} ELSE now.list[before].block)
       /\ UNCHANGED <<bkl, pc, arg, gone, sig, timedout, open>>

\* open, up to get_lease
Open(t) ==
    /\ pc[t] = "idle" /\ FileOf[t] \notin open /\ \A u \in Tasks : FileOf[u] = FileOf[t] => pc[u] = "idle"
    /\ \E o \in Opens : arg' = [arg EXCEPT ![t] = o]
    /\ pc' = [pc EXCEPT ![t] = "get_lease"]
    /\ UNCHANGED <<i_flock, bkl, gone, asleep, sig, timedout, open>>

\* What the breaker wants the leases to be: type and F_INPROGRESS
Future(t, lease) ==
    IF arg[t].write THEN <<"UNLCK", TRUE>>
    ELSE IF lease.breaking THEN <<lease.type, TRUE>>
    ELSE <<"RDLCK", lease.type = "WRLCK">>

\* fl_type = future and a new fl_break_time, where it is not that already
Break(lease, future) ==
    IF <<lease.type, lease.breaking>> = future THEN lease
    ELSE [lease EXCEPT !.type = future[1], !.breaking = future[2], !.timer = IF BreakTime THEN "on" ELSE "off"]

\* The first n locks of the list are the leases to be broken.
Broken(list, n, future) == [i \in DOMAIN list |-> IF i \in 1 .. n THEN Break(list[i], future) ELSE list[i]]

\* get_lease and __get_lease up to locks_block_on_timeout
get_lease(t) ==
    /\ pc[t] = "get_lease" /\ Runs(t) /\ gone' = gone
    /\ LET now == TimedOut(i_flock)
           head == 1 .. Run(now.list, TRUE)
           future == Future(t, now.list[1])
           broken == Broken(now.list, Run(now.list, TRUE), future)
           held == \E i \in head : now.list[i].owner = t
       IN IF head = {} \/ ~future[2]
          THEN i_flock' = now.list /\ asleep' = asleep \ now.woken /\ Goto(t, "opened", FALSE)
          ELSE IF held \/ arg[t].nonblock
          THEN i_flock' = broken /\ asleep' = asleep \ now.woken /\ Return(t)
          ELSE /\ i_flock' = [broken EXCEPT ![1].block = @ \cup {t}]
               /\ asleep' = (asleep \ now.woken) \cup {t}
               /\ Goto(t, "broken", FALSE)

\* __get_lease after the sleep: the next lease that has not been given back yet
AfterSleep(t) ==
    /\ pc[t] = "broken" /\ Runs(t) /\ ~sig[t] /\ gone' = gone
    /\ LET now == IF timedout[t] THEN TimedOut(Unqueued(t)) ELSE [list |-> Unqueued(t), woken |-> {}]
           pending == {i \in 1 .. Run(now.list, TRUE) : now.list[i].breaking}
       IN IF pending = {}
          THEN i_flock' = now.list /\ asleep' = asleep \ now.woken /\ Goto(t, "opened", FALSE)
          ELSE /\ i_flock' = [now.list EXCEPT ![Min(pending)].block = @ \cup {t}]
               /\ asleep' = (asleep \ now.woken) \cup {t}
               /\ timedout' = [timedout EXCEPT ![t] = FALSE]
               /\ UNCHANGED <<bkl, pc, arg, sig, open>>

Opened(t) ==
    /\ pc[t] = "opened"
    /\ open' = open \cup {FileOf[t]}
    /\ pc' = [pc EXCEPT ![t] = "idle"] /\ arg' = [arg EXCEPT ![t] = None]
    /\ timedout' = [timedout EXCEPT ![t] = FALSE]
    /\ UNCHANGED <<i_flock, bkl, gone, asleep, sig>>

\* fl_break_time of a lease passes.
Expire ==
    /\ \E i \in DOMAIN i_flock : i_flock[i].timer = "on" /\ i_flock' = [i_flock EXCEPT ![i].timer = "over"]
    /\ UNCHANGED <<bkl, pc, arg, gone, asleep, sig, timedout, open>>

\* The sleep of a breaker ends, at the break time that the lease had when it began.
Timeout(t) ==
    /\ t \in asleep /\ \E i \in DOMAIN i_flock : t \in i_flock[i].block /\ i_flock[i].timer # "off"
    /\ asleep' = asleep \ {t} /\ timedout' = [timedout EXCEPT ![t] = TRUE]
    /\ UNCHANGED <<i_flock, bkl, pc, arg, gone, sig, open>>

\* locks_remove_flock, on the last close
Close(f) ==
    /\ f \in open /\ bkl = None /\ \A t \in Tasks : FileOf[t] = f => pc[t] = "idle"
    /\ open' = open \ {f}
    /\ LET its == {i \in DOMAIN i_flock : i_flock[i].file = f} IN
        /\ i_flock' = Without(i_flock, its)
        /\ asleep' = asleep \ UNION {i_flock[i].block : i \in its}
    /\ UNCHANGED <<bkl, pc, arg, gone, sig, timedout>>

Step(t) ==
    \/ Nothing(t) \/ Unlock(t) \/ Change(t) \/ Drain(t) \/ Free(t) \/ Search(t) \/ Repeat(t)
    \/ get_lease(t) \/ AfterSleep(t) \/ Opened(t) \/ Interrupted(t)

Next ==
    \/ \E t \in Tasks : sys_flock(t) \/ fcntl_setlease(t) \/ Open(t) \/ Step(t) \/ Signal(t) \/ Timeout(t)
    \/ \E f \in Files : Close(f)
    \/ Expire

Spec == Init /\ [][Next]_vars

\* Tasks that can run do, and time passes.
FairSpec == Spec /\ WF_vars(Expire) /\ \A t \in Tasks : WF_vars(Step(t)) /\ WF_vars(Timeout(t))

----------------------------------------------------------------------------
\* Every variable keeps its type.
TypeOK ==
    /\ \A i \in DOMAIN i_flock : LET lock == i_flock[i] IN
        /\ lock.lease \in BOOLEAN /\ lock.breaking \in BOOLEAN /\ lock.file \in Files /\ lock.owner \in Tasks
        /\ lock.type \in {"RDLCK", "WRLCK"} \cup (IF lock.breaking THEN {"UNLCK"} ELSE {})
        /\ lock.timer \in {"off", "on", "over"} /\ lock.block \subseteq Tasks
    /\ bkl \in Tasks \cup {None} /\ open \subseteq Files /\ asleep \subseteq Tasks
    /\ pc \in [Tasks -> {"idle", "search", "drain", "repeat", "get_lease", "broken", "opened"}]
    /\ gone \in [Tasks -> SUBSET Tasks] /\ sig \in [Tasks -> BOOLEAN] /\ timedout \in [Tasks -> BOOLEAN]

\* An exclusive flock excludes the flocks of all other open files.
FlockExclusive ==
    \A i, j \in DOMAIN i_flock :
        ~i_flock[i].lease /\ ~i_flock[j].lease /\ i_flock[i].file # i_flock[j].file => i_flock[i].type = "RDLCK"

\* An open file has one flock: "an existing lock is always removed before upgrading from
\* shared to exclusive (or vice versa)".
OneFlockPerFile ==
    \A i, j \in DOMAIN i_flock :
        ~i_flock[i].lease /\ ~i_flock[j].lease /\ i_flock[i].file = i_flock[j].file => i = j

\* What a task sleeps for: a flock that is in its way, or a lease that is being broken.
Awaits(t, lock) ==
    \/ pc[t] = "repeat" /\ ~lock.lease /\ flock_locks_conflict(t, lock)
    \/ pc[t] = "broken" /\ lock.lease /\ lock.breaking

\* Who sleeps is behind such a lock, or behind a flock whose owner is about to wake him.
NoLostWakeup ==
    \A t \in asleep :
        \/ \E i \in DOMAIN i_flock : t \in i_flock[i].block /\ Awaits(t, i_flock[i])
        \/ pc[t] = "repeat" /\ \E u \in Tasks : pc[u] = "drain" /\ t \in gone[u]

\* An open for writing gets past __get_lease only when no lease is left, one for reading only
\* when no exclusive lease is left: "If we want write access, we have to revoke any lease."
LeasesRevoked ==
    [][\A t \in Tasks : pc[t] # "opened" /\ pc'[t] = "opened" =>
           \A i \in DOMAIN i_flock' : i_flock'[i].lease => ~arg[t].write /\ i_flock'[i].type # "WRLCK"]_vars

\* If no new leases come, the holder of a lease that does not answer keeps nobody in open
\* for ever.
OpensEnd ==
    (<>[][\A t \in Tasks : ~fcntl_setlease(t)]_vars) =>
        \A t \in Tasks : pc[t] = "broken" ~> pc[t] # "broken"
----------------------------------------------------------------------------
(* The inductive invariants behind these. *)

Locks == [lease : BOOLEAN, file : Files, owner : Tasks, type : {"RDLCK", "WRLCK", "UNLCK"},
          breaking : BOOLEAN, timer : {"off", "on", "over"}, block : SUBSET Tasks]

PCs == {"idle", "search", "drain", "repeat", "get_lease", "broken", "opened"}

Types ==
    /\ i_flock \in Seq(Locks)
    /\ pc \in [Tasks -> PCs] /\ arg \in [Tasks -> Flocks \cup Opens \cup {None}]
    /\ gone \in [Tasks -> SUBSET Tasks] /\ asleep \in SUBSET Tasks
    /\ sig \in [Tasks -> BOOLEAN] /\ timedout \in [Tasks -> BOOLEAN] /\ open \in SUBSET Files

\* Only who waits sleeps or has a signal, only who changes a lock has taken one away, and
\* the argument belongs to the call.
CallOf(t) ==
    /\ t \in asleep \/ sig[t] => pc[t] \in {"repeat", "broken"}
    /\ gone[t] # {} => pc[t] = "drain"
    /\ pc[t] \in {"search", "drain", "repeat"} => arg[t] \in Flocks
    /\ pc[t] \in {"drain", "repeat"} => arg[t].type # "UNLCK"
    /\ pc[t] \in {"get_lease", "broken"} => arg[t] \in Opens

CallInv == \A t \in Tasks : CallOf(t)

QueueInv == Types /\ CallInv /\ NoLostWakeup

\* Each open file belongs to one task.
Unshared == \A t, u \in Tasks : FileOf[t] = FileOf[u] => t = u

\* Without leases: who waits for a flock has none.
FlockInv ==
    /\ \A i \in DOMAIN i_flock : ~i_flock[i].lease /\ i_flock[i].type # "UNLCK"
    /\ FlockExclusive
    /\ Unshared =>
        /\ OneFlockPerFile
        /\ \A t \in Tasks : pc[t] = "repeat" => \A i \in DOMAIN i_flock : i_flock[i].file # FileOf[t]

\* Without flocks: an open file has one lease; an exclusive lease is the only one, of the only open
\* file; and who waits for leases to be given back has asked all holders for it.
LeasesOf(list) ==
    \A i \in DOMAIN list :
        /\ list[i].lease
        /\ \A j \in DOMAIN list : list[i].file = list[j].file => i = j
        /\ list[i].type = "WRLCK" =>
            /\ ~list[i].breaking /\ open \subseteq {list[i].file}
            /\ \A j \in DOMAIN list : i = j
            /\ \A t \in Tasks : pc[t] # "opened"
        /\ \A t \in Tasks : pc[t] = "broken" =>
            /\ list[i].type # "WRLCK"
            /\ arg[t].write => list[i].breaking /\ list[i].type = "UNLCK"

LeaseInv == LeasesOf(i_flock)
=============================================================================
