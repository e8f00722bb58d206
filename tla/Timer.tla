------------------------------- MODULE Timer -------------------------------
(***************************************************************************)
(* Kernel timers (kernel/timer.c): the timer vectors with their cascading, *)
(* run_timer_list() on the CPU that runs the timer bottom half, and        *)
(* add_timer(), mod_timer(), del_timer() and del_timer_sync() on others;   *)
(* schedule_timeout() with its timer on the sleeper's stack.               *)
(*                                                                         *)
(* jiffies and expires wrap: they have exactly the bits that the vectors   *)
(* cover, as the 32 of the code.  A section under timerlist_lock is one    *)
(* action, except that run_timer_list keeps it over several.               *)
(***************************************************************************)
EXTENDS Integers, Sequences, FiniteSets, SequencesExt

CONSTANTS
    TVR_BITS, TVN_BITS, NOOF_TVECS, \* 8, 6 and 5 in the code
    KernelTimers, \* timers of drivers and protocols; their function may re-arm them
    Sleepers,     \* tasks that call schedule_timeout; also the timers on their stacks
    Users,        \* those that operate on the kernel timers
    Delays,       \* what is added to jiffies for expires, or taken away
    MaxLag,       \* bound on how far jiffies gets ahead of the bottom half
    Start,        \* jiffies at the start
    None

Timers == KernelTimers \cup Sleepers

Bits   == TVR_BITS + (NOOF_TVECS - 1) * TVN_BITS
Wrap   == 2 ^ Bits
Span(n) == 2 ^ (TVR_BITS + (n - 1) * TVN_BITS)

TimerAssumption ==
    /\ {TVR_BITS, TVN_BITS} \subseteq Nat \ {0} /\ NOOF_TVECS \in Nat \ {0, 1}
    /\ Start \subseteq 0 .. Wrap - 1 /\ Delays \subseteq Int /\ MaxLag \in Nat
    /\ \A d \in Delays : d < Wrap \div 2 /\ -d < Wrap \div 2 - MaxLag
    /\ MaxLag < Wrap \div 2
    /\ None \notin Timers \cup Users

Slots == ({1} \X (0 .. 2 ^ TVR_BITS - 1))
            \cup ((2 .. NOOF_TVECS) \X (0 .. 2 ^ TVN_BITS - 1))

VARIABLES
    jiffies, timer_jiffies,
    index,      \* tv1.index ... of the vectors
    vec,        \* the lists
    queued,     \* where run_timer_list_running points to
    rpc,        \* where run_timer_list is
    running_timer,
    rearm,      \* the running function has decided to re-arm its timer
    expires, pending, \* of every timer; pending: list.next is not NULL
    shutdown,   \* the users have agreed not to start the timer again
    gone,       \* del_timer_sync or schedule_timeout has returned
    upc, uarg,  \* where a user is in del_timer_sync, and for which timer
    spc,        \* where a sleeper is in schedule_timeout
    awake,      \* its state is TASK_RUNNING
    added       \* history: the pending timers in the order they were added

timeVars == <<jiffies, timer_jiffies, index>>
listVars == <<vec, queued, pending, added>>
runVars  == <<rpc, running_timer, rearm>>
userVars == <<shutdown, gone, upc, uarg>>
sleepVars == <<spc, awake>>
vars == <<timeVars, listVars, runVars, expires, userVars, sleepVars>>

Signed(n) == LET m == n % Wrap IN IF m >= Wrap \div 2 THEN m - Wrap ELSE m
Lag == Signed(jiffies - timer_jiffies)

\* The indices as they are after the ticks so far.
IndexAt(j) == [n \in 1 .. NOOF_TVECS |->
    IF n = 1 THEN j % Span(1)
    ELSE (j + Span(n - 1) - 1) \div Span(n - 1) % 2 ^ TVN_BITS]

Init ==
    /\ jiffies \in Start /\ timer_jiffies = jiffies
    /\ index = IndexAt(jiffies)
    /\ vec = [s \in Slots |-> <<>>]
    /\ queued = <<>>
    /\ rpc = "idle" /\ running_timer = None /\ rearm = FALSE
    /\ expires = [t \in Timers |-> 0]
    /\ pending = [t \in Timers |-> FALSE]
    /\ shutdown = [t \in Timers |-> FALSE]
    /\ gone = [t \in Timers |-> t \in Sleepers]
    /\ upc = [u \in Users |-> "idle"] /\ uarg = [u \in Users |-> None]
    /\ spc = [s \in Sleepers |-> "awake"] /\ awake = [s \in Sleepers |-> TRUE]
    /\ added = <<>>

-----------------------------------------------------------------------------
(***************************************************************************)
(* The lists.                                                              *)
(***************************************************************************)
\* timerlist_lock is free: run_timer_list releases it to call a function.
Unlocked == rpc \in {"idle", "fn", "exit"}

\* Mutant: the last vectors overlap.
FitsLoose(n, idx) == idx <= Span(n)

Fits(n, idx) == idx < Span(n)

\* Where internal_add_timer puts a timer that expires at e: into the first vector
\* that reaches far enough, into the current list if the time has passed, into
\* the last vector otherwise.
Place(e, tj, tv1index) ==
    LET idx == (e - tj) % Wrap
        fits == {n \in 1 .. NOOF_TVECS - 1 : Fits(n, idx)}
        n == IF fits = {} THEN NOOF_TVECS
             ELSE CHOOSE m \in fits : \A k \in fits : m <= k
    IN IF fits = {} /\ Signed(idx) < 0
       THEN <<1, tv1index>>
       ELSE <<n, IF n = 1 THEN e % Span(1) ELSE e \div Span(n - 1) % 2 ^ TVN_BITS>>

\* internal_add_timer for one timer after the other, outside of run_timer_list's
\* own passes.
AddAll(v, list, tj, tv1index, e) ==
    FoldLeft(LAMBDA w, t : [w EXCEPT ![Place(e[t], tj, tv1index)] = Append(@, t)], v, list)

Without(list, t) == SelectSeq(list, LAMBDA u : u # t)

\* What list_del(&timer->list) leaves.
VecWithout(t) == [s \in Slots |-> Without(vec[s], t)]

\* internal_add_timer under the lock: while a pass is on, the timer has to wait
\* on a list of its own until the pass is over.
InternalAdd(t, e, v, q) ==
    /\ IF rpc = "idle"
       THEN /\ vec' = AddAll(v, <<t>>, timer_jiffies, index[1], [expires EXCEPT ![t] = e])
            /\ queued' = q
       ELSE vec' = v /\ queued' = Append(q, t)
    /\ pending' = [pending EXCEPT ![t] = TRUE]
    /\ added' = Append(Without(added, t), t)
    /\ expires' = [expires EXCEPT ![t] = e]

\* mod_timer: detached first, if it is pending.
Mod(t, e) == InternalAdd(t, e, VecWithout(t), Without(queued, t))

\* detach_timer, and the pointers are cleared.
Detach(t) ==
    /\ vec' = VecWithout(t)
    /\ queued' = Without(queued, t)
    /\ pending' = [pending EXCEPT ![t] = FALSE]
    /\ added' = Without(added, t)

\* The time a caller computes from jiffies.
Later(d) == (jiffies + d) % Wrap

-----------------------------------------------------------------------------
(***************************************************************************)
(* The clock and run_timer_list.  rpc is "top" and "scan" with             *)
(* timerlist_lock, "fn" and "exit" in the function of running_timer.       *)
(***************************************************************************)
\* do_timer.
Tick ==
    /\ Lag < MaxLag
    /\ jiffies' = (jiffies + 1) % Wrap
    /\ UNCHANGED <<timer_jiffies, index, listVars, runVars, expires, userVars, sleepVars>>

\* Which vectors are cascaded when tv1.index is 0: the next one after each that
\* has just come around.
Cascades(n) == \A m \in 2 .. n - 1 : index[m] = 0

NextIndex(n) == (index[n] + 1) % 2 ^ TVN_BITS

\* cascade_timers(tvecs[n]); what ends up in the list itself is lost.
CascadeOne(v, n) ==
    LET head == <<n, index[n]>> IN
    [AddAll([v EXCEPT ![head] = <<>>], v[head], timer_jiffies, index[1], expires)
        EXCEPT ![head] = <<>>]

\* The top of the loop over the jiffies.
RunTimerList ==
    LET levels == SelectSeq([k \in 1 .. NOOF_TVECS - 1 |-> k + 1], Cascades) IN
    /\ rpc \in {"idle", "top"} /\ Lag >= 0
    /\ rpc' = "scan"
    /\ IF index[1] = 0
       THEN /\ vec' = FoldLeft(CascadeOne, vec, levels)
            /\ index' = [n \in DOMAIN index |->
                            IF n > 1 /\ Cascades(n) THEN NextIndex(n) ELSE index[n]]
       ELSE UNCHANGED <<vec, index>>
    /\ UNCHANGED <<jiffies, timer_jiffies, queued, pending, added, running_timer, rearm,
                   expires, userVars, sleepVars>>

Current == vec[<<1, index[1]>>]

\* A timer of the current list: its function is called without the lock.
RunTimer ==
    /\ rpc = "scan" /\ Current # <<>>
    /\ Detach(Head(Current))
    /\ running_timer' = Head(Current)   \* timer_enter
    /\ rpc' = "fn"
    /\ rearm' = (Head(Current) \in KernelTimers /\ ~shutdown[Head(Current)])
    /\ UNCHANGED <<timeVars, expires, userVars, sleepVars>>

\* The function of a kernel timer may start the timer again.  It has looked
\* before whether it may; the world may have changed since.
Rearm ==
    /\ rpc = "fn" /\ rearm
    /\ \E d \in Delays : Mod(running_timer, Later(d))
    /\ rpc' = "exit"
    /\ UNCHANGED <<timeVars, running_timer, rearm, userVars, sleepVars>>

\* process_timeout, or a function that does nothing with its timer.
Function ==
    /\ rpc = "fn"
    /\ awake' = IF running_timer \in Sleepers THEN [awake EXCEPT ![running_timer] = TRUE] ELSE awake
    /\ rpc' = "exit"
    /\ UNCHANGED <<timeVars, listVars, running_timer, rearm, expires, userVars, spc>>

\* The lock again, and timer_exit().
TimerExit ==
    /\ rpc = "exit"
    /\ rpc' = "scan" /\ running_timer' = None /\ rearm' = FALSE
    /\ UNCHANGED <<timeVars, listVars, expires, userVars, sleepVars>>

\* Mutant: what was queued during the pass is forgotten.
RequeuedNot(tj, i) == vec

Requeued(tj, i) == AddAll(vec, queued, tj, i, expires)

\* The list is empty: the next jiffy, and what was queued meanwhile.
NextJiffy ==
    LET tj == (timer_jiffies + 1) % Wrap
        i  == (index[1] + 1) % Span(1)
    IN
    /\ rpc = "scan" /\ Current = <<>>
    /\ timer_jiffies' = tj
    /\ index' = [index EXCEPT ![1] = i]
    /\ vec' = Requeued(tj, i)
    /\ queued' = <<>>
    /\ rpc' = IF Signed(jiffies - tj) >= 0 THEN "top" ELSE "idle"
    /\ UNCHANGED <<jiffies, pending, added, running_timer, rearm, expires, userVars, sleepVars>>

-----------------------------------------------------------------------------
(***************************************************************************)
(* Users of the kernel timers.                                             *)
(***************************************************************************)
Free(u) == upc[u] = "idle"

\* Otherwise "bug: kernel timer added twice".
Addable(t) == ~pending[t]

\* add_timer by a user that may start the timer, with the expires it has set.
AddTimer(u, t) ==
    /\ Free(u) /\ Unlocked /\ ~shutdown[t]
    /\ Addable(t)
    /\ \E d \in Delays : InternalAdd(t, Later(d), vec, queued)
    /\ UNCHANGED <<timeVars, runVars, userVars, sleepVars>>

ModTimer(u, t) ==
    /\ Free(u) /\ Unlocked /\ ~shutdown[t]
    /\ \E d \in Delays : Mod(t, Later(d))
    /\ UNCHANGED <<timeVars, runVars, userVars, sleepVars>>

DelTimer(u, t) ==
    /\ Free(u) /\ Unlocked /\ ~shutdown[t] /\ pending[t]
    /\ Detach(t)
    /\ UNCHANGED <<timeVars, runVars, expires, userVars, sleepVars>>

\* del_timer_sync, after restarting has been disabled.
DelTimerSync(u, t) ==
    /\ Free(u) /\ ~shutdown[t] /\ ~gone[t]
    /\ shutdown' = [shutdown EXCEPT ![t] = TRUE]
    /\ upc' = [upc EXCEPT ![u] = "sync"]
    /\ uarg' = [uarg EXCEPT ![u] = t]
    /\ UNCHANGED <<timeVars, listVars, runVars, expires, gone, sleepVars>>

\* What is read under the lock, after the timer has been taken off.
SyncMayReturn(t) == running_timer # t

SyncDelete(u) ==
    LET t == uarg[u] IN
    /\ upc[u] = "sync" /\ Unlocked
    /\ Detach(t)
    /\ \/ /\ SyncMayReturn(t)
          /\ upc' = [upc EXCEPT ![u] = "idle"] /\ uarg' = [uarg EXCEPT ![u] = None]
          /\ gone' = [gone EXCEPT ![t] = TRUE]
       \/ /\ ~SyncMayReturn(t)
          /\ upc' = [upc EXCEPT ![u] = "spin"]
          /\ UNCHANGED <<uarg, gone>>
    /\ UNCHANGED <<timeVars, runVars, expires, shutdown, sleepVars>>

\* timer_synchronize
SyncSpin(u) ==
    /\ upc[u] = "spin" /\ running_timer # uarg[u]
    /\ upc' = [upc EXCEPT ![u] = "sync"]
    /\ UNCHANGED <<timeVars, listVars, runVars, expires, shutdown, gone, uarg, sleepVars>>

\* init_timer on the memory of a timer that is gone.
InitTimer(u, t) ==
    /\ Free(u) /\ gone[t]
    /\ gone' = [gone EXCEPT ![t] = FALSE]
    /\ shutdown' = [shutdown EXCEPT ![t] = FALSE]
    /\ UNCHANGED <<timeVars, listVars, runVars, expires, upc, uarg, sleepVars>>

-----------------------------------------------------------------------------
(***************************************************************************)
(* schedule_timeout.                                                       *)
(***************************************************************************)
SGoto(s, l) == spc' = [spc EXCEPT ![s] = l]

\* The caller sets its state; then expire is computed.  The largest timeout, half
\* of the range of jiffies, means no timer at all and is left out.
ScheduleTimeout(s) ==
    /\ spc[s] = "awake"
    /\ awake' = [awake EXCEPT ![s] = FALSE]
    /\ \E d \in {n \in Delays : n >= 0 /\ n < Wrap \div 2 - 1} : expires' = [expires EXCEPT ![s] = Later(d)]
    /\ gone' = [gone EXCEPT ![s] = FALSE]
    /\ SGoto(s, "add")
    /\ UNCHANGED <<timeVars, listVars, runVars, shutdown, upc, uarg>>

SleeperAdds(s) ==
    /\ spc[s] = "add" /\ Unlocked
    /\ InternalAdd(s, expires[s], vec, queued)
    /\ SGoto(s, "schedule")
    /\ UNCHANGED <<timeVars, runVars, userVars, awake>>

\* A signal, or the wakeup that is waited for.
OtherWakeup(s) ==
    /\ spc[s] \in {"add", "schedule"} /\ ~awake[s]
    /\ awake' = [awake EXCEPT ![s] = TRUE]
    /\ UNCHANGED <<timeVars, listVars, runVars, expires, userVars, spc>>

\* del_timer_sync(&timer), each time around; then the stack frame is gone.
SleeperDeletes(s) ==
    /\ spc[s] \in {"schedule", "delete"} /\ awake[s] /\ Unlocked
    /\ Detach(s)
    /\ \/ /\ SyncMayReturn(s)
          /\ SGoto(s, "awake")
          /\ gone' = [gone EXCEPT ![s] = TRUE]
       \/ /\ ~SyncMayReturn(s)
          /\ SGoto(s, "spin")
          /\ UNCHANGED gone
    /\ UNCHANGED <<timeVars, runVars, expires, shutdown, upc, uarg, awake>>

SleeperSpins(s) ==
    /\ spc[s] = "spin" /\ running_timer # s
    /\ SGoto(s, "delete")
    /\ UNCHANGED <<timeVars, listVars, runVars, expires, userVars, awake>>

-----------------------------------------------------------------------------
Runner == RunTimerList \/ RunTimer \/ Rearm \/ Function \/ TimerExit \/ NextJiffy

UserStep(u) ==
    \/ SyncDelete(u) \/ SyncSpin(u)
    \/ \E t \in KernelTimers :
        AddTimer(u, t) \/ ModTimer(u, t) \/ DelTimer(u, t) \/ DelTimerSync(u, t) \/ InitTimer(u, t)

SleeperReturns(s) == SleeperAdds(s) \/ SleeperDeletes(s) \/ SleeperSpins(s)

Next ==
    \/ Tick \/ Runner
    \/ \E u \in Users : UserStep(u)
    \/ \E s \in Sleepers : ScheduleTimeout(s) \/ OtherWakeup(s) \/ SleeperReturns(s)

Spec == Init /\ [][Next]_vars

\* The clock ticks, the bottom half runs its passes and catches up with the clock
\* again and again (a pass takes less than a tick), so that timerlist_lock is free
\* again and again; a sleeper that is awake gets it.
FairSpec ==
    /\ Spec /\ []<>(rpc = "idle")
    /\ WF_vars(Tick) /\ WF_vars(RunTimerList \/ RunTimer \/ Function \/ TimerExit \/ NextJiffy)
    /\ \A s \in Sleepers : SF_vars(SleeperReturns(s))

-----------------------------------------------------------------------------
\* The lists that t is on.
InLists(t) == {s \in Slots : Contains(vec[s], t)}

\* Every variable has its type.
TypeOK ==
    /\ {jiffies, timer_jiffies} \subseteq 0 .. Wrap - 1
    /\ DOMAIN index = 1 .. NOOF_TVECS /\ \A n \in DOMAIN index : <<n, index[n]>> \in Slots
    /\ DOMAIN vec = Slots /\ \A s \in Slots : vec[s] \in Seq(Timers)
    /\ queued \in Seq(Timers)
    /\ rpc \in {"idle", "top", "scan", "fn", "exit"}
    /\ running_timer \in Timers \cup {None}
    /\ expires \in [Timers -> 0 .. Wrap - 1]
    /\ pending \in [Timers -> BOOLEAN]
    /\ upc \in [Users -> {"idle", "sync", "spin"}]
    /\ spc \in [Sleepers -> {"awake", "add", "schedule", "delete", "spin"}]

\* A pending timer is on exactly one list, once, and no other timer is on any:
\* cascading and the passes lose none and double none.
ListsSound ==
    \A t \in Timers :
        LET places == InLists(t) \cup (IF Contains(queued, t) THEN {<<0, 0>>} ELSE {})
        IN Cardinality(places) = IF pending[t] THEN 1 ELSE 0

\* A timer whose time has come is on the list that is run next, or waits for the
\* end of the pass: no cascading comes too late, also when jiffies wraps.
NotLate ==
    \A t \in Timers :
        pending[t] /\ Signed(expires[t] - timer_jiffies) < 0
            => Contains(Current, t) \/ Contains(queued, t)

\* A function is called before the time its timer expires at.
CalledEarly ==
    \E t \in Timers :
        running_timer' = t /\ running_timer # t /\ Signed(jiffies - expires[t]) < 0

\* "at least timeout jiffies are guaranteed to pass": no function is called before
\* the time its timer expires at, also when jiffies wraps.
NeverEarly == [][~CalledEarly]_vars

\* "Upon exit the timer is not queued and handler is not running on any CPU", also
\* for a timer whose function starts it again: neither the memory of a deleted
\* timer nor the stack of a sleeper that has returned is referred to.
GoneIsGone ==
    \A t \in Timers : gone[t] => ~pending[t] /\ InLists(t) = {} /\ running_timer # t

\* Somebody will wake a sleeper: its timer is on a list that will be looked at, or
\* its function is about to run.
NoOversleep ==
    \A s \in Sleepers :
        spc[s] = "schedule" /\ ~awake[s] =>
            \/ InLists(s) # {} \/ Contains(queued, s)
            \/ running_timer = s /\ rpc = "fn"

\* "Timers are FIFO!": of two timers with the same time the one added first is run
\* first.
Fifo ==
    [][\A t, u \in Timers :
         /\ running_timer' = t /\ running_timer # t
         /\ u # t /\ pending[u] /\ expires[u] = expires[t]
         => \E i, j \in DOMAIN added : i < j /\ added[i] = t /\ added[j] = u]_vars

\* schedule_timeout returns.
TimeoutsEnd == \A s \in Sleepers : spc[s] # "awake" ~> spc[s] = "awake"
=============================================================================
