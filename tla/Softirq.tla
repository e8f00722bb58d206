------------------------------ MODULE Softirq ------------------------------
(***************************************************************************)
(* Softirqs, tasklets and bottom halves: kernel/softirq.c, the inline      *)
(* functions of include/linux/interrupt.h and the calls of do_softirq from *)
(* do_IRQ and local_bh_enable.                                             *)
(*                                                                         *)
(* A CPU runs, in order of priority, a hard interrupt, do_softirq, and a   *)
(* task: ksoftirqd or another one.  pending, the lists and ksoftirqd       *)
(* belong to a CPU and are protected by disabling its interrupts, so a     *)
(* section between local_irq_disable and local_irq_enable is one action.   *)
(* The bits and the count of a tasklet are shared by all CPUs; every       *)
(* access to them is one action.                                           *)
(***************************************************************************)
EXTENDS Integers, Sequences, FiniteSets, FiniteSetsExt, Functions

CONSTANTS Cpus,
          Tasklets,
          Hi,         \* the tasklets that tasklet_hi_schedule schedules
          Bhs,        \* those of them that are bh_task_vec
          Ops,        \* what the owners of the tasklets do with them
          None

ASSUME SoftirqAssumption ==
    /\ IsFiniteSet(Cpus) /\ IsFiniteSet(Tasklets)
    /\ Bhs \subseteq Hi /\ Hi \subseteq Tasklets
    /\ Ops \subseteq {"disable", "nosync", "kill"}
    /\ None \notin Cpus \cup Tasklets

HI_SOFTIRQ      == 0
TASKLET_SOFTIRQ == 3
Softirqs        == {HI_SOFTIRQ, TASKLET_SOFTIRQ}

\* The contexts that call tasklet_schedule.
Contexts == {"irq", "softirq", "task"}

VARIABLES
    pending,   \* pending[c]: softirq_pending(c), the set of its bits
    vec,       \* vec[c][n]: tasklet_vec or tasklet_hi_vec of c
    irq,       \* irq[c]: c is in a hard interrupt
    bh,        \* bh[c]: a task on c is between local_bh_disable and _enable
    pc,        \* where c is in do_softirq
    todo,      \* do_softirq's pending: the softirqs still to run
    mask,      \* do_softirq's mask: the softirqs that may still restart it
    list,      \* tasklet_action's list
    cur,       \* tasklet_action's t
    kstate,    \* the state of ksoftirqd
    kpc,       \* where ksoftirqd is
    sched,     \* sched[t]: TASKLET_STATE_SCHED
    run,       \* run[t]: TASKLET_STATE_RUN
    count,     \* count[t]: the disable count
    pushing,   \* pushing[c][x]: the tasklet whose SCHED bit context x of c has
               \* set and which it has not put on a list yet
    owner,     \* owner[t]: what the owner of t does
    global_bh_lock

cpuVars     == <<pending, vec, irq, bh>>
softirqVars == <<pc, todo, mask, list, cur>>
kVars       == <<kstate, kpc>>
taskletVars == <<sched, run, count>>
vars == <<cpuVars, softirqVars, kVars, taskletVars, pushing, owner,
          global_bh_lock>>

(***************************************************************************)
(* Where a CPU can be in do_softirq.                                       *)
(*   off       not in it                                                   *)
(*   pass      between two softirq actions                                 *)
(*   next      in tasklet_action, at the head of the loop                  *)
(*   count     it has the RUN bit, about to read the count                 *)
(*   clear     the count was 0, about to clear the SCHED bit               *)
(*   func      in the tasklet's function                                   *)
(*   return    at its end                                                  *)
(*   disabled  the count was not 0                                         *)
(*   requeue   about to put the tasklet back                               *)
(* and in bh_action: bh_locked, routine, mark_bh.                          *)
(***************************************************************************)
PCs == {"off", "pass", "next", "count", "clear", "func", "return", "disabled",
        "requeue", "bh_locked", "routine", "mark_bh"}
KPCs == {"check", "schedule", "loop", "resched"}
Owners == {"open", "disabling", "disabled", "nosync", "kill", "kill_wait",
           "kill_clear", "dead"}

Goto(c, l) == pc' = [pc EXCEPT ![c] = l]

Init ==
    /\ pending = [c \in Cpus |-> {}]
    /\ vec = [c \in Cpus |-> [n \in Softirqs |-> <<>>]]
    /\ irq = [c \in Cpus |-> FALSE]
    /\ bh = [c \in Cpus |-> FALSE]
    /\ pc = [c \in Cpus |-> "off"]
    /\ todo = [c \in Cpus |-> {}]
    /\ mask = [c \in Cpus |-> {}]
    /\ list = [c \in Cpus |-> <<>>]
    /\ cur = [c \in Cpus |-> None]
    /\ kstate = [c \in Cpus |-> "INTERRUPTIBLE"]
    /\ kpc = [c \in Cpus |-> "check"]
    /\ sched = [t \in Tasklets |-> FALSE]
    /\ run = [t \in Tasklets |-> FALSE]
    /\ count = [t \in Tasklets |-> 0]
    /\ pushing = [c \in Cpus |-> [x \in Contexts |-> None]]
    /\ owner = [t \in Tasklets |-> "open"]
    /\ global_bh_lock = None

-----------------------------------------------------------------------------
(***************************************************************************)
(* Who runs on a CPU.                                                      *)
(***************************************************************************)
in_interrupt(c) == irq[c] \/ bh[c] \/ pc[c] # "off"

\* A task runs on c: no interrupt and no softirq is on top of it.
TaskRuns(c) == ~irq[c] /\ pc[c] = "off"

\* ksoftirqd runs: no other task is in the middle of something.
KsoftirqdRuns(c) == TaskRuns(c) /\ ~bh[c] /\ pushing[c]["task"] = None

\* Another task runs: the kernel is not preemptive, ksoftirqd has called
\* schedule().
UserRuns(c) == TaskRuns(c) /\ kpc[c] \in {"schedule", "resched"}

wakeup_softirqd(c) == kstate' = [kstate EXCEPT ![c] = "RUNNING"]

-----------------------------------------------------------------------------
(***************************************************************************)
(* do_softirq.                                                             *)
(***************************************************************************)

\* What do_softirq does before the first action; p is softirq_pending(c).
EnterSoftirq(c, p) ==
    /\ todo' = [todo EXCEPT ![c] = p]
    /\ mask' = [mask EXCEPT ![c] = Softirqs \ p]
    /\ pending' = [pending EXCEPT ![c] = {}]
    /\ Goto(c, "pass")
    /\ UNCHANGED <<list, cur>>

\* if (softirq_pending(c)) do_softirq(), in a place where it may run.
CallDoSoftirq(c) ==
    \/ /\ pending[c] # {}
       /\ EnterSoftirq(c, pending[c])
    \/ /\ pending[c] = {}
       /\ UNCHANGED <<pending, softirqVars>>

\* h->action(h) of the lowest bit: tasklet_hi_action or tasklet_action takes
\* the list of c.
RunAction(c) ==
    /\ pc[c] = "pass" /\ ~irq[c]
    /\ todo[c] # {}
    /\ LET n == Min(todo[c]) IN
        /\ list' = [list EXCEPT ![c] = vec[c][n]]
        /\ vec' = [vec EXCEPT ![c][n] = <<>>]
    /\ Goto(c, "next")
    /\ UNCHANGED <<pending, irq, bh, todo, mask, cur, kVars, taskletVars,
                   pushing, owner, global_bh_lock>>

\* Mutant: the softirqs that are left to ksoftirqd do not wake it.
LeaveToKsoftirqdSilently(c) == UNCHANGED kstate

\* if (pending) wakeup_softirqd(cpu)
LeaveToKsoftirqd(c) ==
    IF pending[c] # {} THEN wakeup_softirqd(c) ELSE UNCHANGED kstate

\* The end of a pass: restart for softirqs that have not run in this call.
EndPass(c) ==
    /\ pc[c] = "pass" /\ ~irq[c]
    /\ todo[c] = {}
    /\ \/ /\ pending[c] \cap mask[c] # {}
          /\ mask' = [mask EXCEPT ![c] = @ \ pending[c]]
          /\ todo' = [todo EXCEPT ![c] = pending[c]]
          /\ pending' = [pending EXCEPT ![c] = {}]
          /\ UNCHANGED <<pc, kstate>>
       \/ /\ pending[c] \cap mask[c] = {}
          /\ LeaveToKsoftirqd(c)
          /\ mask' = [mask EXCEPT ![c] = {}]          \* out of scope
          /\ Goto(c, "off")
          /\ UNCHANGED <<todo, pending>>
    /\ UNCHANGED <<vec, irq, bh, list, cur, kpc, taskletVars, pushing, owner,
                   global_bh_lock>>

-----------------------------------------------------------------------------
(***************************************************************************)
(* tasklet_action and tasklet_hi_action.                                   *)
(***************************************************************************)
TaskletStep(c, from) == pc[c] = from /\ ~irq[c]

ListEnd(c) ==
    /\ TaskletStep(c, "next")
    /\ list[c] = <<>>
    /\ todo' = [todo EXCEPT ![c] = @ \ {Min(@)}]
    /\ Goto(c, "pass")
    /\ UNCHANGED <<cpuVars, mask, list, cur, kVars, taskletVars, pushing,
                   owner, global_bh_lock>>

\* Mutant: the RUN bit is not tested.
tasklet_trylock_always(t) == TRUE

tasklet_trylock(t) == ~run[t]

\* t = list; list = list->next; tasklet_trylock(t)
Trylock(c) ==
    /\ TaskletStep(c, "next")
    /\ list[c] # <<>>
    /\ LET t == Head(list[c]) IN
        /\ cur' = [cur EXCEPT ![c] = t]
        /\ run' = [run EXCEPT ![t] = TRUE]       \* test_and_set_bit
        /\ Goto(c, IF tasklet_trylock(t) THEN "count" ELSE "requeue")
    /\ list' = [list EXCEPT ![c] = Tail(@)]
    /\ UNCHANGED <<cpuVars, todo, mask, kVars, sched, count, pushing, owner,
                   global_bh_lock>>

ReadCount(c) ==
    /\ TaskletStep(c, "count")
    /\ Goto(c, IF count[cur[c]] = 0 THEN "clear" ELSE "disabled")
    /\ UNCHANGED <<cpuVars, todo, mask, list, cur, kVars, taskletVars, pushing,
                   owner, global_bh_lock>>

\* test_and_clear_bit(TASKLET_STATE_SCHED), then the function starts.
ClearSched(c) ==
    /\ TaskletStep(c, "clear")
    /\ sched' = [sched EXCEPT ![cur[c]] = FALSE]
    /\ Goto(c, "func")
    /\ UNCHANGED <<cpuVars, todo, mask, list, cur, kVars, run, count, pushing,
                   owner, global_bh_lock>>

\* tasklet_unlock of a disabled tasklet.
UnlockDisabled(c) ==
    /\ TaskletStep(c, "disabled")
    /\ run' = [run EXCEPT ![cur[c]] = FALSE]
    /\ Goto(c, "requeue")
    /\ UNCHANGED <<cpuVars, todo, mask, list, cur, kVars, sched, count,
                   pushing, owner, global_bh_lock>>

SoftirqOf(t) == IF t \in Hi THEN HI_SOFTIRQ ELSE TASKLET_SOFTIRQ

\* A tasklet goes to the front of its list on c, and c has a softirq pending.
Queue(c, t) ==
    /\ vec' = [vec EXCEPT ![c][SoftirqOf(t)] = <<t>> \o @]
    /\ pending' = [pending EXCEPT ![c] = @ \cup {SoftirqOf(t)}]

Requeue(c) ==
    /\ TaskletStep(c, "requeue")
    /\ Queue(c, cur[c])
    /\ cur' = [cur EXCEPT ![c] = None]
    /\ Goto(c, "next")
    /\ UNCHANGED <<irq, bh, todo, mask, list, kVars, taskletVars, pushing,
                   owner, global_bh_lock>>

-----------------------------------------------------------------------------
(***************************************************************************)
(* tasklet_schedule, from the three contexts.  A tasklet that is dead is   *)
(* not scheduled: its owner has silenced its device first.                 *)
(***************************************************************************)

\* test_and_set_bit(TASKLET_STATE_SCHED) finds it clear.
SetSched(c, x, t) ==
    /\ ~sched[t]
    /\ owner[t] # "dead"
    /\ pushing[c][x] = None
    /\ sched' = [sched EXCEPT ![t] = TRUE]
    /\ pushing' = [pushing EXCEPT ![c][x] = t]
    /\ UNCHANGED <<run, count>>

\* An interrupt handler.
Interrupt(c, t) ==
    /\ ~irq[c]
    /\ irq' = [irq EXCEPT ![c] = TRUE]
    /\ SetSched(c, "irq", t)
    /\ UNCHANGED <<pending, vec, bh, softirqVars, kVars, owner,
                   global_bh_lock>>

\* A task other than ksoftirqd.
TaskSchedule(c, t) ==
    /\ UserRuns(c)
    /\ SetSched(c, "task", t)
    /\ UNCHANGED <<cpuVars, softirqVars, kVars, owner, global_bh_lock>>

\* The function of the running tasklet, for itself or for another.
FuncSchedule(c, t) ==
    /\ TaskletStep(c, "func")
    /\ cur[c] \notin Bhs
    /\ SetSched(c, "softirq", t)
    /\ Goto(c, "return")
    /\ UNCHANGED <<cpuVars, todo, mask, list, cur, kVars, owner,
                   global_bh_lock>>

Runs(c, x) == \/ x = "irq" /\ irq[c]
              \/ x = "softirq" /\ ~irq[c] /\ pc[c] # "off"
              \/ x = "task" /\ TaskRuns(c)

\* Mutant: a task that raises a softirq wakes nobody.
RaiseWakesNever(c, x) == FALSE

\* cpu_raise_softirq's end: outside of interrupts and of BH-disabled sections
\* nobody else looks at pending soon.
RaiseWakes(c, x) == x = "task" /\ ~bh[c]

\* __tasklet_schedule and __tasklet_hi_schedule, interrupts disabled.
PushTasklet(c, x) ==
    /\ Runs(c, x)
    /\ pushing[c][x] # None
    /\ Queue(c, pushing[c][x])
    /\ IF RaiseWakes(c, x) THEN wakeup_softirqd(c) ELSE UNCHANGED kstate
    /\ pushing' = [pushing EXCEPT ![c][x] = None]
    /\ UNCHANGED <<irq, bh, softirqVars, kpc, taskletVars, owner,
                   global_bh_lock>>

\* The end of do_IRQ; do_softirq returns at once if c was in an interrupt.
IrqExit(c) ==
    /\ irq[c]
    /\ pushing[c]["irq"] = None
    /\ irq' = [irq EXCEPT ![c] = FALSE]
    /\ IF bh[c] \/ pc[c] # "off"
       THEN UNCHANGED <<pending, softirqVars>>
       ELSE CallDoSoftirq(c)
    /\ UNCHANGED <<vec, bh, kVars, taskletVars, pushing, owner,
                   global_bh_lock>>

\* An interrupt that schedules nothing matters only if softirqs wait.
OtherInterrupt(c) ==
    /\ ~in_interrupt(c)
    /\ pending[c] # {}
    /\ EnterSoftirq(c, pending[c])
    /\ UNCHANGED <<vec, irq, bh, kVars, taskletVars, pushing, owner,
                   global_bh_lock>>

local_bh_disable(c) ==
    /\ UserRuns(c) /\ ~bh[c]
    /\ pushing[c]["task"] = None
    /\ bh' = [bh EXCEPT ![c] = TRUE]
    /\ UNCHANGED <<pending, vec, irq, softirqVars, kVars, taskletVars, pushing,
                   owner, global_bh_lock>>

local_bh_enable(c) ==
    /\ TaskRuns(c) /\ bh[c]
    /\ pushing[c]["task"] = None
    /\ bh' = [bh EXCEPT ![c] = FALSE]
    /\ CallDoSoftirq(c)
    /\ UNCHANGED <<vec, irq, kVars, taskletVars, pushing, owner,
                   global_bh_lock>>

-----------------------------------------------------------------------------
(***************************************************************************)
(* The tasklet's function.  That of a BH is bh_action.                     *)
(***************************************************************************)
FuncEnd(c) ==
    /\ TaskletStep(c, "func")
    /\ cur[c] \notin Bhs
    /\ Goto(c, "return")
    /\ UNCHANGED <<cpuVars, todo, mask, list, cur, kVars, taskletVars, pushing,
                   owner, global_bh_lock>>

\* The function returns, then tasklet_unlock.
Return(c) ==
    /\ TaskletStep(c, "return")
    /\ pushing[c]["softirq"] = None
    /\ run' = [run EXCEPT ![cur[c]] = FALSE]
    /\ cur' = [cur EXCEPT ![c] = None]
    /\ Goto(c, "next")
    /\ UNCHANGED <<cpuVars, todo, mask, list, kVars, sched, count, pushing,
                   owner, global_bh_lock>>

BhTrylock(c) == global_bh_lock = None

\* spin_trylock(&global_bh_lock)
BhAction(c) ==
    /\ TaskletStep(c, "func")
    /\ cur[c] \in Bhs
    /\ \/ /\ BhTrylock(c)
          /\ global_bh_lock' = c
          /\ Goto(c, "bh_locked")
       \/ /\ ~BhTrylock(c)
          /\ Goto(c, "mark_bh")
          /\ UNCHANGED global_bh_lock
    /\ UNCHANGED <<cpuVars, todo, mask, list, cur, kVars, taskletVars, pushing,
                   owner>>

\* hardirq_trylock fails while another CPU has done cli().
HardirqTrylock(c) ==
    /\ TaskletStep(c, "bh_locked")
    /\ \/ /\ Goto(c, "routine")
          /\ UNCHANGED global_bh_lock
       \/ /\ global_bh_lock' = None
          /\ Goto(c, "mark_bh")
    /\ UNCHANGED <<cpuVars, todo, mask, list, cur, kVars, taskletVars, pushing,
                   owner>>

RoutineEnd(c) ==
    /\ TaskletStep(c, "routine")
    /\ global_bh_lock' = None
    /\ Goto(c, "return")
    /\ UNCHANGED <<cpuVars, todo, mask, list, cur, kVars, taskletVars, pushing,
                   owner>>

\* mark_bh(nr): the BH schedules itself again, unless somebody already has.
MarkBh(c) ==
    /\ TaskletStep(c, "mark_bh")
    /\ \/ SetSched(c, "softirq", cur[c])
       \/ /\ sched[cur[c]]
          /\ UNCHANGED <<taskletVars, pushing>>
    /\ Goto(c, "return")
    /\ UNCHANGED <<cpuVars, todo, mask, list, cur, kVars, owner,
                   global_bh_lock>>

-----------------------------------------------------------------------------
(***************************************************************************)
(* ksoftirqd.                                                              *)
(***************************************************************************)

\* if (!softirq_pending(cpu)) schedule(); __set_current_state(TASK_RUNNING)
KCheck(c) ==
    /\ KsoftirqdRuns(c)
    /\ kpc[c] = "check"
    /\ \/ /\ pending[c] = {}
          /\ kpc' = [kpc EXCEPT ![c] = "schedule"]
          /\ UNCHANGED kstate
       \/ /\ pending[c] # {}
          /\ kpc' = [kpc EXCEPT ![c] = "loop"]
          /\ kstate' = [kstate EXCEPT ![c] = "RUNNING"]
    /\ UNCHANGED <<cpuVars, softirqVars, taskletVars, pushing, owner,
                   global_bh_lock>>

\* schedule() returns to a task that is running.
KWakes(c) ==
    /\ KsoftirqdRuns(c)
    /\ kpc[c] = "schedule" /\ kstate[c] = "RUNNING"
    /\ kpc' = [kpc EXCEPT ![c] = "loop"]
    /\ UNCHANGED <<cpuVars, softirqVars, kstate, taskletVars, pushing, owner,
                   global_bh_lock>>

\* while (softirq_pending(cpu)) do_softirq()
KLoop(c) ==
    /\ KsoftirqdRuns(c)
    /\ kpc[c] = "loop"
    /\ pending[c] # {}
    /\ EnterSoftirq(c, pending[c])
    /\ kpc' = [kpc EXCEPT ![c] = "resched"]
    /\ UNCHANGED <<vec, irq, bh, kstate, taskletVars, pushing, owner,
                   global_bh_lock>>

\* if (current->need_resched) schedule()
KResched(c) ==
    /\ KsoftirqdRuns(c)
    /\ kpc[c] = "resched"
    /\ kpc' = [kpc EXCEPT ![c] = "loop"]
    /\ UNCHANGED <<cpuVars, softirqVars, kstate, taskletVars, pushing, owner,
                   global_bh_lock>>

KIdle(c) ==
    /\ KsoftirqdRuns(c)
    /\ kpc[c] = "loop"
    /\ pending[c] = {}
    /\ kstate' = [kstate EXCEPT ![c] = "INTERRUPTIBLE"]
    /\ kpc' = [kpc EXCEPT ![c] = "check"]
    /\ UNCHANGED <<cpuVars, softirqVars, taskletVars, pushing, owner,
                   global_bh_lock>>

-----------------------------------------------------------------------------
(***************************************************************************)
(* The owner of a tasklet, a task on any CPU.                              *)
(***************************************************************************)
OwnerGoto(t, from, to) == owner[t] = from /\ owner' = [owner EXCEPT ![t] = to]

OwnerUnchanged == UNCHANGED <<cpuVars, softirqVars, kVars, pushing,
                              global_bh_lock>>

\* Mutant: does not wait for the RUN bit.
unlock_wait_not(t) == TRUE

\* tasklet_unlock_wait finds the RUN bit clear.
tasklet_unlock_wait(t) == ~run[t]

\* tasklet_disable and tasklet_disable_nosync: atomic_inc
Disable(t) ==
    /\ \/ "disable" \in Ops /\ OwnerGoto(t, "open", "disabling")
       \/ "nosync" \in Ops /\ OwnerGoto(t, "open", "nosync")
    /\ count' = [count EXCEPT ![t] = @ + 1]
    /\ UNCHANGED <<sched, run>>
    /\ OwnerUnchanged

DisableReturns(t) ==
    /\ OwnerGoto(t, "disabling", "disabled")
    /\ tasklet_unlock_wait(t)
    /\ UNCHANGED taskletVars
    /\ OwnerUnchanged

tasklet_enable(t) ==
    /\ \/ OwnerGoto(t, "disabled", "open")
       \/ OwnerGoto(t, "nosync", "open")
    /\ count' = [count EXCEPT ![t] = @ - 1]
    /\ UNCHANGED <<sched, run>>
    /\ OwnerUnchanged

\* tasklet_kill (and remove_bh) is called.
Kill(t) ==
    /\ "kill" \in Ops
    /\ OwnerGoto(t, "open", "kill")
    /\ UNCHANGED taskletVars
    /\ OwnerUnchanged

\* Mutant: a tasklet that is scheduled is not waited for.
KillMayGoOn(t) == TRUE

\* while (test_and_set_bit(TASKLET_STATE_SCHED)) yield()
KillProceeds(t) == ~sched[t]

KillSetsSched(t) ==
    /\ OwnerGoto(t, "kill", "kill_wait")
    /\ KillProceeds(t)
    /\ sched' = [sched EXCEPT ![t] = TRUE]
    /\ UNCHANGED <<run, count>>
    /\ OwnerUnchanged

KillWaits(t) ==
    /\ OwnerGoto(t, "kill_wait", "kill_clear")
    /\ tasklet_unlock_wait(t)
    /\ UNCHANGED taskletVars
    /\ OwnerUnchanged

KillReturns(t) ==
    /\ OwnerGoto(t, "kill_clear", "dead")
    /\ sched' = [sched EXCEPT ![t] = FALSE]
    /\ UNCHANGED <<run, count>>
    /\ OwnerUnchanged

\* The memory is used for a new tasklet.
tasklet_init(t) ==
    /\ OwnerGoto(t, "dead", "open")
    /\ sched' = [sched EXCEPT ![t] = FALSE]
    /\ run' = [run EXCEPT ![t] = FALSE]
    /\ count' = [count EXCEPT ![t] = 0]
    /\ OwnerUnchanged

-----------------------------------------------------------------------------
\* What c does by itself, in do_softirq and in an interrupt handler.
SoftirqStep(c) ==
    \/ RunAction(c) \/ EndPass(c) \/ ListEnd(c) \/ Trylock(c) \/ ReadCount(c)
    \/ ClearSched(c) \/ UnlockDisabled(c) \/ Requeue(c) \/ FuncEnd(c) \/ Return(c)
    \/ BhAction(c) \/ HardirqTrylock(c) \/ RoutineEnd(c) \/ MarkBh(c)

Ksoftirqd(c) == KCheck(c) \/ KWakes(c) \/ KLoop(c) \/ KResched(c) \/ KIdle(c)

\* What has been begun goes on.
GoOn(c) == \/ \E x \in Contexts : PushTasklet(c, x)
           \/ IrqExit(c) \/ local_bh_enable(c)

ScheduleTasklet(c, t) ==
    Interrupt(c, t) \/ TaskSchedule(c, t) \/ FuncSchedule(c, t)

Owner(t) ==
    \/ DisableReturns(t) \/ tasklet_enable(t)
    \/ KillSetsSched(t) \/ KillWaits(t) \/ KillReturns(t)

Next ==
    \/ \E c \in Cpus : \/ SoftirqStep(c) \/ Ksoftirqd(c) \/ GoOn(c)
                       \/ OtherInterrupt(c) \/ local_bh_disable(c)
                       \/ \E t \in Tasklets : ScheduleTasklet(c, t)
    \/ \E t \in Tasklets : Owner(t) \/ Disable(t) \/ Kill(t) \/ tasklet_init(t)

Spec == Init /\ [][Next]_vars

\* A CPU that has something to do does it, and the scheduler runs ksoftirqd and
\* the owners.  No interrupt is promised: nothing forces OtherInterrupt.
Fairness ==
    /\ \A c \in Cpus : /\ WF_vars(SoftirqStep(c))
                       /\ WF_vars(Ksoftirqd(c))
                       /\ WF_vars(GoOn(c))
    /\ \A t \in Tasklets : WF_vars(Owner(t))

FairSpec == Spec /\ Fairness

-----------------------------------------------------------------------------
(***************************************************************************)
(* Properties.                                                             *)
(***************************************************************************)

\* Every variable has its type.
TypeOK ==
    /\ pending \in [Cpus -> SUBSET Softirqs]
    /\ vec \in [Cpus -> [Softirqs -> Seq(Tasklets)]]
    /\ irq \in [Cpus -> BOOLEAN]
    /\ bh \in [Cpus -> BOOLEAN]
    /\ pc \in [Cpus -> PCs]
    /\ todo \in [Cpus -> SUBSET Softirqs]
    /\ mask \in [Cpus -> SUBSET Softirqs]
    /\ list \in [Cpus -> Seq(Tasklets)]
    /\ cur \in [Cpus -> Tasklets \cup {None}]
    /\ kstate \in [Cpus -> {"RUNNING", "INTERRUPTIBLE"}]
    /\ kpc \in [Cpus -> KPCs]
    /\ sched \in [Tasklets -> BOOLEAN]
    /\ run \in [Tasklets -> BOOLEAN]
    /\ count \in [Tasklets -> 0..1]
    /\ pushing \in [Cpus -> [Contexts -> Tasklets \cup {None}]]
    /\ owner \in [Tasklets -> Owners]
    /\ global_bh_lock \in Cpus \cup {None}

\* The function of t runs on c.
InFunc(c, t) ==
    /\ cur[c] = t
    /\ pc[c] \in {"func", "return", "bh_locked", "routine", "mark_bh"}

\* Tasklets keep the promises of interrupt.h.  The SCHED bit stands for a
\* scheduled tasklet unless tasklet_kill has set it.
Promise == INSTANCE TaskletPromise WITH
    queued  <- {t \in Tasklets :
                  sched[t] /\ owner[t] \notin {"kill_wait", "kill_clear"}},
    running <- {t \in Tasklets : \E c \in Cpus : InFunc(c, t)}

ImplementsPromise == Promise!PromiseSpec

Killing(t) == owner[t] \in {"kill_wait", "kill_clear"}

\* Where a scheduled tasklet can be on a CPU while it waits for its turn: on one
\* of the two lists, on the list tasklet_action is working on, in its hands, or
\* on the way to a list from one of the contexts.
Slots == {"HI", "TASKLET", "list", "hand"} \cup Contexts

Waiting(c, s) ==
    CASE s = "HI"       -> Range(vec[c][HI_SOFTIRQ])
      [] s = "TASKLET"  -> Range(vec[c][TASKLET_SOFTIRQ])
      [] s = "list"     -> Range(list[c])
      [] s = "hand"     -> {t \in {cur[c]} :
                              pc[c] \in {"count", "clear", "disabled", "requeue"}}
      [] s \in Contexts -> {pushing[c][s]} \ {None}

Places(t) == {p \in Cpus \X Slots : t \in Waiting(p[1], p[2])}

NoRepeats ==
    \A c \in Cpus : /\ IsInjective(list[c])
                    /\ \A n \in Softirqs : IsInjective(vec[c][n])

\* "If the tasklet is already scheduled, but its execution is still not started,
\* it will be executed only once": whatever CPUs, interrupts, BHs that schedule
\* themselves and tasklet_kill do, a tasklet whose SCHED bit is set is in exactly
\* one place, or tasklet_kill keeps the bit; a tasklet without it is in none.
OnePlace ==
    /\ NoRepeats
    /\ \A t \in Tasklets :
          /\ Killing(t) => sched[t]
          /\ IF sched[t] /\ ~Killing(t) THEN \E p \in Places(t) : Places(t) = {p}
                                        ELSE Places(t) = {}

\* When tasklet_disable or tasklet_kill has returned, the function is not
\* running on any CPU; and no CPU still holds a killed tasklet, whose memory
\* may be used again.
SafeAfterReturn ==
    \A t \in Tasklets :
        /\ owner[t] \in {"disabled", "dead"} => \A c \in Cpus : ~InFunc(c, t)
        /\ owner[t] = "dead" => Places(t) = {} /\ \A c \in Cpus : cur[c] # t

\* A softirq that is pending on a CPU is not forgotten: an interrupt, do_softirq
\* or a BH-disabled section is going to look at it, or ksoftirqd is not asleep.
NoStrandedSoftirq ==
    \A c \in Cpus :
        (pending[c] # {} /\ ~in_interrupt(c))
            => kstate[c] = "RUNNING" \/ kpc[c] = "check"

\* "BHs are serialized by spinlock global_bh_lock": bottom halves run one at a
\* time, on all CPUs.
BhsSerialized ==
    \A c, d \in Cpus : (pc[c] = "routine" /\ pc[d] = "routine") => c = d

\* What runs may run: no function of a tasklet that its owner has disabled or
\* killed, and no two bottom halves at once.
RunsAsPromised == SafeAfterReturn /\ BhsSerialized

\* "If tasklet_schedule() is called, then tasklet is guaranteed to be executed on
\* some cpu at least once after this."
ScheduledRuns ==
    \A t \in Tasklets :
        (sched[t] /\ ~Killing(t)) ~> (\E c \in Cpus : InFunc(c, t))

-----------------------------------------------------------------------------
(***************************************************************************)
(* The inductive invariant behind OnePlace, RunsAsPromised and             *)
(* ImplementsPromise.                                                      *)
(***************************************************************************)

\* The tasklets that wait for their turn.
Queued(t) == sched[t] /\ ~Killing(t)

\* OnePlace in the form in which a step is seen to keep it.
PlaceInv ==
    /\ \A t \in Tasklets : Killing(t) => sched[t]
    /\ \A t \in Tasklets :
          Queued(t) <=> \E c \in Cpus, s \in Slots : t \in Waiting(c, s)
    /\ \A t \in Tasklets : \A c, d \in Cpus : \A s, r \in Slots :
          (t \in Waiting(c, s) /\ t \in Waiting(d, r)) => c = d /\ s = r

\* c is between tasklet_trylock(t) and tasklet_unlock(t).
HasRunBit(c, t) ==
    cur[c] = t /\ pc[c] \in {"count", "clear", "disabled", "func", "return",
                             "bh_locked", "routine", "mark_bh"}

\* The RUN bit is the lock that it is meant to be.
RunBitInv ==
    \A t \in Tasklets : \A c \in Cpus : HasRunBit(c, t) =>
        run[t] /\ \A d \in Cpus : HasRunBit(d, t) => c = d

\* tasklet_action's t is set while it is in use.
CurInv == \A c \in Cpus : cur[c] = None <=> pc[c] \in {"off", "pass", "next"}

\* Between two softirq actions no tasklet is on tasklet_action's list.
ListInv == \A c \in Cpus : pc[c] \in {"off", "pass"} => list[c] = <<>>

\* What the owner relies on: the count is raised while the tasklet is disabled,
\* and what it waited for does not come back.
OwnerInv ==
    \A t \in Tasklets :
        /\ count[t] = IF owner[t] \in {"disabling", "disabled", "nosync"} THEN 1 ELSE 0
        /\ owner[t] = "disabled" =>
              \A c \in Cpus : ~(cur[c] = t /\ pc[c] = "clear") /\ ~InFunc(c, t)
        /\ owner[t] \in {"kill_clear", "dead"} => \A c \in Cpus : cur[c] # t
        /\ owner[t] = "dead" => ~sched[t]

\* Who is in a bottom half has global_bh_lock.
BhLockInv ==
    \A c \in Cpus : pc[c] \in {"bh_locked", "routine"} => global_bh_lock = c

TaskletInv == /\ TypeOK /\ NoRepeats /\ PlaceInv
              /\ RunBitInv /\ CurInv /\ ListInv /\ OwnerInv /\ BhLockInv
=============================================================================
