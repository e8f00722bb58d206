--------------------------- MODULE SoftirqProofs ---------------------------
(***************************************************************************)
(* Proofs about Softirq, for any number of CPUs and tasklets: a scheduled  *)
(* tasklet is in one place, no function runs that its owner has disabled   *)
(* or killed, bottom halves are serialized, no pending softirq is left to  *)
(* a ksoftirqd that sleeps, and tasklets keep the promises of interrupt.h. *)
(* Behind them, about Keventd: the task queues that softirq.c also runs.   *)
(***************************************************************************)
EXTENDS Softirq, ListFacts

\* The lowest bit of a mask of softirqs is one of its bits.
LEMMA LowestBit ==
    ASSUME NEW S \in SUBSET Softirqs, S # {}
    PROVE  Min(S) \in S
<1>1. \E x \in S : \A y \in S : x =< y
  <2>1. CASE 0 \in S
    BY <2>1 DEF Softirqs, HI_SOFTIRQ, TASKLET_SOFTIRQ
  <2>2. CASE 0 \notin S
    <3>1. \A y \in S : y = 3
      BY <2>2 DEF Softirqs, HI_SOFTIRQ, TASKLET_SOFTIRQ
    <3> QED
      BY <3>1
  <2> QED
    BY <2>1, <2>2
<1> QED
    BY <1>1 DEF Min

\* One value of a function is replaced.
LEMMA ExceptType ==
    ASSUME NEW D, NEW R, NEW f \in [D -> R], NEW d, NEW v \in R
    PROVE  [f EXCEPT ![d] = v] \in [D -> R]
    OBVIOUS

-----------------------------------------------------------------------------
(***************************************************************************)
(* Types.                                                                  *)
(***************************************************************************)

\* do_softirq is entered, or not.
LEMMA EnterTypes ==
    ASSUME TypeOK, NEW c \in Cpus,
           EnterSoftirq(c, pending[c]) \/ UNCHANGED <<pending, softirqVars>>
    PROVE  /\ pending' \in [Cpus -> SUBSET Softirqs]
           /\ todo' \in [Cpus -> SUBSET Softirqs]
           /\ mask' \in [Cpus -> SUBSET Softirqs]
           /\ pc' \in [Cpus -> PCs]
           /\ list' = list /\ cur' = cur
<1> USE DEF TypeOK
<1>1. CASE UNCHANGED <<pending, softirqVars>>
    BY <1>1 DEF softirqVars
<1>2. CASE EnterSoftirq(c, pending[c])
  <2>1. pending[c] \in SUBSET Softirqs /\ Softirqs \ pending[c] \in SUBSET Softirqs
    OBVIOUS
  <2> QED
    BY <1>2, <2>1 DEF EnterSoftirq, Goto, PCs
<1> QED
    BY <1>1, <1>2

\* A tasklet is put on a list.
LEMMA QueueTypes ==
    ASSUME TypeOK, NEW c \in Cpus, NEW t \in Tasklets, Queue(c, t)
    PROVE  /\ vec' \in [Cpus -> [Softirqs -> Seq(Tasklets)]]
           /\ pending' \in [Cpus -> SUBSET Softirqs]
<1> DEFINE n == SoftirqOf(t)
<1>1. n \in Softirqs
    BY DEF SoftirqOf, Softirqs
<1>2. vec \in [Cpus -> [Softirqs -> Seq(Tasklets)]] /\ pending \in [Cpus -> SUBSET Softirqs]
    BY DEF TypeOK
<1>3. /\ vec' = [vec EXCEPT ![c][n] = <<t>> \o @]
      /\ pending' = [pending EXCEPT ![c] = @ \cup {n}]
    BY DEF Queue
<1> HIDE DEF n
<1>4. vec[c][n] \in Seq(Tasklets) /\ <<t>> \o vec[c][n] \in Seq(Tasklets)
    BY <1>1, <1>2
<1> QED
    BY <1>1, <1>2, <1>3, <1>4

\* A context sets the SCHED bit.
LEMMA SetSchedTypes ==
    ASSUME TypeOK, NEW c \in Cpus, NEW x \in Contexts, NEW t, t \in Tasklets,
           SetSched(c, x, t)
    PROVE  /\ sched' \in [Tasklets -> BOOLEAN]
           /\ pushing' \in [Cpus -> [Contexts -> Tasklets \cup {None}]]
           /\ run' = run /\ count' = count
<1>1. /\ sched' = [sched EXCEPT ![t] = TRUE]
      /\ pushing' = [pushing EXCEPT ![c][x] = t]
      /\ run' = run /\ count' = count
    BY DEF SetSched
<1> QED
    BY <1>1 DEF TypeOK

\* The steps of do_softirq.
LEMMA SoftirqTypes ==
    ASSUME TypeOK, NEW c \in Cpus, CurInv, SoftirqStep(c)
    PROVE  TypeOK'
<1> USE DEF TypeOK
<1>c. pc[c] \notin {"off", "pass", "next"} => cur[c] \in Tasklets
    BY DEF CurInv
<1>1. CASE RunAction(c)
  <2> PICK n \in Softirqs : n = Min(todo[c])
    BY <1>1, LowestBit DEF RunAction
  <2>1. /\ list' = [list EXCEPT ![c] = vec[c][n]]
        /\ vec' = [vec EXCEPT ![c][n] = <<>>]
    BY <1>1 DEF RunAction
  <2>2. list' \in [Cpus -> Seq(Tasklets)] /\ vec' \in [Cpus -> [Softirqs -> Seq(Tasklets)]]
    BY <2>1
  <2> QED
    BY <1>1, <2>2 DEF RunAction, Goto, PCs, kVars, taskletVars
<1>2. CASE EndPass(c)
  <2>1. /\ pending' \in [Cpus -> SUBSET Softirqs] /\ todo' \in [Cpus -> SUBSET Softirqs]
        /\ mask' \in [Cpus -> SUBSET Softirqs]
    <3>1. /\ pending[c] \in SUBSET Softirqs /\ {} \in SUBSET Softirqs
          /\ mask[c] \ pending[c] \in SUBSET Softirqs
      OBVIOUS
    <3>2. \/ /\ mask' = [mask EXCEPT ![c] = mask[c] \ pending[c]]
             /\ todo' = [todo EXCEPT ![c] = pending[c]]
             /\ pending' = [pending EXCEPT ![c] = {}]
          \/ mask' = [mask EXCEPT ![c] = {}] /\ todo' = todo /\ pending' = pending
      BY <1>2 DEF EndPass
    <3>3. /\ mask \in [Cpus -> SUBSET Softirqs] /\ todo \in [Cpus -> SUBSET Softirqs]
          /\ pending \in [Cpus -> SUBSET Softirqs]
      OBVIOUS
    <3> QED
      <4>1. /\ [mask EXCEPT ![c] = mask[c] \ pending[c]] \in [Cpus -> SUBSET Softirqs]
            /\ [todo EXCEPT ![c] = pending[c]] \in [Cpus -> SUBSET Softirqs]
            /\ [pending EXCEPT ![c] = {}] \in [Cpus -> SUBSET Softirqs]
            /\ [mask EXCEPT ![c] = {}] \in [Cpus -> SUBSET Softirqs]
        BY ONLY <3>1, <3>3, ExceptType
      <4> QED
        BY ONLY <4>1, <3>2, <3>3
  <2>2. kstate' \in [Cpus -> {"RUNNING", "INTERRUPTIBLE"}]
    BY <1>2 DEF EndPass, LeaveToKsoftirqd, wakeup_softirqd
  <2>3. pc' \in [Cpus -> PCs]
    BY <1>2 DEF EndPass, Goto, PCs
  <2> QED
    BY <1>2, <2>1, <2>2, <2>3 DEF EndPass, taskletVars
<1>3. CASE ListEnd(c)
  <2>1. todo' \in [Cpus -> SUBSET Softirqs]
    BY <1>3 DEF ListEnd
  <2> QED
    BY <1>3, <2>1 DEF ListEnd, Goto, PCs, cpuVars, kVars, taskletVars
<1>4. CASE Trylock(c)
  <2>1. list[c] \in Seq(Tasklets) /\ list[c] # <<>>
    BY <1>4 DEF Trylock
  <2>2. Head(list[c]) \in Tasklets /\ Tail(list[c]) \in Seq(Tasklets)
    BY <2>1
  <2> QED
    BY <1>4, <2>2 DEF Trylock, Goto, PCs, cpuVars, kVars
<1>5. CASE ReadCount(c)
    BY <1>5 DEF ReadCount, Goto, PCs, cpuVars, kVars, taskletVars
<1>6. CASE ClearSched(c)
    BY <1>6, <1>c DEF ClearSched, TaskletStep, Goto, PCs, cpuVars, kVars
<1>7. CASE UnlockDisabled(c)
    BY <1>7, <1>c DEF UnlockDisabled, TaskletStep, Goto, PCs, cpuVars, kVars
<1>8. CASE Requeue(c)
  <2> PICK t \in Tasklets : t = cur[c]
    BY <1>8, <1>c DEF Requeue, TaskletStep
  <2>1. /\ vec' \in [Cpus -> [Softirqs -> Seq(Tasklets)]]
        /\ pending' \in [Cpus -> SUBSET Softirqs]
    BY <1>8, QueueTypes DEF Requeue
  <2> QED
    BY <1>8, <2>1 DEF Requeue, Goto, PCs, kVars, taskletVars
<1>9. CASE FuncEnd(c)
    BY <1>9 DEF FuncEnd, Goto, PCs, cpuVars, kVars, taskletVars
<1>10. CASE Return(c)
    BY <1>10 DEF Return, Goto, PCs, cpuVars, kVars
<1>11. CASE BhAction(c)
    BY <1>11 DEF BhAction, Goto, PCs, cpuVars, kVars, taskletVars
<1>12. CASE HardirqTrylock(c)
    BY <1>12 DEF HardirqTrylock, Goto, PCs, cpuVars, kVars, taskletVars
<1>13. CASE RoutineEnd(c)
    BY <1>13 DEF RoutineEnd, Goto, PCs, cpuVars, kVars, taskletVars
<1>14. CASE MarkBh(c)
  <2>1. cur[c] \in Tasklets
    BY <1>14, <1>c DEF MarkBh, TaskletStep
  <2>2. /\ sched' \in [Tasklets -> BOOLEAN]
        /\ pushing' \in [Cpus -> [Contexts -> Tasklets \cup {None}]]
        /\ run' = run /\ count' = count
    <3>1. CASE SetSched(c, "softirq", cur[c])
      BY <2>1, <3>1, SetSchedTypes DEF Contexts
    <3>2. CASE UNCHANGED <<taskletVars, pushing>>
      BY <3>2 DEF taskletVars
    <3> QED
      BY <1>14, <3>1, <3>2 DEF MarkBh
  <2> QED
    BY <1>14, <2>2 DEF MarkBh, Goto, PCs, cpuVars, kVars
<1> QED
    BY <1>1, <1>2, <1>3, <1>4, <1>5, <1>6, <1>7, <1>8, <1>9, <1>10, <1>11, <1>12,
       <1>13, <1>14 DEF SoftirqStep

\* The other steps of a CPU.
LEMMA CpuTypes ==
    ASSUME TypeOK, NEW c \in Cpus,
           \/ Ksoftirqd(c) \/ GoOn(c) \/ OtherInterrupt(c) \/ local_bh_disable(c)
           \/ \E t \in Tasklets : ScheduleTasklet(c, t)
    PROVE  TypeOK'
<1> USE DEF TypeOK
<1>1. CASE KLoop(c) \/ OtherInterrupt(c)
  <2>1. /\ pending' \in [Cpus -> SUBSET Softirqs]
        /\ todo' \in [Cpus -> SUBSET Softirqs]
        /\ mask' \in [Cpus -> SUBSET Softirqs]
        /\ pc' \in [Cpus -> PCs]
        /\ list' = list /\ cur' = cur
    BY <1>1, EnterTypes DEF KLoop, OtherInterrupt
  <2> QED
    BY <1>1, <2>1 DEF KLoop, OtherInterrupt, KPCs, kVars, taskletVars
<1>2. CASE KCheck(c) \/ KWakes(c) \/ KResched(c) \/ KIdle(c)
  <2>1. kpc' \in [Cpus -> KPCs] /\ kstate' \in [Cpus -> {"RUNNING", "INTERRUPTIBLE"}]
    BY <1>2 DEF KCheck, KWakes, KResched, KIdle, KPCs
  <2> QED
    BY <1>2, <2>1 DEF KCheck, KWakes, KResched, KIdle, cpuVars, softirqVars, taskletVars
<1>3. CASE IrqExit(c) \/ local_bh_enable(c)
  <2>1. EnterSoftirq(c, pending[c]) \/ UNCHANGED <<pending, softirqVars>>
    BY <1>3 DEF IrqExit, local_bh_enable, CallDoSoftirq
  <2>2. /\ pending' \in [Cpus -> SUBSET Softirqs]
        /\ todo' \in [Cpus -> SUBSET Softirqs]
        /\ mask' \in [Cpus -> SUBSET Softirqs]
        /\ pc' \in [Cpus -> PCs]
        /\ list' = list /\ cur' = cur
    BY <2>1, EnterTypes
  <2>3. irq' \in [Cpus -> BOOLEAN] /\ bh' \in [Cpus -> BOOLEAN]
    BY <1>3 DEF IrqExit, local_bh_enable
  <2> QED
    BY <1>3, <2>2, <2>3 DEF IrqExit, local_bh_enable, kVars, taskletVars
<1>4. CASE local_bh_disable(c)
    BY <1>4 DEF local_bh_disable, softirqVars, kVars, taskletVars
<1>5. ASSUME NEW x \in Contexts, PushTasklet(c, x)
      PROVE  TypeOK'
  <2> PICK t \in Tasklets : t = pushing[c][x]
    BY <1>5 DEF PushTasklet
  <2>1. /\ vec' \in [Cpus -> [Softirqs -> Seq(Tasklets)]]
        /\ pending' \in [Cpus -> SUBSET Softirqs]
    BY <1>5, QueueTypes DEF PushTasklet
  <2>2. pushing' \in [Cpus -> [Contexts -> Tasklets \cup {None}]]
    BY <1>5 DEF PushTasklet
  <2>3. kstate' \in [Cpus -> {"RUNNING", "INTERRUPTIBLE"}]
    BY <1>5 DEF PushTasklet, wakeup_softirqd
  <2> QED
    BY <1>5, <2>1, <2>2, <2>3 DEF PushTasklet, softirqVars, taskletVars
<1>6. ASSUME NEW t \in Tasklets, ScheduleTasklet(c, t)
      PROVE  TypeOK'
  <2>1. /\ sched' \in [Tasklets -> BOOLEAN]
        /\ pushing' \in [Cpus -> [Contexts -> Tasklets \cup {None}]]
        /\ run' = run /\ count' = count
    <3>1. \E x \in Contexts : SetSched(c, x, t)
      BY <1>6 DEF ScheduleTasklet, Interrupt, TaskSchedule, FuncSchedule, Contexts
    <3> QED
      BY <3>1, SetSchedTypes
  <2> QED
    BY <1>6, <2>1 DEF ScheduleTasklet, Interrupt, TaskSchedule, FuncSchedule, Goto, PCs,
                      cpuVars, softirqVars, kVars
<1> QED
    BY <1>1, <1>2, <1>3, <1>4, <1>5, <1>6 DEF Ksoftirqd, GoOn

\* The owners of the tasklets.
LEMMA OwnerTypes ==
    ASSUME TypeOK, OwnerInv, NEW t \in Tasklets,
           Owner(t) \/ Disable(t) \/ Kill(t) \/ tasklet_init(t)
    PROVE  TypeOK'
<1> USE DEF TypeOK
<1>1. \E o \in Owners : owner' = [owner EXCEPT ![t] = o]
    BY DEF Owner, DisableReturns, tasklet_enable, KillSetsSched, KillWaits, KillReturns,
           Disable, Kill, tasklet_init, OwnerGoto, Owners
<1>5. owner' \in [Tasklets -> Owners]
    BY <1>1
<1>2. UNCHANGED <<cpuVars, softirqVars, kVars, pushing, global_bh_lock>>
    BY DEF Owner, DisableReturns, tasklet_enable, KillSetsSched, KillWaits, KillReturns,
           Disable, Kill, tasklet_init, OwnerUnchanged
<1>3. sched' \in [Tasklets -> BOOLEAN] /\ run' \in [Tasklets -> BOOLEAN]
    BY DEF Owner, DisableReturns, tasklet_enable, KillSetsSched, KillWaits, KillReturns,
           Disable, Kill, tasklet_init, taskletVars
<1>4. count' \in [Tasklets -> 0..1]
  <2>1. CASE Disable(t)
    <3>1. count[t] = 0 /\ count' = [count EXCEPT ![t] = @ + 1]
      BY <2>1 DEF Disable, OwnerGoto, OwnerInv
    <3> QED
      BY <3>1
  <2>2. CASE tasklet_enable(t)
    <3>1. count[t] = 1 /\ count' = [count EXCEPT ![t] = @ - 1]
      BY <2>2 DEF tasklet_enable, OwnerGoto, OwnerInv
    <3> QED
      BY <3>1
  <2>3. CASE tasklet_init(t)
    BY <2>3 DEF tasklet_init
  <2>4. CASE ~Disable(t) /\ ~tasklet_enable(t) /\ ~tasklet_init(t)
    BY <2>4 DEF Owner, DisableReturns, KillSetsSched, KillWaits, KillReturns, Kill,
                taskletVars
  <2> QED
    BY <2>1, <2>2, <2>3, <2>4
<1> QED
    BY <1>2, <1>3, <1>4, <1>5 DEF cpuVars, softirqVars, kVars

-----------------------------------------------------------------------------
(***************************************************************************)
(* A scheduled tasklet is in one place.                                    *)
(***************************************************************************)

\* What is in each place.
LEMMA SlotContents ==
    \A c : /\ Waiting(c, "HI") = Range(vec[c][HI_SOFTIRQ])
           /\ Waiting(c, "TASKLET") = Range(vec[c][TASKLET_SOFTIRQ])
           /\ Waiting(c, "list") = Range(list[c])
           /\ Waiting(c, "hand") =
                  IF pc[c] \in {"count", "clear", "disabled", "requeue"}
                  THEN {cur[c]} ELSE {}
           /\ \A x \in Contexts : Waiting(c, x) = {pushing[c][x]} \ {None}
    BY DEF Waiting, Contexts

\* Places whose variables do not change keep their contents.
LEMMA SameVec ==
    ASSUME NEW c, vec'[c] = vec[c]
    PROVE  Waiting(c, "HI")' = Waiting(c, "HI") /\ Waiting(c, "TASKLET")' = Waiting(c, "TASKLET")
    BY DEF Waiting

LEMMA SameList ==
    ASSUME NEW c, list'[c] = list[c]
    PROVE  Waiting(c, "list")' = Waiting(c, "list")
    BY DEF Waiting, Contexts

\* The tasklet in tasklet_action's hands.
InHand(c) == pc[c] \in {"count", "clear", "disabled", "requeue"}

LEMMA SameHand ==
    ASSUME NEW c, \/ InHand(c) /\ InHand(c)' /\ cur'[c] = cur[c]
                  \/ ~InHand(c) /\ ~InHand(c)'
    PROVE  Waiting(c, "hand")' = Waiting(c, "hand")
    BY DEF Waiting, InHand, Contexts

LEMMA SamePushing ==
    ASSUME NEW c, NEW x \in Contexts, pushing'[c][x] = pushing[c][x]
    PROVE  Waiting(c, x)' = Waiting(c, x)
    BY DEF Waiting, Contexts

LEMMA SameCpu ==
    ASSUME NEW c, UNCHANGED <<vec[c], list[c], cur[c], pc[c], pushing[c]>>
    PROVE  \A s \in Slots : Waiting(c, s)' = Waiting(c, s)
    BY DEF Waiting, Slots

\* The tasklets that wait, and which of them are queued, stay the same.
LEMMA PlacesKept ==
    ASSUME PlaceInv,
           \A c \in Cpus : \A s \in Slots : Waiting(c, s)' = Waiting(c, s),
           \A t \in Tasklets : /\ Queued(t)' <=> Queued(t)
                               /\ Killing(t)' => sched'[t]
    PROVE  PlaceInv'
    BY DEF PlaceInv

\* Some tasklets go from one place of a CPU to another.
LEMMA PlacesMoved ==
    ASSUME PlaceInv, NEW c \in Cpus, NEW a \in Slots, NEW b \in Slots, a # b,
           NEW M, M \subseteq Waiting(c, a),
           Waiting(c, a)' = Waiting(c, a) \ M,
           Waiting(c, b)' = Waiting(c, b) \cup M,
           \A d \in Cpus : \A s \in Slots :
               d # c \/ (s # a /\ s # b) => Waiting(d, s)' = Waiting(d, s),
           sched' = sched, owner' = owner
    PROVE  PlaceInv'
<1>1. \A t \in Tasklets : Queued(t)' <=> Queued(t)
    BY DEF Queued, Killing
<1>2. ASSUME NEW t \in Tasklets
      PROVE  (\E d \in Cpus, s \in Slots : t \in Waiting(d, s)')
                 <=> \E d \in Cpus, s \in Slots : t \in Waiting(d, s)
  <2>1. CASE t \in M
    BY <2>1
  <2>2. CASE t \notin M
    BY <2>2
  <2> QED
    BY <2>1, <2>2
<1>3. ASSUME NEW t \in Tasklets, NEW d \in Cpus, NEW e \in Cpus,
             NEW s \in Slots, NEW r \in Slots,
             t \in Waiting(d, s)', t \in Waiting(e, r)'
      PROVE  d = e /\ s = r
  <2>1. CASE t \in M
    <3>1. \A g \in Cpus : \A q \in Slots : t \in Waiting(g, q) => g = c /\ q = a
      BY <2>1 DEF PlaceInv
    <3>2. \A g \in Cpus : \A q \in Slots : t \in Waiting(g, q)' => g = c /\ q = b
      BY <2>1, <3>1
    <3> QED
      BY <1>3, <3>2
  <2>2. CASE t \notin M
    <3>1. \A g \in Cpus : \A q \in Slots : t \in Waiting(g, q)' => t \in Waiting(g, q)
      BY <2>2
    <3> QED
      BY <1>3, <3>1 DEF PlaceInv
  <2> QED
    BY <2>1, <2>2
<1> QED
    BY <1>1, <1>2, <1>3 DEF PlaceInv, Killing

\* A tasklet whose SCHED bit was clear gets it, and a place.
LEMMA PlacesAdded ==
    ASSUME TypeOK, PlaceInv, NEW c \in Cpus, NEW a \in Slots, NEW t \in Tasklets,
           ~sched[t],
           Waiting(c, a)' = Waiting(c, a) \cup {t},
           \A d \in Cpus : \A s \in Slots :
               d # c \/ s # a => Waiting(d, s)' = Waiting(d, s),
           sched' = [sched EXCEPT ![t] = TRUE], owner' = owner
    PROVE  PlaceInv'
<1>1. /\ \A u \in Tasklets \ {t} : sched'[u] = sched[u]
      /\ sched'[t] = TRUE
    BY DEF TypeOK
<1>2. /\ ~Killing(t)
      /\ \A d \in Cpus : \A s \in Slots : t \notin Waiting(d, s)
    BY DEF PlaceInv, Queued
<1>3. \A u \in Tasklets : Killing(u)' <=> Killing(u)
    BY DEF Killing
<1>4. \A u \in Tasklets \ {t} : \A d \in Cpus : \A s \in Slots :
          u \in Waiting(d, s)' <=> u \in Waiting(d, s)
    OBVIOUS
<1>5. \A d \in Cpus : \A s \in Slots : t \in Waiting(d, s)' <=> d = c /\ s = a
    BY <1>2
<1>6. (\A u \in Tasklets : Killing(u) => sched[u])'
    BY <1>1, <1>2, <1>3 DEF PlaceInv
<1>7. ASSUME NEW u \in Tasklets
      PROVE  Queued(u)' <=> \E d \in Cpus, s \in Slots : u \in Waiting(d, s)'
  <2>1. CASE u = t
    BY <1>1, <1>2, <1>3, <1>5, <2>1 DEF Queued
  <2>2. CASE u # t
    BY <1>1, <1>3, <1>4, <2>2 DEF Queued, PlaceInv
  <2> QED
    BY <2>1, <2>2
<1>8. ASSUME NEW u \in Tasklets, NEW d \in Cpus, NEW e \in Cpus,
             NEW s \in Slots, NEW r \in Slots,
             u \in Waiting(d, s)', u \in Waiting(e, r)'
      PROVE  d = e /\ s = r
  <2>1. CASE u = t
    BY <1>5, <1>8, <2>1
  <2>2. CASE u # t
    BY <1>4, <1>8, <2>2 DEF PlaceInv
  <2> QED
    BY <2>1, <2>2
<1> QED
    BY <1>6, <1>7, <1>8 DEF PlaceInv

\* A tasklet loses the SCHED bit and its place.
LEMMA PlacesRemoved ==
    ASSUME TypeOK, PlaceInv, NEW c \in Cpus, NEW a \in Slots, NEW t \in Tasklets,
           t \in Waiting(c, a),
           Waiting(c, a)' = Waiting(c, a) \ {t},
           \A d \in Cpus : \A s \in Slots :
               d # c \/ s # a => Waiting(d, s)' = Waiting(d, s),
           sched' = [sched EXCEPT ![t] = FALSE], owner' = owner
    PROVE  PlaceInv'
<1>1. /\ \A u \in Tasklets \ {t} : sched'[u] = sched[u]
      /\ sched'[t] = FALSE
    BY DEF TypeOK
<1>2. /\ ~Killing(t)
      /\ \A d \in Cpus : \A s \in Slots : t \notin Waiting(d, s)'
    BY DEF PlaceInv, Queued
<1>3. \A u \in Tasklets : Killing(u)' <=> Killing(u)
    BY DEF Killing
<1>4. \A u \in Tasklets \ {t} : \A d \in Cpus : \A s \in Slots :
          u \in Waiting(d, s)' <=> u \in Waiting(d, s)
    OBVIOUS
<1>5. ASSUME NEW u \in Tasklets
      PROVE  Queued(u)' <=> \E d \in Cpus, s \in Slots : u \in Waiting(d, s)'
  <2>1. CASE u = t
    BY <1>1, <1>2, <2>1 DEF Queued
  <2>2. CASE u # t
    BY <1>1, <1>3, <1>4, <2>2 DEF Queued, PlaceInv
  <2> QED
    BY <2>1, <2>2
<1>6. (\A u \in Tasklets : Killing(u) => sched[u])'
    BY <1>1, <1>2, <1>3 DEF PlaceInv
<1> QED
    BY <1>2, <1>4, <1>5, <1>6 DEF PlaceInv

\* The list that t goes on.
SlotOf(t) == IF t \in Hi THEN "HI" ELSE "TASKLET"

\* What __tasklet_schedule and the requeue do to the lists.
LEMMA QueueSlots ==
    ASSUME TypeOK, NEW c \in Cpus, NEW t \in Tasklets, Queue(c, t)
    PROVE  /\ Waiting(c, SlotOf(t))' = Waiting(c, SlotOf(t)) \cup {t}
           /\ \A d \in Cpus : \A s \in {"HI", "TASKLET"} :
                  d # c \/ s # SlotOf(t) => Waiting(d, s)' = Waiting(d, s)
           /\ (NoRepeats /\ list' = list /\ t \notin Waiting(c, SlotOf(t))) => NoRepeats'
<1> PICK n \in Softirqs : n = SoftirqOf(t)
    BY DEF SoftirqOf, Softirqs
<1> PICK l \in Seq(Tasklets) : l = vec[c][n]
    BY DEF TypeOK
<1>0. vec \in [Cpus -> [Softirqs -> Seq(Tasklets)]]
    BY DEF TypeOK
<1>1. vec' = [vec EXCEPT ![c][n] = <<t>> \o l]
    BY DEF Queue
<1>2. vec'[c][n] = <<t>> \o l
    BY <1>0, <1>1
<1>3. \A d \in Cpus : \A m \in Softirqs : d # c \/ m # n => vec'[d][m] = vec[d][m]
    BY <1>0, <1>1
<1>4. /\ Range(<<t>> \o l) = Range(l) \cup {t}
      /\ IsInjective(l) /\ t \notin Range(l) => IsInjective(<<t>> \o l)
    BY PrependElements
<1>5. /\ HI_SOFTIRQ \in Softirqs /\ TASKLET_SOFTIRQ \in Softirqs
      /\ HI_SOFTIRQ # TASKLET_SOFTIRQ
      /\ \A m \in Softirqs : m = HI_SOFTIRQ \/ m = TASKLET_SOFTIRQ
    BY DEF Softirqs, HI_SOFTIRQ, TASKLET_SOFTIRQ
<1>6. \/ n = HI_SOFTIRQ /\ SlotOf(t) = "HI"
      \/ n = TASKLET_SOFTIRQ /\ SlotOf(t) = "TASKLET"
    BY DEF SoftirqOf, SlotOf
<1>7. \A d : /\ Waiting(d, "HI") = Range(vec[d][HI_SOFTIRQ])
             /\ Waiting(d, "TASKLET") = Range(vec[d][TASKLET_SOFTIRQ])
             /\ Waiting(d, "HI")' = Range(vec'[d][HI_SOFTIRQ])
             /\ Waiting(d, "TASKLET")' = Range(vec'[d][TASKLET_SOFTIRQ])
    BY DEF Waiting, Contexts
<1>8. Waiting(c, SlotOf(t)) = Range(l) /\ Waiting(c, SlotOf(t))' = Range(vec'[c][n])
    BY <1>6, <1>7
<1>9. \A d \in Cpus : \A s \in {"HI", "TASKLET"} :
          d # c \/ s # SlotOf(t) => Waiting(d, s)' = Waiting(d, s)
    BY <1>3, <1>5, <1>6, <1>7
<1>10. ASSUME NoRepeats, list' = list, t \notin Waiting(c, SlotOf(t))
       PROVE  NoRepeats'
  <2>1. IsInjective(vec'[c][n])
    BY <1>2, <1>4, <1>8, <1>10 DEF NoRepeats
  <2>2. \A d \in Cpus : \A m \in Softirqs : IsInjective(vec'[d][m])
    BY <1>3, <1>10, <2>1 DEF NoRepeats
  <2> QED
    BY <1>10, <2>2 DEF NoRepeats
<1> QED
    BY <1>2, <1>4, <1>8, <1>9, <1>10

\* do_softirq takes a list of the CPU.
LEMMA RunActionPlaces ==
    ASSUME TaskletInv, NEW c \in Cpus, RunAction(c)
    PROVE  PlaceInv' /\ NoRepeats'
<1>0. TypeOK /\ PlaceInv /\ NoRepeats /\ ListInv
    BY DEF TaskletInv
<1> PICK n \in Softirqs : n = Min(todo[c])
    BY <1>0, LowestBit DEF RunAction, TypeOK
<1>1. /\ vec \in [Cpus -> [Softirqs -> Seq(Tasklets)]]
      /\ list \in [Cpus -> Seq(Tasklets)] /\ pc \in [Cpus -> PCs]
    BY <1>0 DEF TypeOK
<1>2. /\ list' = [list EXCEPT ![c] = vec[c][n]]
      /\ vec' = [vec EXCEPT ![c][n] = <<>>]
      /\ pc[c] = "pass" /\ pc' = [pc EXCEPT ![c] = "next"]
      /\ UNCHANGED <<cur, pushing, sched, owner>>
    BY DEF RunAction, Goto, taskletVars
<1>3. /\ vec'[c][n] = <<>> /\ list'[c] = vec[c][n] /\ list[c] = <<>>
      /\ \A d \in Cpus : \A m \in Softirqs : d # c \/ m # n => vec'[d][m] = vec[d][m]
      /\ \A d \in Cpus \ {c} : list'[d] = list[d] /\ pc'[d] = pc[d] /\ vec'[d] = vec[d]
    BY <1>0, <1>1, <1>2 DEF ListInv
<1>4. IsInjective(<<>>) /\ Range(<<>>) = {}
    BY DEF IsInjective, Range
<1>5. NoRepeats'
    BY <1>0, <1>3, <1>4 DEF NoRepeats
<1> DEFINE a == IF n = HI_SOFTIRQ THEN "HI" ELSE "TASKLET"
<1>6. a \in Slots /\ "list" \in Slots /\ a # "list"
    BY DEF Slots
<1>7. \A d : /\ Waiting(d, "HI") = Range(vec[d][HI_SOFTIRQ])
             /\ Waiting(d, "TASKLET") = Range(vec[d][TASKLET_SOFTIRQ])
             /\ Waiting(d, "HI")' = Range(vec'[d][HI_SOFTIRQ])
             /\ Waiting(d, "TASKLET")' = Range(vec'[d][TASKLET_SOFTIRQ])
             /\ Waiting(d, "list") = Range(list[d])
             /\ Waiting(d, "list")' = Range(list'[d])
    BY DEF Waiting, Contexts
<1>8. /\ HI_SOFTIRQ \in Softirqs /\ TASKLET_SOFTIRQ \in Softirqs
      /\ HI_SOFTIRQ # TASKLET_SOFTIRQ
      /\ \A m \in Softirqs : m = HI_SOFTIRQ \/ m = TASKLET_SOFTIRQ
    BY DEF Softirqs, HI_SOFTIRQ, TASKLET_SOFTIRQ
<1> PICK M : M = Range(vec[c][n])
    OBVIOUS
<1>9. /\ Waiting(c, a) = M /\ Waiting(c, a)' = {}
      /\ Waiting(c, "list") = {} /\ Waiting(c, "list")' = M
    BY <1>3, <1>4, <1>7, <1>8
<1>10. ASSUME NEW d \in Cpus, NEW s \in Slots, d # c \/ (s # a /\ s # "list")
       PROVE  Waiting(d, s)' = Waiting(d, s)
  <2>1. CASE d # c
    BY <1>2, <1>3, <2>1, SameCpu
  <2>2. CASE d = c /\ s # a /\ s # "list"
    <3>1. CASE s \in {"HI", "TASKLET"}
      BY <1>3, <1>7, <1>8, <2>2, <3>1
    <3>2. CASE s = "hand"
      BY <1>1, <1>2, <2>2, <3>2, SameHand DEF InHand
    <3>3. CASE s \in Contexts
      BY <1>2, <2>2, <3>3, SamePushing
    <3> QED
      BY <2>2, <3>1, <3>2, <3>3 DEF Slots
  <2> QED
    BY <1>10, <2>1, <2>2
<1> HIDE DEF a
<1>11. PlaceInv'
  <2>1. /\ M \subseteq Waiting(c, a)
        /\ Waiting(c, a)' = Waiting(c, a) \ M
        /\ Waiting(c, "list")' = Waiting(c, "list") \cup M
    BY <1>9
  <2>2. \A d \in Cpus : \A s \in Slots :
            d # c \/ (s # a /\ s # "list") => Waiting(d, s)' = Waiting(d, s)
    BY <1>10
  <2>3. sched' = sched /\ owner' = owner
    BY <1>2
  <2> QED
    BY <1>0, <1>6, <2>1, <2>2, <2>3, PlacesMoved
<1> QED
    BY <1>5, <1>11

\* tasklet_action takes the first tasklet of its list in its hands.
LEMMA TrylockPlaces ==
    ASSUME TaskletInv, NEW c \in Cpus, Trylock(c)
    PROVE  PlaceInv' /\ NoRepeats'
<1>0. TypeOK /\ PlaceInv /\ NoRepeats
    BY DEF TaskletInv
<1>1. list \in [Cpus -> Seq(Tasklets)] /\ pc \in [Cpus -> PCs]
      /\ cur \in [Cpus -> Tasklets \cup {None}]
    BY <1>0 DEF TypeOK
<1> PICK l \in Seq(Tasklets) : l = list[c]
    BY <1>1
<1> PICK t : t = Head(l)
    OBVIOUS
<1>2. /\ l # <<>> /\ list' = [list EXCEPT ![c] = Tail(l)]
      /\ cur' = [cur EXCEPT ![c] = t]
      /\ pc[c] = "next"
      /\ \/ pc' = [pc EXCEPT ![c] = "count"]
         \/ pc' = [pc EXCEPT ![c] = "requeue"]
      /\ UNCHANGED <<vec, pushing, sched, owner>>
    BY <1>1 DEF Trylock, TaskletStep, Goto, cpuVars
<1>3. /\ Range(l) = Range(Tail(l)) \cup {t}
      /\ IsInjective(Tail(l)) /\ t \notin Range(Tail(l))
    BY <1>0, <1>2, TailElements DEF NoRepeats
<1>4. /\ list'[c] = Tail(l) /\ cur'[c] = t /\ pc'[c] \in {"count", "requeue"}
      /\ \A d \in Cpus \ {c} : /\ list'[d] = list[d] /\ pc'[d] = pc[d]
                               /\ cur'[d] = cur[d]
    BY <1>1, <1>2
<1>5. NoRepeats'
    BY <1>0, <1>2, <1>3, <1>4 DEF NoRepeats
<1>6. /\ Waiting(c, "list") = Range(l) /\ Waiting(c, "list")' = Range(Tail(l))
      /\ Waiting(c, "hand") = {} /\ Waiting(c, "hand")' = {t}
    BY <1>2, <1>4 DEF Waiting, Contexts
<1>7. ASSUME NEW d \in Cpus, NEW s \in Slots, d # c \/ (s # "list" /\ s # "hand")
      PROVE  Waiting(d, s)' = Waiting(d, s)
  <2>1. CASE d # c
    BY <1>2, <1>4, <2>1, SameCpu
  <2>2. CASE s \in {"HI", "TASKLET"}
    BY <1>2, <2>2, SameVec
  <2>3. CASE s \in Contexts
    BY <1>2, <2>3, SamePushing
  <2> QED
    BY <1>7, <2>1, <2>2, <2>3 DEF Slots
<1>8. "list" \in Slots /\ "hand" \in Slots /\ "list" # "hand"
    BY DEF Slots
<1> PICK M : M = {t}
    OBVIOUS
<1>9. PlaceInv'
  <2> PICK a \in Slots, b \in Slots : a = "list" /\ b = "hand"
    BY <1>8
  <2>1. a # b /\ M \subseteq Waiting(c, a)
    BY <1>3, <1>6
  <2>2. Waiting(c, a)' = Waiting(c, a) \ M
    BY <1>3, <1>6
  <2>3. Waiting(c, b)' = Waiting(c, b) \cup M
    BY <1>6
  <2>4. \A d \in Cpus : \A s \in Slots :
            d # c \/ (s # a /\ s # b) => Waiting(d, s)' = Waiting(d, s)
    BY <1>7
  <2>5. sched' = sched /\ owner' = owner
    BY <1>2
  <2> QED
    BY ONLY ZenonT(30), <1>0, c \in Cpus, a \in Slots, b \in Slots, <2>1, <2>2, <2>3, <2>4, <2>5,
            PlacesMoved
<1> QED
    BY <1>5, <1>9

\* A tasklet goes from the hands of tasklet_action back to a list.
LEMMA RequeuePlaces ==
    ASSUME TaskletInv, NEW c \in Cpus, Requeue(c)
    PROVE  PlaceInv' /\ NoRepeats'
<1>0. TypeOK /\ PlaceInv /\ NoRepeats /\ CurInv
    BY DEF TaskletInv
<1>1. pc \in [Cpus -> PCs] /\ cur \in [Cpus -> Tasklets \cup {None}]
    BY <1>0 DEF TypeOK
<1> PICK t \in Tasklets : t = cur[c]
    BY <1>0, <1>1 DEF CurInv, Requeue, TaskletStep
<1>2. /\ Queue(c, t) /\ cur' = [cur EXCEPT ![c] = None]
      /\ pc[c] = "requeue" /\ pc' = [pc EXCEPT ![c] = "next"]
      /\ UNCHANGED <<list, pushing, sched, owner>>
    BY DEF Requeue, TaskletStep, Goto, taskletVars
<1> PICK b \in {"HI", "TASKLET"} : b = SlotOf(t)
    BY DEF SlotOf
<1>3. /\ Waiting(c, b)' = Waiting(c, b) \cup {t}
      /\ \A d \in Cpus : \A s \in {"HI", "TASKLET"} :
             d # c \/ s # b => Waiting(d, s)' = Waiting(d, s)
      /\ t \notin Waiting(c, b) => NoRepeats'
    BY <1>0, <1>2, QueueSlots
<1>4. Waiting(c, "hand") = {t} /\ Waiting(c, "hand")' = {}
    BY <1>1, <1>2 DEF Waiting, Contexts
<1>5. b \in Slots /\ "hand" \in Slots /\ b # "hand"
    BY DEF Slots
<1>6. t \notin Waiting(c, b)
    BY <1>0, <1>4, <1>5 DEF PlaceInv
<1>7. ASSUME NEW d \in Cpus, NEW s \in Slots, d # c \/ (s # "hand" /\ s # b)
      PROVE  Waiting(d, s)' = Waiting(d, s)
  <2>1. CASE s \in {"HI", "TASKLET"}
    BY <1>3, <1>7, <2>1
  <2>2. CASE s = "list"
    BY <1>2, <2>2, SameList
  <2>3. CASE s = "hand"
    <3>1. d # c /\ pc'[d] = pc[d] /\ cur'[d] = cur[d]
      BY <1>1, <1>2, <1>7, <2>3
    <3> QED
      BY <2>3, <3>1, SameHand DEF InHand
  <2>4. CASE s \in Contexts
    BY <1>2, <2>4, SamePushing
  <2> QED
    BY <2>1, <2>2, <2>3, <2>4 DEF Slots
<1> PICK M : M = {t}
    OBVIOUS
<1>8. PlaceInv'
  <2>1. /\ M \subseteq Waiting(c, "hand")
        /\ Waiting(c, "hand")' = Waiting(c, "hand") \ M
        /\ Waiting(c, b)' = Waiting(c, b) \cup M
    BY <1>3, <1>4
  <2> QED
    BY <1>0, <1>2, <1>5, <1>7, <2>1, PlacesMoved
<1> QED
    BY <1>3, <1>6, <1>8

\* A tasklet goes from a context that has set its SCHED bit to a list.
LEMMA PushPlaces ==
    ASSUME TaskletInv, NEW c \in Cpus, NEW x \in Contexts, PushTasklet(c, x)
    PROVE  PlaceInv' /\ NoRepeats'
<1>0. TypeOK /\ PlaceInv /\ NoRepeats
    BY DEF TaskletInv
<1>1. pushing \in [Cpus -> [Contexts -> Tasklets \cup {None}]]
    BY <1>0 DEF TypeOK
<1> PICK t \in Tasklets : t = pushing[c][x]
    BY <1>1 DEF PushTasklet
<1>2. /\ Queue(c, t) /\ pushing' = [pushing EXCEPT ![c][x] = None] /\ t # None
      /\ UNCHANGED <<list, pc, cur, sched, owner>>
    BY DEF PushTasklet, softirqVars, taskletVars
<1> PICK b \in {"HI", "TASKLET"} : b = SlotOf(t)
    BY DEF SlotOf
<1>3. /\ Waiting(c, b)' = Waiting(c, b) \cup {t}
      /\ \A d \in Cpus : \A s \in {"HI", "TASKLET"} :
             d # c \/ s # b => Waiting(d, s)' = Waiting(d, s)
      /\ t \notin Waiting(c, b) => NoRepeats'
    BY <1>0, <1>2, QueueSlots
<1>4. /\ pushing'[c][x] = None
      /\ \A d \in Cpus : \A y \in Contexts : d # c \/ y # x => pushing'[d][y] = pushing[d][y]
    BY <1>1, <1>2
<1>5. Waiting(c, x) = {t} /\ Waiting(c, x)' = {}
  <2>1. Waiting(c, x) = {pushing[c][x]} \ {None} /\ Waiting(c, x)' = {pushing'[c][x]} \ {None}
    BY DEF Waiting, Contexts
  <2> QED
    BY <1>2, <1>4, <2>1
<1>6. b \in Slots /\ x \in Slots /\ b # x
    BY DEF Slots, Contexts
<1>7. t \notin Waiting(c, b)
    BY <1>0, <1>5, <1>6 DEF PlaceInv
<1>8. ASSUME NEW d \in Cpus, NEW s \in Slots, d # c \/ (s # x /\ s # b)
      PROVE  Waiting(d, s)' = Waiting(d, s)
  <2>1. CASE s \in {"HI", "TASKLET"}
    BY <1>3, <1>8, <2>1
  <2>2. CASE s = "list"
    BY <1>2, <2>2, SameList
  <2>3. CASE s = "hand"
    BY <1>2, <2>3, SameHand DEF InHand
  <2>4. CASE s \in Contexts
    BY <1>4, <1>8, <2>4, SamePushing
  <2> QED
    BY <2>1, <2>2, <2>3, <2>4 DEF Slots
<1> PICK M : M = {t}
    OBVIOUS
<1>9. PlaceInv'
  <2>1. /\ M \subseteq Waiting(c, x)
        /\ Waiting(c, x)' = Waiting(c, x) \ M
        /\ Waiting(c, b)' = Waiting(c, b) \cup M
    BY <1>3, <1>5
  <2> QED
    BY <1>0, <1>2, <1>6, <1>8, <2>1, PlacesMoved
<1> QED
    BY <1>3, <1>7, <1>9

\* A context sets the SCHED bit of a tasklet.
LEMMA SetSchedPlaces ==
    ASSUME TaskletInv, NEW c \in Cpus, NEW x \in Contexts, NEW t \in Tasklets,
           SetSched(c, x, t), UNCHANGED <<vec, list, cur, owner>>,
           \A d \in Cpus : pc'[d] = pc[d] \/ (~InHand(d) /\ ~InHand(d)')
    PROVE  PlaceInv' /\ NoRepeats'
<1>0. TypeOK /\ PlaceInv /\ NoRepeats
    BY DEF TaskletInv
<1>1. /\ ~sched[t] /\ pushing[c][x] = None
      /\ sched' = [sched EXCEPT ![t] = TRUE]
      /\ pushing' = [pushing EXCEPT ![c][x] = t]
    BY DEF SetSched
<1>2. /\ pushing'[c][x] = t
      /\ \A d \in Cpus : \A y \in Contexts : d # c \/ y # x => pushing'[d][y] = pushing[d][y]
    BY <1>0, <1>1 DEF TypeOK
<1>3. Waiting(c, x)' = Waiting(c, x) \cup {t}
  <2>1. Waiting(c, x) = {pushing[c][x]} \ {None} /\ Waiting(c, x)' = {pushing'[c][x]} \ {None}
    BY DEF Waiting, Contexts
  <2> QED
    BY <1>1, <1>2, <2>1, SoftirqAssumption
<1>4. ASSUME NEW d \in Cpus, NEW s \in Slots, d # c \/ s # x
      PROVE  Waiting(d, s)' = Waiting(d, s)
  <2>1. CASE s \in {"HI", "TASKLET"}
    BY <2>1, SameVec
  <2>2. CASE s = "list"
    BY <2>2, SameList
  <2>3. CASE s = "hand"
    BY <2>3, SameHand DEF InHand
  <2>4. CASE s \in Contexts
    BY <1>2, <1>4, <2>4, SamePushing
  <2> QED
    BY <2>1, <2>2, <2>3, <2>4 DEF Slots
<1>5. x \in Slots
    BY DEF Slots
<1>6. PlaceInv'
    BY <1>0, <1>1, <1>3, <1>4, <1>5, PlacesAdded
<1> QED
    BY <1>0, <1>6 DEF NoRepeats

\* The SCHED bit is cleared when the tasklet's turn has come.
LEMMA ClearSchedPlaces ==
    ASSUME TaskletInv, NEW c \in Cpus, ClearSched(c)
    PROVE  PlaceInv' /\ NoRepeats'
<1>0. TypeOK /\ PlaceInv /\ NoRepeats /\ CurInv
    BY DEF TaskletInv
<1>1. pc \in [Cpus -> PCs] /\ cur \in [Cpus -> Tasklets \cup {None}]
    BY <1>0 DEF TypeOK
<1> PICK t \in Tasklets : t = cur[c]
    BY <1>0, <1>1 DEF CurInv, ClearSched, TaskletStep
<1>2. /\ sched' = [sched EXCEPT ![t] = FALSE]
      /\ pc[c] = "clear" /\ pc' = [pc EXCEPT ![c] = "func"]
      /\ UNCHANGED <<vec, list, cur, pushing, owner>>
    BY DEF ClearSched, TaskletStep, Goto, cpuVars
<1>3. Waiting(c, "hand") = {t} /\ Waiting(c, "hand")' = {}
    BY <1>1, <1>2 DEF Waiting, Contexts
<1>4. ASSUME NEW d \in Cpus, NEW s \in Slots, d # c \/ s # "hand"
      PROVE  Waiting(d, s)' = Waiting(d, s)
  <2>1. CASE s \in {"HI", "TASKLET"}
    BY <1>2, <2>1, SameVec
  <2>2. CASE s = "list"
    BY <1>2, <2>2, SameList
  <2>3. CASE s = "hand"
    <3>1. pc'[d] = pc[d] /\ cur'[d] = cur[d]
      BY <1>1, <1>2, <1>4, <2>3
    <3> QED
      BY <2>3, <3>1, SameHand DEF InHand
  <2>4. CASE s \in Contexts
    BY <1>2, <2>4, SamePushing
  <2> QED
    BY <2>1, <2>2, <2>3, <2>4 DEF Slots
<1> PICK a \in Slots : a = "hand"
    BY DEF Slots
<1>5. /\ t \in Waiting(c, a) /\ Waiting(c, a)' = Waiting(c, a) \ {t}
      /\ \A d \in Cpus : \A s \in Slots : d # c \/ s # a => Waiting(d, s)' = Waiting(d, s)
    BY <1>3, <1>4
<1>6. PlaceInv'
    BY <1>0, <1>2, <1>5, PlacesRemoved
<1> QED
    BY <1>0, <1>2, <1>6 DEF NoRepeats

\* Steps that move no tasklet.
LEMMA StillPlaces ==
    ASSUME TaskletInv, UNCHANGED <<vec, list, pushing, sched, owner>>,
           \A d \in Cpus : \/ pc'[d] = pc[d] /\ cur'[d] = cur[d]
                           \/ InHand(d) /\ InHand(d)' /\ cur'[d] = cur[d]
                           \/ ~InHand(d) /\ ~InHand(d)'
    PROVE  PlaceInv' /\ NoRepeats'
<1>0. PlaceInv /\ NoRepeats
    BY DEF TaskletInv
<1>1. ASSUME NEW d \in Cpus, NEW s \in Slots
      PROVE  Waiting(d, s)' = Waiting(d, s)
  <2>1. CASE s \in {"HI", "TASKLET"}
    BY <2>1, SameVec
  <2>2. CASE s = "list"
    BY <2>2, SameList
  <2>3. CASE s = "hand"
    BY <2>3, SameHand DEF InHand
  <2>4. CASE s \in Contexts
    BY <2>4, SamePushing
  <2> QED
    BY <2>1, <2>2, <2>3, <2>4 DEF Slots
<1>2. \A t \in Tasklets : (Queued(t)' <=> Queued(t)) /\ (Killing(t)' => sched'[t])
    BY <1>0 DEF Queued, Killing, PlaceInv
<1>3. PlaceInv'
    BY <1>0, <1>1, <1>2, PlacesKept
<1> QED
    BY <1>0, <1>3 DEF NoRepeats

\* The owner takes or gives back the SCHED bit of a tasklet that is nowhere.
LEMMA OwnerPlaces ==
    ASSUME TaskletInv, NEW t \in Tasklets,
           Owner(t) \/ Disable(t) \/ Kill(t) \/ tasklet_init(t)
    PROVE  PlaceInv' /\ NoRepeats'
<1>0. TypeOK /\ PlaceInv /\ NoRepeats /\ OwnerInv
    BY DEF TaskletInv
<1>1. UNCHANGED <<vec, list, pushing, pc, cur>>
    BY DEF Owner, DisableReturns, tasklet_enable, KillSetsSched, KillWaits, KillReturns,
           Disable, Kill, tasklet_init, OwnerUnchanged, cpuVars, softirqVars
<1>2. \A d \in Cpus : \A s \in Slots : Waiting(d, s)' = Waiting(d, s)
    BY <1>1, SameCpu
<1>3. \A u \in Tasklets \ {t} : owner'[u] = owner[u] /\ sched'[u] = sched[u]
    BY <1>0 DEF TypeOK, Owner, DisableReturns, tasklet_enable, KillSetsSched, KillWaits,
                KillReturns, Disable, Kill, tasklet_init, OwnerGoto, taskletVars
<1>4. (Queued(t)' <=> Queued(t)) /\ (Killing(t)' => sched'[t])
  <2>1. CASE DisableReturns(t) \/ tasklet_enable(t) \/ Disable(t) \/ Kill(t)
    BY <1>0, <2>1 DEF TypeOK, DisableReturns, tasklet_enable, Disable, Kill, OwnerGoto,
                      taskletVars, Queued, Killing
  <2>2. CASE KillSetsSched(t)
    BY <1>0, <2>2 DEF TypeOK, KillSetsSched, KillProceeds, OwnerGoto, Queued, Killing
  <2>3. CASE KillWaits(t)
    BY <1>0, <2>3 DEF TypeOK, PlaceInv, KillWaits, OwnerGoto, taskletVars, Queued, Killing
  <2>4. CASE KillReturns(t)
    BY <1>0, <2>4 DEF TypeOK, KillReturns, OwnerGoto, Queued, Killing
  <2>5. CASE tasklet_init(t)
    BY <1>0, <2>5 DEF TypeOK, OwnerInv, tasklet_init, OwnerGoto, Queued, Killing
  <2> QED
    BY <2>1, <2>2, <2>3, <2>4, <2>5 DEF Owner
<1>5. \A u \in Tasklets : (Queued(u)' <=> Queued(u)) /\ (Killing(u)' => sched'[u])
    BY <1>0, <1>3, <1>4 DEF PlaceInv, Queued, Killing
<1>6. PlaceInv'
    BY <1>0, <1>2, <1>5, PlacesKept
<1> QED
    BY <1>0, <1>1, <1>6 DEF NoRepeats

-----------------------------------------------------------------------------
(***************************************************************************)
(* The RUN bit, the owners and global_bh_lock.                             *)
(***************************************************************************)
LocalInv == RunBitInv /\ CurInv /\ ListInv /\ OwnerInv /\ BhLockInv

\* The steps after which c does something else with the same tasklet.
Moves ==
    {<<"off", "pass">>, <<"pass", "pass">>, <<"pass", "off">>, <<"next", "pass">>,
     <<"count", "clear">>, <<"count", "disabled">>, <<"func", "return">>,
     <<"func", "bh_locked">>, <<"func", "mark_bh">>, <<"bh_locked", "routine">>,
     <<"bh_locked", "mark_bh">>, <<"routine", "return">>, <<"mark_bh", "return">>}

\* They keep the invariant, if the count was found to be 0, the list was empty
\* and global_bh_lock was taken where that matters.
LEMMA MoveLocal ==
    ASSUME TaskletInv, NEW c \in Cpus, NEW l, <<pc[c], l>> \in Moves,
           pc' = [pc EXCEPT ![c] = l],
           UNCHANGED <<list, cur, run, count, owner>>,
           \A t \in Tasklets : sched'[t] => sched[t] \/ owner[t] # "dead",
           l = "clear" => count[cur[c]] = 0,
           l = "pass" => list[c] = <<>>,
           l \in {"bh_locked", "routine"} => global_bh_lock' = c,
           \/ global_bh_lock' = global_bh_lock
           \/ global_bh_lock = None
           \/ pc[c] \in {"bh_locked", "routine"}
    PROVE  LocalInv'
<1>0. TypeOK /\ RunBitInv /\ CurInv /\ ListInv /\ OwnerInv /\ BhLockInv
    BY DEF TaskletInv
<1>1. /\ pc'[c] = l /\ \A d \in Cpus \ {c} : pc'[d] = pc[d]
      /\ pc[c] \in PCs
    BY <1>0 DEF TypeOK
<1>2. \/ pc[c] \in {"off", "pass", "next"} /\ l \in {"off", "pass"}
      \/ pc[c] = "count" /\ l \in {"clear", "disabled"}
      \/ /\ pc[c] \in {"func", "bh_locked", "routine", "mark_bh"}
         /\ l \in {"return", "bh_locked", "mark_bh", "routine"}
    BY DEF Moves
<1>3. l = "off" => list[c] = <<>>
    BY <1>0, <1>1 DEF Moves, ListInv
<1>4. RunBitInv'
  <2>1. \A d \in Cpus : \A t \in Tasklets : HasRunBit(d, t)' => HasRunBit(d, t)
    BY <1>1, <1>2 DEF HasRunBit
  <2> QED
    BY <1>0, <2>1 DEF RunBitInv
<1>5. CurInv'
    BY <1>0, <1>1, <1>2 DEF CurInv
<1>6. ListInv'
    BY <1>0, <1>1, <1>2, <1>3 DEF ListInv
<1>7. BhLockInv'
  <2> SUFFICES ASSUME NEW d \in Cpus, pc'[d] \in {"bh_locked", "routine"}
               PROVE  global_bh_lock' = d
    BY DEF BhLockInv
  <2>1. CASE d = c
    BY <1>1, <2>1
  <2>2. CASE d # c
    BY <1>0, <1>1, <2>2, SoftirqAssumption DEF BhLockInv
  <2> QED
    BY <2>1, <2>2
<1>8. OwnerInv'
  <2> SUFFICES ASSUME NEW t \in Tasklets
               PROVE  /\ count[t] = IF owner[t] \in {"disabling", "disabled", "nosync"}
                                    THEN 1 ELSE 0
                      /\ owner[t] = "disabled" =>
                            \A d \in Cpus : /\ ~(cur[d] = t /\ pc'[d] = "clear")
                                            /\ ~InFunc(d, t)'
                      /\ owner[t] \in {"kill_clear", "dead"} => \A d \in Cpus : cur[d] # t
                      /\ owner[t] = "dead" => ~sched'[t]
    BY DEF OwnerInv
  <2>1. ASSUME owner[t] = "disabled", NEW d \in Cpus
        PROVE  ~(cur[d] = t /\ pc'[d] = "clear") /\ ~InFunc(d, t)'
    <3>1. count[t] = 1
      BY <1>0, <2>1 DEF OwnerInv
    <3>2. /\ ~(cur[d] = t /\ pc[d] = "clear") /\ ~InFunc(d, t)
      BY <1>0, <2>1 DEF OwnerInv
    <3>3. CASE d # c
      BY <1>1, <3>2, <3>3 DEF InFunc
    <3>4. CASE d = c
      BY <1>1, <1>2, <3>1, <3>2, <3>4 DEF InFunc
    <3> QED
      BY <3>3, <3>4
  <2> QED
    BY <1>0, <2>1 DEF OwnerInv
<1> QED
    BY <1>4, <1>5, <1>6, <1>7, <1>8 DEF LocalInv

\* Steps that leave all of this alone.
LEMMA SameLocal ==
    ASSUME TaskletInv, UNCHANGED <<pc, list, cur, run, count, owner, global_bh_lock>>,
           \A t \in Tasklets : sched'[t] => sched[t] \/ owner[t] # "dead"
    PROVE  LocalInv'
    BY DEF TaskletInv, LocalInv, RunBitInv, HasRunBit, CurInv, ListInv, OwnerInv, InFunc,
           BhLockInv

\* tasklet_action takes a list, or the tasklet goes back to one.
LEMMA RunActionLocal ==
    ASSUME TaskletInv, NEW c \in Cpus, RunAction(c)
    PROVE  LocalInv'
<1>0. TypeOK /\ RunBitInv /\ CurInv /\ ListInv /\ OwnerInv /\ BhLockInv
    BY DEF TaskletInv
<1>1. /\ pc[c] = "pass" /\ pc' = [pc EXCEPT ![c] = "next"]
      /\ \A d \in Cpus \ {c} : list'[d] = list[d]
      /\ UNCHANGED <<cur, sched, run, count, owner, global_bh_lock>>
    BY <1>0 DEF RunAction, Goto, taskletVars, TypeOK
<1>2. pc'[c] = "next" /\ \A d \in Cpus \ {c} : pc'[d] = pc[d]
    BY <1>0, <1>1 DEF TypeOK
<1>3. \A d \in Cpus : \A t : /\ HasRunBit(d, t)' <=> HasRunBit(d, t)
                             /\ InFunc(d, t)' <=> InFunc(d, t)
    BY <1>1, <1>2 DEF HasRunBit, InFunc
<1>4. \A d \in Cpus : pc'[d] = "clear" <=> pc[d] = "clear"
    BY <1>1, <1>2
<1>5. RunBitInv' /\ OwnerInv'
    BY <1>0, <1>1, <1>3, <1>4 DEF RunBitInv, OwnerInv
<1>6. CurInv' /\ ListInv' /\ BhLockInv'
    BY <1>0, <1>1, <1>2 DEF CurInv, ListInv, BhLockInv
<1> QED
    BY <1>5, <1>6 DEF LocalInv

LEMMA RequeueLocal ==
    ASSUME TaskletInv, NEW c \in Cpus, Requeue(c)
    PROVE  LocalInv'
<1>0. TypeOK /\ RunBitInv /\ CurInv /\ ListInv /\ OwnerInv /\ BhLockInv
    BY DEF TaskletInv
<1>1. /\ pc[c] = "requeue" /\ pc' = [pc EXCEPT ![c] = "next"]
      /\ cur' = [cur EXCEPT ![c] = None]
      /\ UNCHANGED <<list, sched, run, count, owner, global_bh_lock>>
    BY DEF Requeue, TaskletStep, Goto, taskletVars
<1>2. /\ pc'[c] = "next" /\ \A d \in Cpus \ {c} : pc'[d] = pc[d]
      /\ cur'[c] = None /\ \A d \in Cpus \ {c} : cur'[d] = cur[d]
    BY <1>0, <1>1 DEF TypeOK
<1>3. \A d \in Cpus : \A t \in Tasklets :
          /\ HasRunBit(d, t)' <=> HasRunBit(d, t)
          /\ InFunc(d, t)' <=> InFunc(d, t)
          /\ cur'[d] = t => cur[d] = t /\ pc'[d] = pc[d]
    BY <1>1, <1>2, SoftirqAssumption DEF HasRunBit, InFunc
<1>5. RunBitInv' /\ OwnerInv'
    BY <1>0, <1>1, <1>3 DEF RunBitInv, OwnerInv
<1>6. CurInv' /\ ListInv' /\ BhLockInv'
    BY <1>0, <1>1, <1>2 DEF CurInv, ListInv, BhLockInv
<1> QED
    BY <1>5, <1>6 DEF LocalInv

\* tasklet_trylock: the RUN bit was clear, so nobody else has it; the tasklet comes
\* from a list, so its owner has not killed it.
LEMMA TrylockLocal ==
    ASSUME TaskletInv, NEW c \in Cpus, Trylock(c)
    PROVE  LocalInv'
<1>0. /\ TypeOK /\ PlaceInv
      /\ RunBitInv /\ CurInv /\ ListInv /\ OwnerInv /\ BhLockInv
    BY DEF TaskletInv
<1>1. list[c] \in Seq(Tasklets) /\ list[c] # <<>>
    BY <1>0 DEF TypeOK, Trylock
<1> PICK t \in Tasklets : t = Head(list[c])
    BY <1>1
<1>2. /\ pc[c] = "next" /\ pc' = [pc EXCEPT ![c] = IF ~run[t] THEN "count" ELSE "requeue"]
      /\ cur' = [cur EXCEPT ![c] = t]
      /\ run' = [run EXCEPT ![t] = TRUE]
      /\ list' = [list EXCEPT ![c] = Tail(@)]
      /\ UNCHANGED <<sched, count, owner, global_bh_lock>>
    BY DEF Trylock, TaskletStep, tasklet_trylock, Goto
<1>3. /\ pc'[c] = (IF ~run[t] THEN "count" ELSE "requeue")
      /\ \A d \in Cpus \ {c} : pc'[d] = pc[d] /\ cur'[d] = cur[d] /\ list'[d] = list[d]
      /\ cur'[c] = t
      /\ run'[t] /\ \A u \in Tasklets \ {t} : run'[u] = run[u]
    BY <1>0, <1>2 DEF TypeOK
<1>4. t \in Waiting(c, "list")
  <2>1. Head(list[c]) \in Range(list[c])
    BY <1>1, TailElements
  <2> QED
    BY <2>1 DEF Waiting, Contexts
<1>5. Queued(t) /\ "list" \in Slots
    BY <1>0, <1>4 DEF PlaceInv, Slots
<1>6. owner[t] \notin {"kill_clear", "dead"}
    BY <1>0, <1>5 DEF Queued, Killing, OwnerInv
<1>7. RunBitInv'
  <2> SUFFICES ASSUME NEW u \in Tasklets, NEW d \in Cpus, HasRunBit(d, u)'
               PROVE  run'[u] /\ \A e \in Cpus : HasRunBit(e, u)' => d = e
    BY DEF RunBitInv
  <2>1. \A e \in Cpus \ {c} : HasRunBit(e, u)' <=> HasRunBit(e, u)
    BY <1>3 DEF HasRunBit
  <2>2. HasRunBit(c, u)' <=> u = t /\ ~run[t]
    BY <1>3 DEF HasRunBit
  <2>3. CASE d = c
    BY <1>0, <1>3, <2>1, <2>2, <2>3 DEF RunBitInv
  <2>4. CASE d # c
    BY <1>0, <1>3, <2>1, <2>2, <2>4 DEF RunBitInv
  <2> QED
    BY <2>3, <2>4
<1>8. OwnerInv'
  <2>1. \A d \in Cpus : \A u \in Tasklets :
            /\ InFunc(d, u)' => InFunc(d, u)
            /\ (cur'[d] = u /\ pc'[d] = "clear") => (cur[d] = u /\ pc[d] = "clear")
            /\ cur'[d] = u => cur[d] = u \/ u = t
    BY <1>3 DEF InFunc
  <2> QED
    BY <1>0, <1>2, <1>6, <2>1 DEF OwnerInv
<1>9. CurInv' /\ ListInv' /\ BhLockInv'
    BY <1>0, <1>2, <1>3, SoftirqAssumption DEF CurInv, ListInv, BhLockInv
<1> QED
    BY <1>7, <1>8, <1>9 DEF LocalInv

\* The function starts: its owner has not disabled it.
LEMMA ClearSchedLocal ==
    ASSUME TaskletInv, NEW c \in Cpus, ClearSched(c)
    PROVE  LocalInv'
<1>0. TypeOK /\ RunBitInv /\ CurInv /\ ListInv /\ OwnerInv /\ BhLockInv
    BY DEF TaskletInv
<1> PICK t \in Tasklets : t = cur[c]
    BY <1>0 DEF CurInv, ClearSched, TaskletStep, TypeOK
<1>1. /\ pc[c] = "clear" /\ pc' = [pc EXCEPT ![c] = "func"]
      /\ sched' = [sched EXCEPT ![t] = FALSE]
      /\ UNCHANGED <<cur, list, run, count, owner, global_bh_lock>>
    BY DEF ClearSched, TaskletStep, Goto
<1>2. /\ pc'[c] = "func" /\ \A d \in Cpus \ {c} : pc'[d] = pc[d]
      /\ \A u \in Tasklets : sched'[u] => sched[u]
    BY <1>0, <1>1 DEF TypeOK
<1>3. RunBitInv'
  <2>1. \A d \in Cpus : \A u : HasRunBit(d, u)' <=> HasRunBit(d, u)
    BY <1>1, <1>2 DEF HasRunBit
  <2> QED
    BY <1>0, <1>1, <2>1 DEF RunBitInv
<1>4. OwnerInv'
  <2>1. \A d \in Cpus : \A u \in Tasklets :
            /\ InFunc(d, u)' => InFunc(d, u) \/ (cur[d] = u /\ pc[d] = "clear")
            /\ pc'[d] = "clear" => pc[d] = "clear"
    BY <1>1, <1>2 DEF InFunc
  <2> QED
    BY <1>0, <1>1, <1>2, <2>1 DEF OwnerInv
<1>5. CurInv' /\ ListInv' /\ BhLockInv'
    BY <1>0, <1>1, <1>2 DEF CurInv, ListInv, BhLockInv
<1> QED
    BY <1>3, <1>4, <1>5 DEF LocalInv

\* tasklet_unlock: nobody else had the RUN bit.
LEMMA UnlockLocal ==
    ASSUME TaskletInv, NEW c \in Cpus, UnlockDisabled(c) \/ Return(c)
    PROVE  LocalInv'
<1>0. TypeOK /\ RunBitInv /\ CurInv /\ ListInv /\ OwnerInv /\ BhLockInv
    BY DEF TaskletInv
<1> PICK t \in Tasklets : t = cur[c]
    BY <1>0 DEF CurInv, UnlockDisabled, Return, TaskletStep, TypeOK
<1>1. /\ run' = [run EXCEPT ![t] = FALSE]
      /\ UNCHANGED <<list, sched, count, owner, global_bh_lock>>
      /\ \/ /\ pc[c] = "disabled" /\ pc' = [pc EXCEPT ![c] = "requeue"] /\ cur' = cur
         \/ /\ pc[c] = "return" /\ pc' = [pc EXCEPT ![c] = "next"]
            /\ cur' = [cur EXCEPT ![c] = None]
    BY DEF UnlockDisabled, Return, TaskletStep, Goto
<1>2. /\ \/ pc[c] = "disabled" /\ pc'[c] = "requeue" /\ cur'[c] = t
         \/ pc[c] = "return" /\ pc'[c] = "next" /\ cur'[c] = None
      /\ \A d \in Cpus \ {c} : pc'[d] = pc[d] /\ cur'[d] = cur[d]
      /\ \A u \in Tasklets \ {t} : run'[u] = run[u]
    BY <1>0, <1>1 DEF TypeOK
<1>3. HasRunBit(c, t)
    BY <1>2 DEF HasRunBit
<1>4. RunBitInv'
  <2>1. \A d \in Cpus : \A u \in Tasklets :
            HasRunBit(d, u)' => HasRunBit(d, u) /\ d # c
    BY <1>2 DEF HasRunBit
  <2>2. \A d \in Cpus : ~HasRunBit(d, t)'
    BY <1>0, <1>3, <2>1 DEF RunBitInv
  <2> QED
    BY <1>0, <1>2, <2>1, <2>2 DEF RunBitInv
<1>5. OwnerInv'
  <2>1. \A d \in Cpus : \A u \in Tasklets :
            /\ InFunc(d, u)' => InFunc(d, u)
            /\ (cur'[d] = u /\ pc'[d] = "clear") => (cur[d] = u /\ pc[d] = "clear")
            /\ cur'[d] = u => cur[d] = u
    BY <1>2, SoftirqAssumption DEF InFunc
  <2> QED
    BY <1>0, <1>1, <2>1 DEF OwnerInv
<1>6. CurInv' /\ ListInv' /\ BhLockInv'
    BY <1>0, <1>1, <1>2, SoftirqAssumption DEF CurInv, ListInv, BhLockInv
<1> QED
    BY <1>4, <1>5, <1>6 DEF LocalInv

\* The owner's calls return when the RUN bit is clear and stay right after that.
LEMMA OwnerLocal ==
    ASSUME TaskletInv, NEW t \in Tasklets,
           Owner(t) \/ Disable(t) \/ Kill(t) \/ tasklet_init(t)
    PROVE  LocalInv'
<1>0. /\ TypeOK /\ PlaceInv
      /\ RunBitInv /\ CurInv /\ ListInv /\ OwnerInv /\ BhLockInv
    BY DEF TaskletInv
<1>1. UNCHANGED <<list, pc, cur, global_bh_lock>>
    BY DEF Owner, DisableReturns, tasklet_enable, KillSetsSched, KillWaits, KillReturns,
           Disable, Kill, tasklet_init, OwnerUnchanged, softirqVars
<1>2. /\ \A u \in Tasklets \ {t} : /\ owner'[u] = owner[u] /\ sched'[u] = sched[u]
                                   /\ count'[u] = count[u]
      /\ run' = run \/ (owner[t] = "dead" /\ run' = [run EXCEPT ![t] = FALSE])
    BY <1>0 DEF TypeOK, Owner, DisableReturns, tasklet_enable, KillSetsSched, KillWaits,
                KillReturns, Disable, Kill, tasklet_init, OwnerGoto, taskletVars
<1>3. CurInv' /\ ListInv' /\ BhLockInv'
    BY <1>0, <1>1 DEF CurInv, ListInv, BhLockInv
<1>4. \A d \in Cpus : \A u : /\ HasRunBit(d, u)' <=> HasRunBit(d, u)
                             /\ InFunc(d, u)' <=> InFunc(d, u)
    BY <1>1 DEF HasRunBit, InFunc
<1>5. RunBitInv'
  <2>1. CASE run' = run
    BY <1>0, <1>4, <2>1 DEF RunBitInv
  <2>2. CASE owner[t] = "dead" /\ run' = [run EXCEPT ![t] = FALSE]
    <3>1. \A u \in Tasklets \ {t} : run'[u] = run[u]
      BY <1>0, <2>2 DEF TypeOK
    <3>2. \A d \in Cpus : ~HasRunBit(d, t)
      BY <1>0, <2>2 DEF OwnerInv, HasRunBit
    <3> QED
      BY <1>0, <1>4, <3>1, <3>2 DEF RunBitInv
  <2> QED
    BY <1>2, <2>1, <2>2
<1>6. /\ count'[t] = IF owner'[t] \in {"disabling", "disabled", "nosync"} THEN 1 ELSE 0
      /\ owner'[t] = "disabled" =>
            \A c \in Cpus : ~(cur[c] = t /\ pc[c] = "clear") /\ ~InFunc(c, t)
      /\ owner'[t] \in {"kill_clear", "dead"} => \A c \in Cpus : cur[c] # t
      /\ owner'[t] = "dead" => ~sched'[t]
  <2>0. owner \in [Tasklets -> Owners] /\ count \in [Tasklets -> 0..1]
        /\ sched \in [Tasklets -> BOOLEAN]
    BY <1>0 DEF TypeOK
  <2>1. CASE Disable(t)
    <3>1. count[t] = 0 /\ count'[t] = 1 /\ owner'[t] \in {"disabling", "nosync"}
      BY <1>0, <2>0, <2>1 DEF Disable, OwnerGoto, OwnerInv
    <3> QED
      BY <3>1
  <2>2. CASE tasklet_enable(t)
    <3>1. count[t] = 1 /\ count'[t] = 0 /\ owner'[t] = "open"
      BY <1>0, <2>0, <2>2 DEF tasklet_enable, OwnerGoto, OwnerInv
    <3> QED
      BY <3>1
  <2>3. CASE DisableReturns(t)
    <3>1. /\ owner[t] = "disabling" /\ owner'[t] = "disabled" /\ count'[t] = count[t]
          /\ ~run[t]
      BY <2>0, <2>3 DEF DisableReturns, OwnerGoto, tasklet_unlock_wait, taskletVars
    <3>2. \A c \in Cpus : ~HasRunBit(c, t)
      BY <1>0, <3>1 DEF RunBitInv
    <3> QED
      BY <1>0, <3>1, <3>2 DEF OwnerInv, HasRunBit, InFunc
  <2>4. CASE Kill(t) \/ KillSetsSched(t)
    <3>1. /\ owner[t] \in {"open", "kill"} /\ owner'[t] \in {"kill", "kill_wait"}
          /\ count'[t] = count[t]
      BY <2>0, <2>4 DEF Kill, KillSetsSched, OwnerGoto, taskletVars
    <3> QED
      BY <1>0, <3>1 DEF OwnerInv
  <2>5. CASE KillWaits(t)
    <3>1. /\ owner[t] = "kill_wait" /\ owner'[t] = "kill_clear" /\ count'[t] = count[t]
          /\ ~run[t]
      BY <2>0, <2>5 DEF KillWaits, OwnerGoto, tasklet_unlock_wait, taskletVars
    <3>2. \A c \in Cpus : ~HasRunBit(c, t)
      BY <1>0, <3>1 DEF RunBitInv
    <3>3. ASSUME NEW c \in Cpus, cur[c] = t
          PROVE  FALSE
      <4>1. pc[c] \in PCs /\ pc[c] \notin {"off", "pass", "next"}
        BY <1>0, <3>3, SoftirqAssumption DEF TypeOK, CurInv
      <4>2. pc[c] = "requeue"
        BY <3>2, <3>3, <4>1 DEF HasRunBit, PCs
      <4>3. t \in Waiting(c, "hand") /\ "hand" \in Slots
        BY <3>3, <4>2 DEF Waiting, Slots, Contexts
      <4> QED
        BY <1>0, <3>1, <4>3 DEF PlaceInv, Queued, Killing
    <3> QED
      BY <1>0, <3>1, <3>3 DEF OwnerInv
  <2>6. CASE KillReturns(t)
    <3>1. /\ owner[t] = "kill_clear" /\ owner'[t] = "dead" /\ count'[t] = count[t]
          /\ ~sched'[t]
      BY <2>0, <2>6 DEF KillReturns, OwnerGoto
    <3> QED
      BY <1>0, <3>1 DEF OwnerInv
  <2>7. CASE tasklet_init(t)
    <3>1. owner'[t] = "open" /\ count'[t] = 0
      BY <2>0, <2>7 DEF tasklet_init, OwnerGoto
    <3> QED
      BY <3>1
  <2> QED
    BY <2>1, <2>2, <2>3, <2>4, <2>5, <2>6, <2>7 DEF Owner
<1>7. OwnerInv'
    BY <1>0, <1>1, <1>2, <1>4, <1>6 DEF OwnerInv
<1> QED
    BY <1>3, <1>5, <1>7 DEF LocalInv

-----------------------------------------------------------------------------
(***************************************************************************)
(* The steps, one by one.                                                  *)
(***************************************************************************)
StepInv == PlaceInv /\ NoRepeats /\ LocalInv

\* c moves on and nothing else that the invariant is about changes.
LEMMA MoveStep ==
    ASSUME TaskletInv, NEW c \in Cpus, NEW l, <<pc[c], l>> \in Moves,
           pc' = [pc EXCEPT ![c] = l],
           UNCHANGED <<vec, list, pushing, cur, sched, run, count, owner>>,
           l = "clear" => count[cur[c]] = 0,
           l = "pass" => list[c] = <<>>,
           l \in {"bh_locked", "routine"} => global_bh_lock' = c,
           \/ global_bh_lock' = global_bh_lock
           \/ global_bh_lock = None
           \/ pc[c] \in {"bh_locked", "routine"}
    PROVE  StepInv'
<1>1. LocalInv'
    BY MoveLocal
<1>2. pc \in [Cpus -> PCs]
    BY DEF TaskletInv, TypeOK
<1>3. InHand(c)' <=> InHand(c)
    BY <1>2 DEF Moves, InHand
<1>4. \A d \in Cpus \ {c} : pc'[d] = pc[d]
    BY <1>2
<1>5. PlaceInv' /\ NoRepeats'
    BY <1>3, <1>4, StillPlaces
<1> QED
    BY <1>1, <1>5 DEF StepInv

\* Nothing that the invariant is about changes.
LEMMA SameStep ==
    ASSUME TaskletInv,
           UNCHANGED <<vec, list, pushing, pc, cur, sched, run, count, owner, global_bh_lock>>
    PROVE  StepInv'
<1>1. LocalInv'
    BY SameLocal
<1>2. PlaceInv' /\ NoRepeats'
    BY StillPlaces
<1> QED
    BY <1>1, <1>2 DEF StepInv

\* do_softirq is entered, or not.
LEMMA EnterStep ==
    ASSUME TaskletInv, NEW c \in Cpus, pc[c] = "off" \/ UNCHANGED <<pending, softirqVars>>,
           EnterSoftirq(c, pending[c]) \/ UNCHANGED <<pending, softirqVars>>,
           UNCHANGED <<vec, pushing, taskletVars, owner, global_bh_lock>>
    PROVE  StepInv'
<1>1. CASE UNCHANGED <<pending, softirqVars>>
    BY <1>1, SameStep DEF softirqVars, taskletVars
<1>2. CASE pc[c] = "off" /\ EnterSoftirq(c, pending[c])
  <2>1. list[c] = <<>>
    BY <1>2 DEF TaskletInv, ListInv
  <2>2. pc' = [pc EXCEPT ![c] = "pass"] /\ list' = list /\ cur' = cur
    BY <1>2 DEF EnterSoftirq, Goto
  <2>3. <<pc[c], "pass">> \in Moves
    BY <1>2 DEF Moves
  <2> QED
    BY <2>1, <2>2, <2>3, MoveStep DEF taskletVars
<1> QED
    BY <1>1, <1>2

\* The end of a pass.
LEMMA EndPassStep ==
    ASSUME TaskletInv, NEW c \in Cpus, EndPass(c)
    PROVE  StepInv'
<1>1. /\ pc[c] = "pass" /\ UNCHANGED <<vec, list, pushing, cur, sched, run, count, owner>>
      /\ global_bh_lock' = global_bh_lock
      /\ pc' = pc \/ pc' = [pc EXCEPT ![c] = "off"]
    BY DEF EndPass, Goto, taskletVars
<1>2. CASE pc' = pc
    BY <1>1, <1>2, SameStep
<1>3. CASE pc' = [pc EXCEPT ![c] = "off"]
  <2>1. <<pc[c], "off">> \in Moves
    BY <1>1 DEF Moves
  <2> QED
    BY <1>1, <1>3, <2>1, MoveStep
<1> QED
    BY <1>1, <1>2, <1>3

\* The other moves.
LEMMA QuietStep ==
    ASSUME TaskletInv, NEW c \in Cpus,
           \/ ListEnd(c) \/ ReadCount(c) \/ FuncEnd(c)
           \/ BhAction(c) \/ HardirqTrylock(c) \/ RoutineEnd(c)
    PROVE  StepInv'
<1>0. TypeOK /\ CurInv /\ BhLockInv
    BY DEF TaskletInv
<1>1. UNCHANGED <<vec, list, pushing, cur, sched, run, count, owner>>
    BY DEF ListEnd, ReadCount, FuncEnd, BhAction, HardirqTrylock, RoutineEnd, cpuVars,
           taskletVars
<1> DEFINE Ok(l) == /\ pc' = [pc EXCEPT ![c] = l]
                    /\ l = "clear" => count[cur[c]] = 0
                    /\ l = "pass" => list[c] = <<>>
                    /\ l \in {"bh_locked", "routine"} => global_bh_lock' = c
                    /\ \/ global_bh_lock' = global_bh_lock
                       \/ global_bh_lock = None
                       \/ pc[c] \in {"bh_locked", "routine"}
<1>2. CASE ListEnd(c)
  <2>1. pc[c] = "next" /\ Ok("pass")
    BY <1>2 DEF ListEnd, TaskletStep, Goto
  <2>2. <<pc[c], "pass">> \in Moves
    BY <2>1 DEF Moves
  <2> QED
    BY <1>1, <2>1, <2>2, MoveStep
<1>3. CASE ReadCount(c)
  <2>1. pc[c] = "count" /\ \E l \in {"clear", "disabled"} : Ok(l)
    BY <1>3 DEF ReadCount, TaskletStep, Goto
  <2>2. PICK l \in {"clear", "disabled"} : Ok(l)
    BY <2>1
  <2>3. <<pc[c], l>> \in Moves
    BY <2>1 DEF Moves
  <2> QED
    BY <1>1, <2>2, <2>3, MoveStep
<1>4. CASE FuncEnd(c)
  <2>1. pc[c] = "func" /\ Ok("return")
    BY <1>4 DEF FuncEnd, TaskletStep, Goto
  <2>2. <<pc[c], "return">> \in Moves
    BY <2>1 DEF Moves
  <2> QED
    BY <1>1, <2>1, <2>2, MoveStep
<1>5. CASE BhAction(c)
  <2>1. pc[c] = "func" /\ \E l \in {"bh_locked", "mark_bh"} : Ok(l)
    BY <1>5 DEF BhAction, BhTrylock, TaskletStep, Goto
  <2>2. PICK l \in {"bh_locked", "mark_bh"} : Ok(l)
    BY <2>1
  <2>3. <<pc[c], l>> \in Moves
    BY <2>1 DEF Moves
  <2> QED
    BY <1>1, <2>2, <2>3, MoveStep
<1>6. CASE HardirqTrylock(c)
  <2>1. pc[c] = "bh_locked" /\ \E l \in {"routine", "mark_bh"} : Ok(l)
    BY <1>0, <1>6 DEF HardirqTrylock, TaskletStep, Goto, BhLockInv
  <2>2. PICK l \in {"routine", "mark_bh"} : Ok(l)
    BY <2>1
  <2>3. <<pc[c], l>> \in Moves
    BY <2>1 DEF Moves
  <2> QED
    BY <1>1, <2>2, <2>3, MoveStep
<1>7. CASE RoutineEnd(c)
  <2>1. pc[c] = "routine" /\ Ok("return")
    BY <1>7 DEF RoutineEnd, TaskletStep, Goto
  <2>2. <<pc[c], "return">> \in Moves
    BY <2>1 DEF Moves
  <2> QED
    BY <1>1, <2>1, <2>2, MoveStep
<1> QED
    BY <1>2, <1>3, <1>4, <1>5, <1>6, <1>7

\* tasklet_unlock.
LEMMA UnlockStep ==
    ASSUME TaskletInv, NEW c \in Cpus, UnlockDisabled(c) \/ Return(c)
    PROVE  StepInv'
<1>0. pc \in [Cpus -> PCs] /\ cur \in [Cpus -> Tasklets \cup {None}]
    BY DEF TaskletInv, TypeOK
<1>1. /\ \/ InHand(c) /\ InHand(c)' /\ cur'[c] = cur[c]
         \/ ~InHand(c) /\ ~InHand(c)'
      /\ \A d \in Cpus \ {c} : pc'[d] = pc[d] /\ cur'[d] = cur[d]
      /\ UNCHANGED <<vec, list, pushing, sched, owner>>
    BY <1>0 DEF UnlockDisabled, Return, TaskletStep, Goto, InHand, cpuVars
<1>2. PlaceInv' /\ NoRepeats'
    BY <1>1, StillPlaces
<1> QED
    BY <1>2, UnlockLocal DEF StepInv

\* A tasklet is scheduled, from any context.
LEMMA ScheduleStep ==
    ASSUME TaskletInv, NEW c \in Cpus, NEW t \in Tasklets, ScheduleTasklet(c, t)
    PROVE  StepInv'
<1>0. pc \in [Cpus -> PCs] /\ sched \in [Tasklets -> BOOLEAN]
    BY DEF TaskletInv, TypeOK
<1>1. PICK x \in Contexts : SetSched(c, x, t)
    BY DEF ScheduleTasklet, Interrupt, TaskSchedule, FuncSchedule, Contexts
<1>2. /\ UNCHANGED <<vec, list, cur, run, count, owner, global_bh_lock>>
      /\ \/ pc' = pc
         \/ pc[c] = "func" /\ pc' = [pc EXCEPT ![c] = "return"]
    BY DEF ScheduleTasklet, Interrupt, TaskSchedule, FuncSchedule, SetSched, TaskletStep,
           Goto, cpuVars, softirqVars
<1>3. \A d \in Cpus : pc'[d] = pc[d] \/ (~InHand(d) /\ ~InHand(d)')
    BY <1>0, <1>2 DEF InHand
<1>4. PlaceInv' /\ NoRepeats'
    BY <1>1, <1>2, <1>3, SetSchedPlaces
<1>5. \A u \in Tasklets : sched'[u] => sched[u] \/ owner[u] # "dead"
    BY <1>0, <1>1 DEF SetSched
<1>6. LocalInv'
  <2>1. CASE pc' = pc
    BY <1>2, <1>5, <2>1, SameLocal
  <2>2. CASE pc[c] = "func" /\ pc' = [pc EXCEPT ![c] = "return"]
    <3>1. <<pc[c], "return">> \in Moves
      BY <2>2 DEF Moves
    <3> QED
      BY <1>2, <1>5, <2>2, <3>1, MoveLocal
  <2> QED
    BY <1>2, <2>1, <2>2
<1> QED
    BY <1>4, <1>6 DEF StepInv

\* A BH schedules itself again.
LEMMA MarkBhStep ==
    ASSUME TaskletInv, NEW c \in Cpus, MarkBh(c)
    PROVE  StepInv'
<1>0. /\ pc \in [Cpus -> PCs] /\ sched \in [Tasklets -> BOOLEAN]
      /\ cur \in [Cpus -> Tasklets \cup {None}] /\ CurInv
    BY DEF TaskletInv, TypeOK
<1> PICK t \in Tasklets : t = cur[c]
    BY <1>0 DEF CurInv, MarkBh, TaskletStep
<1>1. /\ UNCHANGED <<vec, list, cur, run, count, owner, global_bh_lock>>
      /\ pc[c] = "mark_bh" /\ pc' = [pc EXCEPT ![c] = "return"]
      /\ SetSched(c, "softirq", t) \/ UNCHANGED <<sched, pushing>>
    BY DEF MarkBh, SetSched, TaskletStep, Goto, cpuVars, taskletVars
<1>2. <<pc[c], "return">> \in Moves /\ "softirq" \in Contexts
    BY <1>1 DEF Moves, Contexts
<1>3. CASE UNCHANGED <<sched, pushing>>
    BY <1>1, <1>2, <1>3, MoveStep
<1>4. CASE SetSched(c, "softirq", t)
  <2>1. \A u \in Tasklets : sched'[u] => sched[u] \/ owner[u] # "dead"
    BY <1>0, <1>4 DEF SetSched
  <2>2. \A d \in Cpus : pc'[d] = pc[d] \/ (~InHand(d) /\ ~InHand(d)')
    BY <1>0, <1>1 DEF InHand
  <2>3. PlaceInv' /\ NoRepeats'
    BY <1>1, <1>2, <1>4, <2>2, SetSchedPlaces
  <2>4. LocalInv'
    BY <1>1, <1>2, <2>1, MoveLocal
  <2> QED
    BY <2>3, <2>4 DEF StepInv
<1> QED
    BY <1>1, <1>3, <1>4

\* Every step keeps the invariant.
LEMMA NextTasklet == TaskletInv /\ [Next]_vars => TaskletInv'
<1> SUFFICES ASSUME TaskletInv, [Next]_vars PROVE TaskletInv'
    OBVIOUS
<1>0. TypeOK /\ CurInv /\ OwnerInv
    BY DEF TaskletInv
<1>1. TypeOK'
  <2>1. CASE UNCHANGED vars
    BY <1>0, <2>1 DEF TypeOK, vars, cpuVars, softirqVars, kVars, taskletVars
  <2>2. CASE Next
    BY <1>0, <2>2, SoftirqTypes, CpuTypes, OwnerTypes DEF Next
  <2> QED
    BY <2>1, <2>2
<1>2. StepInv'
  <2>1. CASE UNCHANGED vars
    BY <2>1, SameStep DEF vars, cpuVars, softirqVars, taskletVars
  <2>2. ASSUME NEW c \in Cpus, SoftirqStep(c)
        PROVE  StepInv'
    <3>1. CASE RunAction(c) \/ Trylock(c) \/ Requeue(c) \/ ClearSched(c)
      BY <3>1, RunActionPlaces, RunActionLocal, TrylockPlaces, TrylockLocal, RequeuePlaces,
         RequeueLocal, ClearSchedPlaces, ClearSchedLocal DEF StepInv
    <3> QED
      BY <2>2, <3>1, EndPassStep, QuietStep, UnlockStep, MarkBhStep DEF SoftirqStep
  <2>3. ASSUME NEW c \in Cpus,
               Ksoftirqd(c) \/ OtherInterrupt(c) \/ local_bh_disable(c)
               \/ IrqExit(c) \/ local_bh_enable(c)
        PROVE  StepInv'
    <3>1. CASE KLoop(c) \/ OtherInterrupt(c) \/ IrqExit(c) \/ local_bh_enable(c)
      <4>1. /\ UNCHANGED <<vec, pushing, taskletVars, owner, global_bh_lock>>
            /\ pc[c] = "off" \/ UNCHANGED <<pending, softirqVars>>
            /\ EnterSoftirq(c, pending[c]) \/ UNCHANGED <<pending, softirqVars>>
        BY <3>1 DEF KLoop, OtherInterrupt, IrqExit, local_bh_enable, CallDoSoftirq,
                    KsoftirqdRuns, TaskRuns, in_interrupt
      <4> QED
        BY <4>1, EnterStep
    <3>2. CASE KCheck(c) \/ KWakes(c) \/ KResched(c) \/ KIdle(c) \/ local_bh_disable(c)
      <4>1. UNCHANGED <<vec, list, pushing, pc, cur, sched, run, count, owner, global_bh_lock>>
        BY <3>2 DEF KCheck, KWakes, KResched, KIdle, local_bh_disable, cpuVars, softirqVars,
                    taskletVars
      <4> QED
        BY <4>1, SameStep
    <3> QED
      BY <2>3, <3>1, <3>2 DEF Ksoftirqd
  <2>4. ASSUME NEW c \in Cpus, NEW x \in Contexts, PushTasklet(c, x)
        PROVE  StepInv'
    <3>1. UNCHANGED <<pc, list, cur, sched, run, count, owner, global_bh_lock>>
      BY <2>4 DEF PushTasklet, softirqVars, taskletVars
    <3>2. LocalInv'
      BY <3>1, SameLocal
    <3> QED
      BY <2>4, <3>2, PushPlaces DEF StepInv
  <2>5. ASSUME NEW t \in Tasklets, Owner(t) \/ Disable(t) \/ Kill(t) \/ tasklet_init(t)
        PROVE  StepInv'
    BY <2>5, OwnerPlaces, OwnerLocal DEF StepInv
  <2> QED
    BY <2>1, <2>2, <2>3, <2>4, <2>5, ScheduleStep DEF Next, GoOn
<1> QED
    BY <1>1, <1>2 DEF TaskletInv, StepInv, LocalInv

\* softirq_init.
LEMMA InitTasklet == Init => TaskletInv
<1> SUFFICES ASSUME Init PROVE TaskletInv
    OBVIOUS
<1>1. TypeOK
    BY DEF Init, TypeOK, PCs, KPCs, Owners
<1>2. IsInjective(<<>>) /\ Range(<<>>) = {}
    BY DEF IsInjective, Range
<1>3. NoRepeats
    BY <1>2 DEF Init, NoRepeats
<1>4. PlaceInv
  <2>1. \A c \in Cpus : \A s \in Slots : Waiting(c, s) = {}
    <3> TAKE c \in Cpus
    <3> TAKE s \in Slots
    <3>1. HI_SOFTIRQ \in Softirqs /\ TASKLET_SOFTIRQ \in Softirqs
      BY DEF Softirqs
    <3>2. /\ vec[c][HI_SOFTIRQ] = <<>> /\ vec[c][TASKLET_SOFTIRQ] = <<>>
          /\ list[c] = <<>> /\ pc[c] = "off"
          /\ \A x \in Contexts : pushing[c][x] = None
      BY <3>1 DEF Init
    <3>3. CASE s \in {"HI", "TASKLET", "list", "hand"}
      BY <1>2, <3>2, <3>3, SlotContents
    <3>4. CASE s \in Contexts
      BY <3>2, <3>4, SlotContents
    <3> QED
      BY <3>3, <3>4 DEF Slots
  <2> QED
    BY <2>1 DEF Init, PlaceInv, Queued, Killing
<1>5. RunBitInv /\ CurInv /\ ListInv /\ OwnerInv /\ BhLockInv
    BY DEF Init, RunBitInv, HasRunBit, CurInv, ListInv, OwnerInv, InFunc, BhLockInv
<1> QED
    BY <1>1, <1>3, <1>4, <1>5 DEF TaskletInv

\* The inductive invariant of the tasklets.
THEOREM TaskletInvariant == Spec => []TaskletInv
    BY InitTasklet, NextTasklet, PTL DEF Spec

-----------------------------------------------------------------------------
(***************************************************************************)
(* What the invariant says.                                                *)
(***************************************************************************)

\* Places(t) from the places seen one at a time.
LEMMA PlacesOf ==
    ASSUME NEW t
    PROVE  /\ \A c \in Cpus, s \in Slots : t \in Waiting(c, s) => <<c, s>> \in Places(t)
           /\ \A p \in Places(t) : /\ p[1] \in Cpus /\ p[2] \in Slots /\ p = <<p[1], p[2]>>
                                   /\ t \in Waiting(p[1], p[2])
    BY DEF Places

\* For any number of CPUs and tasklets, with interrupts, BHs and owners: a tasklet
\* whose SCHED bit is set is in exactly one place, or tasklet_kill keeps the bit,
\* and a tasklet without it is in none.
THEOREM ScheduledOnce == Spec => []OnePlace
<1>1. TaskletInv => OnePlace
  <2> SUFFICES ASSUME TaskletInv, NEW t \in Tasklets
               PROVE  /\ Killing(t) => sched[t]
                      /\ IF sched[t] /\ ~Killing(t)
                         THEN \E p \in Places(t) : Places(t) = {p}
                         ELSE Places(t) = {}
    BY DEF OnePlace, TaskletInv
  <2>0. PlaceInv
    BY DEF TaskletInv
  <2>1. CASE Queued(t)
    <3> PICK c \in Cpus, s \in Slots : t \in Waiting(c, s)
      BY <2>0, <2>1 DEF PlaceInv
    <3>1. <<c, s>> \in Places(t)
      BY PlacesOf
    <3>2. ASSUME NEW p \in Places(t)
          PROVE  p = <<c, s>>
      <4>1. /\ p[1] \in Cpus /\ p[2] \in Slots /\ p = <<p[1], p[2]>>
            /\ t \in Waiting(p[1], p[2])
        BY PlacesOf
      <4>2. p[1] = c /\ p[2] = s
        BY <2>0, <4>1 DEF PlaceInv
      <4> QED
        BY <4>1, <4>2
    <3>3. Places(t) = {<<c, s>>}
      BY <3>1, <3>2
    <3> QED
      BY <2>0, <2>1, <3>1, <3>3 DEF PlaceInv, Queued
  <2>2. CASE ~Queued(t)
    <3>1. \A p \in Places(t) : FALSE
      BY <2>0, <2>2, PlacesOf DEF PlaceInv
    <3> QED
      BY <2>0, <2>2, <3>1 DEF PlaceInv, Queued
  <2> QED
    BY <2>1, <2>2
<1> QED
    BY <1>1, TaskletInvariant, PTL

\* No function runs that its owner has disabled or killed, no CPU holds a killed
\* tasklet, and no two bottom halves run at once.
THEOREM NothingRunsUnpromised == Spec => []RunsAsPromised
<1>1. TaskletInv => RunsAsPromised
  <2> SUFFICES ASSUME TaskletInv PROVE RunsAsPromised
    OBVIOUS
  <2>0. PlaceInv /\ OwnerInv /\ BhLockInv
    BY DEF TaskletInv
  <2>1. BhsSerialized
    BY <2>0 DEF BhLockInv, BhsSerialized
  <2>2. ASSUME NEW t \in Tasklets, owner[t] = "dead"
        PROVE  Places(t) = {}
    <3>1. ~Queued(t)
      BY <2>0, <2>2 DEF OwnerInv, Queued
    <3>2. \A p \in Places(t) : FALSE
      BY <2>0, <3>1, PlacesOf DEF PlaceInv
    <3> QED
      BY <3>2
  <2>3. SafeAfterReturn
    BY <2>0, <2>2 DEF OwnerInv, SafeAfterReturn, InFunc
  <2> QED
    BY <2>1, <2>3 DEF RunsAsPromised
<1> QED
    BY <1>1, TaskletInvariant, PTL

-----------------------------------------------------------------------------
(***************************************************************************)
(* No softirq is stranded.                                                 *)
(***************************************************************************)

\* A softirq that is pending outside of interrupts has ksoftirqd awake or about to
\* look.  It is an invariant by itself, once the types are known.
LEMMA NextStranded ==
    ASSUME TypeOK, NoStrandedSoftirq, [Next]_vars
    PROVE  NoStrandedSoftirq'
<1> DEFINE Safe(c) == (pending[c] # {} /\ ~in_interrupt(c))
                          => kstate[c] = "RUNNING" \/ kpc[c] = "check"
<1>0. \A c \in Cpus : Safe(c)
    BY DEF NoStrandedSoftirq
<1>a. ASSUME NEW c \in Cpus, Safe(c)',
             \A d \in Cpus \ {c} : /\ pending'[d] = pending[d] /\ irq'[d] = irq[d]
                                   /\ bh'[d] = bh[d] /\ pc'[d] = pc[d]
                                   /\ kstate'[d] = kstate[d] /\ kpc'[d] = kpc[d]
      PROVE  NoStrandedSoftirq'
  <2>1. \A d \in Cpus \ {c} : Safe(d)'
    BY <1>0, <1>a DEF in_interrupt
  <2> QED
    BY <1>a, <2>1 DEF NoStrandedSoftirq
<1> USE DEF TypeOK
<1>1. CASE UNCHANGED <<pending, irq, bh, pc, kstate, kpc>>
    BY <1>1 DEF NoStrandedSoftirq, in_interrupt
<1>2. ASSUME NEW c \in Cpus,
             \/ RunAction(c) \/ ListEnd(c) \/ Trylock(c) \/ ReadCount(c) \/ ClearSched(c)
             \/ UnlockDisabled(c) \/ Requeue(c) \/ FuncEnd(c) \/ Return(c) \/ BhAction(c)
             \/ HardirqTrylock(c) \/ RoutineEnd(c) \/ MarkBh(c)
             \/ \E t \in Tasklets : FuncSchedule(c, t)
      PROVE  NoStrandedSoftirq'
  <2>1. /\ \A d \in Cpus \ {c} : pc'[d] = pc[d] /\ pending'[d] = pending[d]
        /\ pc'[c] # "off"
        /\ UNCHANGED <<irq, bh, kstate, kpc>>
    BY <1>2 DEF RunAction, ListEnd, Trylock, ReadCount, ClearSched, UnlockDisabled, Requeue,
                Queue, FuncEnd, Return, BhAction, HardirqTrylock, RoutineEnd, MarkBh,
                FuncSchedule, Goto, cpuVars, kVars
  <2>2. Safe(c)'
    BY <2>1 DEF in_interrupt
  <2> QED
    BY <1>a, <2>1, <2>2
<1>3. ASSUME NEW c \in Cpus, EndPass(c)
      PROVE  NoStrandedSoftirq'
  <2>1. /\ UNCHANGED <<irq, bh, kpc>>
        /\ \A d \in Cpus \ {c} : pending'[d] = pending[d] /\ pc'[d] = pc[d]
                                 /\ kstate'[d] = kstate[d]
    BY <1>3 DEF EndPass, LeaveToKsoftirqd, wakeup_softirqd, Goto
  <2>2. Safe(c)'
    BY <1>3 DEF EndPass, LeaveToKsoftirqd, wakeup_softirqd, Goto, in_interrupt
  <2> QED
    BY <1>a, <2>1, <2>2
<1>4. ASSUME NEW c \in Cpus, Ksoftirqd(c)
      PROVE  NoStrandedSoftirq'
  <2>1. CASE KLoop(c)
    <3>1. /\ pending'[c] = {} /\ UNCHANGED <<irq, bh, kstate>>
          /\ \A d \in Cpus \ {c} : pending'[d] = pending[d] /\ pc'[d] = pc[d]
                                   /\ kpc'[d] = kpc[d]
      BY <2>1 DEF KLoop, EnterSoftirq, Goto
    <3> QED
      BY <1>a, <3>1
  <2>2. CASE KCheck(c) \/ KWakes(c) \/ KResched(c) \/ KIdle(c)
    <3>1. /\ UNCHANGED <<pending, irq, bh, pc>>
          /\ \A d \in Cpus \ {c} : kpc'[d] = kpc[d] /\ kstate'[d] = kstate[d]
      BY <2>2 DEF KCheck, KWakes, KResched, KIdle, cpuVars, softirqVars
    <3>2. pending[c] = {} \/ kstate'[c] = "RUNNING" \/ kpc[c] # "check"
      BY <2>2 DEF KCheck, KWakes, KResched, KIdle
    <3>3. kpc[c] # "check" => pending[c] = {} \/ kstate'[c] = kstate[c]
      BY <2>2 DEF KCheck, KWakes, KResched, KIdle
    <3>4. Safe(c)'
      BY <1>0, <3>1, <3>2, <3>3 DEF in_interrupt
    <3> QED
      BY <1>a, <3>1, <3>4
  <2> QED
    BY <1>4, <2>1, <2>2 DEF Ksoftirqd
<1>5. ASSUME NEW c \in Cpus,
             IrqExit(c) \/ local_bh_enable(c) \/ OtherInterrupt(c)
      PROVE  NoStrandedSoftirq'
  <2>1. CASE pending'[c] = {}
    <3>1. /\ UNCHANGED <<kstate, kpc>>
          /\ \A d \in Cpus \ {c} : pending'[d] = pending[d] /\ pc'[d] = pc[d]
                                   /\ irq'[d] = irq[d] /\ bh'[d] = bh[d]
      BY <1>5 DEF IrqExit, local_bh_enable, OtherInterrupt, CallDoSoftirq, EnterSoftirq,
                  Goto, kVars, softirqVars
    <3> QED
      BY <1>a, <2>1, <3>1
  <2>2. CASE IrqExit(c) /\ (bh[c] \/ pc[c] # "off")
    <3>1. /\ UNCHANGED <<kstate, kpc, pending, pc, bh>>
          /\ \A d \in Cpus \ {c} : irq'[d] = irq[d]
      BY <2>2 DEF IrqExit, kVars, softirqVars
    <3>2. Safe(c)'
      BY <2>2, <3>1 DEF in_interrupt
    <3> QED
      BY <1>a, <3>1, <3>2
  <2>3. CASE pending'[c] # {} /\ ~(IrqExit(c) /\ (bh[c] \/ pc[c] # "off"))
    BY <1>5, <2>3 DEF IrqExit, local_bh_enable, OtherInterrupt, CallDoSoftirq, EnterSoftirq
  <2> QED
    BY <2>1, <2>2, <2>3
<1>6. ASSUME NEW c \in Cpus, local_bh_disable(c)
      PROVE  NoStrandedSoftirq'
  <2>1. /\ UNCHANGED <<kstate, kpc, pending, pc, irq>>
        /\ \A d \in Cpus \ {c} : bh'[d] = bh[d]
        /\ bh'[c]
    BY <1>6 DEF local_bh_disable, kVars, softirqVars
  <2>2. Safe(c)'
    BY <2>1 DEF in_interrupt
  <2> QED
    BY <1>a, <2>1, <2>2
<1>7. ASSUME NEW c \in Cpus, NEW x \in Contexts, PushTasklet(c, x)
      PROVE  NoStrandedSoftirq'
  <2>1. /\ UNCHANGED <<kpc, pc, irq, bh>>
        /\ \A d \in Cpus \ {c} : pending'[d] = pending[d] /\ kstate'[d] = kstate[d]
    BY <1>7 DEF PushTasklet, Queue, wakeup_softirqd, softirqVars
  <2>2. in_interrupt(c)' \/ kstate'[c] = "RUNNING"
    <3>1. CASE RaiseWakes(c, x)
      BY <1>7, <3>1 DEF PushTasklet, wakeup_softirqd
    <3>2. CASE ~RaiseWakes(c, x)
      BY <1>7, <2>1, <3>2 DEF PushTasklet, Runs, RaiseWakes, TaskRuns, in_interrupt
    <3> QED
      BY <3>1, <3>2
  <2> QED
    BY <1>a, <2>1, <2>2
<1>8. ASSUME NEW c \in Cpus, NEW t \in Tasklets, Interrupt(c, t) \/ TaskSchedule(c, t)
      PROVE  NoStrandedSoftirq'
  <2>1. CASE TaskSchedule(c, t)
    BY <1>1, <2>1 DEF TaskSchedule, cpuVars, softirqVars, kVars
  <2>2. CASE Interrupt(c, t)
    <3>1. /\ UNCHANGED <<kstate, kpc, pending, pc, bh>>
          /\ \A d \in Cpus \ {c} : irq'[d] = irq[d]
          /\ irq'[c]
      BY <2>2 DEF Interrupt, kVars, softirqVars
    <3>2. Safe(c)'
      BY <3>1 DEF in_interrupt
    <3> QED
      BY <1>a, <3>1, <3>2
  <2> QED
    BY <1>8, <2>1, <2>2
<1>9. ASSUME NEW t \in Tasklets, Owner(t) \/ Disable(t) \/ Kill(t) \/ tasklet_init(t)
      PROVE  NoStrandedSoftirq'
  <2>1. UNCHANGED <<pending, irq, bh, pc, kstate, kpc>>
    BY <1>9 DEF Owner, DisableReturns, tasklet_enable, KillSetsSched, KillWaits, KillReturns,
                Disable, Kill, tasklet_init, OwnerUnchanged, cpuVars, softirqVars, kVars
  <2> QED
    BY <1>1, <2>1
<1>10. CASE UNCHANGED vars
    BY <1>1, <1>10 DEF vars, cpuVars, softirqVars, kVars
<1> HIDE DEF Safe, TypeOK
<1> QED
    BY <1>2, <1>3, <1>4, <1>5, <1>6, <1>7, <1>8, <1>9, <1>10
    DEF Next, SoftirqStep, GoOn, ScheduleTasklet

\* A softirq that is pending on a CPU outside of interrupts and BH-disabled
\* sections is never left to a ksoftirqd that sleeps.
THEOREM SoftirqsNeverStranded == Spec => []NoStrandedSoftirq
<1>1. Init => NoStrandedSoftirq
    BY DEF Init, NoStrandedSoftirq
<1>2. TaskletInv /\ NoStrandedSoftirq /\ [Next]_vars => NoStrandedSoftirq'
    BY NextStranded DEF TaskletInv
<1> QED
    BY <1>1, <1>2, TaskletInvariant, PTL DEF Spec

-----------------------------------------------------------------------------
(***************************************************************************)
(* Tasklets implement the abstract specification of TaskletPromise.        *)
(***************************************************************************)

\* The state that TaskletPromise sees.
PQueued  == {t \in Tasklets : sched[t] /\ owner[t] \notin {"kill_wait", "kill_clear"}}
PRunning == {t \in Tasklets : \E c \in Cpus : InFunc(c, t)}

FuncPcs == {"func", "return", "bh_locked", "routine", "mark_bh"}

PromiseSame == UNCHANGED <<PQueued, PRunning>>

\* The abstract actions, in terms of that state.
LEMMA PromiseActions ==
    ASSUME NEW t \in Tasklets
    PROVE  /\ Promise!Schedule(t) <=>
                 t \notin PQueued /\ PQueued' = PQueued \cup {t} /\ UNCHANGED PRunning
           /\ Promise!Start(t) <=>
                 /\ t \in PQueued /\ t \notin PRunning
                 /\ PQueued' = PQueued \ {t} /\ PRunning' = PRunning \cup {t}
           /\ Promise!Finish(t) <=>
                 t \in PRunning /\ PRunning' = PRunning \ {t} /\ UNCHANGED PQueued
    BY Zenon DEF Promise!Schedule, Promise!Start, Promise!Finish, PQueued, PRunning

\* No function starts or ends.
LEMMA SameFunctions ==
    ASSUME \A d \in Cpus : \/ pc'[d] = pc[d] /\ cur'[d] = cur[d]
                           \/ pc[d] \in FuncPcs /\ pc'[d] \in FuncPcs /\ cur'[d] = cur[d]
                           \/ pc[d] \notin FuncPcs /\ pc'[d] \notin FuncPcs
    PROVE  PRunning' = PRunning
<1>1. \A d \in Cpus, t \in Tasklets : InFunc(d, t)' <=> InFunc(d, t)
    BY DEF InFunc, FuncPcs
<1> QED
    BY <1>1 DEF PRunning

\* The steps of a CPU in which no SCHED bit and no function is involved.
LEMMA QuietRefines ==
    ASSUME TaskletInv, NEW c \in Cpus,
           \/ RunAction(c) \/ EndPass(c) \/ ListEnd(c) \/ Trylock(c) \/ ReadCount(c)
           \/ UnlockDisabled(c) \/ Requeue(c) \/ FuncEnd(c)
           \/ BhAction(c) \/ HardirqTrylock(c) \/ RoutineEnd(c)
    PROVE  PromiseSame
<1>1. pc \in [Cpus -> PCs] /\ cur \in [Cpus -> Tasklets \cup {None}]
    BY DEF TaskletInv, TypeOK
<1>2. UNCHANGED <<sched, owner>>
    BY DEF RunAction, EndPass, ListEnd, Trylock, ReadCount, UnlockDisabled, Requeue, FuncEnd,
           BhAction, HardirqTrylock, RoutineEnd, taskletVars
<1>3. \E l \in PCs : /\ pc' = [pc EXCEPT ![c] = l]
                     /\ \/ pc[c] \in FuncPcs /\ l \in FuncPcs /\ cur' = cur
                        \/ pc[c] \notin FuncPcs /\ l \notin FuncPcs
  <2>1. CASE EndPass(c)
    <3>1. pc[c] = "pass" /\ (pc' = pc \/ pc' = [pc EXCEPT ![c] = "off"])
        BY <2>1 DEF EndPass, Goto
    <3>2. pc' = [pc EXCEPT ![c] = "pass"] \/ pc' = [pc EXCEPT ![c] = "off"]
        BY <1>1, <3>1
    <3> QED
        BY <3>1, <3>2 DEF PCs, FuncPcs
  <2>2. CASE RunAction(c) \/ ListEnd(c) \/ Requeue(c) \/ UnlockDisabled(c)
    BY <2>2 DEF RunAction, ListEnd, Requeue, UnlockDisabled, TaskletStep, Goto, PCs, FuncPcs
  <2>3. CASE Trylock(c)
    <3>1. pc[c] = "next"
        BY <2>3 DEF Trylock, TaskletStep
    <3>2. \E l \in {"count", "requeue"} : pc' = [pc EXCEPT ![c] = l]
        BY <2>3 DEF Trylock, Goto
    <3> QED
        BY <3>1, <3>2 DEF PCs, FuncPcs
  <2>4. CASE ReadCount(c)
    <3>1. pc[c] = "count"
        BY <2>4 DEF ReadCount, TaskletStep
    <3>2. \E l \in {"clear", "disabled"} : pc' = [pc EXCEPT ![c] = l]
        BY <2>4 DEF ReadCount, Goto
    <3> QED
        BY <3>1, <3>2 DEF PCs, FuncPcs
  <2>5. CASE FuncEnd(c) \/ BhAction(c) \/ HardirqTrylock(c) \/ RoutineEnd(c)
    <3>1. pc[c] \in FuncPcs /\ cur' = cur
        BY <2>5 DEF FuncEnd, BhAction, HardirqTrylock, RoutineEnd, TaskletStep, FuncPcs
    <3>2. \E l \in FuncPcs : pc' = [pc EXCEPT ![c] = l]
        BY <2>5 DEF FuncEnd, BhAction, HardirqTrylock, RoutineEnd, Goto, FuncPcs
    <3> QED
        BY <3>1, <3>2 DEF PCs, FuncPcs
  <2> QED
    BY <2>1, <2>2, <2>3, <2>4, <2>5
<1>4. \A d \in Cpus \ {c} : cur'[d] = cur[d]
    BY <1>1 DEF RunAction, EndPass, ListEnd, Trylock, ReadCount, UnlockDisabled, Requeue, FuncEnd,
           BhAction, HardirqTrylock, RoutineEnd
<1>5. PRunning' = PRunning
    BY <1>1, <1>3, <1>4, SameFunctions
<1> QED
    BY <1>2, <1>5 DEF PromiseSame, PQueued

\* The steps that leave do_softirq and the SCHED bits alone, or only enter it.
LEMMA EnterRefines ==
    ASSUME TaskletInv, NEW c \in Cpus,
           \/ Ksoftirqd(c) \/ GoOn(c) \/ OtherInterrupt(c) \/ local_bh_disable(c)
    PROVE  PromiseSame
<1>1. pc \in [Cpus -> PCs]
    BY DEF TaskletInv, TypeOK
<1>2. UNCHANGED <<sched, owner, cur>>
    BY DEF Ksoftirqd, KCheck, KWakes, KLoop, KResched, KIdle, GoOn, PushTasklet, IrqExit,
           local_bh_enable, OtherInterrupt, local_bh_disable, CallDoSoftirq, EnterSoftirq,
           taskletVars, softirqVars
<1>3. pc' = pc \/ (pc[c] = "off" /\ pc' = [pc EXCEPT ![c] = "pass"])
    BY DEF Ksoftirqd, KCheck, KWakes, KLoop, KResched, KIdle, GoOn, PushTasklet, IrqExit,
           local_bh_enable, OtherInterrupt, local_bh_disable, CallDoSoftirq, EnterSoftirq,
           softirqVars, KsoftirqdRuns, TaskRuns, in_interrupt, Goto
<1>4. PRunning' = PRunning
    BY <1>1, <1>2, <1>3, SameFunctions DEF FuncPcs
<1> QED
    BY <1>2, <1>4 DEF PromiseSame, PQueued

\* tasklet_schedule that finds the SCHED bit clear schedules the tasklet: the
\* bit is not one that tasklet_kill has set.
LEMMA SetSchedRefines ==
    ASSUME TaskletInv, NEW c \in Cpus, NEW x \in Contexts, NEW t \in Tasklets,
           SetSched(c, x, t), owner' = owner, PRunning' = PRunning
    PROVE  Promise!Schedule(t)
<1>1. sched \in [Tasklets -> BOOLEAN] /\ (Killing(t) => sched[t])
    BY DEF TaskletInv, TypeOK, PlaceInv
<1>2. ~sched[t] /\ sched' = [sched EXCEPT ![t] = TRUE]
    BY DEF SetSched
<1>3. t \notin PQueued /\ PQueued' = PQueued \cup {t}
    BY <1>1, <1>2 DEF PQueued, Killing
<1> QED
    BY <1>3, PromiseActions

LEMMA ScheduleRefines ==
    ASSUME TaskletInv, NEW c \in Cpus, NEW t \in Tasklets, ScheduleTasklet(c, t)
    PROVE  Promise!Schedule(t)
<1>1. pc \in [Cpus -> PCs]
    BY DEF TaskletInv, TypeOK
<1>2. owner' = owner /\ cur' = cur
    BY DEF ScheduleTasklet, Interrupt, TaskSchedule, FuncSchedule, softirqVars
<1>3. pc' = pc \/ (pc[c] = "func" /\ pc' = [pc EXCEPT ![c] = "return"])
    BY DEF ScheduleTasklet, Interrupt, TaskSchedule, FuncSchedule, softirqVars, TaskletStep, Goto
<1>4. PRunning' = PRunning
    BY <1>1, <1>2, <1>3, SameFunctions DEF FuncPcs
<1>5. PICK x \in Contexts : SetSched(c, x, t)
    BY DEF ScheduleTasklet, Interrupt, TaskSchedule, FuncSchedule, Contexts
<1> QED
    BY <1>2, <1>4, <1>5, SetSchedRefines

LEMMA MarkBhRefines ==
    ASSUME TaskletInv, NEW c \in Cpus, MarkBh(c)
    PROVE  PromiseSame \/ \E t \in Tasklets : Promise!Schedule(t)
<1>1. /\ pc \in [Cpus -> PCs] /\ cur \in [Cpus -> Tasklets \cup {None}]
      /\ CurInv
    BY DEF TaskletInv, TypeOK
<1> PICK t \in Tasklets : t = cur[c]
    BY <1>1 DEF CurInv, MarkBh, TaskletStep
<1>2. /\ owner' = owner /\ cur' = cur
      /\ pc[c] = "mark_bh" /\ pc' = [pc EXCEPT ![c] = "return"]
    BY DEF MarkBh, TaskletStep, Goto
<1>3. PRunning' = PRunning
    BY <1>1, <1>2, SameFunctions DEF FuncPcs
<1>4. CASE SetSched(c, "softirq", t)
  <2> PICK x \in Contexts : x = "softirq"
    BY DEF Contexts
  <2> QED
    BY <1>2, <1>3, <1>4, SetSchedRefines
<1>5. CASE sched' = sched
    BY <1>2, <1>3, <1>5 DEF PromiseSame, PQueued
<1> QED
    BY <1>4, <1>5 DEF MarkBh, taskletVars

\* The function starts on the CPU that has the RUN bit, so on no other.
LEMMA ClearSchedRefines ==
    ASSUME TaskletInv, NEW c \in Cpus, ClearSched(c)
    PROVE  \E t \in Tasklets : Promise!Start(t)
<1>1. /\ pc \in [Cpus -> PCs] /\ cur \in [Cpus -> Tasklets \cup {None}]
      /\ sched \in [Tasklets -> BOOLEAN]
      /\ CurInv /\ RunBitInv /\ PlaceInv
    BY DEF TaskletInv, TypeOK
<1> PICK t \in Tasklets : t = cur[c]
    BY <1>1 DEF CurInv, ClearSched, TaskletStep
<1>2. /\ pc[c] = "clear" /\ pc' = [pc EXCEPT ![c] = "func"]
      /\ sched' = [sched EXCEPT ![t] = FALSE]
      /\ UNCHANGED <<owner, cur>>
    BY DEF ClearSched, TaskletStep, Goto
<1>3. Queued(t)
  <2>1. t \in Waiting(c, "hand")
    BY <1>2, SlotContents
  <2> PICK s \in Slots : s = "hand"
    BY DEF Slots
  <2> QED
    BY <1>1, <2>1 DEF PlaceInv
<1>4. t \in PQueued /\ PQueued' = PQueued \ {t}
    BY <1>1, <1>2, <1>3 DEF PQueued, Queued, Killing
<1>5. t \notin PRunning
    BY <1>1, <1>2 DEF PRunning, InFunc, RunBitInv, HasRunBit
<1>6. /\ InFunc(c, t)'
      /\ \A u \in Tasklets \ {t} : ~InFunc(c, u)' /\ ~InFunc(c, u)
      /\ \A d \in Cpus \ {c} : \A u \in Tasklets : InFunc(d, u)' <=> InFunc(d, u)
    BY <1>1, <1>2 DEF InFunc
<1>7. PRunning' = PRunning \cup {t}
  <2>1. \A u \in Tasklets \ {t} :
            (\E d \in Cpus : InFunc(d, u)') <=> (\E d \in Cpus : InFunc(d, u))
    BY <1>6
  <2> QED
    BY <1>6, <2>1 DEF PRunning
<1> QED
    BY <1>4, <1>5, <1>7, PromiseActions

\* Its return ends it everywhere.
LEMMA ReturnRefines ==
    ASSUME TaskletInv, NEW c \in Cpus, Return(c)
    PROVE  \E t \in Tasklets : Promise!Finish(t)
<1>1. /\ pc \in [Cpus -> PCs] /\ cur \in [Cpus -> Tasklets \cup {None}]
      /\ CurInv /\ RunBitInv
    BY DEF TaskletInv, TypeOK
<1> PICK t \in Tasklets : t = cur[c]
    BY <1>1 DEF CurInv, Return, TaskletStep
<1>2. /\ pc[c] = "return" /\ pc' = [pc EXCEPT ![c] = "next"]
      /\ cur' = [cur EXCEPT ![c] = None]
      /\ UNCHANGED <<owner, sched>>
    BY DEF Return, TaskletStep, Goto
<1>3. PQueued' = PQueued
    BY <1>2 DEF PQueued
<1>4. /\ InFunc(c, t)
      /\ \A d \in Cpus : InFunc(d, t) => d = c
    BY <1>1, <1>2 DEF InFunc, RunBitInv, HasRunBit
<1>5. /\ \A u \in Tasklets : ~InFunc(c, u)'
      /\ \A u \in Tasklets \ {t} : ~InFunc(c, u)
      /\ \A d \in Cpus \ {c} : \A u \in Tasklets : InFunc(d, u)' <=> InFunc(d, u)
    BY <1>1, <1>2 DEF InFunc
<1>6. t \in PRunning /\ PRunning' = PRunning \ {t}
  <2>1. \A u \in Tasklets \ {t} :
            (\E d \in Cpus : InFunc(d, u)') <=> (\E d \in Cpus : InFunc(d, u))
    BY <1>5
  <2>2. ~\E d \in Cpus : InFunc(d, t)'
    BY <1>4, <1>5
  <2> QED
    BY <1>4, <2>1, <2>2 DEF PRunning
<1> QED
    BY <1>3, <1>6, PromiseActions

\* The owner's calls are not seen: the SCHED bit that tasklet_kill sets and
\* clears stands for no call of tasklet_schedule.
LEMMA OwnerRefines ==
    ASSUME TaskletInv, NEW t \in Tasklets,
           Owner(t) \/ Disable(t) \/ Kill(t) \/ tasklet_init(t)
    PROVE  PromiseSame
<1>1. /\ sched \in [Tasklets -> BOOLEAN] /\ owner \in [Tasklets -> Owners]
      /\ OwnerInv
    BY DEF TaskletInv, TypeOK
<1>2. UNCHANGED <<pc, cur>>
    BY DEF Owner, DisableReturns, tasklet_enable, KillSetsSched, KillWaits, KillReturns,
           Disable, Kill, tasklet_init, OwnerUnchanged, softirqVars
<1>3. PRunning' = PRunning
    BY <1>2, SameFunctions
<1>4. \A u \in Tasklets \ {t} : sched'[u] = sched[u] /\ owner'[u] = owner[u]
    BY <1>1 DEF Owner, DisableReturns, tasklet_enable, KillSetsSched, KillWaits, KillReturns,
           Disable, Kill, tasklet_init, OwnerGoto, taskletVars
<1>5. /\ sched[t] /\ owner[t] \notin {"kill_wait", "kill_clear"} <=>
            sched'[t] /\ owner'[t] \notin {"kill_wait", "kill_clear"}
  <2>1. CASE KillSetsSched(t)
    BY <1>1, <2>1 DEF KillSetsSched, KillProceeds, OwnerGoto
  <2>2. CASE KillReturns(t) \/ KillWaits(t)
    BY <1>1, <2>2 DEF KillReturns, KillWaits, OwnerGoto, taskletVars
  <2>3. CASE tasklet_init(t)
    BY <1>1, <2>3 DEF tasklet_init, OwnerGoto, OwnerInv
  <2>4. CASE DisableReturns(t) \/ tasklet_enable(t) \/ Disable(t) \/ Kill(t)
    BY <1>1, <2>4 DEF DisableReturns, tasklet_enable, Disable, Kill, OwnerGoto, taskletVars
  <2> QED
    BY <2>1, <2>2, <2>3, <2>4 DEF Owner
<1>6. PQueued' = PQueued
    BY <1>4, <1>5 DEF PQueued
<1> QED
    BY <1>3, <1>6 DEF PromiseSame

LEMMA StepRefines ==
    ASSUME TaskletInv, [Next]_vars
    PROVE  PromiseSame \/ Promise!PromiseNext
<1>1. CASE UNCHANGED vars
    BY <1>1, SameFunctions DEF vars, taskletVars, softirqVars, PromiseSame, PQueued
<1>2. ASSUME NEW c \in Cpus, SoftirqStep(c)
      PROVE  PromiseSame \/ Promise!PromiseNext
    BY <1>2, QuietRefines, ClearSchedRefines, ReturnRefines, MarkBhRefines
    DEF SoftirqStep, Promise!PromiseNext
<1>3. ASSUME NEW c \in Cpus,
             \/ Ksoftirqd(c) \/ GoOn(c) \/ OtherInterrupt(c) \/ local_bh_disable(c)
      PROVE  PromiseSame
    BY <1>3, EnterRefines
<1>4. ASSUME NEW c \in Cpus, NEW t \in Tasklets, ScheduleTasklet(c, t)
      PROVE  Promise!PromiseNext
    BY <1>4, ScheduleRefines DEF Promise!PromiseNext
<1>5. ASSUME NEW t \in Tasklets, Owner(t) \/ Disable(t) \/ Kill(t) \/ tasklet_init(t)
      PROVE  PromiseSame
    BY <1>5, OwnerRefines
<1> QED
    BY <1>1, <1>2, <1>3, <1>4, <1>5 DEF Next

\* For any number of CPUs and tasklets the tasklet code keeps the promises of
\* interrupt.h: a tasklet that is scheduled is started once, a call of
\* tasklet_schedule while it runs makes it run once more, and it never runs on
\* two CPUs at a time.
THEOREM TaskletsKeepPromise == Spec => ImplementsPromise
<1>1. Init => Promise!PromiseInit
  <2> SUFFICES ASSUME Init PROVE Promise!PromiseInit
    OBVIOUS
  <2>1. PQueued = {} /\ PRunning = {}
    BY DEF Init, PQueued, PRunning, InFunc
  <2> QED
    BY <2>1, Zenon DEF Promise!PromiseInit, PQueued, PRunning
<1>2. TaskletInv /\ [Next]_vars => [Promise!PromiseNext]_<<PQueued, PRunning>>
    BY StepRefines DEF PromiseSame
<1>3. TaskletInv /\ [Next]_vars =>
        [Promise!PromiseNext]_<<{t \in Tasklets :
                  sched[t] /\ owner[t] \notin {"kill_wait", "kill_clear"}},
                  {t \in Tasklets : \E c \in Cpus : InFunc(c, t)}>>
    BY <1>2 DEF PQueued, PRunning
<1> QED
    BY <1>1, <1>3, TaskletInvariant, PTL DEF Spec, ImplementsPromise, Promise!PromiseSpec
-----------------------------------------------------------------------------
(***************************************************************************)
(* Task queues, which __run_task_queue of softirq.c runs, and keventd: for *)
(* any processes, tq_structs and users, a tq_struct is in one place, no    *)
(* work that was left is lost, keventd does not sleep on a filled queue,   *)
(* and flush_scheduled_tasks waits for what was scheduled before it.       *)
(***************************************************************************)
CONSTANTS Procs, Works, Users, Readds, Dummy

VARIABLES sync, tq, head, item, left, doing, tpc, tstate, waiting, signal, ppc, target,
          pstate, flushers, rounds, owed

K == INSTANCE Keventd WITH cur <- item, kpc <- tpc, kstate <- tstate, pc <- ppc,
                           state <- pstate, count <- rounds

\* A tq_struct is added at the end of a list.
LEMMA MemberAppended ==
    ASSUME NEW S, NEW s \in Seq(S), NEW x \in S
    PROVE  /\ Append(s, x) \in Seq(S) /\ Append(s, x) # <<>>
           /\ K!Members(Append(s, x)) = K!Members(s) \cup {x}
           /\ K!Once(s) /\ x \notin K!Members(s) => K!Once(Append(s, x))
<1>1. K!Members(s) = Range(s) /\ K!Members(Append(s, x)) = Range(Append(s, x))
  BY DEF K!Members, Range
<1>2. (K!Once(s) <=> IsInjective(s)) /\ (K!Once(Append(s, x)) <=> IsInjective(Append(s, x)))
  BY Zenon DEF K!Once, IsInjective
<1>3. /\ Append(s, x) \in Seq(S) /\ Append(s, x) # <<>> /\ Range(Append(s, x)) = Range(s) \cup {x}
  BY AppendElements
<1>4. IsInjective(s) /\ x \notin Range(s) => IsInjective(Append(s, x))
  BY AppendInjective
<1> QED
  BY <1>1, <1>2, <1>3, <1>4, Zenon

\* The first tq_struct leaves a list.
LEMMA FirstMember ==
    ASSUME NEW S, NEW s \in Seq(S), s # <<>>
    PROVE  /\ Head(s) \in S /\ Tail(s) \in Seq(S)
           /\ K!Members(s) = K!Members(Tail(s)) \cup {Head(s)}
           /\ K!Once(s) => K!Once(Tail(s)) /\ Head(s) \notin K!Members(Tail(s))
BY TailElements, Zenon DEF K!Members, K!Once, Range, IsInjective

\* The empty list.
LEMMA NoMembers == K!Members(<<>>) = {} /\ K!Once(<<>>)
BY DEF K!Members, K!Once

\* What list_add_tail and the loop of __run_task_queue do to the two lists.
LEMMA ListsOfTasks ==
    ASSUME K!Types
    PROVE  /\ \A x \in K!TqStructs :
                  /\ Append(tq, x) \in Seq(K!TqStructs) /\ Append(tq, x) # <<>>
                  /\ K!Members(Append(tq, x)) = K!Members(tq) \cup {x}
                  /\ K!Once(tq) /\ x \notin K!Members(tq) => K!Once(Append(tq, x))
           /\ \/ head = <<>>
              \/ /\ Head(head) \in K!TqStructs /\ Tail(head) \in Seq(K!TqStructs)
                 /\ K!Members(head) = K!Members(Tail(head)) \cup {Head(head)}
                 /\ K!Once(head) => K!Once(Tail(head)) /\ Head(head) \notin K!Members(Tail(head))
BY MemberAppended, FirstMember DEF K!Types

\* The steps of the task queues, one by one.
LEMMA TaskQueueSteps ==
    ASSUME K!Next
    PROVE  \/ K!Start \/ K!Prepare \/ K!Add \/ K!Test \/ K!Scheduler \/ K!Remove \/ K!Take
           \/ K!Next1 \/ K!Call \/ K!Body \/ K!Again \/ K!Done \/ K!Reap \/ K!Sigchld
           \/ \E p \in Procs : \/ K!Mark(p) \/ K!Link(p) \/ K!Wake(p) \/ K!FlushAdd(p)
                               \/ K!Round(p) \/ K!Slept(p) \/ K!Leave(p) \/ K!Flush(p)
                               \/ \E t \in Works : K!Schedule(p, t)
BY DEF K!Next, K!Keventd, K!Step

\* An item that has not been worked off is left, or being worked on.
LEMMA UnfinishedItem ==
    ASSUME NEW q \in K!Unfinished
    PROVE  q \in doing \/ \E t \in Works : q \in left[t]
<1>1. CASE q \in doing
  BY <1>1
<1>2. CASE q \in UNION {left[t] : t \in Works}
  <2>1. PICK S \in {left[t] : t \in Works} : q \in S
    BY <1>2
  <2> QED
    BY <2>1
<1> QED
  BY <1>1, <1>2 DEF K!Unfinished

\* The types.
LEMMA TaskQueueTypes ==
    ASSUME K!KeventdAssumption, K!Types, K!Next
    PROVE  K!Types'
<1> USE DEF K!queueVars, K!workVars, K!kVars, K!pVars, K!Goto, K!KGoto, K!Types, K!KPCs, K!PCs,
        K!TqStructs, K!Scheduled, K!Unfinished
<1>Start. CASE K!Start
  BY <1>Start DEF K!Start
<1>Prepare. CASE K!Prepare
  BY <1>Prepare DEF K!Prepare
<1>Add. CASE K!Add
  BY <1>Add DEF K!Add
<1>Test. CASE K!Test
  BY <1>Test DEF K!Test
<1>Scheduler. CASE K!Scheduler
  BY <1>Scheduler DEF K!Scheduler
<1>Remove. CASE K!Remove
  BY <1>Remove DEF K!Remove
<1>Take. CASE K!Take
  BY <1>Take, NoMembers DEF K!Take
<1>Next1. CASE K!Next1
  BY <1>Next1, ListsOfTasks, ZenonT(30) DEF K!Next1
<1>Call. CASE K!Call
  BY <1>Call DEF K!Call
<1>Body. CASE K!Body
  BY <1>Body DEF K!Body, K!Finish
<1>Again. CASE K!Again
  BY <1>Again, ListsOfTasks DEF K!Again
<1>Done. CASE K!Done
  BY <1>Done DEF K!Done
<1>Reap. CASE K!Reap
  BY <1>Reap DEF K!Reap
<1>Sigchld. CASE K!Sigchld
  BY <1>Sigchld DEF K!Sigchld
<1>Mark. ASSUME NEW p \in Procs, K!Mark(p) PROVE K!Types'
  BY <1>Mark DEF K!Mark
<1>Link. ASSUME NEW p \in Procs, K!Link(p) PROVE K!Types'
  BY <1>Link, ListsOfTasks DEF K!Link
<1>Wake. ASSUME NEW p \in Procs, K!Wake(p) PROVE K!Types'
  BY <1>Wake DEF K!Wake
<1>FlushAdd. ASSUME NEW p \in Procs, K!FlushAdd(p) PROVE K!Types'
  BY <1>FlushAdd DEF K!FlushAdd
<1>Round. ASSUME NEW p \in Procs, K!Round(p) PROVE K!Types'
  BY <1>Round DEF K!Round
<1>Slept. ASSUME NEW p \in Procs, K!Slept(p) PROVE K!Types'
  BY <1>Slept DEF K!Slept
<1>Leave. ASSUME NEW p \in Procs, K!Leave(p) PROVE K!Types'
  BY <1>Leave DEF K!Leave
<1>Schedule. ASSUME NEW p \in Procs, NEW t \in Works, K!Schedule(p, t) PROVE K!Types'
  BY <1>Schedule DEF K!Schedule
<1> HIDE DEF K!Types, K!KPCs, K!PCs, K!TqStructs, K!Scheduled, K!Unfinished
<1>Flush. ASSUME NEW p \in Procs, K!Flush(p) PROVE K!Types'
  <2>1. K!Scheduled \subseteq Procs
    <3> SUFFICES ASSUME NEW q \in K!Scheduled PROVE q \in Procs
      OBVIOUS
    <3>1. q \in doing \/ \E t \in Works : q \in left[t]
      BY UnfinishedItem DEF K!Scheduled
    <3> QED
      BY <3>1 DEF K!Types
  <2> QED
    BY <1>Flush, <2>1 DEF K!Flush, K!Types, K!PCs, K!TqStructs
<1> QED
  BY TaskQueueSteps, <1>Start, <1>Prepare, <1>Add, <1>Test, <1>Scheduler, <1>Remove, <1>Take,
     <1>Next1, <1>Call, <1>Body, <1>Again, <1>Done, <1>Reap, <1>Sigchld, <1>Mark, <1>Link,
     <1>Wake, <1>FlushAdd, <1>Round, <1>Slept, <1>Leave, <1>Flush, <1>Schedule

\* A tq_struct stays in one place: who sets sync links it, and who clears sync has unlinked it.
LEMMA OneListPlace ==
    ASSUME K!KeventdAssumption, K!Types, K!PlaceInv, K!RunInv, K!Next
    PROVE  K!PlaceInv'
<1> USE DEF K!queueVars, K!workVars, K!kVars, K!pVars, K!Goto, K!KGoto, K!PlaceInv, K!Linking,
        K!TqStructs, K!Types, K!InRun, K!RunInv
<1>Start. CASE K!Start
  BY <1>Start DEF K!Start
<1>Prepare. CASE K!Prepare
  BY <1>Prepare DEF K!Prepare
<1>Add. CASE K!Add
  BY <1>Add DEF K!Add
<1>Test. CASE K!Test
  BY <1>Test DEF K!Test
<1>Scheduler. CASE K!Scheduler
  BY <1>Scheduler DEF K!Scheduler
<1>Remove. CASE K!Remove
  BY <1>Remove DEF K!Remove
<1>Take. CASE K!Take
  BY <1>Take, NoMembers DEF K!Take
<1>Call. CASE K!Call
  BY <1>Call DEF K!Call
<1>Body. CASE K!Body
  BY <1>Body DEF K!Body, K!Finish
<1>Again. CASE K!Again
  BY <1>Again, ListsOfTasks DEF K!Again
<1>Done. CASE K!Done
  BY <1>Done DEF K!Done
<1>Reap. CASE K!Reap
  BY <1>Reap DEF K!Reap
<1>Sigchld. CASE K!Sigchld
  BY <1>Sigchld DEF K!Sigchld
<1>Mark. ASSUME NEW p \in Procs, K!Mark(p) PROVE K!PlaceInv'
  BY <1>Mark DEF K!Mark
<1>Wake. ASSUME NEW p \in Procs, K!Wake(p) PROVE K!PlaceInv'
  BY <1>Wake DEF K!Wake
<1>FlushAdd. ASSUME NEW p \in Procs, K!FlushAdd(p) PROVE K!PlaceInv'
  BY <1>FlushAdd DEF K!FlushAdd
<1>Round. ASSUME NEW p \in Procs, K!Round(p) PROVE K!PlaceInv'
  BY <1>Round DEF K!Round
<1>Slept. ASSUME NEW p \in Procs, K!Slept(p) PROVE K!PlaceInv'
  BY <1>Slept DEF K!Slept
<1>Leave. ASSUME NEW p \in Procs, K!Leave(p) PROVE K!PlaceInv'
  BY <1>Leave DEF K!Leave
<1>Flush. ASSUME NEW p \in Procs, K!Flush(p) PROVE K!PlaceInv'
  BY <1>Flush DEF K!Flush
<1>Schedule. ASSUME NEW p \in Procs, NEW t \in Works, K!Schedule(p, t) PROVE K!PlaceInv'
  BY <1>Schedule DEF K!Schedule
<1> HIDE DEF K!PlaceInv, K!Linking, K!TqStructs, K!Types, K!InRun, K!RunInv
<1>Next1. CASE K!Next1
  <2>1. CASE head = <<>>
    BY <1>Next1, <2>1 DEF K!Next1, K!PlaceInv, K!Linking
  <2>2. CASE head # <<>>
    <3>1. PICK h, r : h = Head(head) /\ r = Tail(head)
      OBVIOUS
    <3>2. /\ h \in K!TqStructs /\ K!Members(head) = K!Members(r) \cup {h} /\ h \notin K!Members(r)
          /\ K!Once(r)
      BY ListsOfTasks, <2>2, <3>1 DEF K!PlaceInv
    <3>3. /\ item' = h /\ head' = r /\ sync' = [sync EXCEPT ![h] = FALSE] /\ tpc = "next" /\ tpc' = "call"
          /\ UNCHANGED <<tq, ppc, target>>
      BY <1>Next1, <2>2, <3>1 DEF K!Next1
    <3>4. \A t \in K!TqStructs : K!Linking(t)' <=> K!Linking(t)
      BY <3>3 DEF K!Linking
    <3>5. ~K!Linking(h) /\ h \notin K!Members(tq)
      BY <3>2 DEF K!PlaceInv
    <3>6. \A t \in K!TqStructs : sync'[t] <=> (sync[t] /\ t # h)
      BY <3>3 DEF K!Types
    <3>7. /\ K!Members(tq)' = K!Members(tq) /\ K!Members(head)' = K!Members(r)
          /\ K!Once(tq)' = K!Once(tq) /\ K!Once(head)' = K!Once(r)
      BY <3>3 DEF K!Members, K!Once
    <3>8. \A t \in K!TqStructs : sync'[t] <=> K!Linking(t)' \/ t \in K!Members(tq)' \cup K!Members(head)'
      BY <3>2, <3>4, <3>5, <3>6, <3>7 DEF K!PlaceInv
    <3> QED
      BY <3>2, <3>3, <3>4, <3>5, <3>7, <3>8 DEF K!PlaceInv
  <2> QED
    BY <2>1, <2>2
<1>Link. ASSUME NEW p \in Procs, K!Link(p) PROVE K!PlaceInv'
  <2>1. PICK x \in K!TqStructs : x = target[p]
    BY DEF K!Types
  <2>2. PICK l : l = Append(tq, x)
    OBVIOUS
  <2>3. /\ tq' = l /\ ppc[p] = "link" /\ ppc' = [ppc EXCEPT ![p] = "wake"]
        /\ UNCHANGED <<sync, head, item, tpc, target, left>>
    BY <1>Link, <2>1, <2>2 DEF K!Link
  <2>4. /\ K!Linking(x) /\ x \notin K!Members(tq) \cup K!Members(head)
    BY <2>1, <2>3 DEF K!PlaceInv, K!Linking
  <2>5. K!Members(l) = K!Members(tq) \cup {x} /\ K!Once(l)
    BY ListsOfTasks, <2>2, <2>4 DEF K!PlaceInv
  <2>6. /\ K!Members(tq)' = K!Members(tq) \cup {x} /\ K!Members(head)' = K!Members(head)
        /\ K!Once(tq)' = K!Once(l) /\ K!Once(head)' = K!Once(head)
    BY <2>3, <2>5 DEF K!Members, K!Once
  <2>7. \A q \in Procs : ppc'[q] = "link" <=> (ppc[q] = "link" /\ q # p)
    BY <2>3 DEF K!Types
  <2>8. ~K!Linking(x)'
    BY <2>1, <2>3, <2>7 DEF K!Linking, K!PlaceInv
  <2>9. \A t \in K!TqStructs : t # x => (K!Linking(t)' <=> K!Linking(t))
    BY <2>1, <2>3, <2>7 DEF K!Linking
  <2>10. \A t \in K!TqStructs : sync'[t] <=> K!Linking(t)' \/ t \in K!Members(tq)' \cup K!Members(head)'
    BY <2>3, <2>4, <2>6, <2>8, <2>9 DEF K!PlaceInv
  <2>11. \A t \in K!TqStructs : K!Linking(t)' => t \notin K!Members(tq)' \cup K!Members(head)'
    BY <2>6, <2>8, <2>9 DEF K!PlaceInv
  <2> QED
    BY <2>3, <2>4, <2>5, <2>6, <2>7, <2>10, <2>11 DEF K!PlaceInv
<1> QED
  BY TaskQueueSteps, <1>Start, <1>Prepare, <1>Add, <1>Test, <1>Scheduler, <1>Remove, <1>Take,
     <1>Next1, <1>Call, <1>Body, <1>Again, <1>Done, <1>Reap, <1>Sigchld, <1>Mark, <1>Link,
     <1>Wake, <1>FlushAdd, <1>Round, <1>Slept, <1>Leave, <1>Flush, <1>Schedule

\* keventd holds a list and items only while it runs them.
LEMMA HeldWhileRunning ==
    ASSUME K!KeventdAssumption, K!Types, K!RunInv, K!Next
    PROVE  K!RunInv'
<1> USE DEF K!queueVars, K!workVars, K!kVars, K!pVars, K!Goto, K!KGoto, K!RunInv, K!InRun
<1>Start. CASE K!Start
  BY <1>Start DEF K!Start
<1>Prepare. CASE K!Prepare
  BY <1>Prepare DEF K!Prepare
<1>Add. CASE K!Add
  BY <1>Add DEF K!Add
<1>Test. CASE K!Test
  BY <1>Test DEF K!Test
<1>Scheduler. CASE K!Scheduler
  BY <1>Scheduler DEF K!Scheduler
<1>Remove. CASE K!Remove
  BY <1>Remove DEF K!Remove
<1>Take. CASE K!Take
  BY <1>Take, NoMembers DEF K!Take
<1>Next1. CASE K!Next1
  BY <1>Next1, ListsOfTasks DEF K!Next1
<1>Call. CASE K!Call
  BY <1>Call DEF K!Call
<1>Body. CASE K!Body
  BY <1>Body DEF K!Body, K!Finish
<1>Again. CASE K!Again
  BY <1>Again, ListsOfTasks DEF K!Again
<1>Done. CASE K!Done
  BY <1>Done DEF K!Done
<1>Reap. CASE K!Reap
  BY <1>Reap DEF K!Reap
<1>Sigchld. CASE K!Sigchld
  BY <1>Sigchld DEF K!Sigchld
<1>Mark. ASSUME NEW p \in Procs, K!Mark(p) PROVE K!RunInv'
  BY <1>Mark DEF K!Mark
<1>Link. ASSUME NEW p \in Procs, K!Link(p) PROVE K!RunInv'
  BY <1>Link, ListsOfTasks DEF K!Link
<1>Wake. ASSUME NEW p \in Procs, K!Wake(p) PROVE K!RunInv'
  BY <1>Wake DEF K!Wake
<1>FlushAdd. ASSUME NEW p \in Procs, K!FlushAdd(p) PROVE K!RunInv'
  BY <1>FlushAdd DEF K!FlushAdd
<1>Round. ASSUME NEW p \in Procs, K!Round(p) PROVE K!RunInv'
  BY <1>Round DEF K!Round
<1>Slept. ASSUME NEW p \in Procs, K!Slept(p) PROVE K!RunInv'
  BY <1>Slept DEF K!Slept
<1>Leave. ASSUME NEW p \in Procs, K!Leave(p) PROVE K!RunInv'
  BY <1>Leave DEF K!Leave
<1>Flush. ASSUME NEW p \in Procs, K!Flush(p) PROVE K!RunInv'
  BY <1>Flush DEF K!Flush
<1>Schedule. ASSUME NEW p \in Procs, NEW t \in Works, K!Schedule(p, t) PROVE K!RunInv'
  BY <1>Schedule DEF K!Schedule
<1> QED
  BY TaskQueueSteps, <1>Start, <1>Prepare, <1>Add, <1>Test, <1>Scheduler, <1>Remove, <1>Take,
     <1>Next1, <1>Call, <1>Body, <1>Again, <1>Done, <1>Reap, <1>Sigchld, <1>Mark, <1>Link,
     <1>Wake, <1>FlushAdd, <1>Round, <1>Slept, <1>Leave, <1>Flush, <1>Schedule

\* A process leaves items of its own, and waits for others only in flush_scheduled_tasks.
LEMMA OwnItems ==
    ASSUME K!KeventdAssumption, K!Types, K!UserInv, K!Next
    PROVE  K!UserInv'
<1> USE DEF K!queueVars, K!workVars, K!kVars, K!pVars, K!Goto, K!KGoto, K!UserInv, K!Types,
        K!TqStructs, K!KeventdAssumption, K!More
<1>Start. CASE K!Start
  BY <1>Start DEF K!Start
<1>Prepare. CASE K!Prepare
  BY <1>Prepare DEF K!Prepare
<1>Add. CASE K!Add
  BY <1>Add DEF K!Add
<1>Test. CASE K!Test
  BY <1>Test DEF K!Test
<1>Scheduler. CASE K!Scheduler
  BY <1>Scheduler DEF K!Scheduler
<1>Remove. CASE K!Remove
  BY <1>Remove DEF K!Remove
<1>Take. CASE K!Take
  BY <1>Take, NoMembers DEF K!Take
<1>Next1. CASE K!Next1
  BY <1>Next1, ListsOfTasks DEF K!Next1
<1>Call. CASE K!Call
  BY <1>Call DEF K!Call
<1>Body. CASE K!Body
  BY <1>Body DEF K!Body, K!Finish
<1>Again. CASE K!Again
  BY <1>Again, ListsOfTasks DEF K!Again
<1>Done. CASE K!Done
  BY <1>Done DEF K!Done
<1>Reap. CASE K!Reap
  BY <1>Reap DEF K!Reap
<1>Sigchld. CASE K!Sigchld
  BY <1>Sigchld DEF K!Sigchld
<1>Mark. ASSUME NEW p \in Procs, K!Mark(p) PROVE K!UserInv'
  BY <1>Mark DEF K!Mark
<1>Link. ASSUME NEW p \in Procs, K!Link(p) PROVE K!UserInv'
  BY <1>Link, ListsOfTasks DEF K!Link
<1>Wake. ASSUME NEW p \in Procs, K!Wake(p) PROVE K!UserInv'
  BY <1>Wake DEF K!Wake
<1>FlushAdd. ASSUME NEW p \in Procs, K!FlushAdd(p) PROVE K!UserInv'
  BY <1>FlushAdd DEF K!FlushAdd
<1>Round. ASSUME NEW p \in Procs, K!Round(p) PROVE K!UserInv'
  BY <1>Round DEF K!Round
<1>Slept. ASSUME NEW p \in Procs, K!Slept(p) PROVE K!UserInv'
  BY <1>Slept DEF K!Slept
<1>Leave. ASSUME NEW p \in Procs, K!Leave(p) PROVE K!UserInv'
  BY <1>Leave DEF K!Leave
<1>Flush. ASSUME NEW p \in Procs, K!Flush(p) PROVE K!UserInv'
  BY <1>Flush DEF K!Flush
<1>Schedule. ASSUME NEW p \in Procs, NEW t \in Works, K!Schedule(p, t) PROVE K!UserInv'
  BY <1>Schedule DEF K!Schedule
<1> QED
  BY TaskQueueSteps, <1>Start, <1>Prepare, <1>Add, <1>Test, <1>Scheduler, <1>Remove, <1>Take,
     <1>Next1, <1>Call, <1>Body, <1>Again, <1>Done, <1>Reap, <1>Sigchld, <1>Mark, <1>Link,
     <1>Wake, <1>FlushAdd, <1>Round, <1>Slept, <1>Leave, <1>Flush, <1>Schedule

\* One more call of the routine is to come.
LEMMA WorkIsFound ==
    ASSUME K!KeventdAssumption, K!Types, K!PlaceInv, K!RunInv, K!UserInv, K!NoLostWork, K!Next
    PROVE  K!NoLostWork'
<1> USE DEF K!queueVars, K!workVars, K!kVars, K!pVars, K!Goto, K!KGoto, K!NoLostWork, K!Linking,
        K!TqStructs, K!Types, K!PlaceInv, K!RunInv, K!InRun
<1>Start. CASE K!Start
  BY <1>Start DEF K!Start
<1>Prepare. CASE K!Prepare
  BY <1>Prepare DEF K!Prepare
<1>Add. CASE K!Add
  BY <1>Add DEF K!Add
<1>Test. CASE K!Test
  BY <1>Test DEF K!Test
<1>Scheduler. CASE K!Scheduler
  BY <1>Scheduler DEF K!Scheduler
<1>Remove. CASE K!Remove
  BY <1>Remove DEF K!Remove
<1>Take. CASE K!Take
  BY <1>Take, NoMembers DEF K!Take
<1>Next1. CASE K!Next1
  BY <1>Next1, ListsOfTasks DEF K!Next1
<1>Body. CASE K!Body
  BY <1>Body DEF K!Body, K!Finish
<1>Done. CASE K!Done
  BY <1>Done DEF K!Done
<1>Reap. CASE K!Reap
  BY <1>Reap DEF K!Reap
<1>Sigchld. CASE K!Sigchld
  BY <1>Sigchld DEF K!Sigchld
<1>Wake. ASSUME NEW p \in Procs, K!Wake(p) PROVE K!NoLostWork'
  BY <1>Wake DEF K!Wake
<1>FlushAdd. ASSUME NEW p \in Procs, K!FlushAdd(p) PROVE K!NoLostWork'
  BY <1>FlushAdd DEF K!FlushAdd
<1>Round. ASSUME NEW p \in Procs, K!Round(p) PROVE K!NoLostWork'
  BY <1>Round DEF K!Round
<1>Slept. ASSUME NEW p \in Procs, K!Slept(p) PROVE K!NoLostWork'
  BY <1>Slept DEF K!Slept
<1>Leave. ASSUME NEW p \in Procs, K!Leave(p) PROVE K!NoLostWork'
  BY <1>Leave DEF K!Leave
<1>Flush. ASSUME NEW p \in Procs, K!Flush(p) PROVE K!NoLostWork'
  BY <1>Flush DEF K!Flush
<1>Schedule. ASSUME NEW p \in Procs, NEW t \in Works, K!Schedule(p, t) PROVE K!NoLostWork'
  BY <1>Schedule, ZenonT(30) DEF K!Schedule
<1> HIDE DEF K!NoLostWork, K!Linking, K!TqStructs, K!Types, K!PlaceInv, K!RunInv, K!InRun
<1>Call. CASE K!Call
  <2>1. tpc = "call" /\ UNCHANGED <<tq, head, item, ppc, target>>
    BY <1>Call DEF K!Call
  <2>2. \A t \in Works : left'[t] # {} => left[t] # {} /\ t # item
    BY <1>Call DEF K!Call, K!Types, K!KeventdAssumption
  <2>3. \A t \in Works : K!Linking(t) => K!Linking(t)'
    BY <2>1 DEF K!Linking
  <2>4. K!Members(tq)' = K!Members(tq) /\ K!Members(head)' = K!Members(head)
    BY <2>1 DEF K!Members
  <2> QED
    BY <2>1, <2>2, <2>3, <2>4 DEF K!NoLostWork
<1>Again. CASE K!Again
  <2>1. item \in K!TqStructs
    BY DEF K!Types
  <2>2. PICK l : l = Append(tq, item)
    OBVIOUS
  <2>3. tq' = l /\ UNCHANGED <<head, item, left, ppc, target>> /\ tpc = "again" /\ tpc' = "next"
    BY <1>Again, <2>2 DEF K!Again
  <2>4. K!Members(tq)' = K!Members(tq) \cup {item} /\ K!Members(head)' = K!Members(head)
    BY ListsOfTasks, <2>1, <2>2, <2>3 DEF K!Members
  <2>5. \A t \in Works : K!Linking(t) => t = item \/ K!Linking(t)'
    BY <2>3 DEF K!Linking
  <2> QED
    BY <2>3, <2>4, <2>5 DEF K!NoLostWork
<1>Mark. ASSUME NEW p \in Procs, K!Mark(p) PROVE K!NoLostWork'
  <2>1. PICK x \in K!TqStructs : x = target[p]
    BY DEF K!Types
  <2>2. /\ ppc[p] = "mark" /\ UNCHANGED <<tq, head, item, tpc, target, left>>
        /\ ppc' = [ppc EXCEPT ![p] = IF sync[x] THEN "wake" ELSE "link"]
    BY <1>Mark, <2>1 DEF K!Mark
  <2>3. /\ \A q \in Procs : q # p => ppc'[q] = ppc[q]
        /\ ~sync[x] => ppc'[p] = "link"
    BY <2>2 DEF K!Types
  <2>4. \A t \in Works : K!Linking(t) => K!Linking(t)'
    BY <2>2, <2>3 DEF K!Linking
  <2>5. x \in K!Members(tq) \cup K!Members(head) \/ K!Linking(x)'
    <3>1. CASE sync[x]
      BY <2>2, <2>3, <3>1 DEF K!PlaceInv, K!Linking
    <3>2. CASE ~sync[x]
      BY <2>1, <2>2, <2>3, <3>2 DEF K!Linking
    <3> QED
      BY <3>1, <3>2
  <2>6. K!Members(tq)' = K!Members(tq) /\ K!Members(head)' = K!Members(head)
    BY <2>2 DEF K!Members
  <2> SUFFICES ASSUME NEW t \in Works, left'[t] # {}
                PROVE  \/ t \in K!Members(tq)' \cup K!Members(head)' \/ K!Linking(t)'
                       \/ tpc' = "call" /\ item' = t
                       \/ \E q \in Procs : ppc'[q] = "mark" /\ target'[q] = t
    BY DEF K!NoLostWork
  <2>7. CASE t = x
    BY <2>5, <2>6, <2>7
  <2>8. CASE t # x
    <3>1. \A q \in Procs : ppc[q] = "mark" /\ target[q] = t => ppc'[q] = "mark" /\ target'[q] = t
      BY <2>1, <2>2, <2>3, <2>8
    <3> QED
      BY <2>2, <2>4, <2>6, <3>1 DEF K!NoLostWork
  <2> QED
    BY <2>7, <2>8
<1>Link. ASSUME NEW p \in Procs, K!Link(p) PROVE K!NoLostWork'
  <2>1. PICK x \in K!TqStructs : x = target[p]
    BY DEF K!Types
  <2>2. PICK l : l = Append(tq, x)
    OBVIOUS
  <2>3. /\ tq' = l /\ ppc[p] = "link" /\ ppc' = [ppc EXCEPT ![p] = "wake"]
        /\ UNCHANGED <<sync, head, item, tpc, target, left>>
    BY <1>Link, <2>1, <2>2 DEF K!Link
  <2>4. /\ K!Linking(x) /\ x \notin K!Members(tq) \cup K!Members(head)
    BY <2>1, <2>3 DEF K!PlaceInv, K!Linking
  <2>5. K!Members(l) = K!Members(tq) \cup {x} /\ K!Once(l)
    BY ListsOfTasks, <2>2, <2>4 DEF K!PlaceInv
  <2>6. /\ K!Members(tq)' = K!Members(tq) \cup {x} /\ K!Members(head)' = K!Members(head)
        /\ K!Once(tq)' = K!Once(l) /\ K!Once(head)' = K!Once(head)
    BY <2>3, <2>5 DEF K!Members, K!Once
  <2>7. \A q \in Procs : ppc'[q] = "link" <=> (ppc[q] = "link" /\ q # p)
    BY <2>3 DEF K!Types
  <2> SUFFICES ASSUME NEW t \in Works, left'[t] # {}
                PROVE  \/ t \in K!Members(tq)' \cup K!Members(head)' \/ K!Linking(t)'
                       \/ tpc' = "call" /\ item' = t
                       \/ \E q \in Procs : ppc'[q] = "mark" /\ target'[q] = t
    BY DEF K!NoLostWork
  <2>8. K!Linking(t) => t = x \/ K!Linking(t)'
    BY <2>1, <2>3, <2>7 DEF K!Linking
  <2>9. \A q \in Procs : ppc[q] = "mark" => ppc'[q] = "mark"
    BY <2>3 DEF K!Types
  <2> QED
    BY <2>3, <2>6, <2>8, <2>9 DEF K!NoLostWork
<1> QED
  BY TaskQueueSteps, <1>Start, <1>Prepare, <1>Add, <1>Test, <1>Scheduler, <1>Remove, <1>Take,
     <1>Next1, <1>Call, <1>Body, <1>Again, <1>Done, <1>Reap, <1>Sigchld, <1>Mark, <1>Link,
     <1>Wake, <1>FlushAdd, <1>Round, <1>Slept, <1>Leave, <1>Flush, <1>Schedule

\* keventd looks at the queue after it has gone onto its wait queue.
LEMMA KeventdIsWoken ==
    ASSUME K!KeventdAssumption, K!Types, K!RunInv, K!NoLostWakeup, K!Next
    PROVE  K!NoLostWakeup'
<1> USE DEF K!queueVars, K!workVars, K!kVars, K!pVars, K!Goto, K!KGoto, K!NoLostWakeup,
        K!RunInv, K!InRun, K!Types
<1>Start. CASE K!Start
  BY <1>Start DEF K!Start
<1>Prepare. CASE K!Prepare
  BY <1>Prepare DEF K!Prepare
<1>Add. CASE K!Add
  BY <1>Add DEF K!Add
<1>Test. CASE K!Test
  BY <1>Test DEF K!Test
<1>Scheduler. CASE K!Scheduler
  BY <1>Scheduler DEF K!Scheduler
<1>Remove. CASE K!Remove
  BY <1>Remove DEF K!Remove
<1>Take. CASE K!Take
  BY <1>Take, NoMembers DEF K!Take
<1>Next1. CASE K!Next1
  BY <1>Next1, ListsOfTasks DEF K!Next1
<1>Call. CASE K!Call
  BY <1>Call DEF K!Call
<1>Body. CASE K!Body
  BY <1>Body DEF K!Body, K!Finish
<1>Again. CASE K!Again
  BY <1>Again, ListsOfTasks DEF K!Again
<1>Done. CASE K!Done
  BY <1>Done DEF K!Done
<1>Reap. CASE K!Reap
  BY <1>Reap DEF K!Reap
<1>Sigchld. CASE K!Sigchld
  BY <1>Sigchld DEF K!Sigchld
<1>Mark. ASSUME NEW p \in Procs, K!Mark(p) PROVE K!NoLostWakeup'
  BY <1>Mark DEF K!Mark
<1>Link. ASSUME NEW p \in Procs, K!Link(p) PROVE K!NoLostWakeup'
  BY <1>Link, ListsOfTasks DEF K!Link
<1>Wake. ASSUME NEW p \in Procs, K!Wake(p) PROVE K!NoLostWakeup'
  BY <1>Wake DEF K!Wake
<1>FlushAdd. ASSUME NEW p \in Procs, K!FlushAdd(p) PROVE K!NoLostWakeup'
  BY <1>FlushAdd DEF K!FlushAdd
<1>Round. ASSUME NEW p \in Procs, K!Round(p) PROVE K!NoLostWakeup'
  BY <1>Round DEF K!Round
<1>Slept. ASSUME NEW p \in Procs, K!Slept(p) PROVE K!NoLostWakeup'
  BY <1>Slept DEF K!Slept
<1>Leave. ASSUME NEW p \in Procs, K!Leave(p) PROVE K!NoLostWakeup'
  BY <1>Leave DEF K!Leave
<1>Flush. ASSUME NEW p \in Procs, K!Flush(p) PROVE K!NoLostWakeup'
  BY <1>Flush DEF K!Flush
<1>Schedule. ASSUME NEW p \in Procs, NEW t \in Works, K!Schedule(p, t) PROVE K!NoLostWakeup'
  BY <1>Schedule DEF K!Schedule
<1> QED
  BY TaskQueueSteps, <1>Start, <1>Prepare, <1>Add, <1>Test, <1>Scheduler, <1>Remove, <1>Take,
     <1>Next1, <1>Call, <1>Body, <1>Again, <1>Done, <1>Reap, <1>Sigchld, <1>Mark, <1>Link,
     <1>Wake, <1>FlushAdd, <1>Round, <1>Slept, <1>Leave, <1>Flush, <1>Schedule

\* Every wake_up of context_task_done brings the items a flusher waits for one list on.
LEMMA ItemsOfFlush ==
    ASSUME K!KeventdAssumption, K!OwnWork, K!KeventdInv, K!Next
    PROVE  K!FlushInv'
<1>types. K!Types
  BY DEF K!KeventdInv
<1> USE DEF K!queueVars, K!workVars, K!kVars, K!pVars, K!Goto, K!KGoto, K!KeventdInv,
        K!FlushInv, K!InHand, K!Woken, K!InRun, K!Types, K!PlaceInv, K!RunInv, K!UserInv,
        K!TqStructs
<1>Start. CASE K!Start
  BY <1>Start DEF K!Start
<1>Prepare. CASE K!Prepare
  BY <1>Prepare DEF K!Prepare
<1>Add. CASE K!Add
  BY <1>Add DEF K!Add
<1>Test. CASE K!Test
  BY <1>Test DEF K!Test
<1>Scheduler. CASE K!Scheduler
  BY <1>Scheduler DEF K!Scheduler
<1>Remove. CASE K!Remove
  BY <1>Remove DEF K!Remove
<1>Take. CASE K!Take
  BY <1>Take, NoMembers DEF K!Take
<1>Body. CASE K!Body
  BY <1>Body DEF K!Body, K!Finish
<1>Again. CASE K!Again
  BY <1>Again, <1>types, ListsOfTasks DEF K!Again
<1>Reap. CASE K!Reap
  BY <1>Reap DEF K!Reap
<1>Sigchld. CASE K!Sigchld
  BY <1>Sigchld DEF K!Sigchld
<1>Mark. ASSUME NEW p \in Procs, K!Mark(p) PROVE K!FlushInv'
  BY <1>Mark DEF K!Mark
<1>Wake. ASSUME NEW p \in Procs, K!Wake(p) PROVE K!FlushInv'
  BY <1>Wake DEF K!Wake
<1>FlushAdd. ASSUME NEW p \in Procs, K!FlushAdd(p) PROVE K!FlushInv'
  BY <1>FlushAdd DEF K!FlushAdd
<1>Round. ASSUME NEW p \in Procs, K!Round(p) PROVE K!FlushInv'
  BY <1>Round DEF K!Round
<1>Slept. ASSUME NEW p \in Procs, K!Slept(p) PROVE K!FlushInv'
  BY <1>Slept DEF K!Slept
<1>Leave. ASSUME NEW p \in Procs, K!Leave(p) PROVE K!FlushInv'
  BY <1>Leave DEF K!Leave
<1> HIDE DEF K!KeventdInv, K!FlushInv, K!InHand, K!Woken, K!InRun, K!Types, K!PlaceInv,
         K!RunInv, K!UserInv, K!TqStructs
<1>Next1. CASE K!Next1
  <2>1. tpc = "next" /\ UNCHANGED <<tq, left, doing, owed, ppc, target, pstate, rounds>>
    BY <1>Next1 DEF K!Next1
  <2>2. \A q : K!Woken(q)' <=> K!Woken(q)
    BY <2>1 DEF K!Woken
  <2>3. CASE head = <<>>
    <3>1. head' = head /\ item' = item /\ tpc' = "done"
      BY <1>Next1, <2>3 DEF K!Next1
    <3>2. K!Members(tq)' = K!Members(tq) /\ K!Members(head)' = K!Members(head) /\ K!InRun
      BY <2>1, <3>1 DEF K!Members, K!InRun
    <3>3. \A x : K!InHand(x)' <=> K!InHand(x)
      BY <2>1, <3>1 DEF K!InHand
    <3> QED
      BY <2>1, <2>2, <3>1, <3>2, <3>3 DEF K!FlushInv, K!KeventdInv
  <2>4. CASE head # <<>>
    <3>1. PICK h, r : h = Head(head) /\ r = Tail(head)
      OBVIOUS
    <3>2. item' = h /\ head' = r /\ tpc' = "call" /\ K!Members(head) = K!Members(r) \cup {h}
      BY <1>Next1, <1>types, ListsOfTasks, <2>4, <3>1 DEF K!Next1
    <3>3. /\ K!Members(tq)' = K!Members(tq) /\ K!Members(head)' \cup {h} = K!Members(head)
          /\ K!InRun /\ K!InRun'
      BY <2>1, <3>2 DEF K!Members, K!InRun
    <3>4. \A x : (K!InHand(x) => K!InHand(x)') /\ (h \in Works /\ x \in left[h] => K!InHand(x)')
      BY <2>1, <3>2 DEF K!InHand
    <3> QED
      BY <2>1, <2>2, <3>2, <3>3, <3>4 DEF K!FlushInv, K!KeventdInv
  <2> QED
    BY <2>3, <2>4
<1>Call. CASE K!Call
  <2>1. /\ tpc = "call" /\ tpc' \in {"next", "body"}
        /\ UNCHANGED <<tq, head, item, owed, ppc, target, pstate, rounds>>
    BY <1>Call DEF K!Call
  <2>2. \A x : K!InHand(x) => K!InHand(x)'
    <3>1. doing = {}
      BY <2>1 DEF K!KeventdInv, K!RunInv
    <3>2. CASE item = Dummy
      BY <1>Call, <3>1, <3>2 DEF K!Call, K!InHand, K!KeventdAssumption
    <3>3. CASE item # Dummy
      BY <1>Call, <3>1, <3>3 DEF K!Call, K!InHand
    <3> QED
      BY <3>2, <3>3
  <2>3. \A x, t : t \in Works /\ x \in left[t] => K!InHand(x)' \/ x \in left'[t]
    BY <1>Call DEF K!Call, K!InHand, K!KeventdInv, K!Types
  <2>4. K!Members(tq)' = K!Members(tq) /\ K!Members(head)' = K!Members(head) /\ K!InRun /\ K!InRun'
    BY <2>1 DEF K!Members, K!InRun
  <2>5. \A q : K!Woken(q)' <=> K!Woken(q)
    BY <2>1 DEF K!Woken
  <2> QED
    BY <2>1, <2>2, <2>3, <2>4, <2>5 DEF K!FlushInv, K!KeventdInv
<1>Done. CASE K!Done
  <2>1. /\ tpc = "done" /\ tpc' = "reap"
        /\ UNCHANGED <<tq, head, item, left, doing, owed, ppc, target, rounds>>
    BY <1>Done DEF K!Done
  <2>2. /\ K!Members(tq)' = K!Members(tq) /\ K!Members(head) = {} /\ K!Members(head)' = {}
        /\ ~K!InRun /\ ~K!InRun'
    BY <2>1, NoMembers DEF K!InRun, K!KeventdInv, K!RunInv
  <2>3. \A x : ~K!InHand(x) /\ ~K!InHand(x)'
    BY <2>1 DEF K!InHand, K!KeventdInv, K!RunInv
  <2>4. \A q \in Procs : \A x \in owed[q] : \E t \in Works : x \in left[t] /\ t \in K!Members(tq)
    BY <2>1, <2>2, <2>3 DEF K!FlushInv, K!KeventdInv
  <2>5. \A q \in Procs : rounds[q] >= 1 \/ K!Woken(q) => owed[q] = {}
    BY <2>1, <2>2, <2>3 DEF K!FlushInv, K!KeventdInv
  <2>6. \A q \in Procs : rounds[q] >= 2 => rounds[q] >= 1
    BY DEF K!Types, K!KeventdInv
  <2> QED
    BY <2>1, <2>2, <2>4, <2>5, <2>6 DEF K!FlushInv
<1>Link. ASSUME NEW p \in Procs, K!Link(p) PROVE K!FlushInv'
  <2>1. PICK x \in K!TqStructs : x = target[p]
    BY DEF K!KeventdInv, K!Types
  <2>2. PICK l : l = Append(tq, x) /\ K!Members(l) = K!Members(tq) \cup {x}
    BY <1>types, ListsOfTasks
  <2>3. /\ tq' = l /\ ppc[p] = "link" /\ ppc' = [ppc EXCEPT ![p] = "wake"]
        /\ UNCHANGED <<head, item, tpc, left, doing, owed, target, pstate, rounds>>
    BY <1>Link, <2>1, <2>2 DEF K!Link
  <2>4. /\ K!Members(tq)' = K!Members(tq) \cup {x} /\ K!Members(head)' = K!Members(head)
        /\ K!InRun' <=> K!InRun
    BY <2>2, <2>3 DEF K!Members, K!InRun
  <2>5. \A y : K!InHand(y)' <=> K!InHand(y)
    BY <2>3 DEF K!InHand
  <2>6. \A q \in Procs : K!Woken(q)' <=> K!Woken(q)
    BY <2>3 DEF K!Woken, K!KeventdInv, K!Types
  <2> QED
    BY <2>3, <2>4, <2>5, <2>6 DEF K!FlushInv, K!KeventdInv
<1>Flush. ASSUME NEW p \in Procs, K!Flush(p) PROVE K!FlushInv'
  <2>1. PICK S : S = K!Scheduled
    OBVIOUS
  <2>2. /\ ppc[p] = "idle" /\ owed' = [owed EXCEPT ![p] = S] /\ rounds' = [rounds EXCEPT ![p] = 0]
        /\ ppc' = [ppc EXCEPT ![p] = "flush"]
        /\ UNCHANGED <<tq, head, item, tpc, left, doing, pstate>>
    BY <1>Flush, <2>1 DEF K!Flush
  <2>3. /\ K!Members(tq)' = K!Members(tq) /\ K!Members(head)' = K!Members(head)
        /\ K!InRun' <=> K!InRun
    BY <2>2 DEF K!Members, K!InRun
  <2>4. \A x : K!InHand(x)' <=> K!InHand(x)
    BY <2>2 DEF K!InHand
  <2>5. ~K!Woken(p)' /\ rounds'[p] = 0 /\ owed'[p] = S
    BY <2>2 DEF K!Woken, K!KeventdInv, K!Types
  <2>6. \A q \in Procs : q # p => owed'[q] = owed[q] /\ rounds'[q] = rounds[q] /\ (K!Woken(q)' <=> K!Woken(q))
    BY <2>2 DEF K!Woken, K!KeventdInv, K!Types
  <2>7. ASSUME NEW x \in S
        PROVE  \/ K!InHand(x)
               \/ \E t \in Works : x \in left[t] /\
                      (t \in K!Members(tq) \cup K!Members(head) \/ (tpc = "again" /\ item = t))
    <3>1. /\ x \in doing \/ \E t \in Works : x \in left[t]
          /\ ppc[x] \notin {"mark", "link", "wake"} \/ target[x] = Dummy
      BY <2>1, <2>7, UnfinishedItem DEF K!Scheduled
    <3>2. CASE x \in doing
      BY <3>2 DEF K!InHand
    <3>3. ASSUME NEW t \in Works, x \in left[t], ~K!InHand(x)
          PROVE  t \in K!Members(tq) \cup K!Members(head) \/ (tpc = "again" /\ item = t)
      <4>1. x \in Procs /\ <<x, t>> \in Users /\ t # Dummy
        BY <3>3 DEF K!KeventdInv, K!Types, K!UserInv, K!KeventdAssumption
      <4>2. ASSUME NEW q \in Procs, ppc[q] \in {"mark", "link"}, target[q] = t PROVE FALSE
        <5>1. <<q, t>> \in Users
          BY <4>1, <4>2 DEF K!KeventdInv, K!UserInv
        <5>2. q = x
          BY <4>1, <5>1 DEF K!OwnWork
        <5> QED
          BY <3>1, <4>1, <4>2, <5>2
      <4>3. ~(tpc = "call" /\ item = t)
        BY <3>3 DEF K!InHand
      <4> QED
        BY <3>3, <4>2, <4>3 DEF K!KeventdInv, K!NoLostWork, K!Linking
    <3> QED
      BY <3>1, <3>2, <3>3
  <2>8. \A q \in Procs : \A x \in owed'[q] : \/ K!InHand(x)
               \/ \E t \in Works : x \in left[t] /\
                      (t \in K!Members(tq) \cup K!Members(head) \/ (tpc = "again" /\ item = t))
    BY <2>5, <2>6, <2>7 DEF K!FlushInv, K!KeventdInv
  <2>9. ASSUME NEW q \in Procs, q # p
        PROVE  /\ rounds'[q] >= 1 \/ K!Woken(q)' => \A x \in owed'[q] : K!InHand(x) \/
                     \E t \in Works : x \in left[t] /\
                         t \in IF K!InRun \/ tpc = "done" THEN K!Members(head) ELSE K!Members(tq)
               /\ rounds'[q] >= 2 \/ (rounds'[q] >= 1 /\ K!Woken(q)') => owed'[q] = {}
    BY <2>6, <2>9 DEF K!FlushInv, K!KeventdInv
  <2>10. ~(rounds'[p] >= 1) /\ ~(rounds'[p] >= 2)
    BY <2>5
  <2> QED
    BY <2>2, <2>3, <2>4, <2>5, <2>8, <2>9, <2>10 DEF K!FlushInv
<1>Schedule. ASSUME NEW p \in Procs, NEW t \in Works, K!Schedule(p, t) PROVE K!FlushInv'
  <2>1. /\ ppc[p] = "idle" /\ left' = [left EXCEPT ![t] = @ \cup {p}] /\ ppc' = [ppc EXCEPT ![p] = "mark"]
        /\ UNCHANGED <<tq, head, item, tpc, doing, owed, pstate, rounds>>
    BY <1>Schedule DEF K!Schedule
  <2>2. /\ K!Members(tq)' = K!Members(tq) /\ K!Members(head)' = K!Members(head)
        /\ K!InRun' <=> K!InRun
    BY <2>1 DEF K!Members, K!InRun
  <2>3. \A u \in Works : left[u] \subseteq left'[u]
    BY <2>1 DEF K!KeventdInv, K!Types
  <2>4. \A x : K!InHand(x) => K!InHand(x)'
    BY <2>1, <2>3 DEF K!InHand
  <2>5. owed[p] = {} /\ \A q \in Procs : q # p => (K!Woken(q)' <=> K!Woken(q))
    BY <2>1 DEF K!Woken, K!KeventdInv, K!UserInv, K!Types
  <2>6. ASSUME NEW q \in Procs, q # p
        PROVE  /\ \A x \in owed'[q] : K!InHand(x)' \/ \E u \in Works : x \in left'[u] /\
                     (u \in K!Members(tq)' \cup K!Members(head)' \/ (tpc' = "again" /\ item' = u))
               /\ rounds'[q] >= 1 \/ K!Woken(q)' => \A x \in owed'[q] : K!InHand(x)' \/
                     \E u \in Works : x \in left'[u] /\
                         u \in IF K!InRun' \/ tpc' = "done" THEN K!Members(head)' ELSE K!Members(tq)'
               /\ rounds'[q] >= 2 \/ (rounds'[q] >= 1 /\ K!Woken(q)') => owed'[q] = {}
    BY <2>1, <2>2, <2>3, <2>4, <2>5, <2>6 DEF K!FlushInv, K!KeventdInv
  <2> QED
    BY <2>1, <2>5, <2>6 DEF K!FlushInv
<1> QED
  BY TaskQueueSteps, <1>Start, <1>Prepare, <1>Add, <1>Test, <1>Scheduler, <1>Remove, <1>Take,
     <1>Next1, <1>Call, <1>Body, <1>Again, <1>Done, <1>Reap, <1>Sigchld, <1>Mark, <1>Link,
     <1>Wake, <1>FlushAdd, <1>Round, <1>Slept, <1>Leave, <1>Flush, <1>Schedule

\* A set that has no two members.
LEMMA AtMostOne ==
    ASSUME NEW S, \A x, y \in S : x = y
    PROVE  /\ Cardinality(S) \in {0, 1}
           /\ S = {} => Cardinality(S) = 0
<1>1. CASE S = {}
  BY <1>1, FS_EmptySet
<1>2. CASE S # {}
  <2>1. PICK x : x \in S
    BY <1>2
  <2>2. S = {x}
    BY <2>1
  <2> QED
    BY <1>2, <2>2, FS_Singleton
<1> QED
  BY <1>1, <1>2

\* Keventd counts as this module does.
LEMMA SameCardinality ==
    ASSUME NEW S
    PROVE  K!Cardinality(S) = Cardinality(S)
BY DEF K!Cardinality, Cardinality

\* A tq_struct that is in one place is there once.
LEMMA QueuedOnce ==
    ASSUME K!Types, K!PlaceInv
    PROVE  K!SyncIsQueued
<1>0. \A t \in K!TqStructs : sync[t] <=> K!Linking(t) \/ t \in K!Members(tq) \cup K!Members(head)
  BY DEF K!PlaceInv
<1> SUFFICES ASSUME NEW t \in K!TqStructs
             PROVE  Cardinality({i \in DOMAIN tq : tq[i] = t})
                      + Cardinality({i \in DOMAIN head : head[i] = t})
                      + Cardinality({p \in Procs : ppc[p] = "link" /\ target[p] = t})
                      + (IF tpc = "again" /\ item = t THEN 1 ELSE 0) <= 1
  BY <1>0, SameCardinality DEF K!SyncIsQueued
<1>1. PICK A, B, C : /\ A = {i \in DOMAIN tq : tq[i] = t}
                     /\ B = {i \in DOMAIN head : head[i] = t}
                     /\ C = {p \in Procs : ppc[p] = "link" /\ target[p] = t}
  OBVIOUS
<1>2. PICK a, b, c : a = Cardinality(A) /\ b = Cardinality(B) /\ c = Cardinality(C)
  OBVIOUS
<1>3. a \in {0, 1} /\ (A = {} => a = 0)
  <2>1. \A x, y \in A : x = y
    BY <1>1 DEF K!PlaceInv, K!Once
  <2> QED
    BY <1>2, <2>1, AtMostOne
<1>4. b \in {0, 1} /\ (B = {} => b = 0)
  <2>1. \A x, y \in B : x = y
    BY <1>1 DEF K!PlaceInv, K!Once
  <2> QED
    BY <1>2, <2>1, AtMostOne
<1>5. c \in {0, 1} /\ (C = {} => c = 0)
  <2>1. \A x, y \in C : x = y
    BY <1>1 DEF K!PlaceInv
  <2> QED
    BY <1>2, <2>1, AtMostOne
<1>6. (t \notin K!Members(tq) => A = {}) /\ (t \notin K!Members(head) => B = {})
  BY <1>1 DEF K!Members
<1>7. t \notin K!Members(tq) \/ t \notin K!Members(head)
  BY DEF K!PlaceInv
<1>8. K!Linking(t) => t \notin K!Members(tq) /\ t \notin K!Members(head)
  BY DEF K!PlaceInv
<1>9. ~K!Linking(t) => C = {} /\ ~(tpc = "again" /\ item = t)
  BY <1>1 DEF K!Linking
<1>10. tpc = "again" /\ item = t => C = {}
  BY <1>1 DEF K!PlaceInv
<1>11. PICK d \in {0, 1} : d = IF tpc = "again" /\ item = t THEN 1 ELSE 0
  OBVIOUS
<1>12. a + b + c + d <= 1
  BY <1>3, <1>4, <1>5, <1>6, <1>7, <1>8, <1>9, <1>10, <1>11
<1> QED
  BY <1>1, <1>2, <1>11, <1>12

\* KeventdInv is an inductive invariant of schedule_task, __run_task_queue, context_thread
\* and flush_scheduled_tasks.
THEOREM TaskQueueInvariant ==
    ASSUME K!KeventdAssumption
    PROVE  K!Spec => []K!KeventdInv
<1>1. K!Init => K!KeventdInv
  <2> SUFFICES ASSUME K!Init PROVE K!KeventdInv
    OBVIOUS
  <2>1. K!Types
    BY DEF K!Init, K!Types, K!TqStructs, K!PCs
  <2>2. K!PlaceInv
    BY NoMembers DEF K!Init, K!PlaceInv, K!Linking
  <2>3. K!RunInv /\ K!UserInv /\ K!NoLostWork /\ K!NoLostWakeup
    BY DEF K!Init, K!RunInv, K!UserInv, K!NoLostWork, K!NoLostWakeup, K!InRun
  <2>4. K!FlushInv
    BY DEF K!Init, K!FlushInv
  <2> QED
    BY <2>1, <2>2, <2>3, <2>4 DEF K!KeventdInv
<1>2. K!KeventdInv /\ [K!Next]_K!vars => K!KeventdInv'
  <2>1. ASSUME K!KeventdInv, K!Next PROVE K!KeventdInv'
    <3>1. /\ K!Types /\ K!PlaceInv /\ K!RunInv /\ K!UserInv /\ K!NoLostWork /\ K!NoLostWakeup
      BY <2>1 DEF K!KeventdInv
    <3>2. /\ K!Types' /\ K!PlaceInv' /\ K!RunInv' /\ K!UserInv' /\ K!NoLostWork' /\ K!NoLostWakeup'
      BY <2>1, <3>1, TaskQueueTypes, OneListPlace, HeldWhileRunning, OwnItems, WorkIsFound, KeventdIsWoken
    <3>3. ASSUME K!OwnWork PROVE K!FlushInv'
      BY <2>1, <3>3, ItemsOfFlush
    <3>4. K!OwnWork' = K!OwnWork
      BY DEF K!OwnWork
    <3> QED
      BY <3>2, <3>3, <3>4 DEF K!KeventdInv
  <2>2. ASSUME K!KeventdInv, UNCHANGED K!vars PROVE K!KeventdInv'
    <3>1. UNCHANGED <<sync, tq, head, item, left, doing, owed, tpc, tstate, waiting, signal, ppc, target,
                      pstate, flushers, rounds>>
      BY <2>2 DEF K!vars, K!queueVars, K!workVars, K!kVars, K!pVars
    <3>2. K!Types' /\ K!RunInv' /\ K!UserInv' /\ K!NoLostWakeup'
      BY <2>2, <3>1 DEF K!KeventdInv, K!Types, K!RunInv, K!UserInv, K!NoLostWakeup, K!InRun
    <3>3. K!PlaceInv'
      BY <2>2, <3>1 DEF K!KeventdInv, K!PlaceInv, K!Linking, K!Members, K!Once
    <3>4. K!NoLostWork'
      BY <2>2, <3>1 DEF K!KeventdInv, K!NoLostWork, K!Linking, K!Members
    <3>5. ASSUME K!OwnWork PROVE K!FlushInv'
      BY <2>2, <3>1, <3>5 DEF K!KeventdInv, K!FlushInv, K!InRun, K!InHand, K!Woken, K!Members
    <3>6. K!OwnWork' = K!OwnWork
      BY DEF K!OwnWork
    <3> QED
      BY <3>2, <3>3, <3>4, <3>5, <3>6 DEF K!KeventdInv
  <2> QED
    BY <2>1, <2>2
<1> QED
  BY <1>1, <1>2, PTL DEF K!Spec

\* Whatever the processes, their tq_structs and who shares them: bit 0 of sync stands for one
\* place on a list, every item that was left is found by a routine still to be called, keventd
\* does not sleep on a filled queue, and flush_scheduled_tasks returns only when what was
\* scheduled before it has run, if no two processes share a tq_struct.
THEOREM KeventdKeepsWork ==
    ASSUME K!KeventdAssumption
    PROVE  K!Spec => []K!KeventdSound
<1>1. K!KeventdInv => K!KeventdSound
  <2> SUFFICES ASSUME K!KeventdInv PROVE K!KeventdSound
    OBVIOUS
  <2>1. K!SyncIsQueued /\ K!NoLostWork /\ K!NoLostWakeup
    BY QueuedOnce DEF K!KeventdInv
  <2>2. ASSUME K!OwnWork PROVE K!FlushIsDone
    BY <2>2 DEF K!KeventdInv, K!UserInv, K!FlushInv, K!FlushIsDone
  <2> QED
    BY <2>1, <2>2 DEF K!KeventdSound
<1> QED
  BY <1>1, TaskQueueInvariant, PTL
=============================================================================
