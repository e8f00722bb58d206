-------------------------- MODULE SemaphoreProofs --------------------------
(***************************************************************************)
(* Proofs about Semaphore: for any number of tasks and permits the         *)
(* corrections of count are exact, never more tasks than permits are       *)
(* between down() and up(), and no wakeup is lost.  Behind them, about     *)
(* Completion, the other user of WaitQueue.                                *)
(***************************************************************************)
EXTENDS Semaphore, ListFacts

In(t, S) == IF t \in S THEN 1 ELSE 0

\* What the membership of one element does to a cardinality.
LEMMA OneElement ==
    ASSUME NEW S, NEW R, NEW t, IsFiniteSet(S), R \ {t} = S \ {t}
    PROVE  /\ IsFiniteSet(R)
           /\ Cardinality(S) \in Nat
           /\ Cardinality(R) \in Nat
           /\ Cardinality(R) = Cardinality(S) + In(t, R) - In(t, S)
<1> DEFINE B == S \ {t}
<1>1. IsFiniteSet(B) /\ Cardinality(B) \in Nat /\ t \notin B
    BY FS_Subset, FS_CardinalityType, B \subseteq S
<1>2. IsFiniteSet(B \cup {t}) /\ Cardinality(B \cup {t}) = Cardinality(B) + 1
    BY <1>1, FS_AddElement
<1>3. \A Q : Q \ {t} = B => IsFiniteSet(Q)
                            /\ Cardinality(Q) = Cardinality(B) + In(t, Q)
  <2> SUFFICES ASSUME NEW Q, Q \ {t} = B
               PROVE  IsFiniteSet(Q) /\ Cardinality(Q) = Cardinality(B) + In(t, Q)
    OBVIOUS
  <2>1. CASE t \in Q
    <3>1. Q = B \cup {t} /\ In(t, Q) = 1
        BY <2>1 DEF In
    <3> QED
        BY <3>1, <1>2
  <2>2. CASE t \notin Q
    <3>1. Q = B /\ In(t, Q) = 0
        BY <2>2 DEF In
    <3> QED
        BY <3>1, <1>1
  <2> QED
    BY <2>1, <2>2
<1>4. IsFiniteSet(S) /\ Cardinality(S) = Cardinality(B) + In(t, S)
    BY <1>3
<1>5. IsFiniteSet(R) /\ Cardinality(R) = Cardinality(B) + In(t, R)
    BY <1>3
<1>6. In(t, S) \in {0, 1} /\ In(t, R) \in {0, 1}
    BY DEF In
<1> QED
    BY <1>1, <1>4, <1>5, <1>6

\* What a step of t does to the two sets that count is made of.
LEMMA OneTask ==
    ASSUME NEW t \in Tasks, PermitTypes, PermitTypes',
           \A u \in Tasks \ {t} : pc'[u] = pc[u] /\ retval'[u] = retval[u]
    PROVE  /\ Cardinality(Owners) \in Nat /\ Cardinality(Owners') \in Nat
           /\ Cardinality(Pending) \in Nat /\ Cardinality(Pending') \in Nat
           /\ Cardinality(Owners') = Cardinality(Owners) + In(t, Owners')
                                                         - In(t, Owners)
           /\ Cardinality(Pending') = Cardinality(Pending) + In(t, Pending')
                                                           - In(t, Pending)
<1>1. IsFiniteSet(Owners) /\ IsFiniteSet(Pending)
    BY FS_Subset, TasksAssumption DEF Owners, Pending
<1>2. Owners' \ {t} = Owners \ {t}
    BY DEF Owners, Owns
<1>3. Pending' \ {t} = Pending \ {t}
    BY DEF Pending, Unsettled
<1> QED
    BY <1>1, <1>2, <1>3, OneElement

\* sema_init starts in balance.
LEMMA InitPermit == Init => PermitInv
<1> SUFFICES ASSUME Init PROVE PermitInv
    OBVIOUS
<1>1. PermitTypes /\ RetvalInv
    BY PermitsAssumption DEF Init, PermitTypes, RetvalInv, PCs
<1>2. Owners = {} /\ Pending = {}
    BY DEF Init, Owners, Owns, Pending, Unsettled
<1>3. Cardinality(Owners) = 0 /\ Cardinality(Pending) = 0
    BY <1>2, FS_EmptySet
<1>4. count = Permits /\ sleepers = 0
    BY DEF Init
<1> QED
    BY <1>1, <1>3, <1>4, PermitsAssumption
    DEF PermitInv, CountBalance, AtMostPermits

\* The arithmetic of a step: c is count, s sleepers, o and p the sizes of Owners
\* and Pending, i and j whether the task that moves is in them.
LEMMA Balance ==
    ASSUME NEW P \in Nat, NEW c \in Int, NEW cc \in Int,
           NEW s \in {0, 1}, NEW ss \in {0, 1},
           NEW o \in Nat, NEW oo \in Nat, NEW p \in Nat, NEW pp \in Nat,
           NEW i \in {0, 1}, NEW ii \in {0, 1}, NEW j \in {0, 1}, NEW jj \in {0, 1},
           oo = o + ii - i, pp = p + jj - j, c = P - o - p - s, o <= P,
           cc + ii + jj + ss = c + i + j + s, ii <= i \/ cc >= 0
    PROVE  cc = P - oo - pp - ss /\ oo <= P
    OBVIOUS

\* A step of t keeps the balance if what t adds to count is what it gives up,
\* and it takes a permit only if it leaves count at 0 or more.
LEMMA StepBalance ==
    ASSUME PermitInv, PermitTypes', NEW t \in Tasks,
           \A u \in Tasks \ {t} : pc'[u] = pc[u] /\ retval'[u] = retval[u],
           count' + In(t, Owners') + In(t, Pending') + sleepers'
               = count + In(t, Owners) + In(t, Pending) + sleepers,
           In(t, Owners') <= In(t, Owners) \/ count' >= 0
    PROVE  CountBalance' /\ AtMostPermits'
<1>1. /\ Cardinality(Owners) \in Nat /\ Cardinality(Owners') \in Nat
      /\ Cardinality(Pending) \in Nat /\ Cardinality(Pending') \in Nat
      /\ Cardinality(Owners') = Cardinality(Owners) + In(t, Owners')
                                                    - In(t, Owners)
      /\ Cardinality(Pending') = Cardinality(Pending) + In(t, Pending')
                                                      - In(t, Pending)
    BY OneTask DEF PermitInv
<1>2. /\ In(t, Owners) \in {0, 1} /\ In(t, Pending) \in {0, 1}
      /\ In(t, Owners') \in {0, 1} /\ In(t, Pending') \in {0, 1}
    BY DEF In
<1>3. /\ count = Permits - Cardinality(Owners) - Cardinality(Pending) - sleepers
      /\ Cardinality(Owners) <= Permits
    BY DEF PermitInv, CountBalance, AtMostPermits
<1>4. count \in Int /\ count' \in Int /\ sleepers \in {0, 1} /\ sleepers' \in {0, 1}
    BY DEF PermitInv, PermitTypes
<1>5. /\ count' = Permits - Cardinality(Owners') - Cardinality(Pending') - sleepers'
      /\ Cardinality(Owners') <= Permits
    BY <1>1, <1>2, <1>3, <1>4, PermitsAssumption, Balance
<1> QED
    BY <1>5 DEF CountBalance, AtMostPermits

\* The sets, seen from one task.
LEMMA Membership ==
    ASSUME NEW t \in Tasks
    PROVE  /\ In(t, Owners) = IF Owns(t) THEN 1 ELSE 0
           /\ In(t, Pending) = IF Unsettled(t) THEN 1 ELSE 0
           /\ In(t, Owners') = IF Owns(t)' THEN 1 ELSE 0
           /\ In(t, Pending') = IF Unsettled(t)' THEN 1 ELSE 0
    BY DEF In, Owners, Pending

\* down() and down_interruptible() on the fast path: decl moves one from count to
\* the permit or to the attempt that has yet to settle.
LEMMA DownPermit ==
    ASSUME PermitInv, NEW t \in Tasks, Down(t)
    PROVE  PermitInv'
<1>1. /\ pc[t] = "idle" /\ retval' = retval /\ sleepers' = sleepers
          /\ count' = count - 1
          /\ \/ count' >= 0 /\ pc' = [pc EXCEPT ![t] = "hold"]
             \/ count' < 0 /\ pc' = [pc EXCEPT ![t] = "failed"]
    BY DEF Down, Goto
<1>2. PermitTypes /\ RetvalInv
    BY DEF PermitInv
<1>3. PermitTypes' /\ RetvalInv'
    BY <1>1, <1>2 DEF PermitTypes, RetvalInv, PCs
<1>4. \A u \in Tasks \ {t} : pc'[u] = pc[u] /\ retval'[u] = retval[u]
    BY <1>1, <1>2 DEF PermitTypes
<1>5. /\ count' + In(t, Owners') + In(t, Pending') + sleepers'
             = count + In(t, Owners) + In(t, Pending) + sleepers
      /\ In(t, Owners') <= In(t, Owners) \/ count' >= 0
    BY <1>1, <1>2, Membership DEF PermitTypes, RetvalInv, Owns, Unsettled
<1> QED
    BY <1>3, <1>4, <1>5, StepBalance DEF PermitInv

\* The same for down_trylock().
LEMMA DownTrylockPermit ==
    ASSUME PermitInv, NEW t \in Tasks, DownTrylock(t)
    PROVE  PermitInv'
<1>1. /\ pc[t] = "idle" /\ retval' = retval /\ sleepers' = sleepers
          /\ count' = count - 1
          /\ \/ count' >= 0 /\ pc' = [pc EXCEPT ![t] = "hold"]
             \/ count' < 0 /\ pc' = [pc EXCEPT ![t] = "trylock"]
  <2>1. count' \in Int
      BY DEF DownTrylock, PermitInv, PermitTypes
  <2>2. CASE count' < 0
      BY <2>2 DEF DownTrylock, Goto
  <2>3. CASE ~(count' < 0)
    <3>1. count' >= 0
        BY <2>1, <2>3
    <3> QED
        BY <2>3, <3>1 DEF DownTrylock, Goto
  <2> QED
      BY <2>2, <2>3
<1>2. PermitTypes /\ RetvalInv
    BY DEF PermitInv
<1>3. PermitTypes' /\ RetvalInv'
    BY <1>1, <1>2 DEF PermitTypes, RetvalInv, PCs
<1>4. \A u \in Tasks \ {t} : pc'[u] = pc[u] /\ retval'[u] = retval[u]
    BY <1>1, <1>2 DEF PermitTypes
<1>5. /\ count' + In(t, Owners') + In(t, Pending') + sleepers'
             = count + In(t, Owners) + In(t, Pending) + sleepers
      /\ In(t, Owners') <= In(t, Owners) \/ count' >= 0
    BY <1>1, <1>2, Membership DEF PermitTypes, RetvalInv, Owns, Unsettled
<1> QED
    BY <1>3, <1>4, <1>5, StepBalance DEF PermitInv

\* up(): the permit goes back to count.
LEMMA UpPermit ==
    ASSUME PermitInv, NEW t \in Tasks, Up(t)
    PROVE  PermitInv'
<1>1. /\ pc[t] = "hold" /\ retval' = retval /\ sleepers' = sleepers
          /\ count' = count + 1
          /\ \/ pc' = [pc EXCEPT ![t] = "wake"]
             \/ pc' = [pc EXCEPT ![t] = "idle"]
    BY DEF Up, Goto
<1>2. PermitTypes /\ RetvalInv
    BY DEF PermitInv
<1>3. PermitTypes' /\ RetvalInv'
    BY <1>1, <1>2 DEF PermitTypes, RetvalInv, PCs
<1>4. \A u \in Tasks \ {t} : pc'[u] = pc[u] /\ retval'[u] = retval[u]
    BY <1>1, <1>2 DEF PermitTypes
<1>5. /\ count' + In(t, Owners') + In(t, Pending') + sleepers'
             = count + In(t, Owners) + In(t, Pending) + sleepers
      /\ In(t, Owners') <= In(t, Owners) \/ count' >= 0
    BY <1>1, <1>2, Membership DEF PermitTypes, RetvalInv, Owns, Unsettled
<1> QED
    BY <1>3, <1>4, <1>5, StepBalance DEF PermitInv

\* The moves from one place of a slow path to the next that change neither count
\* nor sleepers: set_current_state, the wait queue, schedule(), taking q->lock.
LEMMA QuietMove ==
    ASSUME PermitInv, NEW t \in Tasks, NEW l, pc' = [pc EXCEPT ![t] = l],
           UNCHANGED <<count, sleepers, retval>>,
           \/ pc[t] = "failed" /\ l = "add"
           \/ pc[t] = "add" /\ l = "first"
           \/ pc[t] = "schedule" /\ l = "retry"
           \/ pc[t] = "remove" /\ l = "running"
           \/ pc[t] = "running" /\ l = "wake"
           \/ pc[t] = "wake" /\ l = "scan"
    PROVE  PermitInv'
<1>2. PermitTypes /\ RetvalInv
    BY DEF PermitInv
<1>3. PermitTypes' /\ RetvalInv'
    BY <1>2 DEF PermitTypes, RetvalInv, PCs
<1>4. \A u \in Tasks \ {t} : pc'[u] = pc[u] /\ retval'[u] = retval[u]
    BY <1>2 DEF PermitTypes
<1>5. /\ count' + In(t, Owners') + In(t, Pending') + sleepers'
             = count + In(t, Owners) + In(t, Pending) + sleepers
      /\ In(t, Owners') <= In(t, Owners) \/ count' >= 0
    BY <1>2, Membership DEF PermitTypes, RetvalInv, Owns, Unsettled
<1> QED
    BY <1>3, <1>4, <1>5, StepBalance DEF PermitInv

\* The actions that are such moves.
LEMMA QuietPermit ==
    ASSUME PermitInv, NEW t \in Tasks,
           \/ SetTaskState(t) \/ AddWait(t) \/ ScheduleReturns(t)
           \/ RemoveWait(t) \/ SetRunning(t) \/ Wake(t)
    PROVE  PermitInv'
<1>1. CASE SetTaskState(t)
    BY <1>1, QuietMove DEF SetTaskState, Goto, semVars
<1>2. CASE AddWait(t)
    BY <1>2, QuietMove DEF AddWait, Goto, semVars
<1>3. CASE ScheduleReturns(t)
    BY <1>3, QuietMove DEF ScheduleReturns, Goto, semVars
<1>4. CASE RemoveWait(t)
    BY <1>4, QuietMove DEF RemoveWait, PassOn, Goto, semVars
<1>5. CASE SetRunning(t)
    BY <1>5, QuietMove DEF SetRunning, PassOn, Goto, semVars
<1>6. CASE Wake(t)
    BY <1>6, QuietMove DEF Wake, Goto, semVars
<1> QED
    BY <1>1, <1>2, <1>3, <1>4, <1>5, <1>6

\* A failed down_trylock gives back its own decrement and sleepers.
LEMMA TrylockPermit ==
    ASSUME PermitInv, NEW t \in Tasks, Trylock(t)
    PROVE  PermitInv'
<1>1. /\ pc[t] = "trylock" /\ retval' = retval /\ sleepers' = 0
          /\ count' = count + (sleepers + 1)
          /\ \/ pc' = [pc EXCEPT ![t] = "wake"]
             \/ pc' = [pc EXCEPT ![t] = "idle"]
    BY DEF Trylock, Goto
<1>2. PermitTypes /\ RetvalInv
    BY DEF PermitInv
<1>3. PermitTypes' /\ RetvalInv'
    BY <1>1, <1>2 DEF PermitTypes, RetvalInv, PCs
<1>4. \A u \in Tasks \ {t} : pc'[u] = pc[u] /\ retval'[u] = retval[u]
    BY <1>1, <1>2 DEF PermitTypes
<1>5. /\ count' + In(t, Owners') + In(t, Pending') + sleepers'
             = count + In(t, Owners) + In(t, Pending) + sleepers
      /\ In(t, Owners') <= In(t, Owners) \/ count' >= 0
    BY <1>1, <1>2, Membership DEF PermitTypes, RetvalInv, Owns, Unsettled
<1> QED
    BY <1>3, <1>4, <1>5, StepBalance DEF PermitInv

\* The end of wake_up: the task goes on with the answer of its slow path.
LEMMA ScanDonePermit ==
    ASSUME PermitInv, NEW t \in Tasks, ScanDone(t)
    PROVE  PermitInv'
<1>1. /\ pc[t] = "scan" /\ retval' = [retval EXCEPT ![t] = "idle"]
          /\ sleepers' = sleepers /\ count' = count
          /\ pc' = [pc EXCEPT ![t] = retval[t]]
    BY DEF ScanDone, Goto
<1>2. PermitTypes /\ RetvalInv
    BY DEF PermitInv
<1>3. PermitTypes' /\ RetvalInv'
    BY <1>1, <1>2 DEF PermitTypes, RetvalInv, PCs
<1>4. \A u \in Tasks \ {t} : pc'[u] = pc[u] /\ retval'[u] = retval[u]
    BY <1>1, <1>2 DEF PermitTypes
<1>5. /\ count' + In(t, Owners') + In(t, Pending') + sleepers'
             = count + In(t, Owners) + In(t, Pending) + sleepers
      /\ In(t, Owners') <= In(t, Owners) \/ count' >= 0
    BY <1>1, <1>2, Membership DEF PermitTypes, RetvalInv, Owns, Unsettled
<1> QED
    BY <1>3, <1>4, <1>5, StepBalance DEF PermitInv

\* The loop body: it adds s - 1 (or s, when interrupted) to count, and moves
\* what that settles to sleepers or to the permit.
LEMMA TryTakePermit ==
    ASSUME PermitInv, NEW t \in Tasks, NEW s \in Int, TryTake(t, s),
           \/ pc[t] = "first" /\ s = sleepers + 1
           \/ pc[t] = "retry" /\ s = sleepers
    PROVE  PermitInv'
<1>1. \/ /\ sleepers' = 0 /\ count' = count + s /\ retval' = retval
         /\ pc' = [pc EXCEPT ![t] = "remove"]
      \/ /\ sleepers' = 0 /\ count' = count + (s - 1) /\ count' >= 0
         /\ retval' = [retval EXCEPT ![t] = "hold"]
         /\ pc' = [pc EXCEPT ![t] = "remove"]
      \/ /\ sleepers' = 1 /\ count' = count + (s - 1) /\ retval' = retval
         /\ pc' = [pc EXCEPT ![t] = "schedule"]
    BY DEF TryTake, GiveBack, SleepersWhenTaken, Goto
<1>2. PermitTypes /\ RetvalInv
    BY DEF PermitInv
<1>3. PermitTypes' /\ RetvalInv'
    BY <1>1, <1>2 DEF PermitTypes, RetvalInv, PCs
<1>4. \A u \in Tasks \ {t} : pc'[u] = pc[u] /\ retval'[u] = retval[u]
    BY <1>1, <1>2 DEF PermitTypes
<1>5. /\ count' + In(t, Owners') + In(t, Pending') + sleepers'
             = count + In(t, Owners) + In(t, Pending) + sleepers
      /\ In(t, Owners') <= In(t, Owners) \/ count' >= 0
    BY <1>1, <1>2, Membership DEF PermitTypes, RetvalInv, Owns, Unsettled
<1> QED
    BY <1>3, <1>4, <1>5, StepBalance DEF PermitInv

\* The first pass, in which the task counts itself in sleepers.
LEMMA FirstTryPermit ==
    ASSUME PermitInv, NEW t \in Tasks, FirstTry(t)
    PROVE  PermitInv'
<1>1. pc[t] = "first" /\ TryTake(t, sleepers + 1) /\ sleepers + 1 \in Int
    BY DEF FirstTry, PermitInv, PermitTypes
<1> QED
    BY <1>1, TryTakePermit

\* A pass after schedule(): the task is already in sleepers.
LEMMA RetryPermit ==
    ASSUME PermitInv, NEW t \in Tasks, Retry(t)
    PROVE  PermitInv'
<1>1. pc[t] = "retry" /\ TryTake(t, sleepers) /\ sleepers \in Int
    BY DEF Retry, PermitInv, PermitTypes
<1> QED
    BY <1>1, TryTakePermit

\* The steps of the scheduler, of the scan and of the signals touch nothing that
\* the invariant is about.
LEMMA SamePermit ==
    ASSUME PermitInv, UNCHANGED <<count, sleepers, retval, pc>>
    PROVE  PermitInv'
    BY DEF PermitInv, PermitTypes, RetvalInv, CountBalance, AtMostPermits,
           Owners, Owns, Pending, Unsettled

\* Every step keeps the invariant.
LEMMA NextPermit == PermitInv /\ [Next]_vars => PermitInv'
<1> SUFFICES ASSUME PermitInv, [Next]_vars PROVE PermitInv'
    OBVIOUS
<1>1. CASE UNCHANGED vars
    BY <1>1, SamePermit DEF vars, semVars
<1>2. ASSUME NEW t \in Tasks, Down(t) \/ DownTrylock(t) \/ Up(t) PROVE PermitInv'
    BY <1>2, DownPermit, DownTrylockPermit, UpPermit
<1>3. ASSUME NEW t \in Tasks, Schedule(t) \/ Scan(t) \/ Signal(t) \/ HandleSignal(t)
      PROVE  PermitInv'
    BY <1>3, SamePermit DEF Schedule, Scan, Signal, HandleSignal, semVars
<1>4. ASSUME NEW t \in Tasks, Step(t) PROVE PermitInv'
    BY <1>3, <1>4, QuietPermit, FirstTryPermit, RetryPermit, TrylockPermit,
       ScanDonePermit DEF Step
<1> QED
    BY <1>1, <1>2, <1>3, <1>4 DEF Next

\* The inductive invariant of the corrections of count.
THEOREM PermitInvariant == Spec => []PermitInv
<1>1. Init => PermitInv
    BY InitPermit
<1>2. PermitInv /\ [Next]_vars => PermitInv'
    BY NextPermit
<1> QED
    BY <1>1, <1>2, PTL DEF Spec

\* What is missing from count is always the permits in use, the attempts that
\* have not reached semaphore_lock, and sleepers.
THEOREM CountAlwaysBalances == Spec => []CountBalance
<1>1. PermitInv => CountBalance
    BY DEF PermitInv
<1> QED
    BY <1>1, PermitInvariant, PTL

\* Never more than Permits tasks are between down() and up(), for any number of
\* tasks, trylocks and signals.
THEOREM PermitsRespected == Spec => []AtMostPermits
<1>1. PermitInv => AtMostPermits
    BY DEF PermitInv
<1> QED
    BY <1>1, PermitInvariant, PTL

-----------------------------------------------------------------------------
(***************************************************************************)
(* No wakeup is lost.                                                      *)
(***************************************************************************)

\* remove_wait_queue takes out one entry and leaves the other ones queued.
LEMMA RemoveKeeps ==
    ASSUME TypeOK, NEW t \in Tasks, remove_wait_queue(t)
    PROVE  /\ task_list' \in Seq(Tasks)
           /\ \A u \in Tasks \ {t} :
                (\E i \in 1..Len(task_list) : task_list[i] = u)
                    => \E i \in 1..Len(task_list') : task_list'[i] = u
<1> PICK k \in 1..Len(task_list) :
        /\ task_list[k] = t
        /\ task_list' = SubSeq(task_list, 1, k - 1)
                            \o SubSeq(task_list, k + 1, Len(task_list))
    BY DEF remove_wait_queue
<1> PICK l \in Seq(Tasks) : l = task_list
    BY DEF TypeOK, WqTypeOK
<1>1. Len(l) \in Nat /\ k \in 1..Len(l) /\ \A i \in 1..Len(l) : l[i] \in Tasks
    OBVIOUS
<1> DEFINE c == SubSeq(l, 1, k - 1) \o SubSeq(l, k + 1, Len(l))
<1>3. task_list' = c
    OBVIOUS
<1>4. /\ c \in Seq(Tasks) /\ Len(c) = Len(l) - 1
      /\ \A i \in 1..(k - 1) : c[i] = l[i]
      /\ \A i \in k..(Len(l) - 1) : c[i] = l[i + 1]
    BY ONLY <1>1, l \in Seq(Tasks), DeletedElements
<1> HIDE DEF c
<1>7. ASSUME NEW u \in Tasks \ {t}, NEW i \in 1..Len(l), l[i] = u
      PROVE  \E j \in 1..Len(c) : c[j] = u
  <2>1. CASE i < k
    <3>1. i \in 1..(k - 1) /\ i \in 1..Len(c)
      BY <2>1, <1>1, <1>4
    <3> QED
      BY <3>1, <1>4, <1>7
  <2>2. CASE i > k
    <3>1. i - 1 \in k..(Len(l) - 1) /\ (i - 1) + 1 = i /\ i - 1 \in 1..Len(c)
      BY <2>2, <1>1, <1>4
    <3> QED
      BY <3>1, <1>4, <1>7
  <2> QED
    BY <2>1, <2>2, <1>1, <1>7
<1> QED
    BY ZenonT(30), <1>3, <1>4, <1>7

\* Every step keeps the types.
LEMMA SemTypes == TypeOK /\ [Next]_vars => TypeOK'
<1> SUFFICES ASSUME TypeOK, [Next]_vars PROVE TypeOK'
    OBVIOUS
<1> USE DEF TypeOK, WqTypeOK
<1>1. CASE UNCHANGED vars
    BY <1>1 DEF vars, semVars, wqVars, queueVars, scanVars, schedVars
<1>2. ASSUME NEW t \in Tasks, Down(t) \/ DownTrylock(t) \/ Up(t) PROVE TypeOK'
    BY SMTT(30), <1>2 DEF Down, DownTrylock, Up, Goto, PCs, Kinds, wqVars, queueVars,
                scanVars, schedVars
<1>3. ASSUME NEW t \in Tasks, SetTaskState(t) \/ ScheduleReturns(t) \/ SetRunning(t)
      PROVE  TypeOK'
    BY <1>3 DEF SetTaskState, ScheduleReturns, SetRunning, PassOn, set_state,
                SleepState, States, Sleeping, Goto, PCs, semVars, queueVars, scanVars
<1>4. ASSUME NEW t \in Tasks, AddWait(t) PROVE TypeOK'
    BY <1>4 DEF AddWait, add_wait_queue_exclusive, Goto, PCs, semVars, scanVars,
                schedVars
<1>5. ASSUME NEW t \in Tasks, RemoveWait(t) PROVE TypeOK'
  <2>1. task_list' \in Seq(Tasks)
    BY <1>5, RemoveKeeps DEF RemoveWait
  <2> QED
    BY <1>5, <2>1 DEF RemoveWait, remove_wait_queue, PassOn, Goto, PCs, semVars,
                      scanVars, schedVars
<1>6. ASSUME NEW t \in Tasks, FirstTry(t) \/ Retry(t) PROVE TypeOK'
  <2>1. PICK s \in Int : TryTake(t, s)
    BY <1>6 DEF FirstTry, Retry
  <2>2. count' \in Int /\ sleepers' \in {0, 1} /\ retval' \in [Tasks -> {"hold", "idle"}]
    BY <2>1 DEF TryTake, GiveBack, SleepersWhenTaken
  <2>3. pc' \in [Tasks -> PCs]
    BY <2>1 DEF TryTake, Goto, PCs
  <2>4. UNCHANGED <<wqVars, semaphore_lock, kind>>
    BY <2>1 DEF TryTake
  <2> QED
    BY <2>2, <2>3, <2>4 DEF wqVars, queueVars, scanVars, schedVars
<1>7. ASSUME NEW t \in Tasks, Trylock(t) PROVE TypeOK'
    BY <1>7 DEF Trylock, Goto, PCs, wqVars, queueVars, scanVars, schedVars
<1>8. ASSUME NEW t \in Tasks, Schedule(t) PROVE TypeOK'
  <2>1. \/ on_rq' = [on_rq EXCEPT ![t] = FALSE] /\ state' = state
        \/ on_rq' = on_rq /\ state' = [state EXCEPT ![t] = "RUNNING"]
    BY <1>8 DEF Schedule, ScheduleOut
  <2>2. state' \in [Tasks -> States] /\ on_rq' \in [Tasks -> BOOLEAN]
    BY <2>1 DEF States
  <2> QED
    BY <1>8, <2>2 DEF Schedule, semVars, queueVars, scanVars
<1>9. ASSUME NEW t \in Tasks, Wake(t) \/ ScanDone(t) PROVE TypeOK'
  <2>1. CASE Wake(t)
    BY <2>1 DEF Wake, WakeUpStart, Goto, PCs, semVars, queueVars, schedVars
  <2>2. CASE ScanDone(t)
    <3>1. retval[t] \in PCs
      BY DEF PCs
    <3>2. pc' \in [Tasks -> PCs] /\ kind' \in [Tasks -> Kinds]
      BY <2>2, <3>1 DEF ScanDone, Goto, Kinds
    <3> QED
      BY <2>2, <3>2 DEF ScanDone, WakeUpEnd, queueVars, schedVars
  <2> QED
    BY <1>9, <2>1, <2>2
<1>10. ASSUME NEW t \in Tasks, Scan(t) PROVE TypeOK'
  <2>1. scan # <<>> /\ Head(scan) \in Tasks /\ Tail(scan) \in Seq(Tasks)
    BY <1>10 DEF Scan, WakeUpOne
  <2>2. nr' \in Int /\ scan' \in Seq(Tasks)
    BY <1>10, <2>1 DEF Scan, WakeUpOne
  <2>3. state' \in [Tasks -> States] /\ on_rq' \in [Tasks -> BOOLEAN]
    BY <1>10, <2>1 DEF Scan, WakeUpOne, try_to_wake_up, States
  <2> QED
    BY <1>10, <2>2, <2>3 DEF Scan, WakeUpOne, semVars, queueVars
<1>11. ASSUME NEW t \in Tasks, Signal(t) PROVE TypeOK'
    BY <1>11 DEF Signal, signal_wake_up, try_to_wake_up, States, semVars, queueVars,
                 scanVars
<1>12. ASSUME NEW t \in Tasks, HandleSignal(t) PROVE TypeOK'
    BY <1>12 DEF HandleSignal, semVars, queueVars, scanVars
<1> QED
    BY <1>1, <1>2, <1>3, <1>4, <1>5, <1>6, <1>7, <1>8, <1>9, <1>10, <1>11, <1>12
    DEF Next, Step

\* A step in which no other task moves, is woken or gets a signal.
OnlyMoves(t) ==
    \A u \in Tasks \ {t} : /\ pc'[u] = pc[u]
                           /\ state'[u] = state[u]
                           /\ sigpending'[u] = sigpending[u]

\* A step of t leaves the other tasks as stuck as they were.
LEMMA OthersStuck ==
    ASSUME NEW t \in Tasks, OnlyMoves(t)
    PROVE  \A u \in Tasks \ {t} : Stuck(u)' <=> Stuck(u)
    BY DEF OnlyMoves, Stuck, MustDeactivate

\* If t was not itself stuck and does not scan, those who will wake somebody still
\* will.
LEMMA OthersWake ==
    ASSUME TypeOK, NEW t \in Tasks, ~Stuck(t), UNCHANGED <<q_lock, scan>>,
           OnlyMoves(t)
    PROVE  \A u \in Tasks \ {t} : WillWake(u) => WillWake(u)'
<1> TAKE u \in Tasks \ {t}
<1> HAVE WillWake(u)
<1>1. CASE pc[u] \in {"failed", "add", "first", "retry", "trylock",
                      "remove", "running", "wake"}
    BY <1>1 DEF OnlyMoves, WillWake
<1>2. CASE pc[u] = "schedule" /\ ~MustDeactivate(u)
    BY <1>2 DEF OnlyMoves, WillWake, MustDeactivate
<1>3. CASE /\ pc[u] = "scan" /\ q_lock = u
           /\ \E i \in 1..Len(scan) : Stuck(scan[i])
  <2> PICK i \in 1..Len(scan) : Stuck(scan[i])
    BY <1>3
  <2> PICK x \in Tasks : x = scan[i]
    BY DEF TypeOK, WqTypeOK
  <2>1. Stuck(x)'
    BY OthersStuck
  <2> QED
    BY <1>3, <2>1 DEF OnlyMoves, WillWake
<1> QED
    BY <1>1, <1>2, <1>3 DEF WillWake

\* With sleepers set and every permit in use, count is negative.
LEMMA NegativeCount ==
    ASSUME TypeOK, PermitInv, sleepers = 1, Cardinality(Owners) = Permits
    PROVE  count < 0
<1>1. Cardinality(Pending) \in Nat
    BY FS_Subset, FS_CardinalityType, TasksAssumption DEF Pending
<1>2. count = Permits - Cardinality(Owners) - Cardinality(Pending) - sleepers
    BY DEF PermitInv, CountBalance
<1> QED
    BY <1>1, <1>2, PermitsAssumption

\* A negative count has its cause: sleepers with every permit in use, or an
\* attempt that has yet to reach semaphore_lock.
LEMMA WhyNegative ==
    TypeOK /\ PermitInv /\ count < 0
        => \/ sleepers = 1 /\ Cardinality(Owners) = Permits
           \/ \E u \in Tasks : Unsettled(u)
<1> SUFFICES ASSUME TypeOK, PermitInv, count < 0, \A u \in Tasks : ~Unsettled(u)
             PROVE  sleepers = 1 /\ Cardinality(Owners) = Permits
    OBVIOUS
<1>1. Pending = {}
    BY DEF Pending
<1>2. Cardinality(Pending) = 0
    BY <1>1, FS_EmptySet
<1>3. Cardinality(Owners) \in Nat
    BY FS_Subset, FS_CardinalityType, TasksAssumption DEF Owners
<1>4. /\ count = Permits - Cardinality(Owners) - Cardinality(Pending) - sleepers
      /\ Cardinality(Owners) <= Permits
      /\ sleepers \in {0, 1}
    BY DEF PermitInv, CountBalance, AtMostPermits, TypeOK
<1> QED
    BY <1>2, <1>3, <1>4, PermitsAssumption

\* A task that ends up with something to do owes the wakeup.
LEMMA MoverOwes ==
    ASSUME NEW t \in Tasks, WillWake(t)'
    PROVE  WakeupOwed'
    BY DEF WakeupOwed

\* The fast paths: a free semaphore is taken, or given back without a wakeup,
\* only when somebody else owes it.
LEMMA FastOwes ==
    ASSUME WakeInv, PermitInv', NEW t \in Tasks,
           Down(t) \/ DownTrylock(t) \/ Up(t)
    PROVE  WakeupOwed'
<1>0. TypeOK /\ PermitInv /\ WakeupOwed
    BY DEF WakeInv
<1>1. /\ pc[t] \in {"idle", "hold"} /\ UNCHANGED <<wqVars, sleepers>>
      /\ \/ pc' = [pc EXCEPT ![t] = "failed"]
         \/ pc' = [pc EXCEPT ![t] = "trylock"]
         \/ pc' = [pc EXCEPT ![t] = "wake"]
         \/ pc' = [pc EXCEPT ![t] = "hold"] /\ count' = count - 1 /\ ~(count' < 0)
         \/ pc' = [pc EXCEPT ![t] = "idle"] /\ count' = count + 1 /\ ~(count' <= 0)
  <2>1. CASE Down(t)
    <3>1. count \in Int /\ count' = count - 1
      BY <1>0, <2>1 DEF TypeOK, Down
    <3>2. ~(count' >= 0 /\ count' < 0)
      BY <3>1
    <3> QED
      BY <2>1, <3>1, <3>2 DEF Down, Goto
  <2>2. CASE DownTrylock(t)
    BY <2>2 DEF DownTrylock, Goto
  <2>3. CASE Up(t)
    BY <2>3 DEF Up, UpWakes, Goto
  <2> QED
    BY <2>1, <2>2, <2>3
<1>2. pc \in [Tasks -> PCs] /\ count \in Int
    BY <1>0 DEF TypeOK
<1>3. CASE pc'[t] \in {"failed", "trylock", "wake"}
    BY <1>3, MoverOwes DEF WillWake
<1>4. CASE pc'[t] \notin {"failed", "trylock", "wake"}
  <2> SUFFICES ASSUME NEW x \in Tasks, Stuck(x)'
               PROVE  \E u \in Tasks : WillWake(u)'
    BY DEF WakeupOwed
  <2>1. OnlyMoves(t) /\ q_lock' = q_lock /\ scan' = scan
    BY <1>1, <1>2 DEF OnlyMoves, wqVars, scanVars, schedVars
  <2>2. x # t /\ ~Stuck(t) /\ ~WillWake(t)
    BY <1>1, <1>2, <1>4 DEF Stuck, WillWake
  <2>3. Stuck(x)
    BY <2>1, <2>2, OthersStuck
  <2>4. ~(count < 0)
    BY <1>1, <1>2, <1>4
  <2>5. PICK u \in Tasks : WillWake(u)
    BY <1>0, <2>3, <2>4, NegativeCount DEF WakeupOwed
  <2> QED
    BY <1>0, <2>1, <2>2, <2>5, OthersWake
<1> QED
    BY <1>3, <1>4

\* The passes under semaphore_lock: who goes to sleep left count negative.
LEMMA TryTakeOwes ==
    ASSUME WakeInv, TypeOK', PermitInv', NEW t \in Tasks, FirstTry(t) \/ Retry(t)
    PROVE  WakeupOwed'
<1>1. \/ pc' = [pc EXCEPT ![t] = "remove"]
      \/ pc' = [pc EXCEPT ![t] = "schedule"] /\ count' < 0
    BY DEF FirstTry, Retry, TryTake, Goto
<1>2. pc \in [Tasks -> PCs]
    BY DEF WakeInv, TypeOK
<1>3. CASE pc'[t] = "remove"
    BY <1>3, MoverOwes DEF WillWake
<1>4. CASE count' < 0
  <2>0. (TypeOK /\ PermitInv /\ count < 0)'
    BY <1>4
  <2>1. (\/ sleepers = 1 /\ Cardinality(Owners) = Permits
         \/ \E u \in Tasks : Unsettled(u))'
    BY <2>0, WhyNegative, PTL
  <2> QED
    BY <2>1 DEF WakeupOwed, WillWake, Unsettled
<1> QED
    BY <1>1, <1>2, <1>3, <1>4

\* A failed trylock that leaves count negative leaves sleepers at 0: somebody else
\* is on the way to semaphore_lock.
LEMMA TrylockOwes ==
    ASSUME WakeInv, TypeOK', PermitInv', NEW t \in Tasks, Trylock(t)
    PROVE  WakeupOwed'
<1>1. \/ pc' = [pc EXCEPT ![t] = "wake"]
      \/ sleepers' = 0 /\ count' < 0
    BY DEF Trylock, Goto
<1>2. pc \in [Tasks -> PCs]
    BY DEF WakeInv, TypeOK
<1>3. CASE pc' = [pc EXCEPT ![t] = "wake"]
    BY <1>2, <1>3, MoverOwes DEF WillWake
<1>4. CASE sleepers' = 0 /\ count' < 0
  <2>0. (TypeOK /\ PermitInv /\ count < 0)'
    BY <1>4
  <2>1. (\/ sleepers = 1 /\ Cardinality(Owners) = Permits
         \/ \E u \in Tasks : Unsettled(u))'
    BY <2>0, WhyNegative, PTL
  <2> QED
    BY <1>4, <2>1 DEF WakeupOwed, WillWake, Unsettled
<1> QED
    BY <1>1, <1>3, <1>4

\* The other steps of a slow path up to its wake_up().
LEMMA SlowOwes ==
    ASSUME WakeInv, NEW t \in Tasks,
           \/ SetTaskState(t) \/ AddWait(t) \/ ScheduleReturns(t)
           \/ RemoveWait(t) \/ SetRunning(t)
    PROVE  WakeupOwed'
<1>1. pc \in [Tasks -> PCs]
    BY DEF WakeInv, TypeOK
<1>2. pc'[t] \in {"add", "first", "retry", "running", "wake"}
    BY <1>1 DEF SetTaskState, AddWait, ScheduleReturns, RemoveWait, SetRunning,
                PassOn, Goto
<1> QED
    BY <1>2, MoverOwes DEF WillWake

\* schedule(): a task that goes off the run queue was already stuck, one that
\* stays on it goes round the loop again.
LEMMA ScheduleOwes ==
    ASSUME WakeInv, NEW t \in Tasks, Schedule(t)
    PROVE  WakeupOwed'
<1>0. TypeOK /\ WakeupOwed
    BY DEF WakeInv
<1>1. pc[t] = "schedule" /\ UNCHANGED <<scan, q_lock, pc, sigpending, semVars>>
    BY DEF Schedule, scanVars
<1>2. CASE MustDeactivate(t) /\ state' = state
  <2>1. \A u \in Tasks : (Stuck(u)' <=> Stuck(u)) /\ (WillWake(u)' <=> WillWake(u))
    BY <1>1, <1>2 DEF Stuck, WillWake, MustDeactivate
  <2>2. Owners' = Owners /\ sleepers' = sleepers
    BY <1>1 DEF Owners, Owns, semVars
  <2> QED
    BY <1>0, <2>1, <2>2 DEF WakeupOwed
<1>3. CASE state' = [state EXCEPT ![t] = "RUNNING"]
  <2>1. pc'[t] = "schedule" /\ state'[t] = "RUNNING"
    BY <1>0, <1>1, <1>3 DEF TypeOK, WqTypeOK
  <2> QED
    BY <2>1, MoverOwes DEF WillWake, MustDeactivate
<1> QED
    BY <1>2, <1>3 DEF Schedule, ScheduleOut

\* wake_up() starts with every entry of sem->wait before it, so it has yet to meet
\* whoever is stuck.
LEMMA WakeOwes ==
    ASSUME WakeInv, NEW t \in Tasks, Wake(t)
    PROVE  WakeupOwed'
<1>0. TypeOK /\ WaitersQueued
    BY DEF WakeInv
<1>1. /\ pc' = [pc EXCEPT ![t] = "scan"] /\ q_lock' = t /\ scan' = task_list
      /\ state' = state /\ sigpending' = sigpending
    BY DEF Wake, WakeUpStart, Goto, schedVars
<1>2. pc \in [Tasks -> PCs]
    BY <1>0 DEF TypeOK
<1> SUFFICES ASSUME NEW x \in Tasks, Stuck(x)'
             PROVE  WillWake(t)'
    BY DEF WakeupOwed
<1>3. x # t /\ pc[x] = "schedule"
    BY <1>1, <1>2 DEF Stuck
<1>4. PICK i \in 1..Len(task_list) : task_list[i] = x
    BY <1>0, <1>3 DEF WaitersQueued
<1>5. i \in 1..Len(scan') /\ scan'[i] = x
    BY <1>1, <1>4
<1> QED
    BY <1>1, <1>2, <1>5 DEF WillWake

\* What try_to_wake_up(p, mode) does, seen from p and from the other tasks.
LEMMA WakeEffect ==
    ASSUME TypeOK, NEW p \in Tasks, NEW mode, try_to_wake_up(p, mode)
    PROVE  /\ \A u \in Tasks \ {p} : state'[u] = state[u] /\ on_rq'[u] = on_rq[u]
           /\ state[p] \in mode => state'[p] = "RUNNING" /\ on_rq'[p]
           /\ state[p] \notin mode => state'[p] = state[p] /\ on_rq'[p] = on_rq[p]
<1> USE DEF TypeOK, WqTypeOK
<1>1. CASE state[p] \notin mode
    BY <1>1 DEF try_to_wake_up, WakesUp, Succeeds
<1>2. CASE state[p] \in mode /\ on_rq[p]
    BY <1>2 DEF try_to_wake_up, WakesUp, Succeeds
<1>3. CASE state[p] \in mode /\ ~on_rq[p]
    BY <1>3 DEF try_to_wake_up, WakesUp, Succeeds
<1> QED
    BY <1>1, <1>2, <1>3

\* One entry of the scan: a stuck task is woken, and then it owes the wakeup; only
\* such a task can end the scan.
LEMMA ScanOwes ==
    ASSUME WakeInv, NEW t \in Tasks, Scan(t)
    PROVE  WakeupOwed'
<1>0. TypeOK /\ OffRunQueue /\ WakeupOwed
    BY DEF WakeInv
<1>1. /\ pc[t] = "scan" /\ q_lock = t /\ scan # <<>> /\ q_lock' = q_lock
      /\ UNCHANGED <<pc, sigpending, semVars>>
    BY DEF Scan, WakeUpOne
<1>2. scan \in Seq(Tasks) /\ Head(scan) \in Tasks /\ Head(scan) = scan[1]
    BY <1>0, <1>1 DEF TypeOK, WqTypeOK
<1> PICK p \in Tasks : p = Head(scan)
    BY <1>2
<1>3. try_to_wake_up(p, Sleeping)
    BY DEF Scan, WakeUpOne
<1>4. /\ \A u \in Tasks \ {p} : state'[u] = state[u]
      /\ state[p] \in Sleeping => state'[p] = "RUNNING"
      /\ state[p] \notin Sleeping => state'[p] = state[p]
    BY <1>0, <1>3, WakeEffect
<1>5. OnlyMoves(p)
    BY <1>1, <1>4 DEF OnlyMoves
<1>6. CASE Stuck(p)
  <2>1. state[p] \in Sleeping
    BY <1>0, <1>6 DEF Stuck, MustDeactivate, TypeOK, WqTypeOK, States
  <2>2. pc'[p] = "schedule" /\ state'[p] = "RUNNING"
    BY <1>1, <1>4, <1>6, <2>1 DEF Stuck
  <2> QED
    BY <2>2, MoverOwes DEF WillWake, MustDeactivate
<1>7. CASE ~Stuck(p)
  <2>1. scan' = Tail(scan)
    <3>1. ~WakeCounts(p, Sleeping)
      BY <1>0, <1>7 DEF WakeCounts, Succeeds, OffRunQueue
    <3> QED
      BY <3>1 DEF Scan, WakeUpOne
  <2>2. ~Stuck(p)'
    BY <1>1, <1>4, <1>7 DEF Stuck, MustDeactivate, Sleeping
  <2>3. \A u \in Tasks : Stuck(u)' <=> Stuck(u)
    BY <1>5, <1>7, <2>2, OthersStuck
  <2>4. ASSUME NEW u \in Tasks, WillWake(u)
        PROVE  WillWake(u)'
    <3>1. CASE pc[u] \in {"failed", "add", "first", "retry", "trylock",
                          "remove", "running", "wake"}
      BY <1>1, <3>1 DEF WillWake
    <3>2. CASE pc[u] = "schedule" /\ ~MustDeactivate(u)
      BY <1>1, <2>3, <3>2 DEF WillWake, Stuck
    <3>3. CASE /\ pc[u] = "scan" /\ q_lock = u
               /\ \E i \in 1..Len(scan) : Stuck(scan[i])
      <4> PICK i \in 1..Len(scan) : Stuck(scan[i])
        BY <3>3
      <4>1. i # 1
        BY <1>2, <1>7
      <4>2. i - 1 \in 1..Len(scan') /\ scan'[i - 1] = scan[i]
        BY <1>2, <2>1, <4>1
      <4> PICK x \in Tasks : x = scan[i]
        BY <1>2
      <4>3. Stuck(x)'
        BY <2>3
      <4> QED
        BY <1>1, <3>3, <4>2, <4>3 DEF WillWake
    <3> QED
      BY <2>4, <3>1, <3>2, <3>3 DEF WillWake
  <2>5. Owners' = Owners /\ sleepers' = sleepers
    BY <1>1 DEF Owners, Owns, semVars
  <2> QED
    BY <1>0, <2>3, <2>4, <2>5 DEF WakeupOwed
<1> QED
    BY <1>6, <1>7

\* A finished scan met everybody who was stuck.
LEMMA ScanDoneOwes ==
    ASSUME WakeInv, NEW t \in Tasks, ScanDone(t)
    PROVE  WakeupOwed'
<1>0. TypeOK /\ RetvalInv /\ WakeupOwed
    BY DEF WakeInv, PermitInv
<1>1. /\ pc[t] = "scan" /\ q_lock = t /\ scan = <<>>
      /\ pc' = [pc EXCEPT ![t] = retval[t]]
      /\ retval' = [retval EXCEPT ![t] = "idle"]
      /\ UNCHANGED <<state, sigpending, sleepers>>
    BY DEF ScanDone, WakeUpEnd, Goto, schedVars
<1>2. /\ pc \in [Tasks -> PCs] /\ retval \in [Tasks -> {"hold", "idle"}]
      /\ Len(scan) = 0
    BY <1>0, <1>1 DEF TypeOK
<1>3. OnlyMoves(t) /\ ~Stuck(t) /\ ~Stuck(t)'
    BY <1>1, <1>2 DEF OnlyMoves, Stuck
<1>4. \A u \in Tasks : Stuck(u)' <=> Stuck(u)
    BY <1>3, OthersStuck
<1>5. ASSUME NEW u \in Tasks, WillWake(u)
      PROVE  WillWake(u)'
  <2>1. /\ u # t
        /\ \/ pc[u] \in {"failed", "add", "first", "retry", "trylock",
                         "remove", "running", "wake"}
           \/ pc[u] = "schedule" /\ ~MustDeactivate(u)
    BY <1>1, <1>2, <1>5 DEF WillWake
  <2> QED
    BY <1>3, <2>1 DEF OnlyMoves, WillWake, MustDeactivate
<1>6. Owners' = Owners
    BY <1>1, <1>2 DEF Owners, Owns
<1> QED
    BY <1>0, <1>1, <1>4, <1>5, <1>6 DEF WakeupOwed

\* A signal gets an interruptible sleeper going, and takes nothing from another
\* task.
LEMMA SignalOwes ==
    ASSUME WakeInv, NEW t \in Tasks, Signal(t) \/ HandleSignal(t)
    PROVE  WakeupOwed'
<1>0. TypeOK /\ WakeupOwed
    BY DEF WakeInv
<1>1. UNCHANGED <<pc, scan, q_lock, semVars>>
    BY DEF Signal, HandleSignal, scanVars
<1>2. /\ OnlyMoves(t)
      /\ Stuck(t)' => Stuck(t)
      /\ Stuck(t) => Stuck(t)' \/ (pc'[t] = "schedule" /\ ~MustDeactivate(t)')
  <2>1. CASE Signal(t)
    <3>1. try_to_wake_up(t, {"INTERRUPTIBLE"})
      BY <2>1 DEF Signal, signal_wake_up
    <3>2. /\ \A u \in Tasks \ {t} : state'[u] = state[u]
          /\ state[t] = "INTERRUPTIBLE" => state'[t] = "RUNNING"
          /\ state[t] # "INTERRUPTIBLE" => state'[t] = state[t]
      BY <1>0, <3>1, WakeEffect
    <3>3. /\ \A u \in Tasks \ {t} : sigpending'[u] = sigpending[u]
          /\ sigpending'[t] = TRUE
      BY <1>0, <2>1 DEF Signal, signal_wake_up, TypeOK, WqTypeOK
    <3>4. OnlyMoves(t)
      BY <1>1, <3>2, <3>3 DEF OnlyMoves
    <3>5. (Stuck(t)' => Stuck(t)) /\ (Stuck(t) => pc'[t] = "schedule")
      BY <1>1, <3>2, <3>3 DEF Stuck, MustDeactivate
    <3> QED
      BY <3>4, <3>5 DEF Stuck
  <2>2. CASE HandleSignal(t)
    BY <1>0, <1>1, <2>2 DEF HandleSignal, OnlyMoves, Stuck, TypeOK, WqTypeOK
  <2> QED
    BY <2>1, <2>2
<1>3. CASE Stuck(t) /\ ~Stuck(t)'
    BY <1>2, <1>3, MoverOwes DEF WillWake
<1>4. CASE ~Stuck(t) \/ Stuck(t)'
  <2>1. \A u \in Tasks : Stuck(u)' <=> Stuck(u)
    BY <1>2, <1>4, OthersStuck
  <2>2. ASSUME NEW u \in Tasks, WillWake(u)
        PROVE  WillWake(u)'
    <3>1. scan \in Seq(Tasks) /\ \A i \in 1..Len(scan) : scan[i] \in Tasks
      BY <1>0 DEF TypeOK, WqTypeOK
    <3>2. (\E i \in 1..Len(scan) : Stuck(scan[i]))
              => \E i \in 1..Len(scan) : Stuck(scan[i])'
      <4> SUFFICES ASSUME NEW i \in 1..Len(scan), Stuck(scan[i])
                   PROVE  Stuck(scan[i])'
        OBVIOUS
      <4> PICK x \in Tasks : x = scan[i]
        BY <3>1
      <4>1. Stuck(x)'
        BY <2>1
      <4>2. scan'[i] = x
        BY <1>1
      <4> QED
        BY <4>1, <4>2
    <3>3. (pc[u] = "schedule" /\ ~MustDeactivate(u))
              => (pc'[u] = "schedule" /\ ~MustDeactivate(u)')
      BY <1>1, <2>1 DEF Stuck
    <3> QED
      BY <1>1, <2>2, <3>2, <3>3 DEF WillWake
  <2>3. Owners' = Owners /\ sleepers' = sleepers
    BY <1>1 DEF Owners, Owns, semVars
  <2> QED
    BY <1>0, <2>1, <2>2, <2>3 DEF WakeupOwed
<1> QED
    BY <1>3, <1>4

\* A task stays on sem->wait as long as it has no answer.
LEMMA QueuedStep ==
    ASSUME WakeInv, [Next]_vars
    PROVE  WaitersQueued'
<1>0. TypeOK /\ WaitersQueued
    BY DEF WakeInv
<1> USE DEF TypeOK, WqTypeOK
<1>1. CASE UNCHANGED vars
    BY <1>0, <1>1 DEF WaitersQueued, vars, wqVars, queueVars
<1>2. ASSUME NEW t \in Tasks, AddWait(t)
      PROVE  WaitersQueued'
  <2>1. /\ task_list' = Append(task_list, t)
        /\ pc' = [pc EXCEPT ![t] = "first"]
    BY <1>2 DEF AddWait, add_wait_queue_exclusive, Goto
  <2>2. /\ Len(task_list') = Len(task_list) + 1 /\ Len(task_list) \in Nat
        /\ \A i \in 1..Len(task_list) : task_list'[i] = task_list[i]
        /\ task_list'[Len(task_list) + 1] = t
    BY <1>0, <2>1
  <2>3. \A i \in 1..Len(task_list) : i \in 1..Len(task_list')
    BY <2>2
  <2>4. Len(task_list) + 1 \in 1..Len(task_list')
    BY <2>2
  <2> QED
    BY <1>0, <2>1, <2>2, <2>3, <2>4 DEF WaitersQueued
<1>3. ASSUME NEW t \in Tasks, RemoveWait(t)
      PROVE  WaitersQueued'
  <2>1. pc'[t] \in {"running", "wake"} /\ \A u \in Tasks \ {t} : pc'[u] = pc[u]
    BY <1>0, <1>3 DEF RemoveWait, PassOn, Goto
  <2>2. \A u \in Tasks \ {t} :
            (\E i \in 1..Len(task_list) : task_list[i] = u)
                => \E i \in 1..Len(task_list') : task_list'[i] = u
    BY <1>0, <1>3, RemoveKeeps DEF RemoveWait
  <2> QED
    BY <1>0, <2>1, <2>2 DEF WaitersQueued
<1>4. ASSUME NEW t \in Tasks, task_list' = task_list,
             pc'[t] \in {"first", "schedule", "retry"}
                 => pc[t] \in {"first", "schedule", "retry"},
             \A u \in Tasks \ {t} : pc'[u] = pc[u]
      PROVE  WaitersQueued'
    BY <1>0, <1>4 DEF WaitersQueued
<1>5. ASSUME NEW t \in Tasks, Down(t) \/ DownTrylock(t) \/ Up(t)
      PROVE  WaitersQueued'
    BY <1>0, <1>4, <1>5 DEF Down, DownTrylock, Up, Goto, wqVars, queueVars
<1>6. ASSUME NEW t \in Tasks, SetTaskState(t) \/ ScheduleReturns(t) \/ SetRunning(t)
      PROVE  WaitersQueued'
    BY <1>0, <1>4, <1>6 DEF SetTaskState, ScheduleReturns, SetRunning, PassOn, Goto,
                            queueVars
<1>7. ASSUME NEW t \in Tasks, FirstTry(t) \/ Retry(t) \/ Trylock(t)
      PROVE  WaitersQueued'
    BY <1>0, <1>4, <1>7 DEF FirstTry, Retry, TryTake, Trylock, Goto, wqVars, queueVars
<1>8. ASSUME NEW t \in Tasks,
             Schedule(t) \/ Wake(t) \/ Scan(t) \/ Signal(t) \/ HandleSignal(t)
      PROVE  WaitersQueued'
    BY <1>0, <1>4, <1>8 DEF Schedule, Wake, Scan, Signal, HandleSignal, Goto, queueVars
<1>9. ASSUME NEW t \in Tasks, ScanDone(t)
      PROVE  WaitersQueued'
    BY <1>0, <1>4, <1>9 DEF ScanDone, Goto, queueVars
<1> QED
    BY <1>1, <1>2, <1>3, <1>5, <1>6, <1>7, <1>8, <1>9 DEF Next, Step

\* Only schedule() takes a task off its run queue, and only a wakeup changes that.
LEMMA OffRunQueueStep ==
    ASSUME WakeInv, [Next]_vars
    PROVE  OffRunQueue'
<1>0. TypeOK /\ OffRunQueue
    BY DEF WakeInv
<1> USE DEF TypeOK, WqTypeOK
<1>1. CASE UNCHANGED vars
    BY <1>0, <1>1 DEF OffRunQueue, Stuck, MustDeactivate, vars, wqVars, schedVars
<1>4. ASSUME NEW t \in Tasks, OnlyMoves(t), on_rq' = on_rq, pc[t] # "schedule" \/ on_rq[t]
      PROVE  OffRunQueue'
    BY <1>0, <1>4, OthersStuck DEF OffRunQueue, Stuck
<1>5. ASSUME NEW t \in Tasks, Down(t) \/ DownTrylock(t) \/ Up(t)
      PROVE  OffRunQueue'
    BY <1>0, <1>4, <1>5 DEF Down, DownTrylock, Up, Goto, OnlyMoves, wqVars, schedVars
<1>6. ASSUME NEW t \in Tasks, SetTaskState(t) \/ ScheduleReturns(t) \/ SetRunning(t)
      PROVE  OffRunQueue'
    BY <1>0, <1>4, <1>6 DEF SetTaskState, ScheduleReturns, SetRunning, PassOn, Goto,
                            set_state, OnlyMoves
<1>7. ASSUME NEW t \in Tasks, FirstTry(t) \/ Retry(t) \/ Trylock(t)
      PROVE  OffRunQueue'
    BY <1>0, <1>4, <1>7 DEF FirstTry, Retry, TryTake, Trylock, Goto, OnlyMoves,
                            wqVars, schedVars
<1>8. ASSUME NEW t \in Tasks, AddWait(t) \/ RemoveWait(t)
      PROVE  OffRunQueue'
    BY <1>0, <1>4, <1>8 DEF AddWait, RemoveWait, PassOn, Goto, OnlyMoves, schedVars
<1>9. ASSUME NEW t \in Tasks, Wake(t) \/ ScanDone(t)
      PROVE  OffRunQueue'
    BY <1>0, <1>4, <1>9 DEF Wake, ScanDone, Goto, OnlyMoves, schedVars
<1>10. ASSUME NEW t \in Tasks, Schedule(t)
       PROVE  OffRunQueue'
  <2>1. CASE /\ MustDeactivate(t) /\ state' = state
             /\ on_rq' = [on_rq EXCEPT ![t] = FALSE]
    BY <1>0, <1>10, <2>1 DEF Schedule, OffRunQueue, Stuck, MustDeactivate
  <2>2. CASE on_rq' = on_rq /\ state' = [state EXCEPT ![t] = "RUNNING"]
    <3>1. OnlyMoves(t) /\ on_rq[t]
      BY <1>0, <1>10, <2>2 DEF Schedule, ScheduleOut, OnlyMoves
    <3> QED
      BY <1>4, <2>2, <3>1
  <2> QED
    BY <1>10, <2>1, <2>2 DEF Schedule, ScheduleOut
<1>11. ASSUME NEW p \in Tasks, NEW mode, try_to_wake_up(p, mode), pc' = pc,
              \A u \in Tasks \ {p} : sigpending'[u] = sigpending[u],
              state[p] \in mode \/ (Stuck(p) => Stuck(p)')
       PROVE  OffRunQueue'
  <2>1. /\ \A u \in Tasks \ {p} : state'[u] = state[u] /\ on_rq'[u] = on_rq[u]
        /\ state[p] \in mode => state'[p] = "RUNNING" /\ on_rq'[p]
        /\ state[p] \notin mode => state'[p] = state[p] /\ on_rq'[p] = on_rq[p]
    BY <1>0, <1>11, WakeEffect
  <2>2. OnlyMoves(p)
    BY <1>11, <2>1 DEF OnlyMoves
  <2>3. \A u \in Tasks \ {p} : ~on_rq'[u] => Stuck(u)'
    BY <1>0, <2>1, <2>2, OthersStuck DEF OffRunQueue
  <2>4. ~on_rq'[p] => Stuck(p)'
    BY <1>0, <1>11, <2>1 DEF OffRunQueue
  <2> QED
    BY <2>3, <2>4 DEF OffRunQueue
<1>12. ASSUME NEW t \in Tasks, Scan(t)
       PROVE  OffRunQueue'
  <2>1. scan # <<>> /\ Head(scan) \in Tasks /\ pc' = pc /\ sigpending' = sigpending
    BY <1>0, <1>12 DEF Scan, WakeUpOne
  <2> PICK p \in Tasks : p = Head(scan)
    BY <2>1
  <2>2. try_to_wake_up(p, Sleeping)
    BY <1>12 DEF Scan, WakeUpOne
  <2>3. state[p] \in Sleeping \/ ~Stuck(p)
    BY <1>0 DEF Stuck, MustDeactivate, States
  <2> QED
    BY <1>11, <2>1, <2>2, <2>3
<1>13. ASSUME NEW t \in Tasks, Signal(t)
       PROVE  OffRunQueue'
  <2>1. /\ try_to_wake_up(t, {"INTERRUPTIBLE"}) /\ pc' = pc
        /\ \A u \in Tasks \ {t} : sigpending'[u] = sigpending[u]
    BY <1>0, <1>13 DEF Signal, signal_wake_up
  <2>2. state[t] # "INTERRUPTIBLE" => state'[t] = state[t]
    BY <1>0, <2>1, WakeEffect
  <2>3. state[t] \in {"INTERRUPTIBLE"} \/ (Stuck(t) => Stuck(t)')
    BY <2>1, <2>2 DEF Stuck, MustDeactivate
  <2> QED
    BY <1>11, <2>1, <2>3
<1>14. ASSUME NEW t \in Tasks, HandleSignal(t)
       PROVE  OffRunQueue'
    BY <1>0, <1>4, <1>14 DEF HandleSignal, OnlyMoves
<1> QED
    BY <1>1, <1>5, <1>6, <1>7, <1>8, <1>9, <1>10, <1>12, <1>13, <1>14 DEF Next, Step

\* Every step keeps the invariant.
LEMMA NextWake == WakeInv /\ [Next]_vars => WakeInv'
<1> SUFFICES ASSUME WakeInv, [Next]_vars PROVE WakeInv'
    OBVIOUS
<1>1. TypeOK' /\ PermitInv'
    BY SemTypes, NextPermit DEF WakeInv
<1>2. WaitersQueued' /\ OffRunQueue'
    BY QueuedStep, OffRunQueueStep
<1>3. WakeupOwed'
  <2>1. CASE UNCHANGED vars
    <3>1. UNCHANGED <<pc, state, sigpending, q_lock, scan, sleepers, retval>>
      BY <2>1 DEF vars, wqVars, semVars, scanVars, schedVars
    <3>2. \A u : (Stuck(u)' <=> Stuck(u)) /\ (WillWake(u)' <=> WillWake(u))
      BY <3>1 DEF Stuck, WillWake, MustDeactivate
    <3>3. Owners' = Owners
      BY <3>1 DEF Owners, Owns
    <3> QED
      BY <3>1, <3>2, <3>3 DEF WakeInv, WakeupOwed
  <2>2. CASE Next
    BY <2>2, <1>1, FastOwes, TryTakeOwes, TrylockOwes, SlowOwes, ScheduleOwes, WakeOwes,
       ScanOwes, ScanDoneOwes, SignalOwes DEF Next, Step
  <2> QED
    BY <2>1, <2>2
<1> QED
    BY <1>1, <1>2, <1>3 DEF WakeInv

\* The inductive invariant of the wakeups.
THEOREM WakeInvariant == Spec => []WakeInv
<1>1. Init => WakeInv
  <2> SUFFICES ASSUME Init PROVE WakeInv
    OBVIOUS
  <2>1. TypeOK
    BY PermitsAssumption
    DEF Init, WqInit, TypeOK, WqTypeOK, States, Kinds, PCs
  <2>2. PermitInv
    BY InitPermit
  <2>3. WaitersQueued /\ OffRunQueue /\ WakeupOwed
    BY DEF Init, WqInit, WaitersQueued, OffRunQueue, WakeupOwed, Stuck
  <2> QED
    BY <2>1, <2>2, <2>3 DEF WakeInv
<1> QED
    BY <1>1, NextWake, PTL DEF Spec

\* For any number of tasks, permits and signals: when nobody is in the middle of
\* an operation, nobody sleeps in down() while a permit is free.
THEOREM WakeupsNeverLost == Spec => []NoLostWakeup
<1>1. WakeInv => NoLostWakeup
  <2> SUFFICES ASSUME WakeInv, NEW t \in Tasks, Asleep(t),
                      \A u \in Tasks : pc[u] \in {"idle", "hold"} \/ Asleep(u)
               PROVE  Cardinality(Owners) = Permits
    BY DEF NoLostWakeup
  <2>1. \A u \in Tasks : Asleep(u) => Stuck(u)
    BY DEF WakeInv, OffRunQueue, Asleep
  <2>2. \A u \in Tasks : ~WillWake(u)
    BY <2>1 DEF WillWake, Asleep, Stuck
  <2> QED
    BY <2>1, <2>2 DEF WakeInv, WakeupOwed
<1> QED
    BY <1>1, WakeInvariant, PTL
-----------------------------------------------------------------------------
(***************************************************************************)
(* Completions, which sleep on a wait queue as semaphores do: done counts, *)
(* no complete() is lost on a waiter, complete_all() opens for good, and   *)
(* a completion on a stack is left alone before the wait returns.          *)
(***************************************************************************)
CONSTANTS Waiters, Completers, Owner, MaxPosts, UINT_MAX

VARIABLES done, cpc, alive, posted, served, alls

C == INSTANCE Completion WITH pc <- cpc

\* Completion counts and takes ranges as this module does.
LEMMA SameCount == ASSUME NEW S PROVE C!Cardinality(S) = Cardinality(S)
BY DEF C!Cardinality, Cardinality

LEMMA SameRange == ASSUME NEW f PROVE C!Range(f) = Range(f)
BY DEF C!Range, Range

\* The numbers of a completion.
LEMMA CompletionNumbers ==
    ASSUME C!CompletionAssumption
    PROVE  /\ MaxPosts \in Nat /\ C!AllAdds \in Nat /\ Cardinality(Tasks) \in Nat /\ UINT_MAX \in Nat
           /\ 2 * MaxPosts + 2 * Cardinality(Tasks) < C!AllAdds
           /\ C!AllAdds + C!AllAdds + 1 = UINT_MAX
<1>1. Cardinality(Tasks) \in Nat
  BY TasksAssumption, FS_CardinalityType
<1>2. /\ MaxPosts \in Nat /\ UINT_MAX \in Nat /\ UINT_MAX % 2 = 1
      /\ 2 * MaxPosts + 2 * Cardinality(Tasks) < UINT_MAX \div 2
  BY SameCount DEF C!CompletionAssumption
<1>3. \A n \in Nat : n \div 2 \in Nat /\ (n % 2 = 1 => (n \div 2) + (n \div 2) + 1 = n)
  OBVIOUS
<1> QED
  BY <1>1, <1>2, <1>3 DEF C!AllAdds

\* What done is after p complete, a complete_all and s waits.
Adds(d, p, s, a) ==
    /\ a % 2 = 0 => \/ p - s >= a /\ d = p - s - a
                    \/ p - s < a /\ d = p - s - a + UINT_MAX + 1
    /\ a % 2 = 1 => d = p - s - (a - 1) + C!AllAdds
    /\ a = 0 => s <= p

\* Even and odd.
LEMMA Parity ==
    ASSUME NEW a \in Nat
    PROVE  \/ a % 2 = 0 /\ (a + 1) % 2 = 1
           \/ a % 2 = 1 /\ (a + 1) % 2 = 0 /\ a # 0
OBVIOUS

\* done follows the calls, also when it wraps, and is 0 in one case.
LEMMA DoneAdds ==
    ASSUME C!CompletionAssumption, NEW p \in Nat, NEW s \in Nat, NEW a \in Nat, NEW d \in 0 .. UINT_MAX,
           p + a <= MaxPosts, s <= MaxPosts + 2 * Cardinality(Tasks), Adds(d, p, s, a)
    PROVE  /\ d # 0 => C!Width(d - 1) = d - 1 /\ Adds(d - 1, p, s + 1, a)
           /\ p + a < MaxPosts => /\ Adds(C!Width(d + 1), p + 1, s, a)
                                  /\ C!Width(d + 1) \in 0 .. UINT_MAX /\ C!Width(d + 1) <= d + 1
           /\ p + a < MaxPosts => /\ Adds(C!Width(d + C!AllAdds), p, s, a + 1)
                                  /\ C!Width(d + C!AllAdds) \in 0 .. UINT_MAX
           /\ d = 0 => a % 2 = 0 /\ p - s = a
<1>1. PICK k, c : k = C!AllAdds /\ c = Cardinality(Tasks)
  OBVIOUS
<1>2. /\ MaxPosts \in Nat /\ k \in Nat /\ c \in Nat /\ UINT_MAX \in Nat
      /\ 2 * MaxPosts + 2 * c < k /\ k + k + 1 = UINT_MAX
      /\ s <= MaxPosts + 2 * c
  BY <1>1, CompletionNumbers
<1>3. ASSUME NEW n \in Nat
      PROVE  /\ n <= UINT_MAX => C!Width(n) = n
             /\ n > UINT_MAX /\ n <= UINT_MAX + UINT_MAX => C!Width(n) = n - (UINT_MAX + 1)
  <2>1. PICK M \in Nat : M = UINT_MAX + 1 /\ M > 0
    BY <1>2
  <2>2. n < M => n % M = n
    BY <2>1
  <2>3. n >= M /\ n < M + M => n % M = n - M
    BY <2>1
  <2> QED
    BY <1>2, <2>1, <2>2, <2>3 DEF C!Width
<1>4. /\ a % 2 = 0 => \/ p - s >= a /\ d = p - s - a
                      \/ p - s < a /\ d = p - s - a + UINT_MAX + 1
      /\ a % 2 = 1 => d = p - s - (a - 1) + k
      /\ a = 0 => s <= p
  BY <1>1 DEF Adds
<1>5. d = 0 => a % 2 = 0 /\ p - s = a
  BY <1>2, <1>4, Parity
<1>6. ASSUME d # 0 PROVE C!Width(d - 1) = d - 1 /\ Adds(d - 1, p, s + 1, a)
  <2>1. C!Width(d - 1) = d - 1
    BY <1>2, <1>3, <1>6
  <2>2. ASSUME a % 2 = 0 PROVE Adds(d - 1, p, s + 1, a)
    BY <1>1, <1>2, <1>4, <1>6, <2>2 DEF Adds
  <2>3. ASSUME a % 2 = 1, a # 0 PROVE Adds(d - 1, p, s + 1, a)
    BY <1>1, <1>2, <1>4, <1>6, <2>3 DEF Adds
  <2> QED
    BY <2>1, <2>2, <2>3, Parity
<1>7. ASSUME p + a < MaxPosts
      PROVE  /\ Adds(C!Width(d + 1), p + 1, s, a)
             /\ C!Width(d + 1) \in 0 .. UINT_MAX /\ C!Width(d + 1) <= d + 1
  <2>1. PICK e : e = C!Width(d + 1)
    OBVIOUS
  <2>2. e = IF d = UINT_MAX THEN 0 ELSE d + 1
    BY <1>2, <1>3, <2>1
  <2>3. e \in 0 .. UINT_MAX /\ e <= d + 1
    BY <1>2, <2>2
  <2>4. ASSUME a % 2 = 0 PROVE Adds(e, p + 1, s, a)
    BY <1>1, <1>2, <1>4, <1>7, <2>2, <2>4 DEF Adds
  <2>5. ASSUME a % 2 = 1, a # 0 PROVE Adds(e, p + 1, s, a)
    BY <1>1, <1>2, <1>4, <1>7, <2>2, <2>5 DEF Adds
  <2> QED
    BY <2>1, <2>3, <2>4, <2>5, Parity
<1>8. ASSUME p + a < MaxPosts
      PROVE  Adds(C!Width(d + k), p, s, a + 1) /\ C!Width(d + k) \in 0 .. UINT_MAX
  <2>1. PICK e : e = C!Width(d + k)
    OBVIOUS
  <2>2. e = IF d + k <= UINT_MAX THEN d + k ELSE d + k - (UINT_MAX + 1)
    BY <1>2, <1>3, <2>1
  <2>3. e \in 0 .. UINT_MAX
    BY <1>2, <2>2
  <2>4. CASE a % 2 = 0 /\ (a + 1) % 2 = 1
    <3>1. e = p - s - a + k
      BY <1>2, <1>4, <1>8, <2>2, <2>4
    <3> QED
      BY <1>1, <1>2, <2>1, <2>3, <2>4, <3>1 DEF Adds
  <2>5. CASE a % 2 = 1 /\ (a + 1) % 2 = 0
    <3>1. \/ p - s >= a + 1 /\ e = p - s - (a + 1)
          \/ p - s < a + 1 /\ e = p - s - (a + 1) + UINT_MAX + 1
      BY <1>2, <1>4, <1>8, <2>2, <2>5
    <3> QED
      BY <1>1, <1>2, <2>1, <2>3, <2>5, <3>1 DEF Adds
  <2> QED
    BY <2>4, <2>5, Parity
<1> QED
  BY <1>1, <1>5, <1>6, <1>7, <1>8

\* done keeps within its width, and is 0 after a complete_all in one case only.
LEMMA Counts ==
    ASSUME C!CompletionAssumption, C!TypeOK, C!CountInv
    PROVE  /\ done \in 0 .. UINT_MAX /\ done \in Nat /\ posted \in Nat /\ served \in Nat /\ alls \in Nat
           /\ posted + alls <= MaxPosts
           /\ served + Cardinality(C!Inside) <= MaxPosts + 2 * Cardinality(Tasks)
           /\ Cardinality(C!Inside) \in Nat
           /\ served <= MaxPosts + 2 * Cardinality(Tasks)
           /\ Adds(done, posted, served, alls)
<1>1. /\ done \in 0 .. UINT_MAX /\ posted \in Nat /\ served \in Nat /\ alls \in Nat
      /\ posted + alls <= MaxPosts
  BY DEF C!TypeOK, C!Calls
<1>2. IsFiniteSet(C!Inside)
  BY TasksAssumption, FS_Subset DEF C!Inside
<1>3. Cardinality(C!Inside) \in Nat
  BY <1>2, FS_CardinalityType
<1>4. /\ served + Cardinality(C!Inside) <= MaxPosts + 2 * Cardinality(Tasks)
      /\ Adds(done, posted, served, alls)
  BY SameCount DEF C!CountInv, Adds
<1>5. served <= MaxPosts + 2 * Cardinality(Tasks)
  BY <1>1, <1>3, <1>4, CompletionNumbers
<1>6. done \in Nat
  BY <1>1, CompletionNumbers
<1> QED
  BY <1>1, <1>3, <1>4, <1>5, <1>6

\* The steps that count.
LEMMA CountSteps ==
    ASSUME C!CompletionAssumption, C!TypeOK, C!CountInv
    PROVE  /\ done # 0 => C!Width(done - 1) = done - 1 /\ Adds(done - 1, posted, served + 1, alls)
           /\ posted + alls < MaxPosts =>
                 /\ Adds(C!Width(done + 1), posted + 1, served, alls)
                 /\ C!Width(done + 1) \in 0 .. UINT_MAX /\ C!Width(done + 1) <= done + 1
           /\ posted + alls < MaxPosts =>
                 /\ Adds(C!Width(done + C!AllAdds), posted, served, alls + 1)
                 /\ C!Width(done + C!AllAdds) \in 0 .. UINT_MAX
           /\ done = 0 => alls % 2 = 0 /\ posted - served = alls
<1>1. PICK d, p, s, a : d = done /\ p = posted /\ s = served /\ a = alls
  OBVIOUS
<1>2. /\ p \in Nat /\ s \in Nat /\ a \in Nat /\ d \in 0 .. UINT_MAX
      /\ p + a <= MaxPosts /\ s <= MaxPosts + 2 * Cardinality(Tasks) /\ Adds(d, p, s, a)
  BY <1>1, Counts
<1>3. /\ d # 0 => C!Width(d - 1) = d - 1 /\ Adds(d - 1, p, s + 1, a)
      /\ p + a < MaxPosts => /\ Adds(C!Width(d + 1), p + 1, s, a)
                             /\ C!Width(d + 1) \in 0 .. UINT_MAX /\ C!Width(d + 1) <= d + 1
      /\ p + a < MaxPosts => /\ Adds(C!Width(d + C!AllAdds), p, s, a + 1)
                             /\ C!Width(d + C!AllAdds) \in 0 .. UINT_MAX
      /\ d = 0 => a % 2 = 0 /\ p - s = a
  BY <1>2, DoneAdds
<1> QED
  BY <1>1, <1>3

\* The sets that waiters are counted in, when x alone changes.
LEMMA OneWaiter ==
    ASSUME NEW x \in Tasks, \A u \in Tasks \ {x} : cpc'[u] = cpc[u] /\ state'[u] = state[u]
    PROVE  /\ Cardinality(C!Awake) \in Nat /\ Cardinality(C!Awake)' \in Nat
           /\ Cardinality(C!Awake)' = Cardinality(C!Awake) + In(x, C!Awake') - In(x, C!Awake)
           /\ Cardinality(C!Inside) \in Nat /\ Cardinality(C!Inside)' \in Nat
           /\ Cardinality(C!Inside)' = Cardinality(C!Inside) + In(x, C!Inside') - In(x, C!Inside)
           /\ Cardinality(C!Inside) <= Cardinality(Tasks) /\ Cardinality(C!Inside)' <= Cardinality(Tasks)
<1>1. PICK A, B, S, R : A = C!Awake /\ B = C!Awake' /\ S = C!Inside /\ R = C!Inside'
  OBVIOUS
<1>2. /\ A \subseteq Tasks /\ B \subseteq Tasks /\ S \subseteq Tasks /\ R \subseteq Tasks
      /\ B \ {x} = A \ {x} /\ R \ {x} = S \ {x}
  BY <1>1 DEF C!Awake, C!Inside, C!Waiting
<1>3. /\ IsFiniteSet(A) /\ IsFiniteSet(S)
      /\ Cardinality(S) <= Cardinality(Tasks) /\ Cardinality(R) <= Cardinality(Tasks)
  BY <1>2, FS_Subset, TasksAssumption
<1>4. /\ Cardinality(A) \in Nat /\ Cardinality(B) \in Nat
      /\ Cardinality(B) = Cardinality(A) + In(x, B) - In(x, A)
  BY <1>2, <1>3, OneElement
<1>5. /\ Cardinality(S) \in Nat /\ Cardinality(R) \in Nat
      /\ Cardinality(R) = Cardinality(S) + In(x, R) - In(x, S)
  BY <1>2, <1>3, OneElement
<1> QED
  BY <1>1, <1>3, <1>4, <1>5

\* What the steps do.  wait_for_completion returns, at once or from its sleep.
Returns(t) ==
    /\ q_lock = NoTask /\ done # 0
    /\ \/ cpc[t] = "idle" /\ served < MaxPosts + Cardinality(Tasks)
       \/ cpc[t] = "relock" /\ on_rq[t]
    /\ t \in Waiters
    /\ done' = done - 1 /\ served' = served + 1 /\ cpc' = [cpc EXCEPT ![t] = "idle"]
    /\ alive' \/ t = Owner
    /\ alive' \in BOOLEAN
    /\ task_list' \in Seq(Tasks) /\ exclusive' \in [Tasks -> BOOLEAN]
    /\ Range(task_list) \subseteq Range(task_list') \cup {t}
    /\ UNCHANGED <<state, on_rq, sigpending, q_lock, scan, nr, posted, alls>>

\* It sleeps, first or again.
Sleeps(t) ==
    /\ q_lock = NoTask /\ done = 0 /\ t \in Waiters
    /\ \/ cpc[t] = "idle" /\ alive /\ served < MaxPosts + Cardinality(Tasks)
       \/ cpc[t] = "relock"
    /\ task_list' \in Seq(Tasks) /\ exclusive' \in [Tasks -> BOOLEAN]
    /\ Range(task_list') = Range(task_list) \cup {t}
    /\ state' = [state EXCEPT ![t] = "UNINTERRUPTIBLE"] /\ cpc' = [cpc EXCEPT ![t] = "schedule"]
    /\ UNCHANGED <<on_rq, sigpending, q_lock, scan, nr, done, alive, posted, served, alls>>

\* schedule() switches to another task, or not.
Yields(t) ==
    /\ cpc[t] = "schedule" /\ cpc' = [cpc EXCEPT ![t] = "relock"]
    /\ state' \in [Tasks -> C!States] /\ on_rq' \in [Tasks -> BOOLEAN]
    /\ \A u \in Tasks \ {t} : state'[u] = state[u] /\ on_rq'[u] = on_rq[u]
    /\ state'[t] \in {state[t], "RUNNING"}
    /\ on_rq'[t] => state'[t] = "RUNNING"
    /\ UNCHANGED <<sigpending, task_list, exclusive, q_lock, scan, nr, done, alive, posted, served, alls>>

\* The scan passes p.
Passes(t, p) ==
    /\ cpc[t] = "scan" /\ q_lock = t /\ p \in Tasks /\ scan # <<>>
    /\ scan' \in Seq(Tasks) /\ nr' \in Int
    /\ state' \in [Tasks -> C!States] /\ on_rq' \in [Tasks -> BOOLEAN]
    /\ state'[p] = "RUNNING" /\ \A u \in Tasks \ {p} : state'[u] = state[u] /\ on_rq'[u] = on_rq[u]
    /\ \/ Range(scan) = Range(scan') \cup {p} /\ nr' = nr
       \/ Range(scan) = Range(scan') \cup {p} /\ nr' = nr - 1 /\ nr # 1 /\ state[p] # "RUNNING"
       \/ nr = 1 /\ nr' = 0 /\ scan' = <<>> /\ state[p] # "RUNNING"
    /\ UNCHANGED <<sigpending, task_list, exclusive, q_lock, cpc, done, alive, posted, served, alls>>

\* complete() and complete_all() as far as the scan.
Posts(t, b) ==
    /\ cpc[t] = "idle" /\ alive /\ posted + alls < MaxPosts /\ q_lock = NoTask
    /\ q_lock' = t /\ scan' = task_list /\ nr' = IF b THEN 0 ELSE 1
    /\ done' \in 0 .. UINT_MAX /\ (~b => done' <= done + 1)
    /\ Adds(done', posted', served', alls')
    /\ posted' = posted + (IF b THEN 0 ELSE 1) /\ alls' = alls + (IF b THEN 1 ELSE 0)
    /\ cpc' = [cpc EXCEPT ![t] = "scan"]
    /\ UNCHANGED <<state, on_rq, sigpending, task_list, exclusive, alive, served>>

\* The scan is over.
Ends(t) ==
    /\ cpc[t] = "scan" /\ q_lock = t /\ scan = <<>>
    /\ q_lock' = NoTask /\ nr' = 0 /\ cpc' = [cpc EXCEPT ![t] = "idle"]
    /\ UNCHANGED <<state, on_rq, sigpending, task_list, exclusive, scan, done, alive, posted, served, alls>>

\* __remove_wait_queue takes out one entry and leaves the other ones queued.
LEMMA UnlinkKeeps ==
    ASSUME task_list \in Seq(Tasks), NEW t \in Tasks, C!Unlink(t)
    PROVE  /\ task_list' \in Seq(Tasks) /\ Range(task_list) \subseteq Range(task_list') \cup {t}
           /\ exclusive' = [exclusive EXCEPT ![t] = FALSE]
<1>1. PICK k \in 1..Len(task_list) :
          /\ task_list[k] = t
          /\ task_list' = SubSeq(task_list, 1, k - 1)
                              \o SubSeq(task_list, k + 1, Len(task_list))
  BY DEF C!Unlink
<1>2. PICK l \in Seq(Tasks) : l = task_list
  OBVIOUS
<1>3. Len(l) \in Nat /\ k \in 1..Len(l)
  BY <1>1, <1>2
<1>4. PICK c : /\ c = SubSeq(l, 1, k - 1) \o SubSeq(l, k + 1, Len(l))
               /\ c \in Seq(Tasks) /\ Len(c) = Len(l) - 1
               /\ \A i \in 1..(k - 1) : c[i] = l[i]
               /\ \A i \in k..(Len(l) - 1) : c[i] = l[i + 1]
  BY ONLY <1>3, l \in Seq(Tasks), DeletedElements, ZenonT(30)
<1>5. /\ c \in Seq(Tasks) /\ Len(c) = Len(l) - 1
      /\ \A i \in 1..(k - 1) : c[i] = l[i]
      /\ \A i \in k..(Len(l) - 1) : c[i] = l[i + 1]
  BY <1>4
<1>6. ASSUME NEW i \in 1..Len(l), l[i] # t PROVE \E j \in 1..Len(c) : c[j] = l[i]
  <2>1. i # k
    BY <1>1, <1>2, <1>6
  <2>2. CASE i < k
    <3>1. i \in 1..(k - 1) /\ i \in 1..Len(c)
      BY <2>2, <1>5, <1>3
    <3> QED
      BY <3>1, <1>5
  <2>3. CASE i > k
    <3>1. i - 1 \in k..(Len(l) - 1) /\ (i - 1) + 1 = i /\ i - 1 \in 1..Len(c)
      BY <2>3, <1>5, <1>3
    <3> QED
      BY <3>1, <1>5
  <2> QED
    BY <2>1, <2>2, <2>3, <1>3
<1>7. \A x \in Range(l) : x = t \/ x \in Range(c)
  <2>1. DOMAIN l = 1..Len(l) /\ DOMAIN c = 1..Len(c)
    BY <1>2, <1>5
  <2> QED
    BY <1>6, <2>1 DEF Range
<1>8. task_list' = c
  BY <1>1, <1>2, <1>4
<1> QED
  BY <1>2, <1>5, <1>7, <1>8 DEF C!Unlink

\* A wait that returns, and one that sleeps.
LEMMA WaitSteps ==
    ASSUME C!CompletionAssumption, C!CompletionInv, NEW t \in Tasks,
           C!Relock(t) \/ (t \in Waiters /\ C!Wait(t))
    PROVE  Returns(t) \/ Sleeps(t)
<1>1. /\ C!TypeOK /\ C!CountInv /\ C!TaskInv
  BY DEF C!CompletionInv
<1>2. PICK d : d = C!Width(done - 1) /\ (done # 0 => d = done - 1)
  BY <1>1, CountSteps
<1>3. /\ task_list \in Seq(Tasks) /\ exclusive \in [Tasks -> BOOLEAN] /\ alive \in BOOLEAN
  BY <1>1 DEF C!TypeOK, C!WqTypeOK
<1>4. /\ [exclusive EXCEPT ![t] = TRUE] \in [Tasks -> BOOLEAN]
      /\ [exclusive EXCEPT ![t] = FALSE] \in [Tasks -> BOOLEAN]
  BY <1>3
<1>5. ASSUME C!Return(t), done # 0
      PROVE  /\ done' = done - 1 /\ served' = served + 1 /\ cpc' = [cpc EXCEPT ![t] = "idle"]
             /\ (alive' \/ t = Owner) /\ alive' \in BOOLEAN /\ state' = state
  BY <1>2, <1>5 DEF C!Return, C!Goto
<1>6. CASE C!Wait(t) /\ t \in Waiters
  <2>1. CASE done # 0
    <3>1. C!Return(t) /\ UNCHANGED <<task_list, exclusive, on_rq, sigpending, q_lock, scan, nr, posted, alls>>
      BY <1>6, <2>1 DEF C!Wait, C!queueVars, C!scanVars
    <3>2. cpc[t] = "idle" /\ q_lock = NoTask /\ alive /\ served < MaxPosts + Cardinality(Tasks)
      BY <1>6, SameCount DEF C!Wait, C!WaitLock
    <3> QED
      BY <1>3, <1>5, <1>6, <2>1, <3>1, <3>2 DEF Returns
  <2>2. CASE done = 0
    <3>1. PICK l : l = Append(task_list, t)
      OBVIOUS
    <3>2. l \in Seq(Tasks) /\ Range(l) = Range(task_list) \cup {t}
      BY <1>3, <3>1, AppendElements
    <3>3. /\ task_list' = l /\ exclusive' = [exclusive EXCEPT ![t] = TRUE]
          /\ state' = [state EXCEPT ![t] = "UNINTERRUPTIBLE"] /\ cpc' = [cpc EXCEPT ![t] = "schedule"]
          /\ UNCHANGED <<on_rq, sigpending, q_lock, scan, nr, done, alive, posted, served, alls>>
      BY <1>6, <2>2, <3>1 DEF C!Wait, C!Goto, C!set_state, C!scanVars
    <3>4. cpc[t] = "idle" /\ q_lock = NoTask /\ alive /\ served < MaxPosts + Cardinality(Tasks)
      BY <1>6, SameCount DEF C!Wait, C!WaitLock
    <3> QED
      BY <1>4, <1>6, <2>2, <3>2, <3>3, <3>4 DEF Sleeps
  <2> QED
    BY <2>1, <2>2
<1>7. CASE C!Relock(t)
  <2>1. cpc[t] = "relock" /\ on_rq[t] /\ q_lock = NoTask
    BY <1>7 DEF C!Relock, C!WaitLock
  <2>2. t \in Waiters /\ t \in Range(task_list)
    BY <1>1, <2>1, SameRange DEF C!TaskInv, C!Waiting
  <2>3. CASE done # 0
    <3>1. /\ C!Return(t) /\ UNCHANGED <<on_rq, sigpending, q_lock, scan, nr, posted, alls>>
          /\ C!Unlink(t)
      BY <1>7, <2>3 DEF C!Relock, C!queueVars, C!scanVars
    <3>2. /\ task_list' \in Seq(Tasks) /\ Range(task_list) \subseteq Range(task_list') \cup {t}
          /\ exclusive' = [exclusive EXCEPT ![t] = FALSE]
      BY <1>3, <3>1, UnlinkKeeps
    <3> QED
      BY <1>4, <1>5, <2>1, <2>2, <2>3, <3>1, <3>2 DEF Returns
  <2>4. CASE done = 0
    <3>1. /\ UNCHANGED <<task_list, exclusive>>
          /\ state' = [state EXCEPT ![t] = "UNINTERRUPTIBLE"] /\ cpc' = [cpc EXCEPT ![t] = "schedule"]
          /\ UNCHANGED <<on_rq, sigpending, q_lock, scan, nr, done, alive, posted, served, alls>>
      BY <1>7, <2>4 DEF C!Relock, C!Goto, C!set_state, C!scanVars, C!queueVars
    <3> QED
      BY <1>3, <2>1, <2>2, <2>4, <3>1 DEF Sleeps
  <2> QED
    BY <2>3, <2>4
<1> QED
  BY <1>6, <1>7

\* The steps of the tasks at a completion, one by one.
LEMMA CompletionSteps ==
    ASSUME C!CompletionAssumption, C!CompletionInv, C!Next
    PROVE  \/ \E t \in Tasks : \/ Yields(t) \/ Returns(t) \/ Sleeps(t) \/ Ends(t)
                               \/ \E p \in Tasks : Passes(t, p)
                               \/ \E b \in BOOLEAN : Posts(t, b)
           \/ C!Reinit
<1>1. /\ C!TypeOK /\ C!CountInv /\ C!TaskInv
  BY DEF C!CompletionInv
<1>2. /\ state \in [Tasks -> C!States] /\ on_rq \in [Tasks -> BOOLEAN] /\ scan \in Seq(Tasks) /\ nr \in Int
      /\ posted \in Nat /\ alls \in Nat
  BY <1>1 DEF C!TypeOK, C!WqTypeOK
<1>3. \/ \E t \in Tasks : \/ C!Schedule(t) \/ C!Scan(t) \/ C!ScanEnd(t)
                          \/ C!Relock(t) \/ (t \in Waiters /\ C!Wait(t))
                          \/ C!Complete(t) \/ C!CompleteAll(t)
      \/ C!Reinit
  BY DEF C!Next, C!Run, C!CompletionAssumption
<1>4. ASSUME NEW t \in Tasks, C!Schedule(t) PROVE Yields(t)
  BY <1>2, <1>4 DEF C!Schedule, C!ScheduleOut, C!MustDeactivate, Yields, C!Goto, C!queueVars,
                    C!scanVars, C!States
<1>5. ASSUME NEW t \in Tasks, C!ScanEnd(t) PROVE Ends(t)
  BY <1>5 DEF C!ScanEnd, C!WakeUpEnd, Ends, C!Goto, C!queueVars, C!schedVars
<1>6. ASSUME NEW t \in Tasks, C!Complete(t) PROVE Posts(t, FALSE)
  <2>1. posted + alls < MaxPosts /\ UNCHANGED <<alive, served, alls>> /\ posted' = posted + 1
    BY <1>6 DEF C!Complete, C!Calls
  <2>2. PICK d : d = C!Width(done + 1)
    OBVIOUS
  <2>3. d \in 0 .. UINT_MAX /\ d <= done + 1 /\ Adds(d, posted + 1, served, alls)
    BY <1>1, <2>1, <2>2, CountSteps
  <2>4. done' = d
    BY <1>6, <2>2 DEF C!Complete
  <2>5. Adds(done', posted', served', alls') /\ done' \in 0 .. UINT_MAX /\ done' <= done + 1
    BY <2>1, <2>3, <2>4
  <2>6. /\ cpc[t] = "idle" /\ alive /\ q_lock = NoTask
        /\ q_lock' = t /\ scan' = task_list /\ nr' = 1 /\ cpc' = [cpc EXCEPT ![t] = "scan"]
        /\ UNCHANGED <<state, on_rq, sigpending, task_list, exclusive>>
    BY <1>6 DEF C!Complete, C!WakeUpStart, C!Goto, C!queueVars, C!schedVars
  <2> QED
    BY <1>2, <2>1, <2>5, <2>6 DEF Posts
<1>7. ASSUME NEW t \in Tasks, C!CompleteAll(t) PROVE Posts(t, TRUE)
  <2>1. posted + alls < MaxPosts /\ UNCHANGED <<alive, served, posted>> /\ alls' = alls + 1
    BY <1>7 DEF C!CompleteAll, C!Calls
  <2>2. PICK d : d = C!Width(done + C!AllAdds)
    OBVIOUS
  <2>3. d \in 0 .. UINT_MAX /\ Adds(d, posted, served, alls + 1)
    BY <1>1, <2>1, <2>2, CountSteps
  <2>4. done' = d
    BY <1>7, <2>2 DEF C!CompleteAll
  <2>5. Adds(done', posted', served', alls') /\ done' \in 0 .. UINT_MAX
    BY <2>1, <2>3, <2>4
  <2>6. /\ cpc[t] = "idle" /\ alive /\ q_lock = NoTask
        /\ q_lock' = t /\ scan' = task_list /\ nr' = 0 /\ cpc' = [cpc EXCEPT ![t] = "scan"]
        /\ UNCHANGED <<state, on_rq, sigpending, task_list, exclusive>>
    BY <1>7 DEF C!CompleteAll, C!WakeUpStart, C!Goto, C!queueVars, C!schedVars
  <2> QED
    BY <1>2, <2>1, <2>5, <2>6 DEF Posts
<1>8. ASSUME NEW t \in Tasks, C!Scan(t) PROVE \E p \in Tasks : Passes(t, p)
  <2>1. cpc[t] = "scan" /\ q_lock = t /\ scan # <<>>
    BY <1>8 DEF C!Scan, C!ScanOne, C!WakeUpOne
  <2>2. PICK p, r : p = Head(scan) /\ r = Tail(scan)
    OBVIOUS
  <2>3. p \in Tasks /\ r \in Seq(Tasks) /\ Range(scan) = Range(r) \cup {p}
    BY <1>2, <2>1, <2>2, TailElements
  <2>4. PICK c \in BOOLEAN : c = C!WakeCounts(p, C!Sleeping)
    BY DEF C!WakeCounts, C!Succeeds, C!WakesUp
  <2>5. /\ C!try_to_wake_up(p, C!Sleeping)
        /\ nr' = (IF c THEN nr - 1 ELSE nr)
        /\ scan' = (IF c /\ nr' = 0 THEN <<>> ELSE r)
        /\ UNCHANGED <<sigpending, task_list, exclusive, q_lock, cpc, done, alive, posted, served, alls>>
    BY <1>8, <2>2, <2>4 DEF C!Scan, C!ScanOne, C!WakeUpOne, C!queueVars, C!compVars
  <2>6. c => state[p] # "RUNNING"
    BY <2>4 DEF C!WakeCounts, C!Succeeds, C!WakesUp, C!Sleeping
  <2>7. /\ state' \in [Tasks -> C!States] /\ on_rq' \in [Tasks -> BOOLEAN] /\ state'[p] = "RUNNING"
        /\ \A u \in Tasks \ {p} : state'[u] = state[u] /\ on_rq'[u] = on_rq[u]
    BY <1>2, <2>3, <2>5 DEF C!try_to_wake_up, C!WakesUp, C!Succeeds, C!States, C!Sleeping
  <2>8. scan' \in Seq(Tasks) /\ nr' \in Int
    BY <1>2, <2>3, <2>5
  <2>9. \/ Range(scan) = Range(scan') \cup {p} /\ nr' = nr
        \/ Range(scan) = Range(scan') \cup {p} /\ nr' = nr - 1 /\ nr # 1 /\ state[p] # "RUNNING"
        \/ nr = 1 /\ nr' = 0 /\ scan' = <<>> /\ state[p] # "RUNNING"
    <3>1. CASE ~c
      BY <2>3, <2>5, <3>1
    <3>2. CASE c /\ nr = 1
      BY <2>5, <2>6, <3>2
    <3>3. CASE c /\ nr # 1
      <4>1. nr' # 0
        BY <1>2, <2>5, <3>3
      <4> QED
        BY <2>3, <2>5, <2>6, <3>3, <4>1
    <3> QED
      BY <3>1, <3>2, <3>3
  <2> QED
    BY <2>1, <2>3, <2>5, <2>7, <2>8, <2>9 DEF Passes
<1> QED
  BY <1>3, <1>4, <1>5, <1>6, <1>7, <1>8, WaitSteps

\* The types.
LEMMA CompletionTypes ==
    ASSUME C!CompletionAssumption, C!CompletionInv, C!Next
    PROVE  C!TypeOK'
<1> USE DEF C!CompletionInv
<1> USE DEF C!wqVars, C!TypeOK, C!WqTypeOK, C!PCs, C!States, C!Sleeping, C!CompletionAssumption,
        C!Calls
<1>Yields. ASSUME NEW t \in Tasks, Yields(t) PROVE C!TypeOK'
  BY <1>Yields, TasksAssumption DEF Yields
<1>Returns. ASSUME NEW t \in Tasks, Returns(t) PROVE C!TypeOK'
  BY <1>Returns, TasksAssumption DEF Returns
<1>Sleeps. ASSUME NEW t \in Tasks, Sleeps(t) PROVE C!TypeOK'
  BY <1>Sleeps, TasksAssumption DEF Sleeps
<1>Ends. ASSUME NEW t \in Tasks, Ends(t) PROVE C!TypeOK'
  BY <1>Ends, TasksAssumption DEF Ends
<1>Passes. ASSUME NEW t \in Tasks, NEW p \in Tasks, Passes(t, p) PROVE C!TypeOK'
  BY <1>Passes, TasksAssumption DEF Passes
<1> HIDE DEF C!CompletionInv, C!TypeOK, C!WqTypeOK, C!PCs, C!States, C!Sleeping,
         C!CompletionAssumption, C!Calls
<1>Posts. ASSUME NEW t \in Tasks, NEW b \in BOOLEAN, Posts(t, b) PROVE C!TypeOK'
  <2>1. C!TypeOK /\ C!CountInv
    BY DEF C!CompletionInv
  <2>2. /\ posted + alls < MaxPosts /\ done' \in 0 .. UINT_MAX /\ served' = served /\ alive' = alive
        /\ posted' = posted + (IF b THEN 0 ELSE 1) /\ alls' = alls + (IF b THEN 1 ELSE 0)
    BY <1>Posts DEF Posts
  <2>3. posted' \in Nat /\ alls' \in Nat /\ posted' + alls' <= MaxPosts
    <3>1. posted \in Nat /\ alls \in Nat /\ MaxPosts \in Nat
      BY <2>1, CompletionNumbers DEF C!TypeOK
    <3>2. CASE b
      BY <2>2, <3>1, <3>2
    <3>3. CASE ~b
      BY <2>2, <3>1, <3>3
    <3> QED
      BY <3>2, <3>3
  <2>4. C!WqTypeOK' /\ cpc' \in [Tasks -> C!PCs]
    BY <1>Posts, <2>1 DEF Posts, C!TypeOK, C!WqTypeOK, C!PCs
  <2> QED
    BY <2>1, <2>2, <2>3, <2>4 DEF C!TypeOK, C!Calls
<1>Reinit. CASE C!Reinit
  <2>1. C!TypeOK /\ 0 \in 0 .. UINT_MAX /\ 0 + 0 <= MaxPosts /\ 0 \in Nat
    BY CompletionNumbers DEF C!CompletionInv
  <2>2. /\ UNCHANGED <<state, on_rq, sigpending, task_list, exclusive, q_lock, scan, nr, cpc>>
        /\ done' = 0 /\ alive' = TRUE /\ posted' = 0 /\ served' = 0 /\ alls' = 0
    BY <1>Reinit DEF C!Reinit, C!wqVars, C!queueVars, C!scanVars, C!schedVars
  <2> QED
    BY <2>1, <2>2 DEF C!TypeOK, C!WqTypeOK, C!Calls
<1> QED
  BY CompletionSteps, <1>Yields, <1>Returns, <1>Sleeps, <1>Ends, <1>Passes, <1>Posts, <1>Reinit

\* Waiters are queued, and who is at the queue has the lock.
LEMMA WaitersAreQueued ==
    ASSUME C!CompletionAssumption, C!CompletionInv, C!Next
    PROVE  C!TaskInv'
<1> USE DEF C!CompletionInv
<1> USE DEF C!wqVars, C!TypeOK, C!WqTypeOK, C!PCs, C!States, C!Sleeping, C!CompletionAssumption,
        C!TaskInv, C!Waiting
<1>Yields. ASSUME NEW t \in Tasks, Yields(t) PROVE C!TaskInv'
  BY <1>Yields, TasksAssumption, SameRange DEF Yields
<1>Ends. ASSUME NEW t \in Tasks, Ends(t) PROVE C!TaskInv'
  BY <1>Ends, TasksAssumption, SameRange DEF Ends
<1>Passes. ASSUME NEW t \in Tasks, NEW p \in Tasks, Passes(t, p) PROVE C!TaskInv'
  BY <1>Passes, TasksAssumption, SameRange DEF Passes
<1>Posts. ASSUME NEW t \in Tasks, NEW b \in BOOLEAN, Posts(t, b) PROVE C!TaskInv'
  BY <1>Posts, TasksAssumption, SameRange DEF Posts
<1>Reinit. CASE C!Reinit
  BY <1>Reinit, TasksAssumption, SameRange DEF C!Reinit, C!queueVars, C!scanVars, C!schedVars
<1> HIDE DEF C!CompletionInv, C!TypeOK, C!WqTypeOK, C!PCs, C!States, C!Sleeping,
         C!CompletionAssumption, C!TaskInv, C!Waiting
<1>Returns. ASSUME NEW t \in Tasks, Returns(t) PROVE C!TaskInv'
  <2>1. C!TypeOK /\ C!TaskInv
    BY DEF C!CompletionInv
  <2>2. q_lock = NoTask /\ cpc[t] \in {"idle", "relock"} /\ (cpc[t] = "relock" => on_rq[t])
    BY <1>Returns DEF Returns
  <2>3. state[t] = "RUNNING"
    BY <2>1, <2>2 DEF C!TaskInv, C!Waiting
  <2>4. /\ cpc'[t] = "idle" /\ \A u \in Tasks \ {t} : cpc'[u] = cpc[u]
        /\ UNCHANGED <<q_lock, state, on_rq>> /\ t \in Tasks
    BY <1>Returns, <2>1 DEF Returns, C!TypeOK
  <2>5. \A u \in Tasks \ {t} : u \in C!Range(task_list) => u \in C!Range(task_list')
    BY <1>Returns, SameRange DEF Returns
  <2>6. q_lock # t
    BY <2>2, TasksAssumption
  <2> QED
    BY <2>1, <2>3, <2>4, <2>5, <2>6 DEF C!TaskInv, C!Waiting
<1>Sleeps. ASSUME NEW t \in Tasks, Sleeps(t) PROVE C!TaskInv'
  <2>1. C!TypeOK /\ C!TaskInv
    BY DEF C!CompletionInv
  <2>2. q_lock = NoTask /\ t \in Waiters
    BY <1>Sleeps DEF Sleeps
  <2>3. /\ cpc'[t] = "schedule"
        /\ \A u \in Tasks \ {t} : cpc'[u] = cpc[u] /\ state'[u] = state[u]
        /\ UNCHANGED <<q_lock, on_rq>> /\ t \in Tasks
    BY <1>Sleeps, <2>1 DEF Sleeps, C!TypeOK, C!WqTypeOK
  <2>4. C!Range(task_list') = C!Range(task_list) \cup {t}
    BY <1>Sleeps, SameRange DEF Sleeps
  <2>5. q_lock # t
    BY <2>2, TasksAssumption
  <2> QED
    BY <2>1, <2>2, <2>3, <2>4, <2>5 DEF C!TaskInv, C!Waiting
<1> QED
  BY CompletionSteps, <1>Yields, <1>Returns, <1>Sleeps, <1>Ends, <1>Passes, <1>Posts, <1>Reinit

\* done counts.
LEMMA DoneIsExact ==
    ASSUME C!CompletionAssumption, C!CompletionInv, C!Next
    PROVE  C!CountInv'
<1>Yields. ASSUME NEW t \in Tasks, Yields(t) PROVE C!CountInv'
  <2>1. C!TypeOK /\ C!CountInv
    BY DEF C!CompletionInv
  <2>2. C!Inside' = C!Inside /\ UNCHANGED <<done, posted, served, alls>>
    BY <1>Yields, <2>1 DEF Yields, C!Inside, C!Waiting, C!TypeOK
  <2>3. C!Cardinality(C!Inside)' = C!Cardinality(C!Inside) /\ C!AllAdds' = C!AllAdds
    BY <2>2 DEF C!AllAdds
  <2> QED
    BY <2>1, <2>2, <2>3 DEF C!CountInv
<1>Returns. ASSUME NEW t \in Tasks, Returns(t) PROVE C!CountInv'
  <2>1. C!TypeOK /\ C!CountInv /\ C!TaskInv
    BY DEF C!CompletionInv
  <2>2. PICK k, w : k = Cardinality(Tasks) /\ w = Cardinality(C!Inside)
    OBVIOUS
  <2>3. PICK v : v = Cardinality(C!Inside)'
    OBVIOUS
  <2>4. served \in Nat /\ MaxPosts \in Nat /\ k \in Nat
    BY <2>1, <2>2, Counts, CompletionNumbers
  <2>5. Adds(done, posted, served, alls) /\ served + w <= MaxPosts + 2 * k
    BY <2>1, <2>2, Counts
  <2>6. /\ w \in Nat /\ v \in Nat /\ w <= k /\ v = w + In(t, C!Inside') - In(t, C!Inside)
    BY <1>Returns, <2>1, <2>2, <2>3, OneWaiter DEF Returns, C!TypeOK
  <2>7. In(t, C!Inside') = 0 /\ In(t, C!Inside) = IF cpc[t] = "relock" THEN 1 ELSE 0
    BY <1>Returns, <2>1 DEF Returns, In, C!Inside, C!Waiting, C!TypeOK
  <2>8. /\ done # 0 /\ done' = done - 1 /\ served' = served + 1 /\ posted' = posted /\ alls' = alls
        /\ cpc[t] = "relock" \/ served < MaxPosts + k
    BY <1>Returns, <2>2 DEF Returns
  <2> SUFFICES Adds(done', posted', served', alls') /\ served' + v <= MaxPosts + 2 * k
    <3>1. C!Cardinality(C!Inside)' = v /\ C!Cardinality(Tasks) = k /\ C!AllAdds' = C!AllAdds
      BY <2>2, <2>3, SameCount DEF C!AllAdds
    <3> QED
      BY <3>1 DEF C!CountInv, Adds
  <2>9. served' + v <= MaxPosts + 2 * k
    <3>1. CASE cpc[t] = "relock"
      BY <2>4, <2>5, <2>6, <2>7, <2>8, <3>1
    <3>2. CASE cpc[t] # "relock"
      BY <2>4, <2>6, <2>7, <2>8, <3>2
    <3> QED
      BY <3>1, <3>2
  <2>10. Adds(done - 1, posted, served + 1, alls)
    BY <2>1, <2>8, CountSteps
  <2> QED
    BY <2>8, <2>9, <2>10
<1>Sleeps. ASSUME NEW t \in Tasks, Sleeps(t) PROVE C!CountInv'
  <2>1. C!TypeOK /\ C!CountInv /\ C!TaskInv
    BY DEF C!CompletionInv
  <2>2. PICK k, w : k = Cardinality(Tasks) /\ w = Cardinality(C!Inside)
    OBVIOUS
  <2>3. PICK v : v = Cardinality(C!Inside)'
    OBVIOUS
  <2>4. served \in Nat /\ MaxPosts \in Nat /\ k \in Nat
    BY <2>1, <2>2, Counts, CompletionNumbers
  <2>5. Adds(done, posted, served, alls) /\ served + w <= MaxPosts + 2 * k
    BY <2>1, <2>2, Counts
  <2>6. /\ w \in Nat /\ v \in Nat /\ v <= k /\ v = w + In(t, C!Inside') - In(t, C!Inside)
    BY <1>Sleeps, <2>1, <2>2, <2>3, OneWaiter DEF Sleeps, C!TypeOK, C!WqTypeOK
  <2>7. In(t, C!Inside') = 1 /\ In(t, C!Inside) = IF cpc[t] = "relock" THEN 1 ELSE 0
    BY <1>Sleeps, <2>1 DEF Sleeps, In, C!Inside, C!Waiting, C!TypeOK
  <2>8. /\ done' = done /\ served' = served /\ posted' = posted /\ alls' = alls
        /\ cpc[t] = "relock" \/ served < MaxPosts + k
    BY <1>Sleeps, <2>2 DEF Sleeps
  <2> SUFFICES Adds(done', posted', served', alls') /\ served' + v <= MaxPosts + 2 * k
    <3>1. C!Cardinality(C!Inside)' = v /\ C!Cardinality(Tasks) = k /\ C!AllAdds' = C!AllAdds
      BY <2>2, <2>3, SameCount DEF C!AllAdds
    <3> QED
      BY <3>1 DEF C!CountInv, Adds
  <2>9. served' + v <= MaxPosts + 2 * k
    <3>1. CASE cpc[t] = "relock"
      BY <2>4, <2>5, <2>6, <2>7, <2>8, <3>1
    <3>2. CASE cpc[t] # "relock"
      BY <2>4, <2>6, <2>7, <2>8, <3>2
    <3> QED
      BY <3>1, <3>2
  <2> QED
    BY <2>4, <2>5, <2>8, <2>9
<1>Ends. ASSUME NEW t \in Tasks, Ends(t) PROVE C!CountInv'
  <2>1. C!TypeOK /\ C!CountInv
    BY DEF C!CompletionInv
  <2>2. C!Inside' = C!Inside /\ UNCHANGED <<done, posted, served, alls>>
    BY <1>Ends, <2>1 DEF Ends, C!Inside, C!Waiting, C!TypeOK
  <2>3. C!Cardinality(C!Inside)' = C!Cardinality(C!Inside) /\ C!AllAdds' = C!AllAdds
    BY <2>2 DEF C!AllAdds
  <2> QED
    BY <2>1, <2>2, <2>3 DEF C!CountInv
<1>Passes. ASSUME NEW t \in Tasks, NEW p \in Tasks, Passes(t, p) PROVE C!CountInv'
  <2>1. C!TypeOK /\ C!CountInv
    BY DEF C!CompletionInv
  <2>2. C!Inside' = C!Inside /\ UNCHANGED <<done, posted, served, alls>>
    BY <1>Passes, <2>1 DEF Passes, C!Inside, C!Waiting, C!TypeOK
  <2>3. C!Cardinality(C!Inside)' = C!Cardinality(C!Inside) /\ C!AllAdds' = C!AllAdds
    BY <2>2 DEF C!AllAdds
  <2> QED
    BY <2>1, <2>2, <2>3 DEF C!CountInv
<1>Posts. ASSUME NEW t \in Tasks, NEW b \in BOOLEAN, Posts(t, b) PROVE C!CountInv'
  <2>1. C!TypeOK /\ C!CountInv /\ C!TaskInv
    BY DEF C!CompletionInv
  <2>2. PICK k, w : k = Cardinality(Tasks) /\ w = Cardinality(C!Inside)
    OBVIOUS
  <2>3. PICK v : v = Cardinality(C!Inside)'
    OBVIOUS
  <2>4. served \in Nat /\ MaxPosts \in Nat /\ k \in Nat
    BY <2>1, <2>2, Counts, CompletionNumbers
  <2>5. Adds(done, posted, served, alls) /\ served + w <= MaxPosts + 2 * k
    BY <2>1, <2>2, Counts
  <2>6. C!Inside' = C!Inside
    BY <1>Posts, <2>1 DEF Posts, C!Inside, C!Waiting, C!TypeOK
  <2>7. Adds(done', posted', served', alls') /\ served' = served /\ v = w
    BY <1>Posts, <2>2, <2>3, <2>6 DEF Posts
  <2> SUFFICES Adds(done', posted', served', alls') /\ served' + v <= MaxPosts + 2 * k
    <3>1. C!Cardinality(C!Inside)' = v /\ C!Cardinality(Tasks) = k /\ C!AllAdds' = C!AllAdds
      BY <2>2, <2>3, SameCount DEF C!AllAdds
    <3> QED
      BY <3>1 DEF C!CountInv, Adds
  <2> QED
    BY <2>5, <2>7
<1>Reinit. CASE C!Reinit
  <2>1. C!TypeOK /\ C!CountInv /\ C!TaskInv
    BY DEF C!CompletionInv
  <2>2. PICK k, w : k = Cardinality(Tasks) /\ w = Cardinality(C!Inside)
    OBVIOUS
  <2>3. PICK v : v = Cardinality(C!Inside)'
    OBVIOUS
  <2>4. served \in Nat /\ MaxPosts \in Nat /\ k \in Nat
    BY <2>1, <2>2, Counts, CompletionNumbers
  <2>5. Adds(done, posted, served, alls) /\ served + w <= MaxPosts + 2 * k
    BY <2>1, <2>2, Counts
  <2>6. /\ done' = 0 /\ posted' = 0 /\ served' = 0 /\ alls' = 0 /\ cpc' = cpc /\ state' = state
    BY <1>Reinit DEF C!Reinit, C!wqVars, C!schedVars
  <2>7. v <= k /\ v \in Nat
    <3>1. C!Inside' \subseteq Tasks
      BY DEF C!Inside
    <3> QED
      BY <2>2, <2>3, <3>1, FS_Subset, FS_CardinalityType, TasksAssumption
  <2> SUFFICES Adds(done', posted', served', alls') /\ served' + v <= MaxPosts + 2 * k
    <3>1. C!Cardinality(C!Inside)' = v /\ C!Cardinality(Tasks) = k /\ C!AllAdds' = C!AllAdds
      BY <2>2, <2>3, SameCount DEF C!AllAdds
    <3> QED
      BY <3>1 DEF C!CountInv, Adds
  <2>8. Adds(0, 0, 0, 0)
    BY CompletionNumbers DEF Adds
  <2> QED
    BY <2>4, <2>6, <2>7, <2>8
<1> QED
  BY CompletionSteps, <1>Yields, <1>Returns, <1>Sleeps, <1>Ends, <1>Passes, <1>Posts, <1>Reinit

\* The scan passes nobody by.
LEMMA PassedIsAwake ==
    ASSUME C!CompletionAssumption, C!CompletionInv, C!Next
    PROVE  C!ScanInv'
<1> USE DEF C!CompletionInv
<1> USE DEF C!wqVars, C!TypeOK, C!WqTypeOK, C!PCs, C!States, C!Sleeping, C!CompletionAssumption,
        C!ScanInv, C!Asleep, C!Waiting, C!TaskInv
<1>Yields. ASSUME NEW t \in Tasks, Yields(t) PROVE C!ScanInv'
  BY <1>Yields, TasksAssumption, SameRange DEF Yields
<1>Returns. ASSUME NEW t \in Tasks, Returns(t) PROVE C!ScanInv'
  BY <1>Returns, TasksAssumption, SameRange DEF Returns
<1>Posts. ASSUME NEW t \in Tasks, NEW b \in BOOLEAN, Posts(t, b) PROVE C!ScanInv'
  BY <1>Posts, TasksAssumption, SameRange DEF Posts
<1>Reinit. CASE C!Reinit
  BY <1>Reinit, TasksAssumption, SameRange DEF C!Reinit, C!queueVars, C!scanVars, C!schedVars
<1> HIDE DEF C!CompletionInv, C!TypeOK, C!WqTypeOK, C!PCs, C!States, C!Sleeping,
         C!CompletionAssumption, C!ScanInv, C!Asleep, C!Waiting, C!TaskInv
<1>Sleeps. ASSUME NEW t \in Tasks, Sleeps(t) PROVE C!ScanInv'
  BY <1>Sleeps DEF Sleeps, C!ScanInv
<1>Ends. ASSUME NEW t \in Tasks, Ends(t) PROVE C!ScanInv'
  BY <1>Ends DEF Ends, C!ScanInv
<1>Passes. ASSUME NEW t \in Tasks, NEW p \in Tasks, Passes(t, p) PROVE C!ScanInv'
  <2>1. C!TypeOK /\ C!ScanInv /\ C!TaskInv
    BY DEF C!CompletionInv
  <2>2. /\ q_lock = t /\ q_lock' = t /\ cpc' = cpc /\ q_lock # NoTask
        /\ state'[p] = "RUNNING" /\ \A u \in Tasks \ {p} : state'[u] = state[u]
    BY <1>Passes, TasksAssumption DEF Passes
  <2>3. C!Asleep' = C!Asleep \ {p}
    BY <2>2 DEF C!Asleep, C!Waiting
  <2>4. state[p] # "RUNNING" => p \in C!Asleep
    BY <2>1 DEF C!TaskInv, C!Asleep
  <2>5. PICK m \in Int, n \in Int : m = nr /\ n = nr'
    BY <1>Passes, <2>1 DEF Passes, C!TypeOK, C!WqTypeOK
  <2>6. PICK S, R : S = C!Range(scan) /\ R = C!Range(scan')
    OBVIOUS
  <2>7. \/ S = R \cup {p} /\ n = m
        \/ S = R \cup {p} /\ n = m - 1 /\ m # 1 /\ state[p] # "RUNNING"
        \/ m = 1 /\ n = 0 /\ scan' = <<>> /\ state[p] # "RUNNING"
    BY <1>Passes, <2>5, <2>6, SameRange DEF Passes
  <2>8. /\ m = 1 => C!Asleep \subseteq S
        /\ m <= 1
    BY <1>Passes, <2>1, <2>2, <2>5, <2>6 DEF C!ScanInv
  <2>9. CASE S = R \cup {p} /\ n = m
    BY <2>2, <2>3, <2>5, <2>6, <2>8, <2>9 DEF C!ScanInv
  <2>10. CASE n = m - 1
    <3>1. n # 1 /\ n <= 1
      BY <2>5, <2>8, <2>10
    <3> QED
      BY <2>5, <3>1 DEF C!ScanInv
  <2> QED
    BY <2>5, <2>7, <2>9, <2>10
<1> QED
  BY CompletionSteps, <1>Yields, <1>Returns, <1>Sleeps, <1>Ends, <1>Passes, <1>Posts, <1>Reinit

\* As many are awake as done lets through.
LEMMA DoneIsHeard ==
    ASSUME C!CompletionAssumption, C!CompletionInv, C!Next
    PROVE  C!WakeInv'
<1> USE DEF C!CompletionInv
<1> USE DEF C!wqVars, C!TypeOK, C!WqTypeOK, C!PCs, C!States, C!Sleeping, C!CompletionAssumption,
        C!WakeInv, C!Owing, C!InAll, C!Asleep, C!Awake, C!Waiting
<1>Reinit. CASE C!Reinit
  BY <1>Reinit, TasksAssumption DEF C!Reinit, C!queueVars, C!scanVars, C!schedVars
<1> HIDE DEF C!CompletionInv, C!TypeOK, C!WqTypeOK, C!PCs, C!States, C!Sleeping,
         C!CompletionAssumption, C!WakeInv, C!Owing, C!InAll, C!Asleep, C!Awake, C!Waiting
<1>Yields. ASSUME NEW t \in Tasks, Yields(t) PROVE C!WakeInv'
  <2>1. C!TypeOK /\ C!TaskInv /\ C!ScanInv /\ C!WakeInv /\ C!CountInv
    BY DEF C!CompletionInv
  <2>2. PICK m \in Nat, n \in Nat : m = Cardinality(C!Awake) /\ n = Cardinality(C!Awake)'
    <3>1. IsFiniteSet(C!Awake) /\ IsFiniteSet(C!Awake)'
      BY FS_Subset, TasksAssumption DEF C!Awake
    <3> QED
      BY <3>1, FS_CardinalityType
  <2>3. \/ C!Asleep = {}
        \/ C!InAll /\ C!Asleep \subseteq C!Range(scan)
        \/ m + (IF C!Owing THEN 1 ELSE 0) >= done
    BY <2>1, <2>2, SameCount DEF C!WakeInv
  <2> SUFFICES ASSUME C!Asleep' # {}, ~(C!InAll' /\ C!Asleep' \subseteq C!Range(scan'))
               PROVE  n + (IF C!Owing' THEN 1 ELSE 0) >= done'
    BY <2>2, SameCount DEF C!WakeInv
  <2>4. /\ UNCHANGED <<done, q_lock, nr, scan>> /\ cpc[t] = "schedule" /\ cpc' = [cpc EXCEPT ![t] = "relock"]
        /\ \A u \in Tasks \ {t} : state'[u] = state[u] /\ cpc'[u] = cpc[u]
        /\ state'[t] \in {state[t], "RUNNING"}
    BY <1>Yields, <2>1 DEF Yields, C!TypeOK
  <2>5. /\ C!Asleep' \subseteq C!Asleep /\ (t \in C!Awake => t \in C!Awake') /\ C!Owing' = C!Owing
        /\ C!InAll' = C!InAll /\ C!Range(scan') = C!Range(scan)
    BY <2>1, <2>4 DEF C!Asleep, C!Awake, C!Waiting, C!TypeOK, C!Owing, C!InAll
  <2>6. n = m + In(t, C!Awake') - In(t, C!Awake)
    BY <2>2, <2>4, OneWaiter
  <2>7. n >= m
    BY <2>5, <2>6 DEF In
  <2>8. PICK o \in {0, 1} : o = IF C!Owing THEN 1 ELSE 0
    OBVIOUS
  <2>9. done \in Nat /\ m + o >= done
    BY <2>1, <2>3, <2>5, <2>8, Counts
  <2> QED
    BY <2>4, <2>5, <2>7, <2>8, <2>9
<1>Returns. ASSUME NEW t \in Tasks, Returns(t) PROVE C!WakeInv'
  <2>1. C!TypeOK /\ C!TaskInv /\ C!ScanInv /\ C!WakeInv /\ C!CountInv
    BY DEF C!CompletionInv
  <2>2. PICK m \in Nat, n \in Nat : m = Cardinality(C!Awake) /\ n = Cardinality(C!Awake)'
    <3>1. IsFiniteSet(C!Awake) /\ IsFiniteSet(C!Awake)'
      BY FS_Subset, TasksAssumption DEF C!Awake
    <3> QED
      BY <3>1, FS_CardinalityType
  <2>3. \/ C!Asleep = {}
        \/ C!InAll /\ C!Asleep \subseteq C!Range(scan)
        \/ m + (IF C!Owing THEN 1 ELSE 0) >= done
    BY <2>1, <2>2, SameCount DEF C!WakeInv
  <2> SUFFICES ASSUME C!Asleep' # {}, ~(C!InAll' /\ C!Asleep' \subseteq C!Range(scan'))
               PROVE  n + (IF C!Owing' THEN 1 ELSE 0) >= done'
    BY <2>2, SameCount DEF C!WakeInv
  <2>4. /\ UNCHANGED <<q_lock, nr, state>> /\ q_lock = NoTask /\ done' = done - 1
        /\ \A u \in Tasks \ {t} : state'[u] = state[u] /\ cpc'[u] = cpc[u]
        /\ cpc'[t] = "idle"
    BY <1>Returns, <2>1 DEF Returns, C!TypeOK
  <2>5. C!Asleep' \subseteq C!Asleep /\ ~C!Owing /\ ~C!Owing' /\ ~C!InAll
    BY <2>4 DEF C!Asleep, C!Waiting, C!Owing, C!InAll
  <2>6. n = m + In(t, C!Awake') - In(t, C!Awake)
    BY <2>2, <2>4, OneWaiter
  <2>7. n >= m - 1
    BY <2>6 DEF In
  <2>8. done \in Nat /\ m >= done
    BY <2>1, <2>3, <2>5, Counts
  <2> QED
    BY <2>4, <2>5, <2>7, <2>8
<1>Sleeps. ASSUME NEW t \in Tasks, Sleeps(t) PROVE C!WakeInv'
  <2>1. C!TypeOK /\ C!TaskInv /\ C!ScanInv /\ C!WakeInv /\ C!CountInv
    BY DEF C!CompletionInv
  <2>2. PICK m \in Nat, n \in Nat : m = Cardinality(C!Awake) /\ n = Cardinality(C!Awake)'
    <3>1. IsFiniteSet(C!Awake) /\ IsFiniteSet(C!Awake)'
      BY FS_Subset, TasksAssumption DEF C!Awake
    <3> QED
      BY <3>1, FS_CardinalityType
  <2>3. \/ C!Asleep = {}
        \/ C!InAll /\ C!Asleep \subseteq C!Range(scan)
        \/ m + (IF C!Owing THEN 1 ELSE 0) >= done
    BY <2>1, <2>2, SameCount DEF C!WakeInv
  <2> SUFFICES ASSUME C!Asleep' # {}, ~(C!InAll' /\ C!Asleep' \subseteq C!Range(scan'))
               PROVE  n + (IF C!Owing' THEN 1 ELSE 0) >= done'
    BY <2>2, SameCount DEF C!WakeInv
  <2>4. done' = 0 /\ q_lock' = NoTask
    BY <1>Sleeps DEF Sleeps
  <2>5. ~C!Owing'
    BY <2>4 DEF C!Owing
  <2> QED
    BY <2>4, <2>5
<1>Ends. ASSUME NEW t \in Tasks, Ends(t) PROVE C!WakeInv'
  <2>1. C!TypeOK /\ C!TaskInv /\ C!ScanInv /\ C!WakeInv /\ C!CountInv
    BY DEF C!CompletionInv
  <2>2. PICK m \in Nat, n \in Nat : m = Cardinality(C!Awake) /\ n = Cardinality(C!Awake)'
    <3>1. IsFiniteSet(C!Awake) /\ IsFiniteSet(C!Awake)'
      BY FS_Subset, TasksAssumption DEF C!Awake
    <3> QED
      BY <3>1, FS_CardinalityType
  <2>3. \/ C!Asleep = {}
        \/ C!InAll /\ C!Asleep \subseteq C!Range(scan)
        \/ m + (IF C!Owing THEN 1 ELSE 0) >= done
    BY <2>1, <2>2, SameCount DEF C!WakeInv
  <2> SUFFICES ASSUME C!Asleep' # {}, ~(C!InAll' /\ C!Asleep' \subseteq C!Range(scan'))
               PROVE  n + (IF C!Owing' THEN 1 ELSE 0) >= done'
    BY <2>2, SameCount DEF C!WakeInv
  <2>4. /\ UNCHANGED <<done, state>> /\ q_lock = t /\ scan = <<>> /\ q_lock' = NoTask
        /\ cpc[t] = "scan" /\ cpc' = [cpc EXCEPT ![t] = "idle"]
    BY <1>Ends DEF Ends
  <2>5. C!Asleep' = C!Asleep /\ C!Awake' = C!Awake /\ ~C!Owing' /\ ~C!InAll
    BY <2>1, <2>4 DEF C!Asleep, C!Awake, C!Waiting, C!TypeOK, C!Owing, C!InAll
  <2>6. ~C!Owing
    <3>1. C!Range(scan) = {}
      BY <2>4 DEF C!Range
    <3> QED
      BY <2>1, <2>5, <3>1 DEF C!ScanInv, C!Owing
  <2> QED
    BY <2>2, <2>3, <2>4, <2>5, <2>6
<1>Passes. ASSUME NEW t \in Tasks, NEW p \in Tasks, Passes(t, p) PROVE C!WakeInv'
  <2>1. C!TypeOK /\ C!TaskInv /\ C!ScanInv /\ C!WakeInv /\ C!CountInv
    BY DEF C!CompletionInv
  <2>2. PICK m \in Nat, n \in Nat : m = Cardinality(C!Awake) /\ n = Cardinality(C!Awake)'
    <3>1. IsFiniteSet(C!Awake) /\ IsFiniteSet(C!Awake)'
      BY FS_Subset, TasksAssumption DEF C!Awake
    <3> QED
      BY <3>1, FS_CardinalityType
  <2>3. \/ C!Asleep = {}
        \/ C!InAll /\ C!Asleep \subseteq C!Range(scan)
        \/ m + (IF C!Owing THEN 1 ELSE 0) >= done
    BY <2>1, <2>2, SameCount DEF C!WakeInv
  <2> SUFFICES ASSUME C!Asleep' # {}, ~(C!InAll' /\ C!Asleep' \subseteq C!Range(scan'))
               PROVE  n + (IF C!Owing' THEN 1 ELSE 0) >= done'
    BY <2>2, SameCount DEF C!WakeInv
  <2>4. /\ UNCHANGED <<done, q_lock, cpc>> /\ q_lock = t /\ q_lock # NoTask /\ scan # <<>>
        /\ state'[p] = "RUNNING" /\ \A u \in Tasks \ {p} : state'[u] = state[u] /\ cpc'[u] = cpc[u]
    BY <1>Passes, TasksAssumption DEF Passes
  <2>5. /\ C!Asleep' \subseteq C!Asleep \ {p} /\ (p \in C!Awake => p \in C!Awake')
        /\ p \in C!Asleep => p \in C!Awake' /\ p \notin C!Awake
    BY <2>4 DEF C!Asleep, C!Awake, C!Waiting
  <2>6. state[p] # "RUNNING" => p \in C!Asleep
    BY <2>1 DEF C!TaskInv, C!Asleep
  <2>7. n = m + In(p, C!Awake') - In(p, C!Awake)
    BY <2>2, <2>4, OneWaiter
  <2>8. n >= m /\ (p \in C!Asleep => n = m + 1)
    BY <2>5, <2>7 DEF In
  <2>9. PICK o \in {0, 1} : o = IF C!Owing' THEN 1 ELSE 0
    OBVIOUS
  <2>10. done \in Nat
    BY <2>1, Counts
  <2>11. CASE nr = 1
    <3>1. C!Owing /\ ~C!InAll
      BY <2>4, <2>11 DEF C!Owing, C!InAll
    <3>2. m + 1 >= done
      BY <2>3, <2>5, <3>1
    <3>3. CASE nr' = nr
      <4>1. C!Owing'
        BY <2>4, <2>11, <3>3 DEF C!Owing
      <4> QED
        BY <2>4, <2>8, <2>10, <3>2, <4>1
    <3>4. CASE state[p] # "RUNNING"
      BY <2>4, <2>6, <2>8, <2>9, <2>10, <3>2, <3>4
    <3> QED
      BY <1>Passes, <3>3, <3>4 DEF Passes
  <2>12. CASE nr # 1
    <3>1. ~C!Owing
      BY <2>12 DEF C!Owing
    <3>2. CASE m >= done
      BY <2>4, <2>8, <2>9, <2>10, <3>2
    <3>3. CASE C!InAll /\ C!Asleep \subseteq C!Range(scan)
      <4>1. C!Range(scan) = C!Range(scan') \cup {p} /\ nr' \in {nr, nr - 1}
        BY <1>Passes, <2>12, SameRange DEF Passes
      <4>2. nr' # 1
        BY <2>1, <2>4, <2>12, <4>1 DEF C!ScanInv, C!TypeOK, C!WqTypeOK
      <4>3. C!Asleep' \subseteq C!Range(scan')
        BY <2>5, <3>3, <4>1
      <4>4. scan' # <<>>
        <5>1. scan' = <<>> => C!Range(scan') = {}
          BY DEF C!Range
        <5> QED
          BY <4>3, <5>1
      <4>5. C!InAll'
        BY <2>4, <4>2, <4>4 DEF C!InAll
      <4> QED
        BY <4>3, <4>5
    <3> QED
      BY <2>3, <2>5, <3>1, <3>2, <3>3
  <2> QED
    BY <2>11, <2>12
<1>Posts. ASSUME NEW t \in Tasks, NEW b \in BOOLEAN, Posts(t, b) PROVE C!WakeInv'
  <2>1. C!TypeOK /\ C!TaskInv /\ C!ScanInv /\ C!WakeInv /\ C!CountInv
    BY DEF C!CompletionInv
  <2>2. PICK m \in Nat, n \in Nat : m = Cardinality(C!Awake) /\ n = Cardinality(C!Awake)'
    <3>1. IsFiniteSet(C!Awake) /\ IsFiniteSet(C!Awake)'
      BY FS_Subset, TasksAssumption DEF C!Awake
    <3> QED
      BY <3>1, FS_CardinalityType
  <2>3. \/ C!Asleep = {}
        \/ C!InAll /\ C!Asleep \subseteq C!Range(scan)
        \/ m + (IF C!Owing THEN 1 ELSE 0) >= done
    BY <2>1, <2>2, SameCount DEF C!WakeInv
  <2> SUFFICES ASSUME C!Asleep' # {}, ~(C!InAll' /\ C!Asleep' \subseteq C!Range(scan'))
               PROVE  n + (IF C!Owing' THEN 1 ELSE 0) >= done'
    BY <2>2, SameCount DEF C!WakeInv
  <2>4. /\ cpc[t] = "idle" /\ cpc' = [cpc EXCEPT ![t] = "scan"] /\ q_lock = NoTask /\ q_lock' = t
        /\ state' = state /\ scan' = task_list /\ nr' = (IF b THEN 0 ELSE 1)
        /\ done' \in 0 .. UINT_MAX /\ (~b => done' <= done + 1)
    BY <1>Posts DEF Posts
  <2>5. C!Asleep' = C!Asleep /\ C!Awake' = C!Awake /\ ~C!Owing /\ ~C!InAll /\ q_lock' # NoTask
    BY <2>1, <2>4, TasksAssumption DEF C!Asleep, C!Awake, C!Waiting, C!TypeOK, C!Owing, C!InAll
  <2>6. CASE b
    <3>1. C!Asleep' \subseteq C!Range(scan')
      BY <2>1, <2>4, <2>5 DEF C!TaskInv, C!Asleep
    <3>2. scan' # <<>>
      <4>1. scan' = <<>> => C!Range(scan') = {}
        BY DEF C!Range
      <4> QED
        BY <3>1, <4>1
    <3>3. C!InAll'
      BY <2>4, <2>5, <2>6, <3>2 DEF C!InAll
    <3> QED
      BY <3>1, <3>3
  <2>7. CASE ~b
    <3>1. C!Owing'
      BY <2>4, <2>5, <2>7 DEF C!Owing
    <3>2. done \in Nat /\ m >= done /\ n = m
      BY <2>1, <2>2, <2>3, <2>5, Counts
    <3>3. done' \in Nat /\ done' <= done + 1
      BY <2>4, <2>7, CompletionNumbers
    <3> QED
      BY <3>1, <3>2, <3>3
  <2> QED
    BY <2>6, <2>7
<1> QED
  BY CompletionSteps, <1>Yields, <1>Returns, <1>Sleeps, <1>Ends, <1>Passes, <1>Posts, <1>Reinit

\* When the memory goes, nobody is at it.
LEMMA LastWaitIsAlone ==
    ASSUME C!CompletionAssumption, C!CompletionInv, C!Next
    PROVE  C!StackInv'
<1> USE DEF C!CompletionInv
<1> USE DEF C!wqVars, C!TypeOK, C!WqTypeOK, C!PCs, C!States, C!Sleeping, C!CompletionAssumption,
        C!StackInv, C!TaskInv, C!Waiting
<1>Yields. ASSUME NEW t \in Tasks, Yields(t) PROVE C!StackInv'
  BY <1>Yields, TasksAssumption DEF Yields
<1>Returns. ASSUME NEW t \in Tasks, Returns(t) PROVE C!StackInv'
  BY <1>Returns, TasksAssumption DEF Returns
<1>Sleeps. ASSUME NEW t \in Tasks, Sleeps(t) PROVE C!StackInv'
  BY <1>Sleeps, TasksAssumption DEF Sleeps
<1>Ends. ASSUME NEW t \in Tasks, Ends(t) PROVE C!StackInv'
  BY <1>Ends, TasksAssumption DEF Ends
<1>Passes. ASSUME NEW t \in Tasks, NEW p \in Tasks, Passes(t, p) PROVE C!StackInv'
  BY <1>Passes, TasksAssumption DEF Passes
<1>Posts. ASSUME NEW t \in Tasks, NEW b \in BOOLEAN, Posts(t, b) PROVE C!StackInv'
  BY <1>Posts, TasksAssumption DEF Posts
<1>Reinit. CASE C!Reinit
  BY <1>Reinit, TasksAssumption DEF C!Reinit, C!queueVars, C!scanVars, C!schedVars
<1> QED
  BY CompletionSteps, <1>Yields, <1>Returns, <1>Sleeps, <1>Ends, <1>Passes, <1>Posts, <1>Reinit

\* CompletionInv is an inductive invariant of complete, complete_all and wait_for_completion.
THEOREM CompletionInvariant ==
    ASSUME C!CompletionAssumption
    PROVE  C!Spec => []C!CompletionInv
<1>1. C!Init => C!CompletionInv
  <2> SUFFICES ASSUME C!Init PROVE C!CompletionInv
    OBVIOUS
  <2>1. /\ state = [t \in Tasks |-> "RUNNING"] /\ on_rq = [t \in Tasks |-> TRUE]
        /\ sigpending = [t \in Tasks |-> FALSE] /\ exclusive = [t \in Tasks |-> FALSE]
        /\ task_list = <<>> /\ scan = <<>> /\ nr = 0 /\ q_lock = NoTask
        /\ done = 0 /\ cpc = [t \in Tasks |-> "idle"] /\ alive = TRUE
        /\ posted = 0 /\ served = 0 /\ alls = 0
    BY DEF C!Init, C!WqInit
  <2>2. C!TypeOK
    <3>1. C!WqTypeOK
      BY <2>1 DEF C!WqTypeOK, C!States
    <3>2. 0 \in 0 .. UINT_MAX /\ 0 + 0 <= MaxPosts
      BY CompletionNumbers
    <3> QED
      BY <2>1, <3>1, <3>2 DEF C!TypeOK, C!PCs, C!Calls
  <2>3. C!TaskInv /\ C!StackInv
    BY <2>1, TasksAssumption DEF C!TaskInv, C!StackInv, C!Waiting
  <2>4. C!Asleep = {} /\ C!Inside = {}
    BY <2>1 DEF C!Asleep, C!Inside, C!Waiting
  <2>5. C!ScanInv /\ C!WakeInv
    BY <2>1, <2>4 DEF C!ScanInv, C!WakeInv
  <2>6. C!CountInv
    <3>1. C!Cardinality(C!Inside) = 0 /\ C!Cardinality(Tasks) = Cardinality(Tasks)
      BY <2>4, SameCount, FS_EmptySet
    <3> QED
      BY <2>1, <3>1, CompletionNumbers DEF C!CountInv
  <2> QED
    BY <2>2, <2>3, <2>5, <2>6 DEF C!CompletionInv
<1>2. C!CompletionInv /\ [C!Next]_C!vars => C!CompletionInv'
  <2>1. ASSUME C!CompletionInv, C!Next PROVE C!CompletionInv'
    BY <2>1, CompletionTypes, WaitersAreQueued, DoneIsExact, PassedIsAwake, DoneIsHeard, LastWaitIsAlone
       DEF C!CompletionInv
  <2>2. ASSUME C!CompletionInv, UNCHANGED C!vars PROVE C!CompletionInv'
    <3>1. UNCHANGED <<state, on_rq, sigpending, task_list, exclusive, q_lock, scan, nr, done, cpc, alive,
                      posted, served, alls>>
      BY <2>2 DEF C!vars, C!wqVars, C!queueVars, C!scanVars, C!schedVars, C!compVars
    <3>2. /\ C!Inside' = C!Inside /\ C!Awake' = C!Awake /\ C!Asleep' = C!Asleep /\ C!Owing' = C!Owing
          /\ C!InAll' = C!InAll /\ C!AllAdds' = C!AllAdds /\ C!Range(task_list)' = C!Range(task_list)
          /\ C!Range(scan)' = C!Range(scan)
      BY <3>1 DEF C!Inside, C!Awake, C!Asleep, C!Owing, C!InAll, C!Waiting, C!AllAdds
    <3>3. /\ C!Cardinality(C!Inside)' = C!Cardinality(C!Inside)
          /\ C!Cardinality(C!Awake)' = C!Cardinality(C!Awake)
      BY <3>2
    <3>4. C!TypeOK' /\ C!TaskInv' /\ C!StackInv'
      BY <2>2, <3>1 DEF C!CompletionInv, C!TypeOK, C!Calls, C!WqTypeOK, C!TaskInv, C!StackInv, C!Waiting
    <3>5. C!CountInv' /\ C!ScanInv' /\ C!WakeInv'
      BY <2>2, <3>1, <3>2, <3>3 DEF C!CompletionInv, C!CountInv, C!ScanInv, C!WakeInv
    <3> QED
      BY <3>4, <3>5 DEF C!CompletionInv
  <2> QED
    BY <2>1, <2>2
<1> QED
  BY <1>1, <1>2, PTL DEF C!Spec

\* For any number of waiters and completers: each complete() lets one wait through, none is
\* stranded while a waiter sleeps, nobody blocks after complete_all() unless an even number
\* of them met as many complete() that no wait has used, and nobody is at a completion whose
\* memory went with the stack of its waiter.
THEOREM CompletionsKept ==
    ASSUME C!CompletionAssumption
    PROVE  C!Spec => []C!CompletionSound
<1>1. C!CompletionInv => C!CompletionSound
  <2> SUFFICES ASSUME C!CompletionInv PROVE C!CompletionSound
    OBVIOUS
  <2>1. /\ C!TypeOK /\ C!CountInv /\ C!ScanInv /\ C!WakeInv /\ C!StackInv
    BY DEF C!CompletionInv
  <2>2. /\ done \in Nat /\ posted \in Nat /\ served \in Nat /\ alls \in Nat
        /\ Adds(done, posted, served, alls) /\ (done = 0 => alls % 2 = 0 /\ posted - served = alls)
    BY <2>1, Counts, CountSteps
  <2>3. C!OneEach
    <3>1. 0 % 2 = 0
      OBVIOUS
    <3> QED
      BY <2>2, <3>1 DEF C!OneEach, Adds
  <2>4. C!AllForGood /\ C!NoUseAfterReturn
    BY <2>1, <2>2 DEF C!AllForGood, C!NoUseAfterReturn, C!StackInv
  <2>5. C!NoLostWakeup
    <3> SUFFICES ASSUME q_lock = NoTask, C!Asleep # {} PROVE C!Cardinality(C!Awake) >= done
      BY DEF C!NoLostWakeup
    <3>1. ~C!InAll /\ ~C!Owing
      BY DEF C!InAll, C!Owing
    <3>2. IsFiniteSet(C!Awake)
      BY FS_Subset, TasksAssumption DEF C!Awake
    <3>3. C!Cardinality(C!Awake) \in Nat
      BY <3>2, SameCount, FS_CardinalityType
    <3> QED
      BY <2>1, <2>2, <3>1, <3>3 DEF C!WakeInv
  <2> QED
    BY <2>3, <2>4, <2>5 DEF C!CompletionSound
<1> QED
  BY <1>1, CompletionInvariant, PTL
=============================================================================
