---------------------------- MODULE RwSemProofs ----------------------------
(***************************************************************************)
(* Proofs about RwSem, for any finite number of tasks below 2^15.          *)
(***************************************************************************)
EXTENDS RwSem, ListFacts

-----------------------------------------------------------------------------
(***************************************************************************)
(* ListInv is inductive: one lemma per action.                             *)
(***************************************************************************)

\* Initially nothing is queued and nobody holds wait_lock.
LEMMA ListInvInit == Init => ListInv
<1> SUFFICES ASSUME Init PROVE ListInv
  OBVIOUS
<1> USE TasksAssumption DEF Init
<1>0. Range(<<>>) = {} /\ IsInjective(<<>>)
  BY DEF Range, IsInjective
<1>1. TypeOK
  BY DEF TypeOK, Modes, States, PCs
<1>2. LockInv
  BY DEF LockInv, WakePcs
<1>3. QueueInv
  BY <1>0 DEF QueueInv
<1>4. UsageInv
  BY DEF UsageInv, OwnReference, WaiterReference
<1> QED
  BY <1>1, <1>2, <1>3, <1>4 DEF ListInv

\* The first waiter of the list is asleep in the slow path of a lock.
LEMMA HeadWaits ==
    ASSUME ListInv, wait_list # <<>>
    PROVE  /\ Head(wait_list) \in Tasks
           /\ Head(wait_list) \in Range(wait_list)
           /\ waiting[Head(wait_list)]
           /\ InSlowPath(Head(wait_list))
<1>1. Head(wait_list) \in Tasks /\ Head(wait_list) \in Range(wait_list)
  BY TailElements DEF ListInv, TypeOK
<1> QED
  BY <1>1 DEF ListInv, QueueInv

\* down_read.
LEMMA DownReadList ==
    ASSUME ListInv, NEW t \in Tasks, DownRead(t)
    PROVE  ListInv'
<1> USE TasksAssumption DEF ListInv, DownRead, queueVars, Goto
<1>0. wait_list # <<>> => Head(wait_list) # t
  BY HeadWaits DEF InSlowPath, WakePcs
<1>1. TypeOK'
  BY DEF TypeOK, Modes, States, PCs, WakePcs, ACTIVE_BIAS, WAITING_BIAS,
         WRITE_BIAS
<1>2. LockInv'
  BY <1>0 DEF TypeOK, LockInv, WakePcs
<1>3. QueueInv'
  BY DEF TypeOK, LockInv, QueueInv, InSlowPath, WakePcs
<1>4. UsageInv'
  BY DEF TypeOK, LockInv, QueueInv, UsageInv, OwnReference, WaiterReference,
         InSlowPath, WakePcs
<1> QED
  BY <1>1, <1>2, <1>3, <1>4

\* down_read_trylock.
LEMMA DownReadTrylockList ==
    ASSUME ListInv, NEW t \in Tasks, DownReadTrylock(t)
    PROVE  ListInv'
<1> USE TasksAssumption DEF ListInv, DownReadTrylock, queueVars, Goto
<1>0. wait_list # <<>> => Head(wait_list) # t
  BY HeadWaits DEF InSlowPath, WakePcs
<1>1. TypeOK'
  BY DEF TypeOK, Modes, States, PCs, WakePcs, ACTIVE_BIAS, WAITING_BIAS,
         WRITE_BIAS
<1>2. LockInv'
  BY <1>0 DEF TypeOK, LockInv, WakePcs
<1>3. QueueInv'
  BY DEF TypeOK, LockInv, QueueInv, InSlowPath, WakePcs
<1>4. UsageInv'
  BY DEF TypeOK, LockInv, QueueInv, UsageInv, OwnReference, WaiterReference,
         InSlowPath, WakePcs
<1> QED
  BY <1>1, <1>2, <1>3, <1>4

\* down_write.
LEMMA DownWriteList ==
    ASSUME ListInv, NEW t \in Tasks, DownWrite(t)
    PROVE  ListInv'
<1> USE TasksAssumption DEF ListInv, DownWrite, queueVars, Goto
<1>0. wait_list # <<>> => Head(wait_list) # t
  BY HeadWaits DEF InSlowPath, WakePcs
<1>1. TypeOK'
  BY DEF TypeOK, Modes, States, PCs, WakePcs, ACTIVE_BIAS, WAITING_BIAS,
         WRITE_BIAS
<1>2. LockInv'
  BY <1>0 DEF TypeOK, LockInv, WakePcs
<1>3. QueueInv'
  BY DEF TypeOK, LockInv, QueueInv, InSlowPath, WakePcs
<1>4. UsageInv'
  BY DEF TypeOK, LockInv, QueueInv, UsageInv, OwnReference, WaiterReference,
         InSlowPath, WakePcs
<1> QED
  BY <1>1, <1>2, <1>3, <1>4

\* down_write_trylock.
LEMMA DownWriteTrylockList ==
    ASSUME ListInv, NEW t \in Tasks, DownWriteTrylock(t)
    PROVE  ListInv'
<1> USE TasksAssumption DEF ListInv, DownWriteTrylock, queueVars, Goto
<1>0. wait_list # <<>> => Head(wait_list) # t
  BY HeadWaits DEF InSlowPath, WakePcs
<1>b. /\ pc[t] = "idle" /\ pc' = [pc EXCEPT ![t] = "hold"]
      /\ mode' = [mode EXCEPT ![t] = "write"] /\ count' = WRITE_BIAS
      /\ UNCHANGED <<queueVars, state, usage>>
  OBVIOUS
<1> HIDE DEF DownWriteTrylock
<1>c. ~waiting[t] /\ t \notin Range(granting)
  BY <1>b DEF QueueInv, InSlowPath, WakePcs
<1>1. TypeOK'
  BY <1>b DEF TypeOK, Modes, States, PCs, WakePcs, ACTIVE_BIAS, WAITING_BIAS,
         WRITE_BIAS
<1>2. LockInv'
  BY <1>0, <1>b DEF TypeOK, LockInv, WakePcs
<1>3. QueueInv'
  BY <1>b, <1>c DEF TypeOK, LockInv, QueueInv, InSlowPath, WakePcs
<1>4. UsageInv'
  BY <1>b DEF TypeOK, LockInv, QueueInv, UsageInv, OwnReference,
         WaiterReference, InSlowPath, WakePcs
<1> QED
  BY <1>1, <1>2, <1>3, <1>4

\* up_read.
LEMMA UpReadList ==
    ASSUME ListInv, NEW t \in Tasks, UpRead(t)
    PROVE  ListInv'
<1> USE TasksAssumption DEF ListInv, UpRead, queueVars, Goto
<1>1. TypeOK'
  BY DEF TypeOK, Modes, States, PCs, WakePcs, ACTIVE_BIAS, WAITING_BIAS,
         WRITE_BIAS
<1>2. LockInv'
  BY DEF TypeOK, LockInv, WakePcs
<1>3. QueueInv'
  BY DEF TypeOK, LockInv, QueueInv, InSlowPath, WakePcs
<1>4. UsageInv'
  BY DEF TypeOK, LockInv, QueueInv, UsageInv, OwnReference, WaiterReference,
         InSlowPath, WakePcs
<1> QED
  BY <1>1, <1>2, <1>3, <1>4

\* up_write.
LEMMA UpWriteList ==
    ASSUME ListInv, NEW t \in Tasks, UpWrite(t)
    PROVE  ListInv'
<1> USE TasksAssumption DEF ListInv, UpWrite, queueVars, Goto
<1>1. TypeOK'
  BY DEF TypeOK, Modes, States, PCs, WakePcs, ACTIVE_BIAS, WAITING_BIAS,
         WRITE_BIAS
<1>2. LockInv'
  BY DEF TypeOK, LockInv, WakePcs
<1>3. QueueInv'
  BY DEF TypeOK, LockInv, QueueInv, InSlowPath, WakePcs
<1>4. UsageInv'
  BY DEF TypeOK, LockInv, QueueInv, UsageInv, OwnReference, WaiterReference,
         InSlowPath, WakePcs
<1> QED
  BY <1>1, <1>2, <1>3, <1>4

\* set_task_state before the queue is entered.
LEMMA SetTaskStateList ==
    ASSUME ListInv, NEW t \in Tasks, SetTaskState(t)
    PROVE  ListInv'
<1> USE TasksAssumption DEF ListInv, SetTaskState, queueVars, Goto
<1>1. TypeOK'
  BY DEF TypeOK, Modes, States, PCs, WakePcs, ACTIVE_BIAS, WAITING_BIAS,
         WRITE_BIAS
<1>2. LockInv'
  BY DEF TypeOK, LockInv, WakePcs
<1>3. QueueInv'
  BY DEF TypeOK, LockInv, QueueInv, InSlowPath, WakePcs
<1>4. UsageInv'
  BY DEF TypeOK, LockInv, QueueInv, UsageInv, OwnReference, WaiterReference,
         InSlowPath, WakePcs
<1> QED
  BY <1>1, <1>2, <1>3, <1>4

\* The loop of rwsem_down_failed_common.
LEMMA CheckList ==
    ASSUME ListInv, NEW t \in Tasks, Check(t)
    PROVE  ListInv'
<1> USE TasksAssumption DEF ListInv
<1>0. pc[t] = "check" /\ UNCHANGED <<count, wait_lock, caller, wait_list,
                             granting, tsk, waiting, mode, usage>>
  BY DEF Check, Goto, queueVars
<1>1. CASE waiting[t]
  <2>0. pc' = [pc EXCEPT ![t] = "schedule"] /\ UNCHANGED state
    BY <1>1 DEF Check, Goto, queueVars
  <2>1. TypeOK'
    BY <1>0, <2>0 DEF TypeOK, Modes, States, PCs, WakePcs, ACTIVE_BIAS,
           WAITING_BIAS, WRITE_BIAS
  <2>2. LockInv'
    BY <1>0, <2>0 DEF TypeOK, LockInv, WakePcs
  <2>3. QueueInv'
    BY <1>0, <1>1, <2>0 DEF TypeOK, LockInv, QueueInv, InSlowPath, WakePcs
  <2>4. UsageInv'
    BY <1>0, <2>0 DEF TypeOK, LockInv, QueueInv, UsageInv, OwnReference,
           WaiterReference, InSlowPath, WakePcs
  <2> QED
    BY <2>1, <2>2, <2>3, <2>4
<1>2. CASE ~waiting[t]
  <2>0. /\ pc' = [pc EXCEPT ![t] = "hold"]
        /\ state' = [state EXCEPT ![t] = "RUNNING"]
    BY <1>2 DEF Check, Goto, queueVars
  <2>1. TypeOK'
    BY <1>0, <2>0 DEF TypeOK, Modes, States, PCs, WakePcs, ACTIVE_BIAS,
           WAITING_BIAS, WRITE_BIAS
  <2>2. LockInv'
    BY <1>0, <2>0 DEF TypeOK, LockInv, WakePcs
  <2>3. QueueInv'
    BY <1>0, <1>2, <2>0 DEF TypeOK, LockInv, QueueInv, InSlowPath, WakePcs
  <2>4. UsageInv'
    BY <1>0, <2>0 DEF TypeOK, LockInv, QueueInv, UsageInv, OwnReference,
           WaiterReference, InSlowPath, WakePcs
  <2> QED
    BY <2>1, <2>2, <2>3, <2>4
<1> QED
  BY <1>1, <1>2

\* schedule() returns.
LEMMA ScheduleList ==
    ASSUME ListInv, NEW t \in Tasks, Schedule(t)
    PROVE  ListInv'
<1> USE TasksAssumption DEF ListInv, Schedule, queueVars, Goto
<1>1. TypeOK'
  BY DEF TypeOK, Modes, States, PCs, WakePcs, ACTIVE_BIAS, WAITING_BIAS,
         WRITE_BIAS
<1>2. LockInv'
  BY DEF TypeOK, LockInv, WakePcs
<1>3. QueueInv'
  BY DEF TypeOK, LockInv, QueueInv, InSlowPath, WakePcs
<1>4. UsageInv'
  BY DEF TypeOK, LockInv, QueueInv, UsageInv, OwnReference, WaiterReference,
         InSlowPath, WakePcs
<1> QED
  BY <1>1, <1>2, <1>3, <1>4

\* rwsem_wake takes wait_lock.
LEMMA RwsemWakeList ==
    ASSUME ListInv, NEW t \in Tasks, RwsemWake(t)
    PROVE  ListInv'
<1> USE TasksAssumption DEF ListInv, RwsemWake, queueVars, Goto
<1>1. TypeOK'
  BY DEF TypeOK, Modes, States, PCs, WakePcs, ACTIVE_BIAS, WAITING_BIAS,
         WRITE_BIAS
<1>2. LockInv'
  BY DEF TypeOK, LockInv, WakePcs
<1>3. QueueInv'
  BY DEF TypeOK, LockInv, QueueInv, InSlowPath, WakePcs
<1>4. UsageInv'
  BY DEF TypeOK, LockInv, QueueInv, UsageInv, OwnReference, WaiterReference,
         InSlowPath, WakePcs
<1> QED
  BY <1>1, <1>2, <1>3, <1>4

\* try_again in __rwsem_do_wake.
LEMMA DoWakeList ==
    ASSUME ListInv, NEW t \in Tasks, DoWake(t)
    PROVE  ListInv'
<1> USE TasksAssumption DEF ListInv, queueVars, Goto
<1>0. wait_list # <<>> /\ Head(wait_list) \in Tasks
  BY HeadWaits DEF DoWake, LockInv
<1>a. PICK l \in {"undo", "grant_write", "grant_read"} :
        /\ pc' = [pc EXCEPT ![t] = l]
        /\ l = "grant_write" => mode[Head(wait_list)] = "write"
        /\ l = "grant_read" => mode[Head(wait_list)] # "write"
  <2>1. pc' = [pc EXCEPT ![t] = IF ~MayGrant(count) THEN "undo"
                 ELSE IF mode[Head(wait_list)] = "write" THEN "grant_write"
                 ELSE "grant_read"]
    BY DEF DoWake
  <2>2. CASE ~MayGrant(count)
    BY <2>1, <2>2
  <2>3. CASE MayGrant(count) /\ mode[Head(wait_list)] = "write"
    BY <2>1, <2>3
  <2>4. CASE MayGrant(count) /\ mode[Head(wait_list)] # "write"
    BY <2>1, <2>4
  <2> QED
    BY <2>2, <2>3, <2>4
<1>b. /\ pc[t] = "do_wake"
      /\ count' = count + ACTIVE_BIAS
      /\ UNCHANGED <<queueVars, mode, state, usage>>
  BY DEF DoWake
<1>1. TypeOK'
  BY <1>a, <1>b DEF TypeOK, Modes, States, PCs, WakePcs, ACTIVE_BIAS,
         WAITING_BIAS, WRITE_BIAS
<1>2. LockInv'
  BY <1>0, <1>a, <1>b DEF TypeOK, LockInv, WakePcs, Modes
<1>3. QueueInv'
  BY <1>a, <1>b DEF TypeOK, LockInv, QueueInv, InSlowPath, WakePcs
<1>4. UsageInv'
  BY SMTT(30), <1>a, <1>b DEF TypeOK, LockInv, QueueInv, UsageInv, OwnReference,
         WaiterReference, InSlowPath, WakePcs
<1> QED
  BY <1>1, <1>2, <1>3, <1>4

\* The undo code.
LEMMA UndoList ==
    ASSUME ListInv, NEW t \in Tasks, Undo(t)
    PROVE  ListInv'
<1> USE TasksAssumption DEF ListInv, Undo, queueVars, Goto
<1>1. TypeOK'
  BY DEF TypeOK, Modes, States, PCs, WakePcs, ACTIVE_BIAS, WAITING_BIAS,
         WRITE_BIAS
<1>2. LockInv'
  BY DEF TypeOK, LockInv, WakePcs
<1>3. QueueInv'
  BY DEF TypeOK, LockInv, QueueInv, InSlowPath, WakePcs
<1>4. UsageInv'
  BY SMTT(30) DEF TypeOK, LockInv, QueueInv, UsageInv, OwnReference, WaiterReference,
         InSlowPath, WakePcs
<1> QED
  BY <1>1, <1>2, <1>3, <1>4

\* wake_up_process and put_task_struct.
LEMMA WakeList ==
    ASSUME ListInv, NEW t \in Tasks, Wake(t)
    PROVE  ListInv'
<1> USE TasksAssumption DEF ListInv, Wake, queueVars, Goto
<1>1. TypeOK'
  BY DEF TypeOK, Modes, States, PCs, WakePcs, ACTIVE_BIAS, WAITING_BIAS,
         WRITE_BIAS, UsageInv, LockInv, OwnReference, WaiterReference
<1>2. LockInv'
  BY DEF TypeOK, LockInv, WakePcs
<1>3. QueueInv'
  BY DEF TypeOK, LockInv, QueueInv, InSlowPath, WakePcs
<1>4. UsageInv'
  BY DEF TypeOK, LockInv, QueueInv, UsageInv, OwnReference, WaiterReference,
         InSlowPath, WakePcs
<1> QED
  BY <1>1, <1>2, <1>3, <1>4

\* spin_unlock.
LEMMA UnlockList ==
    ASSUME ListInv, NEW t \in Tasks, Unlock(t)
    PROVE  ListInv'
<1> USE TasksAssumption DEF ListInv, Unlock, queueVars, Goto
<1>1. TypeOK'
  BY DEF TypeOK, Modes, States, PCs, WakePcs, ACTIVE_BIAS, WAITING_BIAS,
         WRITE_BIAS
<1>2. LockInv'
  BY DEF TypeOK, LockInv, WakePcs
<1>3. QueueInv'
  BY DEF TypeOK, LockInv, QueueInv, InSlowPath, WakePcs
<1>4. UsageInv'
  BY DEF TypeOK, LockInv, QueueInv, UsageInv, OwnReference, WaiterReference,
         InSlowPath, WakePcs
<1> QED
  BY <1>1, <1>2, <1>3, <1>4

\* A task exits.
LEMMA ExitList ==
    ASSUME ListInv, NEW t \in Tasks, Exit(t)
    PROVE  ListInv'
<1> USE TasksAssumption DEF ListInv, Exit, queueVars, Goto
<1>0. usage[t] \in Nat /\ usage[t] >= 1
  <2>1. usage[t] = OwnReference(t) + WaiterReference(t)
    BY DEF UsageInv
  <2>2. OwnReference(t) = 1 /\ WaiterReference(t) \in {0, 1}
    BY DEF OwnReference, WaiterReference
  <2> QED
    BY <2>1, <2>2 DEF TypeOK
<1>1. TypeOK'
  BY <1>0 DEF TypeOK, Modes, States, PCs, WakePcs, ACTIVE_BIAS, WAITING_BIAS,
         WRITE_BIAS
<1>2. LockInv'
  BY DEF TypeOK, LockInv, WakePcs
<1>3. QueueInv'
  BY DEF TypeOK, LockInv, QueueInv, InSlowPath, WakePcs
<1>4. UsageInv'
  BY DEF TypeOK, LockInv, QueueInv, UsageInv, OwnReference, WaiterReference,
         InSlowPath, WakePcs
<1> QED
  BY <1>1, <1>2, <1>3, <1>4

\* A task structure is used again.
LEMMA ForkList ==
    ASSUME ListInv, NEW t \in Tasks, Fork(t)
    PROVE  ListInv'
<1> USE TasksAssumption DEF ListInv, Fork, queueVars, Goto
<1>1. TypeOK'
  BY DEF TypeOK, Modes, States, PCs, WakePcs, ACTIVE_BIAS, WAITING_BIAS,
         WRITE_BIAS
<1>2. LockInv'
  BY DEF TypeOK, LockInv, WakePcs
<1>3. QueueInv'
  BY DEF TypeOK, LockInv, QueueInv, InSlowPath, WakePcs
<1>4. UsageInv'
  BY DEF TypeOK, LockInv, QueueInv, UsageInv, OwnReference, WaiterReference,
         InSlowPath, WakePcs
<1> QED
  BY <1>1, <1>2, <1>3, <1>4

\* The locker joins the list.
LEMMA EnqueueList ==
    ASSUME ListInv, NEW t \in Tasks, Enqueue(t)
    PROVE  ListInv'
<1> USE TasksAssumption DEF ListInv, Enqueue, Goto, GetTaskStruct
<1>0. /\ ~waiting[t] /\ t \notin Range(wait_list) /\ t \notin Range(granting)
      /\ tsk = NoTask /\ granting = <<>>
      /\ \A u \in Tasks : pc[u] \notin WakePcs
  <2>1. \A u \in Tasks : pc[u] \notin WakePcs
    BY DEF LockInv
  <2>2. tsk = NoTask /\ granting = <<>>
    BY <2>1 DEF LockInv, WakePcs
  <2>3. ~InSlowPath(t)
    BY DEF InSlowPath, WakePcs
  <2> QED
    BY <2>1, <2>2, <2>3 DEF QueueInv
<1>a. /\ wait_list' \in Seq(Tasks) /\ wait_list' # <<>>
      /\ Range(wait_list') = Range(wait_list) \cup {t}
      /\ IsInjective(wait_list')
  BY <1>0, AppendElements, AppendInjective DEF TypeOK, QueueInv
<1>b. Adjustment(mode[t]) \in Int
  BY DEF Adjustment, WAITING_BIAS, ACTIVE_BIAS
<1>1. TypeOK'
  BY SMTT(30), <1>a, <1>b DEF TypeOK, Modes, States, PCs, WakePcs, ACTIVE_BIAS,
         WAITING_BIAS, WRITE_BIAS
<1>2. LockInv'
  BY <1>0, <1>a DEF TypeOK, LockInv, WakePcs
<1>3. QueueInv'
  BY <1>0, <1>a DEF TypeOK, LockInv, QueueInv, InSlowPath, WakePcs
<1>4. UsageInv'
  BY <1>0, <1>a DEF TypeOK, LockInv, QueueInv, UsageInv, OwnReference,
         WaiterReference, InSlowPath, WakePcs
<1> QED
  BY <1>1, <1>2, <1>3, <1>4

\* A writer is granted.
LEMMA GrantWriteList ==
    ASSUME ListInv, NEW t \in Tasks, GrantWrite(t)
    PROVE  ListInv'
<1> USE TasksAssumption DEF ListInv, GrantWrite, Goto
<1> DEFINE h == Head(wait_list)
<1>0. wait_list # <<>> /\ wait_lock = t /\ tsk = NoTask /\ granting = <<>>
  BY DEF LockInv, WakePcs
<1>a. /\ wait_list' \in Seq(Tasks) /\ h \in Tasks
      /\ Range(wait_list) = Range(wait_list') \cup {h}
      /\ IsInjective(wait_list') /\ h \notin Range(wait_list')
  BY <1>0, TailElements DEF TypeOK, QueueInv
<1>b. waiting' = [waiting EXCEPT ![h] = FALSE] /\ tsk' = h
  OBVIOUS
<1> HIDE DEF h
<1>1. TypeOK'
  BY <1>a, <1>b DEF TypeOK, Modes, States, PCs, WakePcs, ACTIVE_BIAS,
         WAITING_BIAS, WRITE_BIAS
<1>2. LockInv'
  BY <1>0, <1>a, <1>b DEF TypeOK, LockInv, WakePcs
<1>3. QueueInv'
  BY <1>0, <1>a, <1>b DEF TypeOK, LockInv, QueueInv, InSlowPath, WakePcs
<1>4. UsageInv'
  BY SMTT(30), <1>0, <1>a, <1>b DEF TypeOK, LockInv, QueueInv, UsageInv, OwnReference,
         WaiterReference, InSlowPath, WakePcs
<1> QED
  BY <1>1, <1>2, <1>3, <1>4

\* The next granted reader is told.
LEMMA TellList ==
    ASSUME ListInv, NEW t \in Tasks, Tell(t)
    PROVE  ListInv'
<1> USE TasksAssumption DEF ListInv, Tell, Goto, ReleaseWaiter
<1> DEFINE h == Head(granting)
<1>0. granting # <<>> /\ wait_lock = t /\ tsk = NoTask
  BY DEF LockInv, WakePcs
<1>a. /\ granting' \in Seq(Tasks) /\ h \in Tasks
      /\ Range(granting) = Range(granting') \cup {h}
      /\ IsInjective(granting') /\ h \notin Range(granting')
  BY <1>0, TailElements DEF TypeOK, QueueInv
<1>b. /\ waiting' = [waiting EXCEPT ![h] = FALSE] /\ tsk' = h
      /\ pc[t] = "tell" /\ pc' = [pc EXCEPT ![t] = "wake"]
      /\ UNCHANGED <<count, wait_lock, caller, wait_list, mode, state, usage>>
  OBVIOUS
<1> HIDE DEF h, Tell
<1>1. TypeOK'
  BY <1>a, <1>b DEF TypeOK, Modes, States, PCs, WakePcs, ACTIVE_BIAS,
         WAITING_BIAS, WRITE_BIAS
<1>2. LockInv'
  BY <1>0, <1>a, <1>b DEF TypeOK, LockInv, WakePcs
<1>3. QueueInv'
  BY <1>0, <1>a, <1>b DEF TypeOK, LockInv, QueueInv, InSlowPath, WakePcs
<1>4. UsageInv'
  <2>1. waiting[h] /\ ~waiting'[h]
    BY <1>a, <1>b DEF QueueInv, TypeOK
  <2>2. \A u \in Tasks : WaiterReference(u)' = WaiterReference(u)
    BY <1>0, <1>a, <1>b, <2>1 DEF WaiterReference, TypeOK
  <2>3. \A u \in Tasks : OwnReference(u)' = OwnReference(u)
    BY <1>b DEF OwnReference, TypeOK
  <2> QED
    BY <1>b, <2>1, <2>2, <2>3 DEF UsageInv
<1> QED
  BY <1>1, <1>2, <1>3, <1>4

\* The do-while loop of readers_only stops after the readers at the front.
LEMMA WokenReaders ==
    ASSUME NEW l \in Seq(Tasks), l # <<>>, mode[Head(l)] = "read",
           mode \in [Tasks -> Modes]
    PROVE  /\ Woken(l) \in 1..Len(l)
           /\ \A i \in 1..Woken(l) : mode[l[i]] = "read"
           /\ Woken(l) = Len(l) \/ mode[l[Woken(l) + 1]] = "write"
<1> DEFINE T == {k \in 1..(Len(l) + 1) : k = Len(l) + 1 \/ mode[l[k]] = "write"}
<1>1. /\ Len(l) \in Nat /\ Len(l) >= 1 /\ Head(l) = l[1]
      /\ \A i \in 1..Len(l) : l[i] \in Tasks
  OBVIOUS
<1>2. T \subseteq Nat /\ Len(l) + 1 \in T
  BY <1>1
<1> DEFINE R == OpToRel(<, Nat)
<1>a. IsWellFoundedOn(R, Nat)
  BY NatLessThanWellFounded, Zenon
<1>b. \A i, j \in Nat : i < j => <<i, j>> \in R
  BY DEF OpToRel
<1> HIDE DEF R, T
<1>3. PICK k \in T : \A j \in T : ~(<<j, k>> \in R)
  BY <1>2, <1>a, WFMin, Zenon
<1>4. /\ k \in 1..(Len(l) + 1) /\ k # 1
      /\ \A j \in 1..(k - 1) : j \notin T
  <2>1. k \in 1..(Len(l) + 1) /\ k # 1
    BY <1>1 DEF T
  <2>2. \A j \in T : ~(j < k)
    BY <1>2, <1>3, <1>b
  <2> QED
    BY <2>1, <2>2
<1> USE DEF T
<1>5. /\ k - 1 \in 1..Len(l)
      /\ \A i \in 1..(k - 1) : mode[l[i]] = "read"
      /\ k - 1 = Len(l) \/ mode[l[(k - 1) + 1]] = "write"
  BY <1>1, <1>4 DEF Modes
<1>6. \E n \in 1..Len(l) :
        /\ \A i \in 1..n : mode[l[i]] = "read"
        /\ n = Len(l) \/ mode[l[n + 1]] = "write"
  BY <1>5
<1> QED
  BY <1>6, Zenon DEF Woken

\* The readers at the front are granted together.
LEMMA GrantReadFacts ==
    ASSUME ListInv, NEW t \in Tasks, GrantRead(t)
    PROVE  \E n \in Nat :
             /\ wait_list' \in Seq(Tasks) /\ granting' \in Seq(Tasks)
             /\ granting' # <<>> /\ Len(granting') = n
             /\ Range(wait_list) = Range(granting') \cup Range(wait_list')
             /\ IsInjective(granting') /\ IsInjective(wait_list')
             /\ Range(granting') \cap Range(wait_list') = {}
             /\ \A u \in Range(granting') : mode[u] = "read"
             /\ count' = count + GrantedCount(n)
             /\ wait_lock = t /\ granting = <<>> /\ tsk = NoTask
             /\ wait_list # <<>>
             /\ pc[t] = "grant_read" /\ pc' = [pc EXCEPT ![t] = "tell"]
             /\ UNCHANGED <<wait_lock, caller, tsk, waiting, mode, state, usage>>
<1> DEFINE n == Woken(wait_list)
           a == SubSeq(wait_list, 1, n)
           b == SubSeq(wait_list, n + 1, Len(wait_list))
<1>1. /\ wait_list \in Seq(Tasks) /\ mode \in [Tasks -> Modes]
      /\ wait_list # <<>> /\ mode[Head(wait_list)] = "read"
      /\ wait_lock = t /\ granting = <<>> /\ tsk = NoTask
  BY DEF ListInv, TypeOK, LockInv, GrantRead, WakePcs
<1>2. /\ n \in 1..Len(wait_list)
      /\ \A i \in 1..n : mode[wait_list[i]] = "read"
  BY <1>1, WokenReaders
<1>3. /\ granting' = a /\ wait_list' = b
      /\ count' = count + GrantedCount(n)
      /\ pc[t] = "grant_read" /\ pc' = [pc EXCEPT ![t] = "tell"]
      /\ UNCHANGED <<wait_lock, caller, tsk, waiting, mode, state, usage>>
  BY DEF GrantRead, Goto
<1> HIDE DEF n
<1>4. a \in Seq(Tasks) /\ b \in Seq(Tasks) /\ SplitsInto(wait_list, n, a, b)
  BY <1>1, <1>2, SplitElements
<1> HIDE DEF a, b
<1>5. n \in Nat /\ \A u \in Range(a) : mode[u] = "read"
  BY <1>2, <1>4 DEF Range, SplitsInto
<1>6. IsInjective(wait_list)
  BY DEF ListInv, QueueInv
<1> QED
  BY <1>1, <1>3, <1>4, <1>5, <1>6 DEF SplitsInto

\* The readers at the front are granted together.
LEMMA GrantReadList ==
    ASSUME ListInv, NEW t \in Tasks, GrantRead(t)
    PROVE  ListInv'
<1> USE TasksAssumption DEF ListInv
<1>0. PICK n \in Nat :
             /\ wait_list' \in Seq(Tasks) /\ granting' \in Seq(Tasks)
             /\ granting' # <<>>
             /\ Range(wait_list) = Range(granting') \cup Range(wait_list')
             /\ IsInjective(granting') /\ IsInjective(wait_list')
             /\ Range(granting') \cap Range(wait_list') = {}
             /\ \A u \in Range(granting') : mode[u] = "read"
             /\ count' = count + GrantedCount(n)
             /\ wait_lock = t /\ granting = <<>> /\ tsk = NoTask
             /\ pc[t] = "grant_read" /\ pc' = [pc EXCEPT ![t] = "tell"]
             /\ UNCHANGED <<wait_lock, caller, tsk, waiting, mode, state, usage>>
  BY GrantReadFacts
<1>1. TypeOK'
  BY <1>0 DEF TypeOK, Modes, States, PCs, WakePcs, ACTIVE_BIAS, WAITING_BIAS,
         WRITE_BIAS, GrantedCount
<1>2. LockInv'
  BY <1>0 DEF TypeOK, LockInv, WakePcs
<1>3. QueueInv'
  <2>1. Range(granting) = {}
    BY <1>0 DEF Range
  <2> QED
    BY <1>0, <2>1 DEF TypeOK, LockInv, QueueInv, InSlowPath, WakePcs
<1>4. UsageInv'
  BY SMTT(30), <1>0 DEF TypeOK, LockInv, QueueInv, UsageInv, OwnReference,
         WaiterReference, InSlowPath, WakePcs
<1> QED
  BY <1>1, <1>2, <1>3, <1>4

-----------------------------------------------------------------------------
\* Every step of the system preserves ListInv.
LEMMA ListInvNext == ListInv /\ [Next]_vars => ListInv'
<1> SUFFICES ASSUME ListInv, [Next]_vars PROVE ListInv'
  OBVIOUS
<1>1. CASE UNCHANGED vars
  BY <1>1 DEF vars, ListInv, TypeOK, LockInv, QueueInv, UsageInv, InSlowPath,
              OwnReference, WaiterReference
<1>2. CASE Next
  <2> PICK t \in Tasks : Step(t)
    BY <1>2 DEF Next
  <2> QED
    BY DownReadList, DownReadTrylockList, DownWriteList, DownWriteTrylockList,
       UpReadList, UpWriteList, SetTaskStateList, EnqueueList, CheckList,
       ScheduleList, RwsemWakeList, DoWakeList, UndoList, GrantWriteList,
       GrantReadList, TellList, WakeList, UnlockList, ExitList, ForkList
    DEF Step
<1> QED
  BY <1>1, <1>2

\* The bookkeeping of lists, locks and references is right in every state.
THEOREM ListInvariant == Spec => []ListInv
BY ListInvInit, ListInvNext, PTL DEF Spec

\* Every variable always has its type, for any number of tasks; in particular
\* no put_task_struct takes a reference count below zero.
THEOREM TypeCorrect == Spec => []TypeOK
<1>1. ListInv => TypeOK
  BY DEF ListInv
<1> QED
  BY <1>1, ListInvariant, PTL

\* For any number of tasks, wake_up_process is only called on a task structure
\* that still has a reference.
THEOREM WakeTargetsAlive == Spec => []WakeTargetAlive
<1>1. ListInv => WakeTargetAlive
  <2> SUFFICES ASSUME ListInv, tsk # NoTask PROVE usage[tsk] > 0
    BY DEF WakeTargetAlive
  <2>1. tsk \in Tasks /\ usage[tsk] = OwnReference(tsk) + WaiterReference(tsk)
    BY DEF ListInv, TypeOK, UsageInv
  <2>2. OwnReference(tsk) \in {0, 1} /\ WaiterReference(tsk) = 1
    BY DEF OwnReference, WaiterReference
  <2> QED
    BY <2>1, <2>2
<1> QED
  BY <1>1, ListInvariant, PTL

\* For any number of tasks, a waker only follows waiters whose owner has not
\* left rwsem_down_failed_common.
THEOREM WaitersExist == Spec => []NoUseAfterReturn
<1>1. ListInv => NoUseAfterReturn
  <2> SUFFICES ASSUME ListInv,
                      NEW t \in Range(wait_list) \cup Range(granting)
               PROVE  InSlowPath(t) /\ waiting[t]
    BY DEF NoUseAfterReturn
  <2>1. t \in Tasks
    BY DEF ListInv, TypeOK, Range
  <2> QED
    BY <2>1 DEF ListInv, QueueInv
<1> QED
  BY <1>1, ListInvariant, PTL

-----------------------------------------------------------------------------
(***************************************************************************)
(* count and the owners of the lock.                                       *)
(***************************************************************************)

\* The three sets behind count are finite, and count determines whether they
\* are empty.
LEMMA CountSets ==
    ASSUME ListInv, CountAccounting
    PROVE  /\ IsFiniteSet(ActiveTasks) /\ IsFiniteSet(Borrowing)
           /\ IsFiniteSet(WaitTasks)
           /\ Cardinality(ActiveTasks) \in Nat
           /\ Cardinality(Borrowing) \in Nat
           /\ Cardinality(WaitTasks) \in Nat
           /\ count + ACTIVE_BIAS >= 0 => WaitTasks = {}
           /\ Active(count) = 0 => ActiveTasks = {} /\ Borrowing = {}
           /\ count = 0 => WaitTasks = {}
<1> DEFINE a == Cardinality(ActiveTasks)
           b == Cardinality(Borrowing)
           w == Cardinality(WaitTasks)
<1>1. /\ ActiveTasks \subseteq Tasks /\ Borrowing \subseteq Tasks
      /\ WaitTasks \subseteq Tasks
  BY DEF ActiveTasks, Borrowing, WaitTasks
<1>2. IsFiniteSet(Tasks) /\ Cardinality(Tasks) \in Nat /\ Cardinality(Tasks) < 32768
  BY TasksAssumption, FS_CardinalityType
<1>3. /\ IsFiniteSet(ActiveTasks) /\ IsFiniteSet(Borrowing)
      /\ IsFiniteSet(WaitTasks)
      /\ a <= Cardinality(Tasks) /\ b <= Cardinality(Tasks)
  BY <1>1, <1>2, FS_Subset
<1>4. a \in Nat /\ b \in Nat /\ w \in Nat
  BY <1>3, FS_CardinalityType
<1>5. count = a + b - 65536 * w
  BY <1>4 DEF CountAccounting, WAITING_BIAS
<1> HIDE DEF a, b, w
<1>6. count + 1 >= 0 => w = 0
  BY <1>2, <1>3, <1>4, <1>5
<1>7. count % 65536 = 0 => a = 0 /\ b = 0
  BY <1>2, <1>3, <1>4, <1>5
<1>8. /\ a = 0 => ActiveTasks = {}
      /\ b = 0 => Borrowing = {}
      /\ w = 0 => WaitTasks = {}
  BY <1>3, FS_EmptySet DEF a, b, w
<1>9. count = 0 => w = 0
  BY <1>6
<1> QED
  BY <1>3, <1>4, <1>6, <1>7, <1>8, <1>9 DEF a, b, w, ACTIVE_BIAS, Active,
         ACTIVE_RANGE

\* A step that changes neither count nor what any task has put into it.
Quiet ==
    /\ UNCHANGED <<count, mode>>
    /\ Range(wait_list') = Range(wait_list)
    /\ \A u \in Tasks :
        /\ Owns(u)' <=> Owns(u)
        /\ pc'[u] \in {"failed", "enqueue"} <=> pc[u] \in {"failed", "enqueue"}
        /\ pc'[u] = "undo" <=> pc[u] = "undo"
        /\ pc'[u] = "grant_write" <=> pc[u] = "grant_write"
        /\ pc'[u] = "grant_read" <=> pc[u] = "grant_read"

\* A quiet step preserves the accounting and the owners.
LEMMA QuietCount ==
    ASSUME CountAccounting, OwnerInv, Quiet
    PROVE  CountAccounting' /\ OwnerInv'
<1>1. ActiveTasks' = ActiveTasks
  BY DEF Quiet, ActiveTasks
<1>2. Borrowing' = Borrowing
  BY DEF Quiet, Borrowing
<1>3. WaitTasks' = WaitTasks
  BY DEF Quiet, WaitTasks
<1>4. CountAccounting'
  BY <1>1, <1>2, <1>3 DEF CountAccounting, Quiet
<1>5. OwnerInv'
  BY DEF OwnerInv, Quiet
<1> QED
  BY <1>4, <1>5

\* set_task_state touches nothing of the semaphore.
LEMMA SetTaskStateQuiet ==
    ASSUME ListInv, NEW t \in Tasks, SetTaskState(t)
    PROVE  Quiet
BY DEF SetTaskState, Quiet, Goto, queueVars, ListInv, TypeOK, LockInv,
       QueueInv, Owns,
       Granted, InSlowPath, WakePcs

\* Noticing the grant is no change of owner.
LEMMA CheckQuiet ==
    ASSUME ListInv, NEW t \in Tasks, Check(t)
    PROVE  Quiet
BY DEF Check, Quiet, Goto, queueVars, ListInv, TypeOK, LockInv, QueueInv, Owns,
       Granted, InSlowPath, WakePcs

\* schedule() touches nothing of the semaphore.
LEMMA ScheduleQuiet ==
    ASSUME ListInv, NEW t \in Tasks, Schedule(t)
    PROVE  Quiet
BY DEF Schedule, Quiet, Goto, queueVars, ListInv, TypeOK, LockInv, QueueInv,
       Owns,
       Granted, InSlowPath, WakePcs

\* Taking wait_lock changes no owner.
LEMMA RwsemWakeQuiet ==
    ASSUME ListInv, NEW t \in Tasks, RwsemWake(t)
    PROVE  Quiet
<1>1. PICK l \in {"do_wake", "unlock"} : pc' = [pc EXCEPT ![t] = l]
  BY DEF RwsemWake, Goto
<1>2. /\ pc[t] = "rwsem_wake" /\ wait_lock = NoTask /\ caller' = "up"
      /\ UNCHANGED <<count, wait_list, granting, waiting, mode>>
  BY DEF RwsemWake
<1>3. pc \in [Tasks -> PCs] /\ \A u \in Tasks : pc[u] \notin WakePcs
  BY <1>2, TasksAssumption DEF ListInv, TypeOK, LockInv
<1>4. \A u \in Tasks : InSlowPath(u)' <=> InSlowPath(u)
  BY <1>1, <1>2, <1>3 DEF InSlowPath, WakePcs
<1>5. \A u \in Tasks : Owns(u)' <=> Owns(u)
  BY <1>1, <1>2, <1>3, <1>4 DEF Owns, Granted
<1> QED
  BY <1>1, <1>2, <1>3, <1>5 DEF Quiet

\* Waking a granted task changes no owner.
LEMMA WakeQuiet ==
    ASSUME ListInv, NEW t \in Tasks, Wake(t)
    PROVE  Quiet
BY DEF Wake, Quiet, Goto, queueVars, ListInv, TypeOK, LockInv, QueueInv, Owns,
       Granted, InSlowPath, WakePcs

\* Releasing wait_lock changes no owner.
LEMMA UnlockQuiet ==
    ASSUME ListInv, NEW t \in Tasks, Unlock(t)
    PROVE  Quiet
BY DEF Unlock, Quiet, Goto, queueVars, ListInv, TypeOK, LockInv, QueueInv,
       Owns,
       Granted, InSlowPath, WakePcs

\* A task that exits has nothing in count.
LEMMA ExitQuiet ==
    ASSUME ListInv, NEW t \in Tasks, Exit(t)
    PROVE  Quiet
BY DEF Exit, Quiet, Goto, queueVars, ListInv, TypeOK, LockInv, QueueInv, Owns,
       Granted, InSlowPath, WakePcs

\* A new task has nothing in count.
LEMMA ForkQuiet ==
    ASSUME ListInv, NEW t \in Tasks, Fork(t)
    PROVE  Quiet
BY DEF Fork, Quiet, Goto, queueVars, ListInv, TypeOK, LockInv, QueueInv, Owns,
       Granted, InSlowPath, WakePcs

\* Telling a granted reader changes no owner.
LEMMA TellQuiet ==
    ASSUME ListInv, NEW t \in Tasks, Tell(t)
    PROVE  Quiet
<1> DEFINE h == Head(granting)
<1>1. /\ pc[t] = "tell" /\ pc' = [pc EXCEPT ![t] = "wake"]
      /\ waiting' = [waiting EXCEPT ![h] = FALSE]
      /\ UNCHANGED <<count, wait_list, mode, caller>>
      /\ granting' = Tail(granting)
  BY DEF Tell, ReleaseWaiter, Goto
<1>2. granting # <<>>
  BY <1>1 DEF ListInv, LockInv
<1>3. h \in Tasks /\ Range(granting) = Range(granting') \cup {h}
  BY <1>1, <1>2, TailElements DEF ListInv, TypeOK
<1> HIDE DEF h
<1>4. /\ pc \in [Tasks -> PCs] /\ waiting \in [Tasks -> BOOLEAN]
  BY DEF ListInv, TypeOK
<1>5. ASSUME NEW u \in Tasks PROVE InSlowPath(u)' <=> InSlowPath(u)
  BY <1>1, <1>4 DEF InSlowPath, WakePcs
<1>6. ASSUME NEW u \in Tasks PROVE Owns(u)' <=> Owns(u)
  <2>1. waiting[h]
    BY <1>3 DEF ListInv, QueueInv
  <2>2. CASE u = h
    BY <1>1, <1>3, <1>4, <1>5, <2>1, <2>2 DEF Owns, Granted
  <2>3. CASE u # h
    BY <1>1, <1>3, <1>4, <1>5, <2>3 DEF Owns, Granted
  <2> QED
    BY <2>2, <2>3
<1> QED
  BY <1>1, <1>4, <1>6 DEF Quiet

\* A task that is idle has nothing in count.
LEMMA IdleNothing ==
    ASSUME ListInv, NEW t \in Tasks, pc[t] \in {"idle", "hold"}
    PROVE  t \notin Range(wait_list) /\ ~InSlowPath(t)
BY DEF ListInv, QueueInv, InSlowPath, WakePcs

\* While a grant is under way somebody is queued.
LEMMA GrantsQueued ==
    ASSUME ListInv, NEW u \in Tasks, pc[u] \in {"grant_write", "grant_read"}
    PROVE  WaitTasks # {}
<1>1. wait_list # <<>>
  BY DEF ListInv, LockInv
<1> QED
  BY <1>1, HeadWaits DEF WaitTasks

\* The fast paths of the lock operations, taken by a task that is idle: it
\* gets the lock in mode m (l is "hold") or its attempt fails.
LEMMA TakeCount ==
    ASSUME ListInv, CountAccounting, OwnerInv, NEW t \in Tasks,
           NEW m \in Modes, NEW l \in {"failed", "hold"},
           pc[t] = "idle",
           pc' = [pc EXCEPT ![t] = l], mode' = [mode EXCEPT ![t] = m],
           UNCHANGED queueVars,
           count' = count + (IF m = "read" THEN ACTIVE_BIAS ELSE WRITE_BIAS),
           (l = "hold" /\ m = "read") => count + ACTIVE_BIAS >= 0,
           (l = "hold" /\ m = "write") => count = 0
    PROVE  CountAccounting' /\ OwnerInv'
<1> USE DEF queueVars
<1>1. t \notin Range(wait_list) /\ ~InSlowPath(t)
  BY IdleNothing
<1>2. pc \in [Tasks -> PCs] /\ mode \in [Tasks -> Modes] /\ count \in Int
  BY DEF ListInv, TypeOK
<1>3. \A u \in Tasks : InSlowPath(u)' <=> InSlowPath(u)
  BY <1>1, <1>2 DEF InSlowPath, WakePcs
<1>4. /\ \A u \in Tasks : u # t => (Owns(u)' <=> Owns(u))
      /\ Owns(t)' <=> l = "hold"
      /\ ~Owns(t)
  BY <1>1, <1>2, <1>3 DEF Owns, Granted
<1>5. ActiveTasks' = ActiveTasks \cup {t} /\ t \notin ActiveTasks
  BY <1>2, <1>4 DEF ActiveTasks
<1>6. Borrowing' = Borrowing
  BY <1>2 DEF Borrowing
<1>7. /\ m = "read" => WaitTasks' = WaitTasks
      /\ m = "write" => WaitTasks' = WaitTasks \cup {t}
      /\ t \notin WaitTasks
  BY <1>1, <1>2, <1>4 DEF WaitTasks
<1>8. CountAccounting'
  <2>1. Cardinality(ActiveTasks') = Cardinality(ActiveTasks) + 1
    BY <1>5, CountSets, FS_AddElement
  <2>2. m = "write" => Cardinality(WaitTasks') = Cardinality(WaitTasks) + 1
    BY <1>7, CountSets, FS_AddElement
  <2>3. m = "read" \/ m = "write"
    BY DEF Modes
  <2> QED
    BY <1>2, <1>6, <1>7, <2>1, <2>2, <2>3, CountSets
    DEF CountAccounting, ACTIVE_BIAS, WRITE_BIAS, WAITING_BIAS
<1>9. OwnerInv'
  <2>1. CASE l = "failed"
    BY <1>2, <1>4, <2>1 DEF OwnerInv
  <2>2. CASE l = "hold"
    <3>1. WaitTasks = {}
      BY <2>2, CountSets DEF Modes
    <3>2. \A u \in Tasks : ~(Owns(u) /\ mode[u] = "write")
      BY <3>1 DEF WaitTasks
    <3>3. \A u \in Tasks : pc[u] \notin {"grant_write", "grant_read"}
      BY <3>1, GrantsQueued
    <3>4. m = "write" => \A u \in Tasks : ~Owns(u)
      <4>1. m = "write" => Active(count) = 0
        BY <2>2 DEF Active, ACTIVE_RANGE
      <4> QED
        BY <4>1, CountSets DEF ActiveTasks
    <3> QED
      BY <1>2, <1>4, <2>2, <3>2, <3>3, <3>4 DEF OwnerInv, Modes
  <2> QED
    BY <2>1, <2>2
<1> QED
  BY <1>8, <1>9

\* down_read keeps the accounting and the owners.
LEMMA DownReadCount ==
    ASSUME ListInv, CountAccounting, OwnerInv, NEW t \in Tasks, DownRead(t)
    PROVE  CountAccounting' /\ OwnerInv'
<1> DEFINE l == IF count' < 0 THEN "failed" ELSE "hold"
<1>1. /\ pc[t] = "idle" /\ pc' = [pc EXCEPT ![t] = l]
      /\ mode' = [mode EXCEPT ![t] = "read"] /\ UNCHANGED queueVars
      /\ count' = count + ACTIVE_BIAS
  BY DEF DownRead, Goto
<1>2. count \in Int /\ ACTIVE_BIAS \in Int
  BY DEF ListInv, TypeOK, ACTIVE_BIAS
<1>3. l \in {"failed", "hold"} /\ (l = "hold" => count + ACTIVE_BIAS >= 0)
  BY <1>1, <1>2
<1> HIDE DEF l
<1> QED
  BY <1>1, <1>3, TakeCount DEF Modes

\* down_read_trylock keeps the accounting and the owners.
LEMMA DownReadTrylockCount ==
    ASSUME ListInv, CountAccounting, OwnerInv, NEW t \in Tasks,
           DownReadTrylock(t)
    PROVE  CountAccounting' /\ OwnerInv'
<1>1. /\ pc[t] = "idle" /\ pc' = [pc EXCEPT ![t] = "hold"]
      /\ mode' = [mode EXCEPT ![t] = "read"] /\ UNCHANGED queueVars
      /\ count' = count + ACTIVE_BIAS /\ count + ACTIVE_BIAS > 0
  BY DEF DownReadTrylock, Goto
<1>2. count + ACTIVE_BIAS >= 0
  BY <1>1 DEF ListInv, TypeOK, ACTIVE_BIAS
<1> QED
  BY <1>1, <1>2, TakeCount DEF Modes

\* down_write keeps the accounting and the owners.
LEMMA DownWriteCount ==
    ASSUME ListInv, CountAccounting, OwnerInv, NEW t \in Tasks, DownWrite(t)
    PROVE  CountAccounting' /\ OwnerInv'
<1> DEFINE l == IF count # 0 THEN "failed" ELSE "hold"
<1>1. /\ pc[t] = "idle" /\ pc' = [pc EXCEPT ![t] = l]
      /\ mode' = [mode EXCEPT ![t] = "write"] /\ UNCHANGED queueVars
      /\ count' = count + WRITE_BIAS
  BY DEF DownWrite, Goto
<1>2. l \in {"failed", "hold"} /\ (l = "hold" => count = 0)
  OBVIOUS
<1> HIDE DEF l
<1> QED
  BY <1>1, <1>2, TakeCount DEF Modes

\* down_write_trylock keeps the accounting and the owners.
LEMMA DownWriteTrylockCount ==
    ASSUME ListInv, CountAccounting, OwnerInv, NEW t \in Tasks,
           DownWriteTrylock(t)
    PROVE  CountAccounting' /\ OwnerInv'
<1>1. /\ pc[t] = "idle" /\ pc' = [pc EXCEPT ![t] = "hold"]
      /\ mode' = [mode EXCEPT ![t] = "write"] /\ UNCHANGED queueVars
      /\ count = 0 /\ count' = count + WRITE_BIAS
  BY DEF DownWriteTrylock, Goto, WRITE_BIAS, WAITING_BIAS, ACTIVE_BIAS
<1> QED
  BY <1>1, TakeCount DEF Modes

\* The unlock operations, by the holder t, which goes on to l.
LEMMA ReleaseCount ==
    ASSUME ListInv, CountAccounting, OwnerInv, NEW t \in Tasks,
           NEW l \in {"rwsem_wake", "idle"},
           pc[t] = "hold", pc' = [pc EXCEPT ![t] = l],
           UNCHANGED <<queueVars, mode>>,
           count' = count - (IF mode[t] = "read" THEN ACTIVE_BIAS ELSE WRITE_BIAS)
    PROVE  CountAccounting' /\ OwnerInv'
<1> USE DEF queueVars
<1>1. t \notin Range(wait_list) /\ ~InSlowPath(t)
  BY IdleNothing
<1>2. pc \in [Tasks -> PCs] /\ mode \in [Tasks -> Modes] /\ count \in Int
  BY DEF ListInv, TypeOK
<1>3. \A u \in Tasks : InSlowPath(u)' <=> InSlowPath(u)
  BY <1>1, <1>2 DEF InSlowPath, WakePcs
<1>4. /\ \A u \in Tasks : u # t => (Owns(u)' <=> Owns(u))
      /\ ~Owns(t)' /\ Owns(t)
  BY <1>1, <1>2, <1>3 DEF Owns, Granted
<1>5. ActiveTasks' = ActiveTasks \ {t} /\ t \in ActiveTasks
  BY <1>2, <1>4 DEF ActiveTasks
<1>6. Borrowing' = Borrowing
  BY <1>2 DEF Borrowing
<1>7. /\ mode[t] = "read" => WaitTasks' = WaitTasks
      /\ mode[t] = "write" => WaitTasks' = WaitTasks \ {t} /\ t \in WaitTasks
  BY <1>1, <1>2, <1>4 DEF WaitTasks
<1>8. CountAccounting'
  <2>1. Cardinality(ActiveTasks') = Cardinality(ActiveTasks) - 1
    BY <1>5, CountSets, FS_RemoveElement
  <2>2. mode[t] = "write" => Cardinality(WaitTasks') = Cardinality(WaitTasks) - 1
    BY <1>7, CountSets, FS_RemoveElement
  <2>3. mode[t] = "read" \/ mode[t] = "write"
    BY <1>2 DEF Modes
  <2> QED
    BY <1>2, <1>6, <1>7, <2>1, <2>2, <2>3, CountSets
    DEF CountAccounting, ACTIVE_BIAS, WRITE_BIAS, WAITING_BIAS
<1>9. OwnerInv'
  BY <1>2, <1>4 DEF OwnerInv
<1> QED
  BY <1>8, <1>9

\* up_read keeps the accounting and the owners.
LEMMA UpReadCount ==
    ASSUME ListInv, CountAccounting, OwnerInv, NEW t \in Tasks, UpRead(t)
    PROVE  CountAccounting' /\ OwnerInv'
<1> DEFINE l == IF UpReadWakes(count) THEN "rwsem_wake" ELSE "idle"
<1>1. /\ pc[t] = "hold" /\ pc' = [pc EXCEPT ![t] = l] /\ mode[t] = "read"
      /\ UNCHANGED <<queueVars, mode>> /\ count' = count - ACTIVE_BIAS
  BY DEF UpRead, Goto
<1>2. l \in {"rwsem_wake", "idle"}
  OBVIOUS
<1> HIDE DEF l
<1> QED
  BY <1>1, <1>2, ReleaseCount

\* up_write keeps the accounting and the owners.
LEMMA UpWriteCount ==
    ASSUME ListInv, CountAccounting, OwnerInv, NEW t \in Tasks, UpWrite(t)
    PROVE  CountAccounting' /\ OwnerInv'
<1> DEFINE l == IF UpWriteWakes(count) THEN "rwsem_wake" ELSE "idle"
<1>1. /\ pc[t] = "hold" /\ pc' = [pc EXCEPT ![t] = l] /\ mode[t] = "write"
      /\ UNCHANGED <<queueVars, mode>> /\ count' = count - WRITE_BIAS
  BY DEF UpWrite, Goto
<1>2. l \in {"rwsem_wake", "idle"}
  OBVIOUS
<1> HIDE DEF l
<1> QED
  BY <1>1, <1>2, ReleaseCount

\* A locker that joins the queue turns its active part into a waiting part.
LEMMA EnqueueCount ==
    ASSUME ListInv, CountAccounting, OwnerInv, NEW t \in Tasks, Enqueue(t)
    PROVE  CountAccounting' /\ OwnerInv'
<1>1. PICK l \in {"do_wake", "unlock"} : pc' = [pc EXCEPT ![t] = l]
  BY DEF Enqueue, Goto
<1>2. /\ pc[t] = "enqueue" /\ wait_lock = NoTask /\ caller' = "down"
      /\ waiting' = [waiting EXCEPT ![t] = TRUE]
      /\ wait_list' = Append(wait_list, t)
      /\ count' = count + Adjustment(mode[t])
      /\ UNCHANGED <<granting, mode>>
  BY DEF Enqueue
<1>3. /\ pc \in [Tasks -> PCs] /\ mode \in [Tasks -> Modes] /\ count \in Int
      /\ waiting \in [Tasks -> BOOLEAN] /\ wait_list \in Seq(Tasks)
  BY DEF ListInv, TypeOK
<1>4. /\ \A u \in Tasks : pc[u] \notin WakePcs
      /\ ~InSlowPath(t) /\ t \notin Range(wait_list) /\ t \notin Range(granting)
  <2>1. \A u \in Tasks : pc[u] \notin WakePcs
    BY <1>2, TasksAssumption DEF ListInv, LockInv
  <2>2. ~InSlowPath(t)
    BY <1>2, <2>1 DEF InSlowPath
  <2> QED
    BY <2>1, <2>2 DEF ListInv, QueueInv
<1>5. Range(wait_list') = Range(wait_list) \cup {t}
  BY <1>2, <1>3, AppendElements
<1>6. \A u \in Tasks : u # t => (InSlowPath(u)' <=> InSlowPath(u))
  BY <1>1, <1>3, <1>4 DEF InSlowPath
<1>7. \A u \in Tasks : u # t => (Owns(u)' <=> Owns(u))
  BY <1>1, <1>2, <1>3, <1>6 DEF Owns, Granted
<1>8. ~Owns(t) /\ ~Owns(t)'
  BY <1>1, <1>2, <1>3, <1>4 DEF Owns, Granted
<1>9. ActiveTasks' = ActiveTasks \ {t} /\ t \in ActiveTasks
  BY <1>1, <1>2, <1>3, <1>7, <1>8 DEF ActiveTasks
<1>10. Borrowing' = Borrowing
  BY <1>1, <1>2, <1>3 DEF Borrowing
<1>11. /\ WaitTasks' = WaitTasks \cup {t}
       /\ t \in WaitTasks <=> mode[t] = "write"
  BY <1>1, <1>2, <1>3, <1>4, <1>5, <1>7, <1>8 DEF WaitTasks
<1>12. CountAccounting'
  <2>1. Cardinality(ActiveTasks') = Cardinality(ActiveTasks) - 1
    BY <1>9, CountSets, FS_RemoveElement
  <2>2. CASE mode[t] = "write"
    <3>1. WaitTasks' = WaitTasks /\ count' = count - 1
      BY <1>2, <1>3, <1>11, <2>2 DEF Adjustment, ACTIVE_BIAS
    <3> QED
      BY <1>3, <1>10, <2>1, <3>1, CountSets
      DEF CountAccounting, ACTIVE_BIAS, WAITING_BIAS
  <2>3. CASE mode[t] = "read"
    <3>1. Cardinality(WaitTasks') = Cardinality(WaitTasks) + 1
      BY <1>11, <2>3, CountSets, FS_AddElement
    <3>2. count' = count - 65537
      BY <1>2, <1>3, <2>3 DEF Adjustment, ACTIVE_BIAS, WAITING_BIAS
    <3> QED
      BY <1>3, <1>10, <2>1, <3>1, <3>2, CountSets
      DEF CountAccounting, ACTIVE_BIAS, WAITING_BIAS
  <2> QED
    BY <1>3, <2>2, <2>3 DEF Modes
<1>13. OwnerInv'
  BY <1>1, <1>2, <1>3, <1>7, <1>8 DEF OwnerInv
<1> QED
  BY <1>12, <1>13

\* A waker borrows an active part; it goes on to grant only when nobody owns
\* the lock.
LEMMA DoWakeCount ==
    ASSUME ListInv, CountAccounting, OwnerInv, NEW t \in Tasks, DoWake(t)
    PROVE  CountAccounting' /\ OwnerInv'
<1> DEFINE l == IF ~MayGrant(count) THEN "undo"
                ELSE IF mode[Head(wait_list)] = "write" THEN "grant_write"
                ELSE "grant_read"
<1>1. /\ pc[t] = "do_wake" /\ pc' = [pc EXCEPT ![t] = l]
      /\ count' = count + ACTIVE_BIAS /\ UNCHANGED <<queueVars, mode>>
  BY DEF DoWake, Goto
<1>2. /\ l \in {"undo", "grant_write", "grant_read"}
      /\ l # "undo" => Active(count) = 0
  BY DEF MayGrant
<1> HIDE DEF l
<1>3. pc \in [Tasks -> PCs] /\ mode \in [Tasks -> Modes] /\ count \in Int
  BY DEF ListInv, TypeOK
<1>4. \A u \in Tasks : InSlowPath(u)' <=> InSlowPath(u)
  BY <1>1, <1>2, <1>3 DEF InSlowPath, WakePcs, queueVars
<1>5. \A u \in Tasks : Owns(u)' <=> Owns(u)
  BY <1>1, <1>2, <1>3, <1>4 DEF Owns, Granted, queueVars
<1>6. ActiveTasks' = ActiveTasks
  BY <1>1, <1>2, <1>3, <1>5 DEF ActiveTasks
<1>7. Borrowing' = Borrowing \cup {t} /\ t \notin Borrowing
  BY <1>1, <1>2, <1>3 DEF Borrowing
<1>8. WaitTasks' = WaitTasks
  BY <1>1, <1>2, <1>3, <1>5 DEF WaitTasks, queueVars
<1>9. CountAccounting'
  <2>1. Cardinality(Borrowing') = Cardinality(Borrowing) + 1
    BY <1>7, CountSets, FS_AddElement
  <2> QED
    BY <1>1, <1>3, <1>6, <1>8, <2>1, CountSets
    DEF CountAccounting, ACTIVE_BIAS, WAITING_BIAS
<1>10. OwnerInv'
  <2>1. l # "undo" => \A u \in Tasks : ~Owns(u)
    BY <1>2, CountSets DEF ActiveTasks
  <2> QED
    BY <1>1, <1>2, <1>3, <1>5, <2>1 DEF OwnerInv
<1> QED
  BY <1>9, <1>10

\* The undo code gives the borrowed active part back.
LEMMA UndoCount ==
    ASSUME ListInv, CountAccounting, OwnerInv, NEW t \in Tasks, Undo(t)
    PROVE  CountAccounting' /\ OwnerInv'
<1> DEFINE l == IF UndoRetries(count') THEN "do_wake" ELSE "unlock"
<1>1. /\ pc[t] = "undo" /\ pc' = [pc EXCEPT ![t] = l]
      /\ count' = count - ACTIVE_BIAS /\ UNCHANGED <<queueVars, mode>>
  BY DEF Undo, Goto
<1>2. l \in {"do_wake", "unlock"}
  OBVIOUS
<1> HIDE DEF l
<1>3. pc \in [Tasks -> PCs] /\ mode \in [Tasks -> Modes] /\ count \in Int
  BY DEF ListInv, TypeOK
<1>4. \A u \in Tasks : InSlowPath(u)' <=> InSlowPath(u)
  BY <1>1, <1>2, <1>3 DEF InSlowPath, WakePcs, queueVars
<1>5. \A u \in Tasks : Owns(u)' <=> Owns(u)
  BY <1>1, <1>2, <1>3, <1>4 DEF Owns, Granted, queueVars
<1>6. ActiveTasks' = ActiveTasks
  BY <1>1, <1>2, <1>3, <1>5 DEF ActiveTasks
<1>7. Borrowing' = Borrowing \ {t} /\ t \in Borrowing
  BY <1>1, <1>2, <1>3 DEF Borrowing
<1>8. WaitTasks' = WaitTasks
  BY <1>1, <1>2, <1>3, <1>5 DEF WaitTasks, queueVars
<1>9. CountAccounting'
  <2>1. Cardinality(Borrowing') = Cardinality(Borrowing) - 1
    BY <1>7, CountSets, FS_RemoveElement
  <2> QED
    BY <1>1, <1>3, <1>6, <1>8, <2>1, CountSets
    DEF CountAccounting, ACTIVE_BIAS, WAITING_BIAS
<1>10. OwnerInv'
  BY <1>1, <1>2, <1>3, <1>5 DEF OwnerInv
<1> QED
  BY <1>9, <1>10

\* The active part that was borrowed becomes the granted writer's.
LEMMA GrantWriteCount ==
    ASSUME ListInv, CountAccounting, OwnerInv, NEW t \in Tasks, GrantWrite(t)
    PROVE  CountAccounting' /\ OwnerInv'
<1> DEFINE h == Head(wait_list)
<1>1. /\ pc[t] = "grant_write" /\ pc' = [pc EXCEPT ![t] = "wake"]
      /\ wait_list' = Tail(wait_list)
      /\ waiting' = [waiting EXCEPT ![h] = FALSE]
      /\ UNCHANGED <<count, caller, granting, mode>>
  BY DEF GrantWrite, Goto
<1>2. /\ pc \in [Tasks -> PCs] /\ mode \in [Tasks -> Modes] /\ count \in Int
      /\ waiting \in [Tasks -> BOOLEAN] /\ wait_list \in Seq(Tasks)
  BY DEF ListInv, TypeOK
<1>3. wait_list # <<>> /\ mode[h] = "write"
  BY <1>1 DEF ListInv, LockInv
<1>4. /\ h \in Tasks /\ waiting[h] /\ InSlowPath(h)
      /\ Range(wait_list) = Range(wait_list') \cup {h}
  BY <1>1, <1>2, <1>3, HeadWaits, TailElements
<1> HIDE DEF h
<1>5. \A u \in Tasks : ~Owns(u)
  BY <1>1 DEF OwnerInv
<1>6. \A u \in Tasks : InSlowPath(u)' <=> InSlowPath(u)
  BY <1>1, <1>2 DEF InSlowPath, WakePcs
<1>7. \A u \in Tasks : Owns(u)' <=> u = h
  BY <1>1, <1>2, <1>4, <1>5, <1>6 DEF Owns, Granted
<1>8. pc[h] \notin {"failed", "enqueue"}
  BY <1>4 DEF InSlowPath, WakePcs
<1>9. ActiveTasks' = ActiveTasks \cup {h} /\ h \notin ActiveTasks
  BY <1>1, <1>2, <1>4, <1>5, <1>7, <1>8 DEF ActiveTasks
<1>10. Borrowing' = Borrowing \ {t} /\ t \in Borrowing
  BY <1>1, <1>2 DEF Borrowing
<1>11. WaitTasks' = WaitTasks
  BY <1>1, <1>2, <1>3, <1>4, <1>5, <1>7 DEF WaitTasks
<1>12. CountAccounting'
  <2>1. Cardinality(Borrowing') = Cardinality(Borrowing) - 1
    BY <1>10, CountSets, FS_RemoveElement
  <2>2. Cardinality(ActiveTasks') = Cardinality(ActiveTasks) + 1
    BY <1>9, CountSets, FS_AddElement
  <2> QED
    BY <1>1, <1>2, <1>11, <2>1, <2>2, CountSets
    DEF CountAccounting, WAITING_BIAS
<1>13. OwnerInv'
  <2>1. \A u \in Tasks : pc'[u] \notin {"grant_write", "grant_read"}
    <3>1. \A u \in Tasks : pc[u] \in WakePcs => u = t
      BY <1>1 DEF ListInv, LockInv, WakePcs
    <3> QED
      BY <1>1, <1>2, <3>1 DEF WakePcs
  <2> QED
    BY <1>7, <2>1 DEF OwnerInv
<1> QED
  BY <1>12, <1>13

\* The granted readers' waiting parts become active parts, the first of which
\* was borrowed.
LEMMA GrantReadCount ==
    ASSUME ListInv, CountAccounting, OwnerInv, NEW t \in Tasks, GrantRead(t)
    PROVE  CountAccounting' /\ OwnerInv'
<1>1. PICK n \in Nat :
        /\ wait_list' \in Seq(Tasks) /\ granting' \in Seq(Tasks)
        /\ Len(granting') = n
        /\ Range(wait_list) = Range(granting') \cup Range(wait_list')
        /\ IsInjective(granting')
        /\ Range(granting') \cap Range(wait_list') = {}
        /\ \A u \in Range(granting') : mode[u] = "read"
        /\ count' = count + GrantedCount(n)
        /\ wait_lock = t /\ granting = <<>>
        /\ pc[t] = "grant_read" /\ pc' = [pc EXCEPT ![t] = "tell"]
        /\ UNCHANGED <<wait_lock, caller, waiting, mode>>
  BY GrantReadFacts
<1> DEFINE G == Range(granting')
<1>2. /\ pc \in [Tasks -> PCs] /\ mode \in [Tasks -> Modes] /\ count \in Int
      /\ waiting \in [Tasks -> BOOLEAN]
  BY DEF ListInv, TypeOK
<1>3. IsFiniteSet(G) /\ Cardinality(G) = n
  BY <1>1, InjectiveCardinality
<1>4. G \subseteq Tasks /\ Range(granting) = {}
  BY <1>1 DEF Range
<1> HIDE DEF G
<1>5. \A u \in G : waiting[u] /\ InSlowPath(u) /\ mode[u] = "read"
  BY <1>1, <1>4 DEF G, ListInv, QueueInv
<1>6. \A u \in Tasks : ~Owns(u)
  BY <1>1 DEF OwnerInv
<1>7. \A u \in Tasks : InSlowPath(u)' <=> InSlowPath(u)
  BY <1>1, <1>2 DEF InSlowPath, WakePcs
<1>8. \A u \in Tasks : Owns(u)' <=> u \in G
  <2>1. \A u \in Tasks : InSlowPath(u) => waiting[u]
    BY <1>6 DEF Owns, Granted
  <2> QED
    BY <1>1, <1>2, <1>5, <1>6, <1>7, <2>1 DEF Owns, Granted, G
<1>9. \A u \in G : pc[u] \notin {"failed", "enqueue"}
  BY <1>5 DEF InSlowPath, WakePcs
<1>10. ActiveTasks' = ActiveTasks \cup G /\ ActiveTasks \cap G = {}
  BY <1>1, <1>2, <1>4, <1>6, <1>8, <1>9 DEF ActiveTasks
<1>11. Borrowing' = Borrowing \ {t} /\ t \in Borrowing
  BY <1>1, <1>2 DEF Borrowing
<1>12. WaitTasks' = WaitTasks \ G /\ WaitTasks \cap G = G
  <2>1. Range(wait_list) = G \cup Range(wait_list') /\ G \cap Range(wait_list') = {}
    BY <1>1 DEF G
  <2> QED
    BY <1>1, <1>2, <1>4, <1>5, <1>6, <1>8, <1>9, <2>1 DEF WaitTasks
<1>13. CountAccounting'
  <2>1. Cardinality(Borrowing') = Cardinality(Borrowing) - 1
    BY <1>11, CountSets, FS_RemoveElement
  <2>2. Cardinality({}) = 0
    BY FS_EmptySet
  <2>3. Cardinality(ActiveTasks') = Cardinality(ActiveTasks) + n
    <3>1. Cardinality(ActiveTasks') = Cardinality(ActiveTasks) + Cardinality(G)
                                      - Cardinality(ActiveTasks \cap G)
      BY <1>3, <1>10, CountSets, FS_Union
    <3> QED
      BY <1>3, <1>10, <2>2, <3>1, CountSets
  <2>4. Cardinality(WaitTasks') = Cardinality(WaitTasks) - n
    <3>1. Cardinality(WaitTasks') = Cardinality(WaitTasks)
                                    - Cardinality(WaitTasks \cap G)
      BY <1>12, CountSets, FS_Difference
    <3> QED
      BY <1>3, <1>12, <3>1
  <2>5. count' = count + 65537 * n - 1
    BY <1>1, <1>2 DEF GrantedCount, ACTIVE_BIAS, WAITING_BIAS
  <2> QED
    BY <1>2, <2>1, <2>3, <2>4, <2>5, CountSets
    DEF CountAccounting, WAITING_BIAS
<1>14. OwnerInv'
  <2>1. \A u \in Tasks : pc'[u] \notin {"grant_write", "grant_read"}
    <3>1. \A u \in Tasks : pc[u] \in WakePcs => u = t
      BY <1>1 DEF ListInv, LockInv, WakePcs
    <3> QED
      BY <1>1, <1>2, <3>1 DEF WakePcs
  <2> QED
    BY <1>1, <1>5, <1>8, <2>1 DEF OwnerInv
<1> QED
  BY <1>13, <1>14

-----------------------------------------------------------------------------
\* Initially nobody owns the lock and count is 0.
LEMMA InvInit == Init => Inv
<1> SUFFICES ASSUME Init PROVE Inv
  OBVIOUS
<1>1. ListInv
  BY ListInvInit
<1>2. \A t \in Tasks : pc[t] = "idle"
  BY DEF Init
<1>3. Range(wait_list) = {} /\ \A t \in Tasks : ~Owns(t)
  BY <1>2 DEF Init, Range, Owns, Granted, InSlowPath, WakePcs
<1>4. ActiveTasks = {} /\ Borrowing = {} /\ WaitTasks = {}
  BY <1>2, <1>3 DEF ActiveTasks, Borrowing, WaitTasks
<1>5. CountAccounting
  BY <1>4, FS_EmptySet DEF Init, CountAccounting, WAITING_BIAS
<1>6. OwnerInv
  BY <1>2, <1>3 DEF OwnerInv
<1> QED
  BY <1>1, <1>5, <1>6 DEF Inv

\* Every step preserves the whole invariant.
LEMMA InvNext == Inv /\ [Next]_vars => Inv'
<1> SUFFICES ASSUME Inv, [Next]_vars PROVE Inv'
  OBVIOUS
<1>0. ListInv /\ CountAccounting /\ OwnerInv /\ ListInv'
  BY ListInvNext DEF Inv
<1>1. CASE UNCHANGED vars
  <2>1. Quiet
    BY <1>1 DEF vars, Quiet, Owns, Granted, InSlowPath
  <2> QED
    BY <1>0, <2>1, QuietCount DEF Inv
<1>2. CASE Next
  <2> PICK t \in Tasks : Step(t)
    BY <1>2 DEF Next
  <2>1. CASE \/ SetTaskState(t) \/ Check(t) \/ Schedule(t) \/ RwsemWake(t)
             \/ Tell(t) \/ Wake(t) \/ Unlock(t) \/ Exit(t) \/ Fork(t)
    <3>1. Quiet
      BY <1>0, <2>1, SetTaskStateQuiet, CheckQuiet, ScheduleQuiet,
         RwsemWakeQuiet, TellQuiet, WakeQuiet, UnlockQuiet, ExitQuiet,
         ForkQuiet
    <3> QED
      BY <1>0, <3>1, QuietCount DEF Inv
  <2>2. CASE \/ DownRead(t) \/ DownReadTrylock(t) \/ DownWrite(t)
             \/ DownWriteTrylock(t) \/ UpRead(t) \/ UpWrite(t)
    BY <1>0, <2>2, DownReadCount, DownReadTrylockCount, DownWriteCount,
       DownWriteTrylockCount, UpReadCount, UpWriteCount DEF Inv
  <2>3. CASE \/ Enqueue(t) \/ DoWake(t) \/ Undo(t) \/ GrantWrite(t)
             \/ GrantRead(t)
    BY <1>0, <2>3, EnqueueCount, DoWakeCount, UndoCount, GrantWriteCount,
       GrantReadCount DEF Inv
  <2> QED
    BY <2>1, <2>2, <2>3 DEF Step
<1> QED
  BY <1>1, <1>2

\* The full invariant holds in every state.
THEOREM Invariant == Spec => []Inv
BY InvInit, InvNext, PTL DEF Spec

\* For any number of tasks below 2^15, count is always the sum of the biases of
\* the tasks: no path of the xadd algorithm loses or duplicates one.
THEOREM CountIsExact == Spec => []CountAccounting
<1>1. Inv => CountAccounting
  BY DEF Inv
<1> QED
  BY <1>1, Invariant, PTL

\* For any number of tasks below 2^15, a writer that holds the semaphore is
\* alone.
THEOREM WritersExclude == Spec => []MutualExclusion
<1>1. Inv => MutualExclusion
  BY DEF Inv, OwnerInv, MutualExclusion, Holds, Owns
<1> QED
  BY <1>1, Invariant, PTL

-----------------------------------------------------------------------------
(***************************************************************************)
(* The semaphore implements RwLock.                                        *)
(***************************************************************************)

\* The lock of RwLock as the instance Lock of RwSem maps it.
LockReaders == {t \in Tasks : Owns(t) /\ mode[t] = "read"}
LockWriters == {t \in Tasks : Owns(t) /\ mode[t] = "write"}
Pairs(l, md) == [i \in 1..Len(l) |-> <<l[i], md[l[i]]>>]
LockQueue   == Pairs(wait_list, mode)

LockSame == UNCHANGED <<LockReaders, LockWriters, LockQueue>>

\* A list of tasks with their modes.
LEMMA PairsShape ==
    ASSUME NEW l \in Seq(Tasks), NEW md \in [Tasks -> Modes]
    PROVE  /\ Pairs(l, md) \in Seq(Tasks \X Modes)
           /\ Len(Pairs(l, md)) = Len(l)
           /\ \A i \in 1..Len(l) : Pairs(l, md)[i] = <<l[i], md[l[i]]>>
           /\ Pairs(l, md) = <<>> <=> l = <<>>
<1>1. Len(l) \in Nat /\ \A i \in 1..Len(l) : l[i] \in Tasks
  OBVIOUS
<1>2. Pairs(l, md) \in [1..Len(l) -> Tasks \X Modes]
  BY <1>1 DEF Pairs
<1>3. Pairs(l, md) \in Seq(Tasks \X Modes) /\ Len(Pairs(l, md)) = Len(l)
  BY <1>1, <1>2
<1>4. Pairs(l, md) = <<>> <=> l = <<>>
  BY <1>1, <1>3
<1> QED
  BY <1>3, <1>4, <1>1 DEF Pairs

\* The pairs of a list that grows at its end.
LEMMA PairsAppend ==
    ASSUME NEW l \in Seq(Tasks), NEW md \in [Tasks -> Modes], NEW t \in Tasks
    PROVE  Pairs(Append(l, t), md) = Append(Pairs(l, md), <<t, md[t]>>)
<1> DEFINE p == Pairs(l, md)
           q == Pairs(Append(l, t), md)
           x == <<t, md[t]>>
<1>1. /\ p \in Seq(Tasks \X Modes) /\ Len(p) = Len(l)
      /\ \A i \in 1..Len(l) : p[i] = <<l[i], md[l[i]]>>
  BY PairsShape
<1>2. /\ q \in Seq(Tasks \X Modes) /\ Len(q) = Len(Append(l, t))
      /\ \A i \in 1..Len(Append(l, t)) :
            q[i] = <<Append(l, t)[i], md[Append(l, t)[i]]>>
  <2>1. Append(l, t) \in Seq(Tasks)
    OBVIOUS
  <2> QED
    BY <2>1, PairsShape
<1>3. /\ Len(Append(l, t)) = Len(l) + 1
      /\ \A i \in 1..Len(l) : Append(l, t)[i] = l[i]
      /\ Append(l, t)[Len(l) + 1] = t
      /\ Len(l) \in Nat
  OBVIOUS
<1>4. x \in Tasks \X Modes
  OBVIOUS
<1> HIDE DEF p, q, x
<1>5. /\ Append(p, x) \in Seq(Tasks \X Modes) /\ Len(Append(p, x)) = Len(l) + 1
      /\ \A i \in 1..Len(l) : Append(p, x)[i] = p[i]
      /\ Append(p, x)[Len(l) + 1] = x
  BY <1>1, <1>4
<1>6. q[Len(l) + 1] = x
  BY <1>2, <1>3 DEF x
<1>7. \A i \in 1..Len(l) : q[i] = p[i]
  <2> SUFFICES ASSUME NEW i \in 1..Len(l) PROVE q[i] = p[i]
    OBVIOUS
  <2>1. i \in 1..Len(Append(l, t)) /\ Append(l, t)[i] = l[i]
    BY <1>3
  <2> QED
    BY <1>1, <1>2, <2>1
<1>8. \A i \in 1..(Len(l) + 1) : i = Len(l) + 1 \/ i \in 1..Len(l)
  BY <1>3
<1>9. \A i \in 1..(Len(l) + 1) : q[i] = Append(p, x)[i]
  BY <1>5, <1>6, <1>7, <1>8
<1>10. q = Append(p, x)
  BY <1>2, <1>3, <1>5, <1>9, ListsEqual
<1> QED
  BY <1>10 DEF p, q, x

\* The pairs of the end of a list.
LEMMA PairsRest ==
    ASSUME NEW l \in Seq(Tasks), NEW md \in [Tasks -> Modes], NEW n \in 1..Len(l)
    PROVE  Pairs(SubSeq(l, n + 1, Len(l)), md)
               = SubSeq(Pairs(l, md), n + 1, Len(Pairs(l, md)))
<1> DEFINE r == SubSeq(l, n + 1, Len(l))
           p == Pairs(l, md)
           q == Pairs(r, md)
           s == SubSeq(p, n + 1, Len(p))
<1>0. n \in Nat /\ Len(l) \in Nat /\ n <= Len(l)
  OBVIOUS
<1>1. /\ r \in Seq(Tasks) /\ Len(r) = Len(l) - n
      /\ \A i \in 1..(Len(l) - n) : r[i] = l[i + n]
  OBVIOUS
<1>2. /\ p \in Seq(Tasks \X Modes) /\ Len(p) = Len(l)
      /\ \A i \in 1..Len(l) : p[i] = <<l[i], md[l[i]]>>
  BY PairsShape
<1> HIDE DEF r, p
<1>3. /\ q \in Seq(Tasks \X Modes) /\ Len(q) = Len(r)
      /\ \A i \in 1..Len(r) : q[i] = <<r[i], md[r[i]]>>
  BY <1>1, PairsShape
<1>4. /\ s \in Seq(Tasks \X Modes) /\ Len(s) = Len(l) - n
      /\ \A i \in 1..(Len(l) - n) : s[i] = p[i + n]
  BY <1>0, <1>2
<1> HIDE DEF q, s
<1>5. \A i \in 1..(Len(l) - n) : i + n \in 1..Len(l)
  BY <1>0
<1>6. \A i \in 1..(Len(l) - n) : q[i] = s[i]
  BY <1>1, <1>2, <1>3, <1>4, <1>5
<1>7. q = s
  BY <1>0, <1>1, <1>3, <1>4, <1>6, ListsEqual
<1> QED
  BY <1>7 DEF q, s, r, p

\* A step that leaves the owners, their modes and the list alone is not seen.
LEMMA SameLock ==
    ASSUME UNCHANGED <<wait_list, mode>>,
           \A u \in Tasks : Owns(u)' <=> Owns(u)
    PROVE  LockSame
BY DEF LockSame, LockReaders, LockWriters, LockQueue

\* The abstract actions, in terms of the mapped state.
LEMMA LockActions ==
    ASSUME NEW t \in Tasks, NEW m \in Modes
    PROVE  /\ Lock!TakeRead(t) <=>
                 /\ LockQueue = <<>> /\ LockWriters = {} /\ t \notin LockReaders
                 /\ LockReaders' = LockReaders \cup {t}
                 /\ UNCHANGED <<LockWriters, LockQueue>>
           /\ Lock!TakeWrite(t) <=>
                 /\ LockQueue = <<>> /\ LockReaders = {} /\ LockWriters = {}
                 /\ LockWriters' = {t}
                 /\ UNCHANGED <<LockReaders, LockQueue>>
           /\ Lock!Join(t, m) <=>
                 /\ t \notin LockReaders \cup LockWriters
                 /\ LockQueue' = Append(LockQueue, <<t, m>>)
                 /\ UNCHANGED <<LockReaders, LockWriters>>
           /\ Lock!Release(t) <=>
                 /\ t \in LockReaders \cup LockWriters
                 /\ LockReaders' = LockReaders \ {t}
                 /\ LockWriters' = LockWriters \ {t}
                 /\ UNCHANGED LockQueue
           /\ Lock!GiveWriter <=>
                 /\ LockReaders = {} /\ LockWriters = {} /\ LockQueue # <<>>
                 /\ Head(LockQueue)[2] = "write"
                 /\ LockWriters' = {Head(LockQueue)[1]}
                 /\ LockQueue' = Tail(LockQueue)
                 /\ UNCHANGED LockReaders
BY Zenon DEF Lock!TakeRead, Lock!TakeWrite, Lock!Join, Lock!Release, Lock!GiveWriter,
       Lock!Free, LockReaders, LockWriters, LockQueue, Pairs

\* A fast path of t either takes the lock or is not seen.
LEMMA TakeRefines ==
    ASSUME ListInv, CountAccounting, OwnerInv, NEW t \in Tasks,
           NEW m \in Modes, NEW l \in {"failed", "hold"},
           pc[t] = "idle",
           pc' = [pc EXCEPT ![t] = l], mode' = [mode EXCEPT ![t] = m],
           UNCHANGED queueVars,
           (l = "hold" /\ m = "read") => count + ACTIVE_BIAS >= 0,
           (l = "hold" /\ m = "write") => count = 0
    PROVE  LockSame \/ Lock!TakeRead(t) \/ Lock!TakeWrite(t)
<1> USE DEF queueVars
<1>1. t \notin Range(wait_list) /\ ~InSlowPath(t)
  BY IdleNothing
<1>2. /\ pc \in [Tasks -> PCs] /\ mode \in [Tasks -> Modes] /\ count \in Int
      /\ wait_list \in Seq(Tasks) /\ TypeOK
  BY DEF ListInv, TypeOK
<1>3. \A u \in Tasks : InSlowPath(u)' <=> InSlowPath(u)
  BY <1>1, <1>2 DEF InSlowPath, WakePcs
<1>4. /\ \A u \in Tasks : u # t => (Owns(u)' <=> Owns(u))
      /\ Owns(t)' <=> l = "hold"
      /\ ~Owns(t)
  BY <1>1, <1>2, <1>3 DEF Owns, Granted
<1>5. LockQueue' = LockQueue
  <2>1. \A i \in 1..Len(wait_list) : wait_list[i] \in Tasks /\ wait_list[i] # t
    BY <1>1, <1>2 DEF Range
  <2> QED
    BY <1>2, <2>1 DEF LockQueue, Pairs
<1>6. CASE l = "failed"
  <2>1. LockReaders' = LockReaders /\ LockWriters' = LockWriters
    BY <1>2, <1>4, <1>6 DEF LockReaders, LockWriters
  <2> QED
    BY <1>5, <2>1 DEF LockSame
<1>7. CASE l = "hold"
  <2>1. WaitTasks = {}
    BY <1>7, CountSets DEF Modes
  <2>2. LockWriters = {} /\ Range(wait_list) = {}
    BY <2>1, <1>2 DEF WaitTasks, LockWriters, Range
  <2>3. LockQueue = <<>>
    <3>1. wait_list = <<>>
      BY <1>2, <2>2, TailElements
    <3> QED
      BY <1>2, <3>1, PairsShape DEF LockQueue
  <2>4. CASE m = "read"
    <3>1. LockReaders' = LockReaders \cup {t} /\ LockWriters' = LockWriters
          /\ t \notin LockReaders
      BY <1>2, <1>4, <1>7, <2>4 DEF LockReaders, LockWriters
    <3> QED
      BY <1>5, <2>2, <2>3, <3>1, LockActions
  <2>5. CASE m = "write"
    <3>1. Active(count) = 0
      BY <1>7, <2>5 DEF Active, ACTIVE_RANGE
    <3>2. \A u \in Tasks : ~Owns(u)
      BY <3>1, CountSets DEF ActiveTasks
    <3>3. LockReaders' = {} /\ LockReaders = {} /\ LockWriters' = {t}
      BY <1>2, <1>4, <1>7, <2>5, <3>2 DEF LockReaders, LockWriters
    <3> QED
      BY <1>5, <2>2, <2>3, <3>3, LockActions
  <2> QED
    BY <2>4, <2>5 DEF Modes
<1> QED
  BY <1>6, <1>7

\* The four fast paths.
LEMMA FastPathRefines ==
    ASSUME ListInv, CountAccounting, OwnerInv, NEW t \in Tasks,
           DownRead(t) \/ DownReadTrylock(t) \/ DownWrite(t) \/ DownWriteTrylock(t)
    PROVE  LockSame \/ Lock!TakeRead(t) \/ Lock!TakeWrite(t)
<1>1. pc[t] = "idle" /\ UNCHANGED queueVars
  BY DEF DownRead, DownReadTrylock, DownWrite, DownWriteTrylock
<1>2. \E m \in Modes, l \in {"failed", "hold"} :
        /\ pc' = [pc EXCEPT ![t] = l] /\ mode' = [mode EXCEPT ![t] = m]
        /\ (l = "hold" /\ m = "read") => count + ACTIVE_BIAS >= 0
        /\ (l = "hold" /\ m = "write") => count = 0
  <2>1. count \in Int /\ ACTIVE_BIAS = 1
    BY DEF ListInv, TypeOK, ACTIVE_BIAS
  <2>2. CASE DownRead(t)
    <3>1. CASE count + ACTIVE_BIAS < 0
      BY <2>2, <3>1 DEF DownRead, Goto, Modes
    <3>2. CASE ~(count + ACTIVE_BIAS < 0)
      BY <2>1, <2>2, <3>2 DEF DownRead, Goto, Modes
    <3> QED
      BY <3>1, <3>2
  <2>3. CASE DownReadTrylock(t)
    BY <2>1, <2>3 DEF DownReadTrylock, Goto, Modes
  <2>4. CASE DownWrite(t)
    BY <2>4 DEF DownWrite, Goto, Modes
  <2>5. CASE DownWriteTrylock(t)
    BY <2>5 DEF DownWriteTrylock, Goto, Modes
  <2> QED
    BY <2>2, <2>3, <2>4, <2>5
<1> QED
  BY <1>1, <1>2, TakeRefines

\* The waker's attempt and its undo change count only.
LEMMA WakerRefines ==
    ASSUME ListInv, NEW t \in Tasks, DoWake(t) \/ Undo(t)
    PROVE  LockSame
<1>1. PICK l \in WakePcs : pc' = [pc EXCEPT ![t] = l]
  BY DEF DoWake, Undo, Goto, WakePcs
<1>2. pc[t] \in {"do_wake", "undo"} /\ UNCHANGED <<queueVars, mode>>
  BY DEF DoWake, Undo
<1>3. pc \in [Tasks -> PCs]
  BY DEF ListInv, TypeOK
<1>4. \A u \in Tasks : InSlowPath(u)' <=> InSlowPath(u)
  BY <1>1, <1>2, <1>3 DEF InSlowPath, WakePcs, queueVars
<1>5. \A u \in Tasks : Owns(u)' <=> Owns(u)
  BY <1>1, <1>2, <1>3, <1>4 DEF Owns, Granted, queueVars, WakePcs
<1> QED
  BY <1>2, <1>5, SameLock DEF queueVars

\* up_read and up_write release the lock.
LEMMA UpRefines ==
    ASSUME ListInv, NEW t \in Tasks, UpRead(t) \/ UpWrite(t)
    PROVE  Lock!Release(t)
<1>1. PICK l \in {"rwsem_wake", "idle"} : pc' = [pc EXCEPT ![t] = l]
  BY DEF UpRead, UpWrite, Goto
<1>2. pc[t] = "hold" /\ UNCHANGED <<queueVars, mode>>
  BY DEF UpRead, UpWrite
<1>3. pc \in [Tasks -> PCs] /\ mode \in [Tasks -> Modes]
  BY DEF ListInv, TypeOK
<1>4. ~InSlowPath(t)
  BY <1>2, IdleNothing
<1>5. \A u \in Tasks : InSlowPath(u)' <=> InSlowPath(u)
  BY <1>1, <1>2, <1>3, <1>4 DEF InSlowPath, WakePcs, queueVars
<1>6. /\ \A u \in Tasks : u # t => (Owns(u)' <=> Owns(u))
      /\ Owns(t) /\ ~Owns(t)'
  BY <1>1, <1>2, <1>3, <1>4, <1>5 DEF Owns, Granted, queueVars
<1>7. /\ t \in LockReaders \cup LockWriters
      /\ LockReaders' = LockReaders \ {t}
      /\ LockWriters' = LockWriters \ {t}
  BY <1>2, <1>3, <1>6 DEF LockReaders, LockWriters, Modes
<1>8. LockQueue' = LockQueue
  BY <1>2 DEF LockQueue, queueVars
<1> QED
  BY <1>7, <1>8, LockActions DEF Modes

\* The contention path joins the queue.
LEMMA EnqueueRefines ==
    ASSUME ListInv, ListInv', NEW t \in Tasks, Enqueue(t)
    PROVE  \E m \in Modes : Lock!Join(t, m)
<1>1. PICK l \in {"do_wake", "unlock"} : pc' = [pc EXCEPT ![t] = l]
  BY DEF Enqueue, Goto
<1>2. /\ pc[t] = "enqueue" /\ wait_lock = NoTask /\ caller' = "down"
      /\ waiting' = [waiting EXCEPT ![t] = TRUE]
      /\ wait_list' = Append(wait_list, t)
      /\ UNCHANGED <<granting, mode>>
  BY DEF Enqueue
<1>3. /\ pc \in [Tasks -> PCs] /\ mode \in [Tasks -> Modes]
      /\ waiting \in [Tasks -> BOOLEAN] /\ wait_list \in Seq(Tasks)
      /\ TypeOK /\ TypeOK'
  BY DEF ListInv, TypeOK
<1>4. \A u \in Tasks : pc[u] \notin WakePcs
  BY <1>2, TasksAssumption DEF ListInv, LockInv
<1>a. Range(granting) = {}
  BY <1>2, <1>4 DEF ListInv, LockInv, WakePcs, Range
<1>5. \A u \in Tasks : Owns(u)' <=> Owns(u)
  BY <1>1, <1>2, <1>3, <1>4, <1>a DEF Owns, Granted, InSlowPath, WakePcs
<1>6. ~Owns(t)
  BY <1>2 DEF Owns, Granted, InSlowPath, WakePcs
<1>7. /\ t \notin LockReaders \cup LockWriters
      /\ UNCHANGED <<LockReaders, LockWriters>>
  BY <1>2, <1>5, <1>6 DEF LockReaders, LockWriters
<1>8. LockQueue' = Append(LockQueue, <<t, mode[t]>>)
  BY <1>2, <1>3, PairsAppend DEF LockQueue
<1>9. PICK m \in Modes : m = mode[t]
  BY <1>3
<1> QED
  BY <1>7, <1>8, <1>9, LockActions

\* The writer at the front is given the lock.
LEMMA GrantWriteRefines ==
    ASSUME ListInv, OwnerInv, NEW t \in Tasks, GrantWrite(t)
    PROVE  Lock!GiveWriter
<1> DEFINE h == Head(wait_list)
<1>1. /\ pc[t] = "grant_write" /\ pc' = [pc EXCEPT ![t] = "wake"]
      /\ wait_list' = Tail(wait_list)
      /\ waiting' = [waiting EXCEPT ![h] = FALSE]
      /\ UNCHANGED <<count, caller, granting, mode>>
  BY DEF GrantWrite, Goto
<1>2. /\ pc \in [Tasks -> PCs] /\ mode \in [Tasks -> Modes]
      /\ waiting \in [Tasks -> BOOLEAN] /\ wait_list \in Seq(Tasks)
  BY DEF ListInv, TypeOK
<1>3. wait_list # <<>> /\ mode[h] = "write"
  BY <1>1 DEF ListInv, LockInv
<1>4. h \in Tasks /\ waiting[h] /\ InSlowPath(h)
  BY <1>1, <1>2, <1>3, HeadWaits
<1>5. /\ LockQueue # <<>> /\ Head(LockQueue) = <<h, mode[h]>>
      /\ LockQueue' = Tail(LockQueue)
  <2>1. /\ Len(wait_list) \in Nat /\ Len(wait_list) >= 1 /\ h = wait_list[1]
        /\ Tail(wait_list) = SubSeq(wait_list, 1 + 1, Len(wait_list))
    BY <1>2, <1>3
  <2>2. /\ LockQueue \in Seq(Tasks \X Modes) /\ Len(LockQueue) = Len(wait_list)
        /\ LockQueue[1] = <<h, mode[h]>> /\ LockQueue # <<>>
    BY <1>2, <1>3, <2>1, PairsShape DEF LockQueue
  <2>3. LockQueue' = SubSeq(LockQueue, 1 + 1, Len(LockQueue))
    <3>1. 1 \in 1..Len(wait_list)
      BY <2>1
    <3> QED
      BY <1>1, <1>2, <2>1, <3>1, PairsRest DEF LockQueue
  <2> QED
    BY <2>1, <2>2, <2>3
<1> HIDE DEF h
<1>6. \A u \in Tasks : ~Owns(u)
  BY <1>1 DEF OwnerInv
<1>7. \A u \in Tasks : InSlowPath(u)' <=> InSlowPath(u)
  BY <1>1, <1>2 DEF InSlowPath, WakePcs
<1>8. \A u \in Tasks : Owns(u)' <=> u = h
  BY <1>1, <1>2, <1>4, <1>6, <1>7 DEF Owns, Granted
<1>9. LockReaders = {} /\ LockWriters = {} /\ LockReaders' = {} /\ LockWriters' = {h}
  BY <1>1, <1>3, <1>4, <1>6, <1>8 DEF LockReaders, LockWriters, h
<1>10. Head(LockQueue)[2] = "write" /\ Head(LockQueue)[1] = h
  BY <1>3, <1>5 DEF h
<1> QED
  BY <1>5, <1>9, <1>10, LockActions DEF Modes

\* The readers at the front are given the lock together.
LEMMA GrantReadRefines ==
    ASSUME ListInv, OwnerInv, NEW t \in Tasks, GrantRead(t)
    PROVE  Lock!GiveReaders
<1> DEFINE k == Woken(wait_list)
<1>1. /\ pc[t] = "grant_read" /\ pc' = [pc EXCEPT ![t] = "tell"]
      /\ granting' = SubSeq(wait_list, 1, k)
      /\ wait_list' = SubSeq(wait_list, k + 1, Len(wait_list))
      /\ UNCHANGED <<caller, waiting, mode>>
  BY DEF GrantRead, Goto
<1>2. /\ pc \in [Tasks -> PCs] /\ mode \in [Tasks -> Modes]
      /\ waiting \in [Tasks -> BOOLEAN] /\ wait_list \in Seq(Tasks)
      /\ wait_list # <<>> /\ mode[Head(wait_list)] = "read"
      /\ granting = <<>>
  BY <1>1 DEF ListInv, TypeOK, LockInv, WakePcs
<1>3. /\ k \in 1..Len(wait_list)
      /\ \A i \in 1..k : mode[wait_list[i]] = "read"
      /\ k = Len(wait_list) \/ mode[wait_list[k + 1]] = "write"
  BY <1>2, WokenReaders
<1> HIDE DEF k
<1>4. PICK n \in 1..Len(wait_list) : n = k
  BY <1>3
<1>5. /\ n \in Nat /\ Len(wait_list) \in Nat /\ n <= Len(wait_list)
      /\ \A i \in 1..n : i \in 1..Len(wait_list) /\ wait_list[i] \in Tasks
  BY <1>2, <1>4
<1>6. /\ Len(LockQueue) = Len(wait_list)
      /\ \A i \in 1..Len(wait_list) :
            LockQueue[i] = <<wait_list[i], mode[wait_list[i]]>>
  BY <1>2, PairsShape DEF LockQueue
<1>7. /\ n \in 1..Len(LockQueue)
      /\ \A i \in 1..n : LockQueue[i][2] = "read" /\ LockQueue[i][1] = wait_list[i]
      /\ n < Len(LockQueue) => LockQueue[n + 1][2] = "write"
  <2>1. n < Len(wait_list) => n + 1 \in 1..Len(wait_list)
    BY <1>5
  <2> QED
    BY <1>3, <1>4, <1>5, <1>6, <2>1
<1>8. LockQueue' = SubSeq(LockQueue, n + 1, Len(LockQueue))
  BY <1>1, <1>2, <1>4, PairsRest DEF LockQueue
<1>9. Range(granting') = {LockQueue[i][1] : i \in 1..n}
  <2>1. /\ Len(granting') = n /\ DOMAIN granting' = 1..n
        /\ \A i \in 1..n : granting'[i] = wait_list[i]
    BY <1>1, <1>2, <1>4, <1>5
  <2> QED
    BY SMTT(30), <1>7, <2>1 DEF Range
<1> DEFINE G == Range(granting')
<1>10. /\ G \subseteq Range(wait_list) /\ G \subseteq Tasks
       /\ \A u \in G : mode[u] = "read"
  <2>1. \A u \in G : \E i \in 1..n : u = wait_list[i]
    BY <1>7, <1>9
  <2>2. DOMAIN wait_list = 1..Len(wait_list)
    BY <1>2
  <2> HIDE DEF G
  <2>3. G \subseteq Range(wait_list)
    BY <1>5, <2>1, <2>2 DEF Range
  <2> QED
    BY <1>3, <1>4, <1>5, <2>1, <2>3
<1>11. Range(granting) = {}
  BY <1>2 DEF Range
<1> HIDE DEF G
<1>12. \A u \in G : waiting[u] /\ InSlowPath(u)
  BY <1>10 DEF ListInv, QueueInv
<1>13. \A u \in Tasks : ~Owns(u)
  BY <1>1 DEF OwnerInv
<1>14. \A u \in Tasks : InSlowPath(u)' <=> InSlowPath(u)
  BY <1>1, <1>2 DEF InSlowPath, WakePcs
<1>15. \A u \in Tasks : Owns(u)' <=> u \in G
  <2>1. \A u \in Tasks : InSlowPath(u) => waiting[u]
    BY <1>13 DEF Owns, Granted
  <2> QED
    BY <1>1, <1>2, <1>12, <1>13, <1>14, <2>1 DEF Owns, Granted, G
<1>16. LockReaders = {} /\ LockWriters = {} /\ LockReaders' = G /\ LockWriters' = {}
  BY <1>1, <1>10, <1>13, <1>15 DEF LockReaders, LockWriters
<1>17. /\ LockReaders = {} /\ LockWriters = {}
       /\ \E i \in 1..Len(LockQueue) :
            /\ \A j \in 1..i : LockQueue[j][2] = "read"
            /\ i < Len(LockQueue) => LockQueue[i + 1][2] = "write"
            /\ LockReaders' = {LockQueue[j][1] : j \in 1..i}
            /\ LockQueue' = SubSeq(LockQueue, i + 1, Len(LockQueue))
       /\ UNCHANGED LockWriters
  BY <1>7, <1>8, <1>9, <1>16 DEF G
<1> QED
  BY <1>17, Zenon DEF Lock!GiveReaders, Lock!Free, LockReaders, LockWriters,
     LockQueue, Pairs

\* A quiet step that leaves the list alone is not seen.
LEMMA QuietRefines ==
    ASSUME Quiet, wait_list' = wait_list
    PROVE  LockSame
BY SameLock DEF Quiet

\* Every step of the semaphore is a step of the lock, or is not seen.
LEMMA StepRefines ==
    ASSUME Inv, ListInv', [Next]_vars
    PROVE  [Lock!LockNext]_(Lock!lockVars)
<1>0. ListInv /\ CountAccounting /\ OwnerInv
  BY DEF Inv
<1>1. LockSame \/ Lock!LockNext
  <2>1. CASE UNCHANGED vars
    BY <2>1, SameLock DEF vars, Owns, Granted, InSlowPath
  <2>2. ASSUME NEW t \in Tasks, Step(t) PROVE LockSame \/ Lock!LockNext
    <3>1. CASE \/ SetTaskState(t) \/ Check(t) \/ Schedule(t) \/ RwsemWake(t)
               \/ Tell(t) \/ Wake(t) \/ Unlock(t) \/ Exit(t) \/ Fork(t)
      <4>1. Quiet
        BY <1>0, <3>1, SetTaskStateQuiet, CheckQuiet, ScheduleQuiet,
           RwsemWakeQuiet, TellQuiet, WakeQuiet, UnlockQuiet, ExitQuiet,
           ForkQuiet
      <4>2. wait_list' = wait_list
        BY <3>1 DEF SetTaskState, Check, Schedule, RwsemWake, Tell, Wake, Unlock,
           Exit, Fork, queueVars
      <4> QED
        BY <4>1, <4>2, QuietRefines
    <3>2. CASE DownRead(t) \/ DownReadTrylock(t) \/ DownWrite(t)
               \/ DownWriteTrylock(t)
      <4>1. LockSame \/ Lock!TakeRead(t) \/ Lock!TakeWrite(t)
        BY <1>0, <3>2, FastPathRefines
      <4> QED
        BY <4>1 DEF Lock!LockNext
    <3>3. CASE UpRead(t) \/ UpWrite(t)
      BY <1>0, <3>3, UpRefines DEF Lock!LockNext
    <3>4. CASE Enqueue(t)
      <4>1. \E m \in {"read", "write"} : Lock!Join(t, m)
        BY <1>0, <3>4, EnqueueRefines DEF Modes
      <4> QED
        BY <4>1 DEF Lock!LockNext
    <3>5. CASE DoWake(t) \/ Undo(t)
      BY <1>0, <3>5, WakerRefines
    <3>6. CASE GrantWrite(t)
      BY <1>0, <3>6, GrantWriteRefines DEF Lock!LockNext
    <3>7. CASE GrantRead(t)
      BY <1>0, <3>7, GrantReadRefines DEF Lock!LockNext
    <3> QED
      BY <2>2, <3>1, <3>2, <3>3, <3>4, <3>5, <3>6, <3>7 DEF Step
  <2> QED
    BY <2>1, <2>2 DEF Next
<1>2. LockSame => UNCHANGED Lock!lockVars
  BY DEF LockSame, Lock!lockVars, LockReaders, LockWriters, LockQueue, Pairs
<1> QED
  BY <1>1, <1>2

\* For any number of tasks below 2^15 the semaphore implements the first come,
\* first served lock of RwLock: who takes it directly finds nobody queued, and
\* the grants follow the queue.
THEOREM SemaphoreImplementsLock == Spec => ImplementsRwLock
<1>1. Init => Lock!LockInit
  <2> SUFFICES ASSUME Init PROVE Lock!LockInit
    OBVIOUS
  <2>1. \A t \in Tasks : ~Owns(t)
    BY DEF Init, Owns, Granted, InSlowPath, WakePcs
  <2>2. LockReaders = {} /\ LockWriters = {}
    BY <2>1 DEF LockReaders, LockWriters
  <2>3. LockQueue = <<>>
    BY DEF Init, LockQueue, Pairs
  <2> QED
    BY <2>2, <2>3, Zenon DEF Lock!LockInit, LockReaders, LockWriters, LockQueue,
       Pairs
<1>2. Inv /\ Inv' /\ [Next]_vars => [Lock!LockNext]_(Lock!lockVars)
  BY StepRefines DEF Inv
<1> QED
  BY <1>1, <1>2, Invariant, PTL DEF Spec, ImplementsRwLock, Lock!LockSpec

=============================================================================
