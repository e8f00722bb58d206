------------------------------- MODULE SysvSem -------------------------------
(***************************************************************************)
(* System V semaphore sets (ipc/sem.c): semop with its queue of pending    *)
(* operations, the adjustments that are undone when a process exits,       *)
(* semctl, and a set that is removed and made again in the same slot.      *)
(*                                                                         *)
(* What is done under sem_lock is one action.  The fields of a semaphore   *)
(* set and of the structures that hang on it are passed through the        *)
(* operators as one record, here called the world.                         *)
(***************************************************************************)
EXTENDS Integers, Sequences, FiniteSets, SequencesExt, FiniteSetsExt

CONSTANTS
    Tasks,
    Sems,       \* the semaphores of a set
    Calls,      \* calls of semtimedop: [ops, timeout]; ops is a sequence of [num, op, undo, nowait]
    Values,     \* what SETVAL and SETALL store
    Modes,      \* permissions that IPC_SET may store
    SEMVMX,     \* the greatest value of a semaphore; SEMAEM is the same
    MaxSeq,     \* bound on the sets made
    None

SysvSemAssumption ==
    /\ SEMVMX \in Nat \ {0} /\ MaxSeq \in Nat
    /\ Values \subseteq 0 .. SEMVMX
    /\ \A m \in Modes : m \subseteq {"alter", "read"}
    /\ \A c \in Calls : Len(c.ops) > 0 /\ \A k \in DOMAIN c.ops : c.ops[k].num \in Sems

VARIABLES
    sma,      \* the set in the slot: [seq, mode, val, pending, undo], or None
    seq,      \* sequence number of the next set
    undos,    \* semundo of each task: a list of [semid, adj]; a semid of -1 is dead
    status,   \* of the sem_queue of each task
    prev,     \* whether its prev is not NULL
    st, sig,  \* state of each task, and whether a signal is pending
    pc, call, \* where each task is, and in which call
    base,     \* history: the values without what is to be undone
    applied,  \* history: how often the operation of the call has been performed
    honest    \* history: what semop returned has always been true

vars == <<sma, seq, undos, status, prev, st, sig, pc, call, base, applied, honest>>

World == [sma |-> sma, undos |-> undos, status |-> status, prev |-> prev, st |-> st,
          base |-> base, applied |-> applied]
Becomes(w) ==
    /\ sma' = w.sma /\ undos' = w.undos /\ status' = w.status /\ prev' = w.prev /\ st' = w.st
    /\ base' = w.base /\ applied' = w.applied

Zeros == [i \in Sems |-> 0]
Goto(t, l) == pc' = [pc EXCEPT ![t] = l]

Init ==
    /\ sma = None /\ seq = 1
    /\ undos = [t \in Tasks |-> <<>>]
    /\ status = [t \in Tasks |-> "EINTR"] /\ prev = [t \in Tasks |-> FALSE]
    /\ st = [t \in Tasks |-> "running"] /\ sig = [t \in Tasks |-> FALSE]
    /\ pc = [t \in Tasks |-> "idle"] /\ call = [t \in Tasks |-> None]
    /\ base = Zeros /\ applied = [t \in Tasks |-> 0] /\ honest = TRUE

\* The call ends, in the world w.
Leave(t, w) ==
    /\ Becomes([w EXCEPT !.status[t] = "EINTR", !.applied[t] = 0])
    /\ Goto(t, "idle")
    /\ call' = [call EXCEPT ![t] = None]
    /\ sig' = [sig EXCEPT ![t] = FALSE]

\* semtimedop returns e.  If the set is gone nobody can tell what was done.
Return(t, w, e) ==
    /\ Leave(t, w)
    /\ honest' = (honest /\ (e # "EIDRM" => ((w.applied[t] = 1) <=> (e = "ok"))))

-----------------------------------------------------------------------------
(***************************************************************************)
(* try_atomic_semop and update_queue.                                      *)
(***************************************************************************)
\* The undo structure of task t for the set with sequence number n: its place, or 0.
UndoOf(us, t, n) ==
    LET at == {i \in DOMAIN us[t] : us[t][i].semid = n} IN IF at = {} THEN 0 ELSE Min(at)

\* semadj is a short.
ToShort(x) == ((x + SEMVMX + 1) % (2 * (SEMVMX + 1))) - SEMVMX - 1

Alters(c) == \E k \in DOMAIN c.ops : c.ops[k].op # 0
Decreases(c) == \E k \in DOMAIN c.ops : c.ops[k].op < 0

\* The values after the first n operations have been taken back.
Back(val, ops, n) ==
    LET back[k \in 0 .. n] == IF k = 0 THEN val ELSE [back[k - 1] EXCEPT ![ops[k].num] = @ - ops[k].op]
    IN back[n]

\* The first loop of try_atomic_semop: [val, done, err] after the first k operations.
Forward(val, adj, ops) ==
    LET loop[k \in 0 .. Len(ops)] ==
            IF k = 0 THEN [val |-> val, done |-> 0, err |-> "ok"]
            ELSE LET p == loop[k - 1]
                     o == ops[k]
                     cur == p.val[o.num]
                     new == cur + o.op
                     undo == adj[o.num] - o.op
                 IN IF p.err # "ok" THEN p
                    ELSE IF (o.op = 0 /\ cur # 0) \/ new < 0
                         THEN [p EXCEPT !.err = IF o.nowait THEN "EAGAIN" ELSE "block"]
                    ELSE IF new > SEMVMX \/ (o.undo /\ (undo < -SEMVMX - 1 \/ undo > SEMVMX))
                         THEN [p EXCEPT !.err = "ERANGE"]
                    ELSE [val |-> [p.val EXCEPT ![o.num] = new], done |-> k, err |-> "ok"]
    IN loop[Len(ops)]

\* The second loop: the adjustments, from the last operation to the first.
Adjusted(adj, ops) ==
    LET loop[k \in 0 .. Len(ops)] ==
            IF k = 0 THEN adj
            ELSE LET o == ops[Len(ops) + 1 - k] IN
                 IF o.undo THEN [loop[k - 1] EXCEPT ![o.num] = ToShort(@ - o.op)] ELSE loop[k - 1]
    IN loop[Len(ops)]

SumOps(ops, i, undo) ==
    MapThenSumSet(LAMBDA k : ops[k].op, {k \in DOMAIN ops : ops[k].num = i /\ ops[k].undo = undo})

\* try_atomic_semop for the call c of task t: [err, w].
TryAtomicSemop(w, t, c, doUndo) ==
    LET u == UndoOf(w.undos, t, c.seq)
        adj == IF u = 0 THEN Zeros ELSE w.undos[t][u].adj
        f == Forward(w.sma.val, adj, c.ops)
    IN IF f.err = "ok" /\ ~doUndo
       THEN [err |-> "ok",
             w |-> [w EXCEPT !.sma.val = f.val,
                             !.undos[t] = IF u = 0 THEN @ ELSE [@ EXCEPT ![u].adj = Adjusted(adj, c.ops)],
                             !.base = [i \in Sems |-> @[i] + SumOps(c.ops, i, FALSE)],
                             !.applied[t] = @ + 1]]
       ELSE [err |-> f.err, w |-> [w EXCEPT !.sma.val = Back(f.val, c.ops, f.done)]]

\* remove_from_queue
Removed(w, t) ==
    [w EXCEPT !.sma.pending = SelectSeq(@, LAMBDA u : u # t), !.prev[t] = FALSE]

\* update_queue has completed the operation of t.
Finished(w, t, e) == [Removed(w, t) EXCEPT !.st[t] = "running", !.status[t] = e]

\* "this one was woken up before"
WokenBefore(w, t) == w.status[t] = "try"

\* update_queue
UpdateQueue(w0) ==
    LET q == w0.sma.pending
        loop[k \in 0 .. Len(q)] ==
            IF k = 0 THEN [w |-> w0, stop |-> FALSE]
            ELSE LET p == loop[k - 1]
                     t == q[k]
                     c == call[t]
                     r == TryAtomicSemop(p.w, t, c, Decreases(c))
                 IN IF p.stop \/ WokenBefore(p.w, t) THEN p
                    ELSE IF r.err = "block" THEN [p EXCEPT !.w = r.w]
                    ELSE IF r.err = "ok" /\ Decreases(c)
                         THEN [w |-> [r.w EXCEPT !.st[t] = "running", !.status[t] = "try"], stop |-> TRUE]
                    ELSE [p EXCEPT !.w = Finished(r.w, t, r.err)]
    IN loop[Len(q)].w

-----------------------------------------------------------------------------
(***************************************************************************)
(* semget and semctl.                                                      *)
(***************************************************************************)
\* newary
SemGet(t) ==
    /\ pc[t] = "idle" /\ sma = None /\ seq <= MaxSeq
    /\ \E m \in Modes : sma' = [seq |-> seq, mode |-> m, val |-> Zeros, pending |-> <<>>, undo |-> {}]
    /\ seq' = seq + 1 /\ base' = Zeros
    /\ UNCHANGED <<undos, status, prev, st, sig, pc, call, applied, honest>>

\* SETVAL and SETALL forget what is to be undone.
Unadjusted(w, is) ==
    [w EXCEPT !.undos = [t \in Tasks |-> [i \in DOMAIN @[t] |->
        IF t \in w.sma.undo /\ @[t][i].semid = w.sma.seq
        THEN [@[t][i] EXCEPT !.adj = [n \in Sems |-> IF n \in is THEN 0 ELSE @[n]]] ELSE @[t][i]]]]

\* The semaphores is get their values from v.
Assigned(w, is, v) ==
    [Unadjusted(w, is) EXCEPT !.sma.val = [n \in Sems |-> IF n \in is THEN v[n] ELSE @[n]],
                              !.base = [n \in Sems |-> IF n \in is THEN v[n] ELSE @[n]]]

SetVal(t) ==
    /\ pc[t] = "idle" /\ sma # None /\ "alter" \in sma.mode
    /\ \E i \in Sems, v \in Values : Becomes(UpdateQueue(Assigned(World, {i}, [n \in Sems |-> v])))
    /\ UNCHANGED <<seq, sig, pc, call, honest>>

\* SETALL: the set is found, then the lock is dropped to read the values.
SetAll(t) ==
    /\ pc[t] = "idle" /\ sma # None /\ "alter" \in sma.mode
    /\ \E v \in [Sems -> Values] : call' = [call EXCEPT ![t] = [seq |-> sma.seq, val |-> v]]
    /\ Goto(t, "setall")
    /\ UNCHANGED <<sma, seq, undos, status, prev, st, sig, base, applied, honest>>

\* sem_revalidate
Revalidate(n, perm) ==
    IF sma = None THEN "EIDRM" ELSE IF sma.seq # n THEN "EIDRM"
    ELSE IF perm \in sma.mode THEN "ok" ELSE "EACCES"

SetAllWrite(t) ==
    LET e == Revalidate(call[t].seq, "alter") IN
    /\ pc[t] = "setall"
    /\ Leave(t, IF e = "ok" THEN UpdateQueue(Assigned(World, Sems, call[t].val)) ELSE World)
    /\ UNCHANGED <<seq, honest>>

IpcSet(t) ==
    /\ pc[t] = "idle" /\ sma # None
    /\ \E m \in Modes : sma' = [sma EXCEPT !.mode = m]
    /\ UNCHANGED <<seq, undos, status, prev, st, sig, pc, call, base, applied, honest>>

\* freeary
IpcRmid(t) ==
    LET q == ToSet(sma.pending) IN
    /\ pc[t] = "idle" /\ sma # None
    /\ undos' = [u \in Tasks |-> [i \in DOMAIN undos[u] |->
                    IF u \in sma.undo /\ undos[u][i].semid = sma.seq
                    THEN [undos[u][i] EXCEPT !.semid = -1] ELSE undos[u][i]]]
    /\ status' = [u \in Tasks |-> IF u \in q THEN "EIDRM" ELSE status[u]]
    /\ prev' = [u \in Tasks |-> u \notin q /\ prev[u]]
    /\ st' = [u \in Tasks |-> IF u \in q THEN "running" ELSE st[u]]
    /\ sma' = None /\ base' = Zeros
    /\ UNCHANGED <<seq, sig, pc, call, applied, honest>>

-----------------------------------------------------------------------------
(***************************************************************************)
(* semtimedop.                                                             *)
(***************************************************************************)
Semop(t, c) ==
    /\ pc[t] = "idle" /\ sma # None
    /\ call' = [call EXCEPT ![t] = [seq |-> sma.seq] @@ c]
    /\ Goto(t, "op_lock")
    /\ UNCHANGED <<sma, seq, undos, status, prev, st, sig, base, applied, honest>>

WantsUndo(c) == \E k \in DOMAIN c.ops : c.ops[k].undo
Perm(c) == IF Alters(c) THEN "alter" ELSE "read"

\* The operation is over with error e: the others may be able to go on.
Done(t, w, e) == Return(t, IF Alters(call[t]) THEN UpdateQueue(w) ELSE w, e)

\* The top of the sleeping loop.  With a signal pending schedule does not sleep.
Sleeping(w, t) ==
    [w EXCEPT !.status[t] = "EINTR", !.st[t] = IF sig[t] THEN "running" ELSE "interruptible"]

\* The first attempt, and the queueing when it blocks.
Attempt(t, w) ==
    LET r == TryAtomicSemop(w, t, call[t], FALSE) IN
    \/ r.err # "block" /\ Done(t, r.w, r.err)
    \/ /\ r.err = "block"
       /\ Becomes(Sleeping([r.w EXCEPT !.sma.pending = IF Alters(call[t]) THEN Append(@, t) ELSE <<t>> \o @,
                                       !.prev[t] = TRUE], t))
       /\ Goto(t, "sleep")
       /\ UNCHANGED <<call, sig, honest>>

\* The search for the undo structure frees the dead ones that it meets.
Searched(l, n) ==
    LET before(i) == \A k \in 1 .. i - 1 : l[k].semid # n
        keep == {i \in DOMAIN l : ~(before(i) /\ l[i].semid = -1)}
    IN [i \in 1 .. Cardinality(keep) |-> l[CHOOSE k \in keep : Cardinality({j \in keep : j <= k}) = i]]

OpLock(t) ==
    LET c == call[t]
        e == IF sma = None THEN "EINVAL" ELSE Revalidate(c.seq, Perm(c))
        w == IF WantsUndo(c) THEN [World EXCEPT !.undos[t] = Searched(@, c.seq)] ELSE World
    IN
    /\ pc[t] = "op_lock"
    /\ \/ e # "ok" /\ Return(t, World, e)
       \/ e = "ok" /\ WantsUndo(c) /\ UndoOf(undos, t, c.seq) = 0
          /\ Becomes(w) /\ Goto(t, "op_alloc") /\ UNCHANGED <<call, sig, honest>>
       \/ e = "ok" /\ (WantsUndo(c) => UndoOf(undos, t, c.seq) # 0) /\ Attempt(t, w)
    /\ UNCHANGED seq

\* alloc_undo from kmalloc on.
OpAlloc(t) ==
    LET c == call[t]
        e == Revalidate(c.seq, Perm(c))
    IN
    /\ pc[t] = "op_alloc"
    /\ \/ Return(t, World, "ENOMEM")
       \/ e # "ok" /\ Return(t, World, e)
       \/ e = "ok" /\ Attempt(t, [World EXCEPT !.undos[t] = <<[semid |-> c.seq, adj |-> Zeros]>> \o @,
                                               !.sma.undo = @ \cup {t}])
    /\ UNCHANGED seq

\* The sleeper gets a signal, or its time is over.
Interrupt(t) ==
    /\ st[t] = "interruptible"
    /\ \/ ~sig[t] /\ sig' = [sig EXCEPT ![t] = TRUE]
       \/ call[t].timeout /\ UNCHANGED sig
    /\ st' = [st EXCEPT ![t] = "running"]
    /\ UNCHANGED <<sma, seq, undos, status, prev, pc, call, base, applied, honest>>

\* schedule has returned, and the lock is taken again.
Wake(t) ==
    LET r == TryAtomicSemop(World, t, call[t], FALSE) IN
    /\ pc[t] = "sleep" /\ st[t] = "running"
    /\ \/ sma = None /\ Return(t, World, "EIDRM")
       \/ sma # None /\ status[t] = "try" /\ r.err # "block" /\ Done(t, Removed(r.w, t), r.err)
       \/ /\ sma # None /\ status[t] = "try" /\ r.err = "block"
          /\ Becomes(Sleeping(r.w, t)) /\ UNCHANGED <<pc, call, sig, honest>>
       \/ sma # None /\ status[t] # "try" /\ prev[t] /\ Done(t, Removed(World, t), status[t])
       \/ sma # None /\ status[t] # "try" /\ ~prev[t] /\ Return(t, World, status[t])
    /\ UNCHANGED seq

-----------------------------------------------------------------------------
(***************************************************************************)
(* sem_exit.  semsleeping is NULL when a task exits, because semtimedop    *)
(* always clears it; what remains are the undo structures.                 *)
(***************************************************************************)
\* The semid of the next undo structure is read without a lock.
ExitRead(t) ==
    /\ pc[t] \in {"idle", "exit"} /\ undos[t] # <<>>
    /\ call' = [call EXCEPT ![t] = [semid |-> Head(undos[t]).semid]]
    /\ Goto(t, "exit_undo")
    /\ UNCHANGED <<sma, seq, undos, status, prev, st, sig, base, applied, honest>>

AtLeast0(x) == IF x < 0 THEN 0 ELSE x

\* The adjustments are performed.
Undone(w, t) ==
    LET adj == Head(w.undos[t]).adj IN
    [w EXCEPT !.sma.undo = @ \ {t},
              !.sma.val = [i \in Sems |-> AtLeast0(@[i] + adj[i])],
              !.base = [i \in Sems |-> @[i] + AtLeast0(w.sma.val[i] + adj[i]) - (w.sma.val[i] + adj[i])]]

\* Mutant: the semid that was read before the lock was taken is believed.
StillValidNot(t) == sma # None /\ call[t].semid # -1

\* The undo structure still belongs to the set in the slot.
StillValid(t) == sma # None /\ call[t].semid # -1 /\ Head(undos[t]).semid = sma.seq

ExitUndo(t) ==
    LET freed(w) == [w EXCEPT !.undos[t] = Tail(@)]
        w1 == IF StillValid(t) THEN UpdateQueue(freed(Undone(World, t))) ELSE freed(World)
    IN
    /\ pc[t] = "exit_undo"
    /\ IF Len(undos[t]) > 1
       THEN Becomes(w1) /\ Goto(t, "exit") /\ UNCHANGED <<call, sig>>
       ELSE Leave(t, w1)
    /\ UNCHANGED <<seq, honest>>

Step(t) ==
    \/ \E c \in Calls : Semop(t, c)
    \/ OpLock(t) \/ OpAlloc(t) \/ Wake(t) \/ ExitRead(t) \/ ExitUndo(t)
    \/ SemGet(t) \/ SetVal(t) \/ SetAll(t) \/ SetAllWrite(t) \/ IpcSet(t) \/ IpcRmid(t)

Next == \E t \in Tasks : Step(t) \/ Interrupt(t)

Spec == Init /\ [][Next]_vars
-----------------------------------------------------------------------------
PCs == {"idle", "op_lock", "op_alloc", "sleep", "setall", "exit", "exit_undo"}

\* Every variable has its type, and semvals are never negative.
TypeOK ==
    /\ pc \in [Tasks -> PCs] /\ st \in [Tasks -> {"running", "interruptible"}]
    /\ sig \in [Tasks -> BOOLEAN] /\ prev \in [Tasks -> BOOLEAN]
    /\ status \in [Tasks -> {"EINTR", "EIDRM", "try", "ok", "ERANGE", "EAGAIN"}]
    /\ sma # None => /\ sma.val \in [Sems -> Nat] /\ sma.pending \in Seq(Tasks) /\ sma.undo \subseteq Tasks
                     /\ sma.seq \in 1 .. MaxSeq /\ sma.mode \in Modes
    /\ \A t \in Tasks : \A i \in DOMAIN undos[t] :
          undos[t][i].semid \in {-1} \cup 1 .. MaxSeq /\ undos[t][i].adj \in [Sems -> (-SEMVMX - 1) .. SEMVMX]

\* A semaphore has the value that the operations without undo gave it, changed by exactly
\* what the processes that are alive will give back: nothing is undone twice, performed
\* both by update_queue and by the sleeper, or left in the values by an attempt that failed.
Conserved ==
    sma # None => \A i \in Sems :
        sma.val[i] = base[i] - MapThenSumSet(LAMBDA t : undos[t][UndoOf(undos, t, sma.seq)].adj[i], sma.undo)

\* A call that returns success has been performed exactly once, one that fails has not been
\* performed (unless the set was removed after it): whoever performed it, and whatever
\* signals and timeouts came with it.
OnceOnly ==
    /\ honest
    /\ \A t \in Tasks : applied[t] = 0 \/ (applied[t] = 1 /\ pc[t] = "sleep" /\ st[t] = "running")

\* No operation that could be performed sleeps, unless another one has been told to try and
\* will look at the queue again.
NoLostWakeup ==
    sma # None =>
        \A t \in ToSet(sma.pending) :
            (st[t] = "interruptible" /\ TryAtomicSemop(World, t, call[t], TRUE).err # "block") =>
                \E u \in ToSet(sma.pending) : status[u] = "try" /\ st[u] = "running"

\* The list of pending operations holds the sem_queue of sleeping tasks only, each once, and
\* the prev of a task tells whether it is on the list; BUG() is not reached.
Listed ==
    /\ sma # None => IsInjective(sma.pending)
    /\ \A t \in Tasks :
        /\ prev[t] <=> (sma # None /\ t \in ToSet(sma.pending))
        /\ prev[t] => pc[t] = "sleep" /\ call[t].seq = sma.seq
        /\ st[t] = "interruptible" => prev[t]

\* The set and the tasks agree on the undo structures: sem_exit and freeundos never find
\* one that is missing from the other list, and a task has one for a set.
UndoListed ==
    /\ sma # None => sma.undo = {t \in Tasks : UndoOf(undos, t, sma.seq) # 0}
    /\ \A t \in Tasks : \A i, k \in DOMAIN undos[t] :
          (undos[t][i].semid = undos[t][k].semid /\ undos[t][i].semid # -1) => i = k
    /\ \A t \in Tasks : \A i \in DOMAIN undos[t] :
          undos[t][i].semid # -1 => sma # None /\ undos[t][i].semid = sma.seq

\* SEMVMX is the "semaphore maximum value" (linux/sem.h).
ValuesInRange == sma # None => \A i \in Sems : sma.val[i] <= SEMVMX
=============================================================================
