------------------------------ MODULE MsgQueue ------------------------------
(***************************************************************************)
(* System V message queues (ipc/msg.c): msgsnd with its hand-over to a     *)
(* waiting receiver, msgrcv, msgctl, and a queue that is removed and made  *)
(* again in the same slot while tasks sleep on it.                         *)
(*                                                                         *)
(* ipc_lock is one spin lock.  What is done under it is one action, except *)
(* the hand-over, which a receiver could see without the lock.             *)
(***************************************************************************)
EXTENDS Integers, Sequences, FiniteSets, FiniteSetsExt, Functions

CONSTANTS
    Tasks,
    Msgs,      \* struct msg_msg objects
    Types,     \* message types
    Sizes,     \* text sizes
    Sends,     \* the calls of msgsnd
    Receives,  \* the calls of msgrcv
    Settings,  \* what IPC_SET may store
    MaxSeq,    \* bound on the queues made
    None

Errors == {"EAGAIN", "EIDRM", "E2BIG"}
Modes == {"ANY", "LESSEQUAL", "EQUAL", "NOTEQUAL"}
Headers == [type : Types, size : Sizes]

\* struct msg_queue, with q_messages, q_receivers and q_senders.
Queues == [seq : Nat, qbytes : Nat, mode : SUBSET {"r", "w"}, msgs : Seq(Msgs),
           cbytes : Int, qnum : Int, receivers : Seq(Tasks), senders : Seq(Tasks)]

ASSUME MsgQueueAssumption ==
    /\ Types \subseteq Nat \ {0} /\ Sizes \subseteq Nat /\ MaxSeq \in Nat
    /\ Settings \subseteq [qbytes : Nat, mode : SUBSET {"r", "w"}]
    /\ Sends \subseteq [type : Types, size : Sizes, nowait : BOOLEAN]
    /\ Receives \subseteq [type : Int, mode : Modes, size : Nat, noerror : BOOLEAN, nowait : BOOLEAN]
    /\ Msgs \cap Errors = {} /\ None \notin Msgs \cup Tasks \cup Headers \cup Queues

VARIABLES
    q,        \* the queue in the slot, or None
    seq,      \* sequence number of the next queue
    lock,     \* the task that keeps ipc_lock over a step, or None
    msg,      \* the messages: [type, size], or None if free
    msgBytes, msgHdrs, \* msg_bytes and msg_hdrs
    pc, call, \* where each task is, and in which call
    id,       \* the sequence number in its msqid
    target,   \* the receiver that pipelined_send has taken off the list
    held,     \* the message a task has in its hands
    st, sig,  \* its state, and whether a signal is pending
    rmsg,     \* r_msg of its msg_receiver
    mssNull,  \* list.next of its msg_sender is NULL
    dying     \* what freeque has still to free: [msgs, cbytes]

msgVars == <<msg, msgBytes, msgHdrs>>
callVars == <<call, id, target>>
vars == <<q, seq, lock, msgVars, pc, callVars, held, st, sig, rmsg, mssNull, dying>>

Nothing == [msgs |-> <<>>, cbytes |-> 0]

Init ==
    /\ q = None /\ seq = 1 /\ lock = None
    /\ msg = [m \in Msgs |-> None] /\ msgBytes = 0 /\ msgHdrs = 0
    /\ pc = [t \in Tasks |-> "idle"] /\ call = [t \in Tasks |-> None]
    /\ id = [t \in Tasks |-> 0] /\ target = [t \in Tasks |-> None]
    /\ held = [t \in Tasks |-> None]
    /\ st = [t \in Tasks |-> "running"] /\ sig = [t \in Tasks |-> FALSE]
    /\ rmsg = [t \in Tasks |-> "EAGAIN"] /\ mssNull = [t \in Tasks |-> FALSE]
    /\ dying = [t \in Tasks |-> Nothing]

Goto(t, l) == pc' = [pc EXCEPT ![t] = l]

\* wake_up_process for all tasks of a list.
Woken(ts) == [t \in Tasks |-> IF t \in Range(ts) THEN "running" ELSE st[t]]

\* expunge_all
Expunged(ts, err) == [t \in Tasks |-> IF t \in Range(ts) THEN err ELSE rmsg[t]]

\* list_del of an entry of x: what may be left of the list s.
Unlinked(s, x) == {SubSeq(s, 1, i - 1) \o SubSeq(s, i + 1, Len(s)) : i \in {k \in DOMAIN s : s[k] = x}}

\* A task that sleeps gets a signal.
Signal(t) ==
    /\ st[t] = "interruptible" /\ ~sig[t]
    /\ sig' = [sig EXCEPT ![t] = TRUE] /\ st' = [st EXCEPT ![t] = "running"]
    /\ UNCHANGED <<q, seq, lock, msgVars, pc, callVars, held, rmsg, mssNull, dying>>

\* The call ends: a message that is still in the task's hands is freed.
Return(t, held1) ==
    /\ Goto(t, "idle")
    /\ call' = [call EXCEPT ![t] = None]
    /\ id' = [id EXCEPT ![t] = 0] /\ target' = [target EXCEPT ![t] = None]
    /\ held' = [held EXCEPT ![t] = None]
    /\ msg' = IF held1 = None THEN msg ELSE [msg EXCEPT ![held1] = None]
    /\ sig' = [sig EXCEPT ![t] = FALSE]

-----------------------------------------------------------------------------
(***************************************************************************)
(* msgget and msgctl.                                                      *)
(***************************************************************************)
\* newque
MsgGet(t) ==
    /\ pc[t] = "idle" /\ lock = None /\ q = None /\ seq <= MaxSeq
    /\ \E s \in Settings :
        q' = [seq |-> seq, qbytes |-> s.qbytes, mode |-> s.mode, msgs |-> <<>>, cbytes |-> 0, qnum |-> 0,
              receivers |-> <<>>, senders |-> <<>>]
    /\ seq' = seq + 1
    /\ UNCHANGED <<lock, msgVars, pc, callVars, held, st, sig, rmsg, mssNull, dying>>

\* Whom IPC_SET wakes.
SetWakes == q.receivers \o q.senders

\* IPC_SET
MsgCtlSet(t) ==
    /\ pc[t] = "idle" /\ lock = None /\ q # None
    /\ \E s \in Settings : q' = [q EXCEPT !.qbytes = s.qbytes, !.mode = s.mode]
    /\ rmsg' = Expunged(q.receivers, "EAGAIN")
    /\ st' = Woken(SetWakes)
    /\ UNCHANGED <<seq, lock, msgVars, pc, callVars, held, sig, mssNull, dying>>

\* IPC_RMID: freeque up to the unlock.
MsgCtlRmid(t) ==
    /\ pc[t] = "idle" /\ lock = None /\ q # None
    /\ rmsg' = Expunged(q.receivers, "EIDRM")
    /\ st' = Woken(q.receivers \o q.senders)
    /\ mssNull' = [u \in Tasks |-> u \in Range(q.senders) \/ mssNull[u]]
    /\ dying' = [dying EXCEPT ![t] = [msgs |-> q.msgs, cbytes |-> q.cbytes]]
    /\ q' = None
    /\ Goto(t, "rm_free")
    /\ UNCHANGED <<seq, lock, msgVars, callVars, held, sig>>

FreedBytes(t) == dying[t].cbytes

\* The rest of freeque.
RmidFree(t) ==
    /\ pc[t] = "rm_free"
    /\ msg' = [m \in Msgs |-> IF m \in Range(dying[t].msgs) THEN None ELSE msg[m]]
    /\ msgHdrs' = msgHdrs - Len(dying[t].msgs)
    /\ msgBytes' = msgBytes - FreedBytes(t)
    /\ dying' = [dying EXCEPT ![t] = Nothing]
    /\ Goto(t, "idle")
    /\ UNCHANGED <<q, seq, lock, callVars, held, st, sig, rmsg, mssNull>>

-----------------------------------------------------------------------------
(***************************************************************************)
(* msgsnd.                                                                 *)
(***************************************************************************)
TestMsg(mtype, type, mode) ==
    CASE mode = "ANY" -> TRUE
      [] mode = "LESSEQUAL" -> mtype <= type
      [] mode = "EQUAL" -> mtype = type
      [] mode = "NOTEQUAL" -> mtype # type

\* load_msg, before the lock is taken.
MsgSnd(t, c) ==
    /\ pc[t] = "idle" /\ q # None
    /\ \E m \in Msgs :
        /\ msg[m] = None
        /\ msg' = [msg EXCEPT ![m] = [type |-> c.type, size |-> c.size]]
        /\ held' = [held EXCEPT ![t] = m]
    /\ call' = [call EXCEPT ![t] = c] /\ id' = [id EXCEPT ![t] = q.seq]
    /\ Goto(t, "snd_lock")
    /\ UNCHANGED <<q, seq, lock, target, msgBytes, msgHdrs, st, sig, rmsg, mssNull, dying>>

\* No room for a message of this size.
Full(qq, size) == size + qq.cbytes > qq.qbytes \/ 1 + qq.qnum > qq.qbytes

\* msgsnd from retry on, with the lock; ss are the senders of the queue.
SndTry(t, ss) ==
    LET c == call[t]
        allowed == q.seq = id[t] /\ "w" \in q.mode
    IN
    \/ /\ ~allowed \/ (Full(q, c.size) /\ c.nowait)
       /\ q' = [q EXCEPT !.senders = ss]
       /\ Return(t, held[t])
       /\ UNCHANGED <<lock, st>>
    \/ /\ allowed /\ Full(q, c.size) /\ ~c.nowait
       /\ q' = [q EXCEPT !.senders = Append(ss, t)]
       /\ st' = [st EXCEPT ![t] = "interruptible"]
       /\ Goto(t, "snd_sleep")
       /\ UNCHANGED <<lock, msg, callVars, held, sig>>
    \/ /\ allowed /\ ~Full(q, c.size)
       /\ q' = [q EXCEPT !.senders = ss]
       /\ lock' = t
       /\ Goto(t, "snd_pipe")
       /\ UNCHANGED <<msg, callVars, held, st, sig>>

SndLock(t) ==
    /\ pc[t] = "snd_lock" /\ lock = None
    /\ \/ q = None /\ Return(t, held[t]) /\ UNCHANGED <<q, lock, st>>
       \/ q # None /\ SndTry(t, q.senders)
    /\ mssNull' = [mssNull EXCEPT ![t] = FALSE]
    /\ UNCHANGED <<seq, msgBytes, msgHdrs, rmsg, dying>>

\* schedule returns when somebody has set the task running.
SndSchedule(t) ==
    /\ pc[t] = "snd_sleep" /\ st[t] = "running"
    /\ Goto(t, "snd_relock")
    /\ UNCHANGED <<q, seq, lock, msgVars, callVars, held, st, sig, rmsg, mssNull, dying>>

\* ss_del
SsDel(t) == IF mssNull[t] THEN {q.senders} ELSE Unlinked(q.senders, t)

SndRelock(t) ==
    /\ pc[t] = "snd_relock" /\ lock = None
    /\ \/ q = None /\ Return(t, held[t]) /\ UNCHANGED <<q, lock, st>>
       \/ /\ q # None
          /\ \E ss \in SsDel(t) :
                \/ /\ sig[t] /\ q' = [q EXCEPT !.senders = ss] /\ Return(t, held[t])
                   /\ UNCHANGED <<lock, st>>
                \/ ~sig[t] /\ SndTry(t, ss)
    /\ mssNull' = [mssNull EXCEPT ![t] = FALSE]
    /\ UNCHANGED <<seq, msgBytes, msgHdrs, rmsg, dying>>

\* The receivers of the queue that wait for a message like this.
Takers(m) ==
    {i \in DOMAIN q.receivers : LET r == q.receivers[i] IN TestMsg(msg[m].type, call[r].type, call[r].mode)}

\* pipelined_send: the first taker is off the list and has its r_msg; if there is
\* none, the message goes to the queue.
SndPipe(t) ==
    LET m == held[t] IN
    /\ pc[t] = "snd_pipe"
    /\ \/ /\ Takers(m) = {}
          /\ q' = [q EXCEPT !.msgs = Append(@, m), !.cbytes = @ + msg[m].size, !.qnum = @ + 1]
          /\ msgBytes' = msgBytes + msg[m].size /\ msgHdrs' = msgHdrs + 1
          /\ lock' = None
          /\ Return(t, None)
          /\ UNCHANGED rmsg
       \/ \E i \in Takers(m) :
          /\ \A k \in Takers(m) : i <= k
          /\ LET r == q.receivers[i]
                 big == ~call[r].noerror /\ call[r].size < msg[m].size
             IN /\ \E rs \in Unlinked(q.receivers, r) : q' = [q EXCEPT !.receivers = rs]
                /\ rmsg' = [rmsg EXCEPT ![r] = IF big THEN "E2BIG" ELSE m]
                /\ target' = [target EXCEPT ![t] = r]
                /\ held' = [held EXCEPT ![t] = IF big THEN m ELSE None]
          /\ Goto(t, "snd_wake")
          /\ UNCHANGED <<lock, msgVars, call, id, sig>>
    /\ UNCHANGED <<seq, st, mssNull, dying>>

\* wake_up_process of the receiver; unless its buffer was too small, that is all.
SndWake(t) ==
    /\ pc[t] = "snd_wake"
    /\ st' = [st EXCEPT ![target[t]] = "running"]
    /\ IF held[t] = None
       THEN lock' = None /\ Return(t, None)
       ELSE Goto(t, "snd_pipe") /\ UNCHANGED <<lock, callVars, held, msg, sig>>
    /\ UNCHANGED <<q, seq, msgBytes, msgHdrs, rmsg, mssNull, dying>>

-----------------------------------------------------------------------------
(***************************************************************************)
(* msgrcv.                                                                 *)
(***************************************************************************)
MsgRcv(t, c) ==
    /\ pc[t] = "idle" /\ q # None
    /\ call' = [call EXCEPT ![t] = c] /\ id' = [id EXCEPT ![t] = q.seq]
    /\ Goto(t, "rcv_lock")
    /\ UNCHANGED <<q, seq, lock, target, msgVars, held, st, sig, rmsg, mssNull, dying>>

\* What a search for the least type asks for after a message of type mtype.
Lower(mtype) == mtype - 1

\* Where testmsg holds for a message of the queue.
Matches(c) == {i \in DOMAIN q.msgs : TestMsg(msg[q.msgs[i]].type, c.type, c.mode)}

\* The search through q_messages: it ends at the first match, but for the least type it
\* goes on, asking for less than what it has found.
Found(c) ==
    IF c.mode # "LESSEQUAL" THEN {i \in Matches(c) : \A k \in Matches(c) : i <= k}
    ELSE LET better == {i \in Matches(c) : \A k \in Matches(c) :
                           k < i => msg[q.msgs[i]].type <= Lower(msg[q.msgs[k]].type)}
         IN  {i \in better : \A k \in better : k <= i}

\* msgrcv from retry on, with the lock; rs are the receivers of the queue.
RcvTry(t, rs) ==
    LET c == call[t]
        allowed == q.seq = id[t] /\ "r" \in q.mode
        big(m) == c.size < msg[m].size /\ ~c.noerror
    IN
    \/ /\ \/ ~allowed
          \/ \E i \in Found(c) : big(q.msgs[i])
          \/ Matches(c) = {} /\ c.nowait
       /\ q' = [q EXCEPT !.receivers = rs]
       /\ Return(t, None)
       /\ UNCHANGED <<msgBytes, msgHdrs, st, rmsg>>
    \/ /\ allowed
       /\ \E i \in Found(c) :
            LET m == q.msgs[i] IN
            /\ ~big(m)
            /\ \E ms \in Unlinked(q.msgs, m) :
                 q' = [q EXCEPT !.receivers = rs, !.msgs = ms, !.qnum = @ - 1,
                                !.cbytes = @ - msg[m].size]
            /\ msgBytes' = msgBytes - msg[m].size /\ msgHdrs' = msgHdrs - 1
            /\ held' = [held EXCEPT ![t] = m]
       /\ st' = Woken(q.senders)
       /\ Goto(t, "rcv_store")
       /\ UNCHANGED <<msg, callVars, sig, rmsg>>
    \/ /\ allowed /\ Matches(c) = {} /\ ~c.nowait
       /\ q' = [q EXCEPT !.receivers = Append(rs, t)]
       /\ rmsg' = [rmsg EXCEPT ![t] = "EAGAIN"]
       /\ st' = [st EXCEPT ![t] = "interruptible"]
       /\ Goto(t, "rcv_sleep")
       /\ UNCHANGED <<msgVars, callVars, held, sig>>

RcvLock(t) ==
    /\ pc[t] = "rcv_lock" /\ lock = None
    /\ \/ q = None /\ Return(t, None) /\ UNCHANGED <<q, msgBytes, msgHdrs, st, rmsg>>
       \/ q # None /\ RcvTry(t, q.receivers)
    /\ UNCHANGED <<seq, lock, mssNull, dying>>

RcvSchedule(t) ==
    /\ pc[t] = "rcv_sleep" /\ st[t] = "running"
    /\ Goto(t, "rcv_relock")
    /\ UNCHANGED <<q, seq, lock, msgVars, callVars, held, st, sig, rmsg, mssNull, dying>>

\* Mutant: a message that is there already is taken without the lock.
MayLookFast(t) == lock = None \/ rmsg[t] \notin Errors

\* When a receiver that is awake may look at its r_msg: "we must always take the slow path".
MayLook(t) == lock = None

\* Mutant: the signal comes first.
ArrivedUnlessSignal(t) == rmsg[t] \notin Errors /\ ~sig[t]

\* The message arrived while the task waited.
Arrived(t) == rmsg[t] \notin Errors

RcvRelock(t) ==
    /\ pc[t] = "rcv_relock" /\ MayLook(t)
    /\ \/ /\ Arrived(t)
          /\ held' = [held EXCEPT ![t] = rmsg[t]]
          /\ rmsg' = [rmsg EXCEPT ![t] = "EAGAIN"]
          /\ Goto(t, "rcv_store")
          /\ UNCHANGED <<q, msgVars, callVars, st, sig>>
       \/ /\ ~Arrived(t) /\ rmsg[t] # "EAGAIN"
          /\ Return(t, None)
          /\ rmsg' = [rmsg EXCEPT ![t] = "EAGAIN"]
          /\ UNCHANGED <<q, msgBytes, msgHdrs, st>>
       \/ /\ rmsg[t] = "EAGAIN" /\ q # None
          /\ \E rs \in Unlinked(q.receivers, t) :
             \/ /\ sig[t] /\ q' = [q EXCEPT !.receivers = rs] /\ Return(t, None)
                /\ UNCHANGED <<msgBytes, msgHdrs, st, rmsg>>
             \/ ~sig[t] /\ RcvTry(t, rs)
    /\ UNCHANGED <<seq, lock, mssNull, dying>>

\* out_success: the message goes to the user.
StoreMsg(t) ==
    /\ pc[t] = "rcv_store"
    /\ Return(t, held[t])
    /\ UNCHANGED <<q, seq, lock, msgBytes, msgHdrs, st, rmsg, mssNull, dying>>

-----------------------------------------------------------------------------
Step(t) ==
    \/ \E c \in Sends : MsgSnd(t, c)
    \/ \E c \in Receives : MsgRcv(t, c)
    \/ SndLock(t) \/ SndSchedule(t) \/ SndRelock(t) \/ SndPipe(t) \/ SndWake(t)
    \/ RcvLock(t) \/ RcvSchedule(t) \/ RcvRelock(t) \/ StoreMsg(t)
    \/ MsgGet(t) \/ MsgCtlSet(t) \/ MsgCtlRmid(t) \/ RmidFree(t)

Next == \E t \in Tasks : Step(t) \/ Signal(t)

Spec == Init /\ [][Next]_vars

-----------------------------------------------------------------------------
PCs == {"idle", "rm_free", "snd_lock", "snd_pipe", "snd_wake", "snd_sleep", "snd_relock",
        "rcv_lock", "rcv_sleep", "rcv_relock", "rcv_store"}

\* Every variable has its type.
TypeOK ==
    /\ q \in Queues \cup {None} /\ seq \in Nat /\ lock \in Tasks \cup {None}
    /\ msg \in [Msgs -> Headers \cup {None}] /\ msgBytes \in Int /\ msgHdrs \in Int
    /\ pc \in [Tasks -> PCs] /\ call \in [Tasks -> Sends \cup Receives \cup {None}]
    /\ id \in [Tasks -> Nat] /\ target \in [Tasks -> Tasks \cup {None}]
    /\ held \in [Tasks -> Msgs \cup {None}] /\ rmsg \in [Tasks -> Errors \cup Msgs]
    /\ st \in [Tasks -> {"running", "interruptible"}]
    /\ sig \in [Tasks -> BOOLEAN] /\ mssNull \in [Tasks -> BOOLEAN]
    /\ dying \in [Tasks -> [msgs : Seq(Msgs), cbytes : Int]]

\* Where a message can be: in somebody's hands, on its way to a receiver, in a queue
\* that is being freed, or in the queue.
Queued == IF q = None THEN <<>> ELSE q.msgs
Places == ({"held", "given", "dying"} \X Tasks) \cup {<<"queue", None>>}
Contents(x) ==
    CASE x[1] = "held"  -> {held[x[2]]} \cap Msgs
      [] x[1] = "given" -> {rmsg[x[2]]} \cap Msgs
      [] x[1] = "dying" -> Range(dying[x[2]].msgs)
      [] x[1] = "queue" -> Range(Queued)

\* No message is lost, received twice or freed twice, whatever signals, small buffers,
\* IPC_SET and IPC_RMID do to the tasks that wait (msg.c:281-301, 600-624, 818-845).
OnePlace ==
    /\ \A m \in Msgs : Cardinality({x \in Places : m \in Contents(x)}) = (IF msg[m] = None THEN 0 ELSE 1)
    /\ IsInjective(Queued) /\ \A t \in Tasks : IsInjective(dying[t].msgs)

SumSizes(s) == MapThenSumSet(LAMBDA i : msg[s[i]].size, DOMAIN s)

\* The counters of the queue and of the system agree with the messages, also while a
\* removed queue is being freed and the next one is in use.
Accounted ==
    LET dead == {t \in Tasks : pc[t] = "rm_free"} IN
    /\ q # None => q.cbytes = SumSizes(q.msgs) /\ q.qnum = Len(q.msgs)
    /\ msgHdrs = Len(Queued) + MapThenSumSet(LAMBDA t : Len(dying[t].msgs), dead)
    /\ msgBytes = SumSizes(Queued) + MapThenSumSet(LAMBDA t : SumSizes(dying[t].msgs), dead)

\* A queue that has its largest size is within it, in bytes and in messages (which may
\* be empty), although senders sleep between the test and the next one.
WithinLimit == q # None /\ (\A s \in Settings : s.qbytes <= q.qbytes) => q.qnum <= q.qbytes /\ q.cbytes <= q.qbytes

\* Nobody sleeps without a reason: a sender sleeps on a queue that is there and full,
\* a receiver on one that is there and on whose list it is.
NoLostWakeup ==
    \A t \in Tasks : st[t] = "interruptible" =>
        /\ q # None /\ id[t] = q.seq
        /\ pc[t] = "snd_sleep" => t \in Range(q.senders) /\ Full(q, call[t].size)
        /\ pc[t] = "rcv_sleep" => t \in Range(q.receivers) \/ \E u \in Tasks : pc[u] = "snd_wake" /\ target[u] = t

\* A message never waits in the queue while somebody who would take it is on the list
\* of receivers, awake or not: so messages do not overtake each other by the hand-over.
NoneWaitsForTaker ==
    q # None => \A m \in Range(q.msgs), r \in Range(q.receivers) :
                    ~TestMsg(msg[m].type, call[r].type, call[r].mode)

\* The msg_receiver and msg_sender on a stack, and the task, are not used after the
\* call has returned; and BUG() in msgrcv is not reached.
NoUseAfterReturn ==
    /\ q # None => /\ \A i \in DOMAIN q.receivers : pc[q.receivers[i]] \in {"rcv_sleep", "rcv_relock"}
                   /\ \A i \in DOMAIN q.senders : pc[q.senders[i]] \in {"snd_sleep", "snd_relock"}
                   /\ IsInjective(q.receivers) /\ IsInjective(q.senders)
    /\ \A t \in Tasks : pc[t] = "snd_wake" => pc[target[t]] \in {"rcv_sleep", "rcv_relock"}
    /\ \A t \in Tasks : pc[t] = "rcv_relock" /\ rmsg[t] = "EAGAIN" => q # None /\ t \in Range(q.receivers)

\* Whoever sleeps has a reason to, whoever is on a list is in its call, and messages do
\* not overtake each other by the hand-over (msg.c:601-640, 760-840).
SleepersSafe == NoLostWakeup /\ NoneWaitsForTaker /\ NoUseAfterReturn

\* "msgtyp < 0 => get message with least type": what msgrcv takes from the queue is the
\* first one of those with the least type that it may take.
TakesLeast ==
    [][\A t \in Tasks : (pc'[t] = "rcv_store" /\ pc[t] # "rcv_store" /\ held'[t] \in Range(Queued)) =>
          LET c == call[t]
              ok == {i \in DOMAIN q.msgs : TestMsg(msg[q.msgs[i]].type, c.type, c.mode)}
              least == {i \in ok : c.mode = "LESSEQUAL" =>
                                       \A k \in ok : msg[q.msgs[i]].type <= msg[q.msgs[k]].type}
          IN held'[t] = q.msgs[Min(least)]]_vars

-----------------------------------------------------------------------------
(***************************************************************************)
(* The inductive invariant: for each place of a task, where it is listed,  *)
(* what is in its hands, and why it may sleep.                             *)
(***************************************************************************)
Receivers == IF q = None THEN {} ELSE Range(q.receivers)
Senders   == IF q = None THEN {} ELSE Range(q.senders)

Awaits(t) == pc[t] \in {"rcv_sleep", "rcv_relock"}
LockPcs   == {"snd_pipe", "snd_wake"}
SendPcs   == {"snd_lock", "snd_sleep", "snd_relock"} \cup LockPcs

\* ipc_lock is kept over a step in pipelined_send only.
Locks(t) == pc[t] \in LockPcs <=> lock = t

\* A task is in the call its place belongs to.
InCall(t) ==
    /\ pc[t] \in SendPcs => call[t] \in Sends
    /\ pc[t] = "rcv_lock" \/ Awaits(t) => call[t] \in Receives

\* A receiver is on the list until r_msg tells it otherwise, a sender until it is woken
\* for good, and only on the list of the queue it has called.
Listed(t) ==
    /\ t \in Receivers <=> Awaits(t) /\ rmsg[t] = "EAGAIN"
    /\ t \in Senders <=> pc[t] \in {"snd_sleep", "snd_relock"} /\ ~mssNull[t]
    /\ t \in Receivers \cup Senders => id[t] = q.seq

\* What a task has of messages.
Hands(t) ==
    /\ pc[t] \in SendPcs \cup {"rcv_store"} => held[t] # None \/ pc[t] = "snd_wake"
    /\ pc[t] \notin SendPcs \cup {"rcv_store"} => held[t] = None
    /\ ~Awaits(t) => rmsg[t] = "EAGAIN"
    /\ pc[t] # "rm_free" => dying[t] = Nothing

TaskInv == \A t \in Tasks : Locks(t) /\ InCall(t) /\ Listed(t) /\ Hands(t)

QueueInv ==
    /\ lock # None => q # None
    /\ q # None => IsInjective(q.receivers) /\ IsInjective(q.senders)

\* The receiver to be woken is still in its call.
TargetInv ==
    \A t \in Tasks : pc[t] = "snd_wake" =>
        target[t] \in Tasks /\ Awaits(target[t]) /\ id[target[t]] = q.seq

\* Why a task may sleep.
SleepInv ==
    \A t \in Tasks : st[t] = "interruptible" =>
        \/ pc[t] = "snd_sleep" /\ t \in Senders /\ Full(q, call[t].size)
        \/ pc[t] = "rcv_sleep" /\ t \in Receivers
        \/ pc[t] = "rcv_sleep" /\ \E u \in Tasks : pc[u] = "snd_wake" /\ target[u] = t

\* Every message that is in use is in one place.
PlaceInv ==
    /\ \A x, y \in Places : x # y => Contents(x) \cap Contents(y) = {}
    /\ \A m \in Msgs : msg[m] # None <=> \E x \in Places : m \in Contents(x)
    /\ IsInjective(Queued) /\ \A t \in Tasks : IsInjective(dying[t].msgs)

MsgInv == /\ TypeOK /\ TaskInv /\ QueueInv /\ TargetInv /\ SleepInv
          /\ NoneWaitsForTaker /\ PlaceInv
=============================================================================
