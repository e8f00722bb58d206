--------------------------- MODULE MsgQueueProofs ---------------------------
(***************************************************************************)
(* Proofs about MsgQueue, for any number of tasks and messages and any     *)
(* calls: every message in use is in exactly one place, and whoever sleeps *)
(* on a queue has a reason to and somebody who will wake it.               *)
(* And about Pipe, for pipes and writes of any size: what is read is what  *)
(* was written, short writes are in one piece, and nobody sleeps in vain.  *)
(***************************************************************************)
EXTENDS MsgQueue, ListFacts

-----------------------------------------------------------------------------
(***************************************************************************)
(* Lists and records.                                                      *)
(***************************************************************************)

\* A function keeps its type when one of its values is replaced.
LEMMA ExceptType ==
    ASSUME NEW D, NEW R, NEW f \in [D -> R], NEW d, NEW v \in R
    PROVE  [f EXCEPT ![d] = v] \in [D -> R]
    OBVIOUS

\* list_del: exactly this entry is gone.
LEMMA UnlinkedElements ==
    ASSUME NEW S, NEW s \in Seq(S), IsInjective(s), NEW x, NEW r \in Unlinked(s, x)
    PROVE  /\ r \in Seq(S) /\ x \in Range(s)
           /\ Range(r) = Range(s) \ {x} /\ IsInjective(r)
<1>1. PICK i \in DOMAIN s : /\ s[i] = x
                            /\ r = SubSeq(s, 1, i - 1) \o SubSeq(s, i + 1, Len(s))
  BY DEF Unlinked
<1>2. i \in 1..Len(s)
  BY <1>1
<1>3. r \in Seq(S) /\ Range(r) = Range(s) \ {s[i]} /\ IsInjective(r)
  BY ONLY <1>1, <1>2, s \in Seq(S), IsInjective(s), DeletedInjective
<1> QED
  BY <1>1, <1>3 DEF Range

\* The parts of a queue.
LEMMA QueueParts ==
    ASSUME NEW x \in Queues
    PROVE  /\ x # None
           /\ x.seq \in Nat /\ x.qbytes \in Nat /\ x.cbytes \in Int /\ x.qnum \in Int
           /\ x.msgs \in Seq(Msgs) /\ x.receivers \in Seq(Tasks) /\ x.senders \in Seq(Tasks)
  BY MsgQueueAssumption DEF Queues

\* What an assignment to one or more of its members leaves alone.
LEMMA NewSenders ==
    ASSUME NEW x \in Queues, NEW ss \in Seq(Tasks)
    PROVE  LET y == [x EXCEPT !.senders = ss]
           IN  /\ y \in Queues /\ y.senders = ss /\ y.receivers = x.receivers
               /\ y.msgs = x.msgs /\ y.seq = x.seq
               /\ y.qbytes = x.qbytes /\ y.cbytes = x.cbytes /\ y.qnum = x.qnum
  BY DEF Queues

LEMMA NewReceivers ==
    ASSUME NEW x \in Queues, NEW rs \in Seq(Tasks)
    PROVE  LET y == [x EXCEPT !.receivers = rs]
           IN  /\ y \in Queues /\ y.receivers = rs /\ y.senders = x.senders
               /\ y.msgs = x.msgs /\ y.seq = x.seq
               /\ y.qbytes = x.qbytes /\ y.cbytes = x.cbytes /\ y.qnum = x.qnum
  BY DEF Queues

-----------------------------------------------------------------------------
(***************************************************************************)
(* What a step of one task leaves alone.                                   *)
(***************************************************************************)
Task(t) == Locks(t) /\ InCall(t) /\ Listed(t) /\ Hands(t)

\* Nothing that belongs to a task other than t changes.
Frame(t) ==
    \A u \in Tasks \ {t} :
        /\ pc'[u] = pc[u] /\ call'[u] = call[u] /\ id'[u] = id[u] /\ target'[u] = target[u]
        /\ held'[u] = held[u] /\ dying'[u] = dying[u]

\* No task other than t is put on or taken off a list of the queue.
SameLists(t) ==
    /\ \A u \in Tasks \ {t} : /\ u \in Receivers' <=> u \in Receivers
                              /\ u \in Senders' <=> u \in Senders
    /\ q = None \/ q' = None \/ q'.seq = q.seq

\* The other tasks keep their part of the invariant.
LEMMA OthersKept ==
    ASSUME TaskInv, NEW t \in Tasks, Frame(t), SameLists(t),
           \A u \in Tasks \ {t} : /\ rmsg'[u] = rmsg[u] /\ mssNull'[u] = mssNull[u]
                                  /\ lock' = u <=> lock = u
    PROVE  \A u \in Tasks \ {t} : Task(u)'
<1> SUFFICES ASSUME NEW u \in Tasks \ {t} PROVE Task(u)'
  OBVIOUS
<1>1. /\ pc'[u] = pc[u] /\ call'[u] = call[u] /\ id'[u] = id[u] /\ held'[u] = held[u]
      /\ dying'[u] = dying[u] /\ rmsg'[u] = rmsg[u] /\ mssNull'[u] = mssNull[u]
      /\ lock' = u <=> lock = u
      /\ Locks(u) /\ InCall(u) /\ Listed(u) /\ Hands(u)
  BY DEF Frame, TaskInv
<1>2. Locks(u)' /\ InCall(u)' /\ Hands(u)'
  BY <1>1 DEF Locks, InCall, Hands, Awaits
<1>3. Listed(u)'
  <2>1. /\ u \in Receivers' <=> u \in Receivers
        /\ u \in Senders' <=> u \in Senders
        /\ u \in Receivers \cup Senders => q'.seq = q.seq
    BY <1>1 DEF SameLists, Receivers, Senders
  <2> QED
    BY <1>1, <2>1 DEF Listed, Awaits
<1> QED
  BY <1>2, <1>3 DEF Task

\* The reasons for which the other tasks sleep.
LEMMA SleepersKept ==
    ASSUME TypeOK, SleepInv, NEW t \in Tasks, Frame(t), SameLists(t),
           \A u \in Tasks \ {t} : st'[u] \in {st[u], "running"},
           \A u \in Senders \ {t} : st'[u] = "interruptible" /\ Full(q, call[u].size)
                                        => Full(q', call[u].size),
           pc[t] = "snd_wake" => \/ pc'[t] = "snd_wake" /\ target'[t] = target[t]
                                 \/ st'[target[t]] = "running",
           st'[t] = "interruptible" =>
               \/ pc'[t] = "snd_sleep" /\ t \in Senders' /\ Full(q', call'[t].size)
               \/ pc'[t] = "rcv_sleep" /\ t \in Receivers'
               \/ pc'[t] = "rcv_sleep" /\ \E u \in Tasks \ {t} : pc[u] = "snd_wake" /\ target[u] = t
    PROVE  SleepInv'
<1> SUFFICES ASSUME NEW v \in Tasks, st'[v] = "interruptible"
             PROVE \/ pc'[v] = "snd_sleep" /\ v \in Senders' /\ Full(q', call'[v].size)
                   \/ pc'[v] = "rcv_sleep" /\ v \in Receivers'
                   \/ pc'[v] = "rcv_sleep" /\ \E u \in Tasks : pc'[u] = "snd_wake" /\ target'[u] = v
  BY DEF SleepInv, Full
<1>1. CASE v = t
  BY <1>1 DEF Frame
<1>2. CASE v # t
  <2>1. /\ st[v] = "interruptible" /\ pc'[v] = pc[v] /\ call'[v] = call[v]
        /\ v \in Receivers' <=> v \in Receivers
        /\ v \in Senders' <=> v \in Senders
    BY <1>2 DEF Frame, SameLists
  <2>2. CASE pc[v] = "snd_sleep" /\ v \in Senders /\ Full(q, call[v].size)
    BY <1>2, <2>1, <2>2
  <2>3. CASE pc[v] = "rcv_sleep" /\ v \in Receivers
    BY <2>1, <2>3
  <2>4. CASE pc[v] = "rcv_sleep" /\ \E u \in Tasks : pc[u] = "snd_wake" /\ target[u] = v
    <3>1. PICK u \in Tasks : pc[u] = "snd_wake" /\ target[u] = v
      BY <2>4
    <3>2. pc'[u] = "snd_wake" /\ target'[u] = v
      BY <3>1 DEF Frame
    <3> QED
      BY <2>1, <2>4, <3>2
  <2> QED
    BY <2>1, <2>2, <2>3, <2>4 DEF SleepInv
<1> QED
  BY <1>1, <1>2

\* While nobody is about to wake a receiver there is nothing to keep.
LEMMA NoTargets ==
    ASSUME TaskInv', lock' = None \/ pc'[lock'] = "snd_pipe", None \notin Tasks
    PROVE  TargetInv'
  BY DEF TaskInv, Locks, LockPcs, TargetInv

\* Neither list of the queue grows.
LEMMA NoneWaitsKept ==
    ASSUME NoneWaitsForTaker, Receivers' \subseteq Receivers,
           Range(Queued)' \subseteq Range(Queued),
           \A m \in Range(Queued)' : msg'[m] = msg[m],
           \A r \in Receivers' : call'[r] = call[r]
    PROVE  NoneWaitsForTaker'
<1> SUFFICES ASSUME q' # None, NEW m \in Range(q'.msgs), NEW r \in Range(q'.receivers)
             PROVE  ~TestMsg(msg'[m].type, call'[r].type, call'[r].mode)
  BY DEF NoneWaitsForTaker
<1>1. m \in Range(Queued)' /\ r \in Receivers'
  BY DEF Queued, Receivers
<1>2. q # None /\ m \in Range(q.msgs) /\ r \in Range(q.receivers)
  BY <1>1 DEF Queued, Receivers, Range
<1> QED
  BY <1>1, <1>2 DEF NoneWaitsForTaker

-----------------------------------------------------------------------------
(***************************************************************************)
(* The places of messages.                                                 *)
(***************************************************************************)
HeldBy(t)  == <<"held", t>>
GivenTo(t) == <<"given", t>>
FreedBy(t) == <<"dying", t>>
InQueue    == <<"queue", None>>

\* What is in each place.
LEMMA ContentsOf ==
    ASSUME NEW t \in Tasks
    PROVE  /\ Contents(HeldBy(t)) = {held[t]} \cap Msgs
           /\ Contents(GivenTo(t)) = {rmsg[t]} \cap Msgs
           /\ Contents(FreedBy(t)) = Range(dying[t].msgs)
  BY DEF Contents, HeldBy, GivenTo, FreedBy

LEMMA ContentsOfNext ==
    ASSUME NEW t \in Tasks
    PROVE  /\ Contents(HeldBy(t))' = {held'[t]} \cap Msgs
           /\ Contents(GivenTo(t))' = {rmsg'[t]} \cap Msgs
           /\ Contents(FreedBy(t))' = Range(dying'[t].msgs)
  BY DEF Contents, HeldBy, GivenTo, FreedBy

LEMMA ContentsOfQueue ==
    Contents(InQueue) = Range(Queued) /\ Contents(InQueue)' = Range(Queued)'
  BY DEF Contents, InQueue

\* The places, and which of them differ.
LEMMA PlacesOf ==
    /\ InQueue \in Places
    /\ \A t \in Tasks : {HeldBy(t), GivenTo(t), FreedBy(t)} \subseteq Places
    /\ \A t, u \in Tasks : /\ HeldBy(t) # GivenTo(u) /\ HeldBy(t) # FreedBy(u)
                           /\ GivenTo(t) # FreedBy(u)
    /\ \A t \in Tasks : InQueue \notin {HeldBy(t), GivenTo(t), FreedBy(t)}
    /\ \A x \in Places : \/ x = InQueue
                         \/ \E t \in Tasks : x \in {HeldBy(t), GivenTo(t), FreedBy(t)}
  BY DEF Places, InQueue, HeldBy, GivenTo, FreedBy

\* Only the places of E change.
LEMMA OtherPlaces ==
    ASSUME NEW E,
           \A u \in Tasks : /\ held'[u] = held[u] \/ HeldBy(u) \in E
                            /\ {rmsg'[u]} \cap Msgs = {rmsg[u]} \cap Msgs \/ GivenTo(u) \in E
                            /\ dying'[u] = dying[u] \/ FreedBy(u) \in E,
           Range(Queued)' = Range(Queued) \/ InQueue \in E
    PROVE  \A x \in Places \ E : Contents(x)' = Contents(x)
<1> SUFFICES ASSUME NEW x \in Places \ E PROVE Contents(x)' = Contents(x)
  OBVIOUS
<1>1. CASE x = InQueue
  BY <1>1, ContentsOfQueue
<1>2. ASSUME NEW t \in Tasks, x \in {HeldBy(t), GivenTo(t), FreedBy(t)}
      PROVE  Contents(x)' = Contents(x)
  <2>1. CASE x = HeldBy(t)
    <3>1. held'[t] = held[t]
      <4>1. HeldBy(t) \notin E
        BY <2>1
      <4>2. held'[t] = held[t] \/ HeldBy(t) \in E
        BY Zenon
      <4> QED
        BY <4>1, <4>2
    <3> QED
      BY <2>1, <3>1, ContentsOf, ContentsOfNext
  <2>2. CASE x = GivenTo(t)
    <3>1. {rmsg'[t]} \cap Msgs = {rmsg[t]} \cap Msgs
      <4>1. GivenTo(t) \notin E
        BY <2>2
      <4>2. {rmsg'[t]} \cap Msgs = {rmsg[t]} \cap Msgs \/ GivenTo(t) \in E
        BY Zenon
      <4> QED
        BY <4>1, <4>2
    <3> QED
      BY <2>2, <3>1, ContentsOf, ContentsOfNext
  <2>3. CASE x = FreedBy(t)
    <3>1. dying'[t] = dying[t]
      <4>1. FreedBy(t) \notin E
        BY <2>3
      <4>2. dying'[t] = dying[t] \/ FreedBy(t) \in E
        BY Zenon
      <4> QED
        BY <4>1, <4>2
    <3> QED
      BY <2>3, <3>1, ContentsOf, ContentsOfNext
  <2> QED
    BY <1>2, <2>1, <2>2, <2>3
<1> QED
  BY <1>1, <1>2, PlacesOf

Apart == \A x, y \in Places : x # y => Contents(x) \cap Contents(y) = {}
Exact == \A m \in Msgs : msg[m] # None <=> \E x \in Places : m \in Contents(x)

\* Nothing moves.
LEMMA PlacesRest ==
    ASSUME Apart, Exact, msg' = msg, \A x \in Places : Contents(x)' = Contents(x)
    PROVE  Apart' /\ Exact'
<1> Places' = Places
  BY DEF Places
<1> QED
  BY DEF Apart, Exact

\* Messages go from one place to another one.
LEMMA PlacesMoved ==
    ASSUME Apart, Exact, msg' = msg, NEW a \in Places, NEW b \in Places, a # b,
           NEW M, M \subseteq Contents(a),
           Contents(a)' = Contents(a) \ M, Contents(b)' = Contents(b) \cup M,
           \A x \in Places \ {a, b} : Contents(x)' = Contents(x)
    PROVE  Apart' /\ Exact'
<1>0. Places' = Places
  BY DEF Places
<1>1. Apart'
  <2> SUFFICES ASSUME NEW x \in Places, NEW y \in Places, x # y
               PROVE  Contents(x)' \cap Contents(y)' = {}
    BY <1>0 DEF Apart
  <2>1. /\ Contents(x) \cap Contents(y) = {}
        /\ x # a => Contents(x) \cap Contents(a) = {}
        /\ y # a => Contents(y) \cap Contents(a) = {}
    BY DEF Apart
  <2>2. CASE x = b
    <3>1. Contents(y)' \subseteq Contents(y) \ M
      BY <2>1, <2>2
    <3> QED
      BY <2>1, <2>2, <3>1
  <2>3. CASE y = b
    <3>1. Contents(x)' \subseteq Contents(x) \ M
      BY <2>1, <2>3
    <3> QED
      BY <2>1, <2>3, <3>1
  <2>4. CASE x # b /\ y # b
    BY <2>1, <2>4
  <2> QED
    BY <2>2, <2>3, <2>4
<1>2. Exact'
  <2> SUFFICES ASSUME NEW m \in Msgs
               PROVE  (\E x \in Places : m \in Contents(x)) <=> \E x \in Places : m \in Contents(x)'
    BY <1>0 DEF Exact
  <2>1. ASSUME NEW x \in Places, m \in Contents(x) PROVE \E y \in Places : m \in Contents(y)'
    BY <2>1
  <2>2. ASSUME NEW x \in Places, m \in Contents(x)' PROVE \E y \in Places : m \in Contents(y)
    BY <2>2
  <2> QED
    BY <2>1, <2>2
<1> QED
  BY <1>1, <1>2

\* Messages are freed from one place.
LEMMA PlacesFreed ==
    ASSUME Apart, Exact, NEW a \in Places, NEW M, M \subseteq Contents(a),
           \A m \in Msgs : msg'[m] = IF m \in M THEN None ELSE msg[m],
           Contents(a)' = Contents(a) \ M,
           \A x \in Places \ {a} : Contents(x)' = Contents(x)
    PROVE  Apart' /\ Exact'
<1>0. Places' = Places
  BY DEF Places
<1>1. \A x \in Places : Contents(x)' = Contents(x) \ M
  BY DEF Apart
<1> QED
  BY <1>0, <1>1 DEF Apart, Exact

\* A new message is in one place.
LEMMA PlacesFilled ==
    ASSUME Apart, Exact, NEW a \in Places, NEW n \in Msgs, msg[n] = None,
           \A m \in Msgs : m # n => msg'[m] = msg[m], msg'[n] # None,
           Contents(a)' = Contents(a) \cup {n},
           \A x \in Places \ {a} : Contents(x)' = Contents(x)
    PROVE  Apart' /\ Exact'
<1>0. Places' = Places
  BY DEF Places
<1>1. \A x \in Places : n \notin Contents(x)
  BY DEF Exact
<1>2. Apart'
  BY <1>0, <1>1 DEF Apart
<1>3. Exact'
  <2> SUFFICES ASSUME NEW m \in Msgs
               PROVE  msg'[m] # None <=> \E x \in Places : m \in Contents(x)'
    BY <1>0 DEF Exact
  <2>1. CASE m = n
    BY <2>1
  <2>2. CASE m # n
    BY <2>2 DEF Exact
  <2> QED
    BY <2>1, <2>2
<1> QED
  BY <1>2, <1>3

-----------------------------------------------------------------------------
(***************************************************************************)
(* Types.                                                                  *)
(***************************************************************************)
TaskTypes ==
    /\ pc \in [Tasks -> PCs] /\ call \in [Tasks -> Sends \cup Receives \cup {None}]
    /\ id \in [Tasks -> Nat] /\ target \in [Tasks -> Tasks \cup {None}]
    /\ held \in [Tasks -> Msgs \cup {None}] /\ rmsg \in [Tasks -> Errors \cup Msgs]
    /\ st \in [Tasks -> {"running", "interruptible"}]
    /\ sig \in [Tasks -> BOOLEAN] /\ mssNull \in [Tasks -> BOOLEAN]
    /\ dying \in [Tasks -> [msgs : Seq(Msgs), cbytes : Int]]

SystemTypes ==
    /\ q \in Queues \cup {None} /\ seq \in Nat /\ lock \in Tasks \cup {None}
    /\ msg \in [Msgs -> Headers \cup {None}] /\ msgBytes \in Int /\ msgHdrs \in Int

LEMMA TypeParts == TypeOK <=> TaskTypes /\ SystemTypes
  BY DEF TypeOK, TaskTypes, SystemTypes

LEMMA TypePartsNext == TypeOK' <=> TaskTypes' /\ SystemTypes'
  BY DEF TypeOK, TaskTypes, SystemTypes

\* The end of a call.
LEMMA ReturnTypes ==
    ASSUME TypeOK, NEW t \in Tasks, NEW h \in Msgs \cup {None}, Return(t, h)
    PROVE  /\ pc' \in [Tasks -> PCs] /\ call' \in [Tasks -> Sends \cup Receives \cup {None}]
           /\ id' \in [Tasks -> Nat] /\ target' \in [Tasks -> Tasks \cup {None}]
           /\ held' \in [Tasks -> Msgs \cup {None}] /\ sig' \in [Tasks -> BOOLEAN]
           /\ msg' \in [Msgs -> Headers \cup {None}]
  BY DEF TypeOK, Return, Goto, PCs

\* A message of the queue, and the size of a message.
LEMMA Sized ==
    ASSUME TypeOK, NEW m \in Msgs, msg[m] # None
    PROVE  msg[m].size \in Nat /\ msg[m].type \in Nat
  BY MsgQueueAssumption DEF TypeOK, Headers

LEMMA ListedMessages ==
    ASSUME TypeOK, PlaceInv, q # None
    PROVE  \A i \in DOMAIN q.msgs : q.msgs[i] \in Msgs /\ msg[q.msgs[i]] # None
<1>1. q.msgs \in Seq(Msgs)
  BY QueueParts DEF TypeOK
<1>2. \A i \in DOMAIN q.msgs : q.msgs[i] \in Contents(InQueue)
  BY <1>1, ContentsOfQueue DEF Queued, Range
<1> QED
  BY <1>1, <1>2, PlacesOf DEF PlaceInv

LEMMA ListedTasks ==
    ASSUME TypeOK
    PROVE  Receivers \subseteq Tasks /\ Senders \subseteq Tasks
  BY QueueParts DEF TypeOK, Receivers, Senders, Range

-----------------------------------------------------------------------------
(***************************************************************************)
(* The steps that are made without ipc_lock.                               *)
(***************************************************************************)
LEMMA Unlocked ==
    ASSUME MsgInv, NEW t \in Tasks, TypeOK', Frame(t),
           UNCHANGED <<q, lock, rmsg, mssNull>>, Task(t)',
           \A u \in Tasks \ {t} : st'[u] = st[u],
           pc[t] \notin LockPcs /\ pc'[t] \notin LockPcs,
           Awaits(t) => Awaits(t)' /\ id'[t] = id[t],
           t \in Receivers => call'[t] = call[t],
           st'[t] = "interruptible" => /\ st[t] = "interruptible"
                                       /\ pc'[t] = pc[t] /\ call'[t] = call[t],
           \A m \in Range(Queued) : msg'[m] = msg[m],
           Apart', Exact', IsInjective(dying'[t].msgs)
    PROVE  MsgInv'
<1>0. /\ TypeOK /\ TaskInv /\ QueueInv /\ TargetInv /\ SleepInv
      /\ NoneWaitsForTaker /\ PlaceInv
  BY DEF MsgInv
<1>1. Receivers' = Receivers /\ Senders' = Senders /\ Queued' = Queued
  BY DEF Receivers, Senders, Queued
<1>2. SameLists(t)
  BY <1>1 DEF SameLists
<1>3. TaskInv'
  <2>1. \A u \in Tasks \ {t} : Task(u)'
    BY <1>0, <1>2, OthersKept
  <2> QED
    BY <2>1 DEF TaskInv, Task
<1>4. QueueInv'
  BY <1>0 DEF QueueInv
<1>5. TargetInv'
  <2> SUFFICES ASSUME NEW u \in Tasks, pc'[u] = "snd_wake"
               PROVE  /\ target'[u] \in Tasks /\ id'[target'[u]] = q'.seq
                      /\ pc'[target'[u]] \in {"rcv_sleep", "rcv_relock"}
    BY DEF TargetInv, Awaits
  <2>1. u # t /\ pc[u] = "snd_wake" /\ target'[u] = target[u]
    BY DEF Frame, LockPcs
  <2>2. PICK r \in Tasks : r = target[u] /\ Awaits(r) /\ id[r] = q.seq
    BY <1>0, <2>1 DEF TargetInv
  <2>3. pc'[r] \in {"rcv_sleep", "rcv_relock"} /\ id'[r] = id[r]
    BY <2>2 DEF Frame, Awaits
  <2> QED
    BY <2>1, <2>2, <2>3
<1>6. SleepInv'
  <2>1. st'[t] = "interruptible" =>
               \/ pc'[t] = "snd_sleep" /\ t \in Senders' /\ Full(q', call'[t].size)
               \/ pc'[t] = "rcv_sleep" /\ t \in Receivers'
               \/ pc'[t] = "rcv_sleep" /\ \E u \in Tasks \ {t} : pc[u] = "snd_wake" /\ target[u] = t
    BY <1>0, <1>1 DEF SleepInv, LockPcs
  <2>2. pc[t] # "snd_wake" /\ \A u \in Senders \ {t} : Full(q, call[u].size) => Full(q', call[u].size)
    BY DEF LockPcs
  <2> QED
    BY <1>0, <1>2, <2>1, <2>2, SleepersKept
<1>7. NoneWaitsForTaker'
  <2>1. \A r \in Receivers' : call'[r] = call[r]
    BY <1>0, <1>1, ListedTasks DEF Frame
  <2> QED
    BY <1>0, <1>1, <2>1, NoneWaitsKept
<1>8. PlaceInv'
  <2>1. \A u \in Tasks : IsInjective(dying'[u].msgs)
    BY <1>0 DEF Frame, PlaceInv
  <2> QED
    BY <1>0, <1>1, <2>1 DEF PlaceInv, Apart, Exact
<1> QED
  BY <1>3, <1>4, <1>5, <1>6, <1>7, <1>8 DEF MsgInv

\* What a step that moves no message leaves of PlaceInv.
LEMMA NothingMoved ==
    ASSUME PlaceInv, UNCHANGED <<msg, dying>>, Range(Queued)' = Range(Queued),
           \A u \in Tasks : /\ held'[u] = held[u]
                            /\ {rmsg'[u]} \cap Msgs = {rmsg[u]} \cap Msgs
    PROVE  Apart' /\ Exact'
<1>1. \A x \in Places \ {} : Contents(x)' = Contents(x)
  BY OtherPlaces
<1> QED
  BY <1>1, PlacesRest DEF PlaceInv, Apart, Exact

LEMMA SignalStep ==
    ASSUME MsgInv, NEW t \in Tasks, Signal(t)
    PROVE  MsgInv'
<1>0. TypeOK /\ TaskInv /\ PlaceInv /\ Task(t)
  BY DEF MsgInv, TaskInv, Task
<1>1. /\ UNCHANGED <<q, lock, msg, pc, call, id, target, held, rmsg, mssNull, dying>>
      /\ st[t] = "interruptible" /\ st' = [st EXCEPT ![t] = "running"]
      /\ sig' = [sig EXCEPT ![t] = TRUE] /\ UNCHANGED <<seq, msgBytes, msgHdrs>>
  BY DEF Signal, msgVars, callVars
<1>2. TypeOK'
  BY <1>0, <1>1 DEF TypeOK
<1>3. Frame(t)
  BY <1>1 DEF Frame
<1>4. pc[t] \notin LockPcs
  BY <1>1 DEF MsgInv, SleepInv, LockPcs
<1>5. Apart' /\ Exact'
  BY <1>0, <1>1, NothingMoved DEF Queued
<1>6. Task(t)'
  BY <1>0, <1>1 DEF Task, Locks, InCall, Listed, Hands, Awaits, Receivers, Senders
<1>7. st'[t] = "running" /\ \A u \in Tasks \ {t} : st'[u] = st[u]
  BY <1>0, <1>1 DEF TypeOK
<1>8. /\ Awaits(t) => Awaits(t)' /\ id'[t] = id[t]
      /\ IsInjective(dying'[t].msgs) /\ pc'[t] = pc[t]
  BY <1>0, <1>1 DEF Awaits, PlaceInv
<1> QED
  BY <1>1, <1>2, <1>3, <1>4, <1>5, <1>6, <1>7, <1>8, Unlocked

\* schedule() returns.
LEMMA ScheduleStep ==
    ASSUME MsgInv, NEW t \in Tasks, SndSchedule(t) \/ RcvSchedule(t)
    PROVE  MsgInv'
<1>0. TypeOK /\ TaskInv /\ PlaceInv /\ Task(t)
  BY DEF MsgInv, TaskInv, Task
<1>1. /\ UNCHANGED <<q, lock, msg, st, call, id, target, held, rmsg, mssNull, dying>>
      /\ UNCHANGED <<seq, msgBytes, msgHdrs, sig>> /\ st[t] = "running"
      /\ \/ pc[t] = "snd_sleep" /\ pc' = [pc EXCEPT ![t] = "snd_relock"]
         \/ pc[t] = "rcv_sleep" /\ pc' = [pc EXCEPT ![t] = "rcv_relock"]
  BY DEF SndSchedule, RcvSchedule, Goto, msgVars, callVars
<1>2. TypeOK'
  BY <1>0, <1>1 DEF TypeOK, PCs
<1>3. Frame(t) /\ pc'[t] = (IF pc[t] = "snd_sleep" THEN "snd_relock" ELSE "rcv_relock")
  BY <1>0, <1>1 DEF Frame, TypeOK
<1>4. pc[t] \notin LockPcs /\ pc'[t] \notin LockPcs
  BY <1>1, <1>3 DEF LockPcs
<1>5. Apart' /\ Exact'
  BY <1>0, <1>1, NothingMoved DEF Queued
<1>6. Task(t)'
  BY <1>0, <1>1, <1>3 DEF Task, Locks, InCall, Listed, Hands, Awaits, Receivers, Senders,
         LockPcs, SendPcs
<1>8. /\ Awaits(t) => Awaits(t)' /\ id'[t] = id[t]
      /\ IsInjective(dying'[t].msgs)
  BY <1>0, <1>1, <1>3 DEF Awaits, PlaceInv
<1> QED
  BY <1>1, <1>2, <1>3, <1>4, <1>5, <1>6, <1>8, Unlocked

\* load_msg: the message is in the hands of the sender.
LEMMA MsgSndStep ==
    ASSUME MsgInv, NEW t \in Tasks, NEW c \in Sends, MsgSnd(t, c)
    PROVE  MsgInv'
<1>0. TypeOK /\ TaskInv /\ PlaceInv /\ SleepInv /\ Task(t)
  BY DEF MsgInv, TaskInv, Task
<1>1. PICK m \in Msgs :
      /\ msg[m] = None /\ msg' = [msg EXCEPT ![m] = [type |-> c.type, size |-> c.size]]
      /\ held' = [held EXCEPT ![t] = m]
  BY DEF MsgSnd
<1>2. /\ pc[t] = "idle" /\ pc' = [pc EXCEPT ![t] = "snd_lock"] /\ q # None
      /\ call' = [call EXCEPT ![t] = c] /\ id' = [id EXCEPT ![t] = q.seq]
      /\ UNCHANGED <<q, seq, lock, target, msgBytes, msgHdrs, st, sig, rmsg, mssNull, dying>>
  BY DEF MsgSnd, Goto
<1>3. [type |-> c.type, size |-> c.size] \in Headers /\ q.seq \in Nat
  BY <1>0, <1>2, QueueParts, MsgQueueAssumption DEF Headers, TypeOK
<1>4. TypeOK'
  BY <1>0, <1>1, <1>2, <1>3 DEF TypeOK, PCs
<1>5. Frame(t) /\ pc'[t] = "snd_lock" /\ held'[t] = m /\ call'[t] = c
  BY <1>0, <1>1, <1>2 DEF Frame, TypeOK
<1>6. pc[t] \notin LockPcs /\ pc'[t] \notin LockPcs /\ ~Awaits(t)
  BY <1>2, <1>5 DEF LockPcs, Awaits
<1>7. msg'[m] # None /\ \A n \in Msgs : n # m => msg'[n] = msg[n]
  BY <1>0, <1>1, <1>3, MsgQueueAssumption DEF TypeOK
<1>8. held[t] = None /\ None \notin Msgs
  BY <1>0, <1>2, MsgQueueAssumption DEF Task, Hands, SendPcs, LockPcs
<1>9. Apart' /\ Exact'
  <2>1. \A x \in Places \ {HeldBy(t)} : Contents(x)' = Contents(x)
    <3>1. Queued' = Queued
      BY <1>2 DEF Queued
    <3> QED
      BY <1>2, <1>5, <3>1, OtherPlaces DEF Frame
  <2>2. Contents(HeldBy(t))' = Contents(HeldBy(t)) \cup {m}
    BY <1>5, <1>8, ContentsOf, ContentsOfNext
  <2> QED
    BY <1>0, <1>1, <1>7, <2>1, <2>2, PlacesFilled, PlacesOf DEF PlaceInv, Apart, Exact
<1>10. Task(t)'
  <2>1. held'[t] # None
    BY <1>5, <1>8
  <2> QED
    BY <1>0, <1>2, <1>5, <2>1 DEF Task, Locks, InCall, Listed, Hands, Awaits, Receivers,
           Senders, LockPcs, SendPcs
<1>11. \A n \in Range(Queued) : msg'[n] = msg[n]
  <2>1. m \notin Contents(InQueue) /\ Range(Queued) \subseteq Msgs
    <3>1. Range(Queued) \subseteq Msgs
      BY <1>0, QueueParts DEF Queued, Range, TypeOK
    <3> QED
      BY <1>0, <1>1, <3>1, PlacesOf DEF PlaceInv
  <2> QED
    BY <1>7, <2>1, ContentsOfQueue
<1>12. /\ IsInjective(dying'[t].msgs) /\ st[t] # "interruptible" /\ t \notin Receivers
  BY <1>0, <1>2, <1>6 DEF PlaceInv, SleepInv, Task, Listed
<1> QED
  BY <1>2, <1>4, <1>5, <1>6, <1>9, <1>10, <1>11, <1>12, Unlocked

LEMMA MsgRcvStep ==
    ASSUME MsgInv, NEW t \in Tasks, NEW c \in Receives, MsgRcv(t, c)
    PROVE  MsgInv'
<1>0. TypeOK /\ TaskInv /\ PlaceInv /\ SleepInv /\ Task(t)
  BY DEF MsgInv, TaskInv, Task
<1>2. /\ pc[t] = "idle" /\ pc' = [pc EXCEPT ![t] = "rcv_lock"] /\ q # None
      /\ call' = [call EXCEPT ![t] = c] /\ id' = [id EXCEPT ![t] = q.seq]
      /\ UNCHANGED <<q, seq, lock, target, msg, msgBytes, msgHdrs, held, st, sig, rmsg,
                     mssNull, dying>>
  BY DEF MsgRcv, Goto, msgVars
<1>4. TypeOK'
  BY <1>0, <1>2, QueueParts DEF TypeOK, PCs
<1>5. Frame(t) /\ pc'[t] = "rcv_lock" /\ call'[t] = c
  BY <1>0, <1>2 DEF Frame, TypeOK
<1>6. pc[t] \notin LockPcs /\ pc'[t] \notin LockPcs /\ ~Awaits(t)
  BY <1>2, <1>5 DEF LockPcs, Awaits
<1>9. Apart' /\ Exact'
  BY <1>0, <1>2, NothingMoved DEF Queued
<1>10. Task(t)'
  BY <1>0, <1>2, <1>5 DEF Task, Locks, InCall, Listed, Hands, Awaits, Receivers,
         Senders, LockPcs, SendPcs
<1>12. /\ IsInjective(dying'[t].msgs) /\ st[t] # "interruptible" /\ t \notin Receivers
  BY <1>0, <1>2, <1>6 DEF PlaceInv, SleepInv, Task, Listed
<1> QED
  BY <1>2, <1>4, <1>5, <1>6, <1>9, <1>10, <1>12, Unlocked

\* What is freed at the end of a call was in nobody else's hands.
LEMMA Freed ==
    ASSUME TypeOK, PlaceInv, NEW t \in Tasks, held[t] \in Msgs, Frame(t),
           msg' = [msg EXCEPT ![held[t]] = None], held'[t] = None, dying' = dying,
           \A u \in Tasks : {rmsg'[u]} \cap Msgs = {rmsg[u]} \cap Msgs,
           Range(Queued)' = Range(Queued)
    PROVE  /\ Apart' /\ Exact'
           /\ \A m \in Range(Queued) : msg'[m] = msg[m]
<1>1. \A x \in Places \ {HeldBy(t)} : Contents(x)' = Contents(x)
  BY OtherPlaces DEF Frame
<1>2. Contents(HeldBy(t))' = Contents(HeldBy(t)) \ {held[t]}
  BY ContentsOf, ContentsOfNext, MsgQueueAssumption
<1>3. \A m \in Msgs : msg'[m] = IF m \in {held[t]} THEN None ELSE msg[m]
  BY DEF TypeOK
<1>4. {held[t]} \subseteq Contents(HeldBy(t))
  BY ContentsOf
<1>5. Apart' /\ Exact'
  <2>1. Apart /\ Exact /\ HeldBy(t) \in Places
    BY PlacesOf DEF PlaceInv, Apart, Exact
  <2> QED
    BY ONLY <1>1, <1>2, <1>3, <1>4, <2>1, PlacesFreed
<1>6. Range(Queued) \subseteq Msgs
  BY QueueParts DEF Queued, Range, TypeOK
<1>7. held[t] \notin Range(Queued)
  BY <1>4, ContentsOfQueue, PlacesOf DEF PlaceInv
<1> QED
  BY <1>3, <1>5, <1>6, <1>7

\* out_success: the message goes to the user and is freed.
LEMMA StoreMsgStep ==
    ASSUME MsgInv, NEW t \in Tasks, StoreMsg(t)
    PROVE  MsgInv'
<1>0. TypeOK /\ TaskInv /\ PlaceInv /\ SleepInv /\ Task(t)
  BY DEF MsgInv, TaskInv, Task
<1>1. /\ pc[t] = "rcv_store" /\ Return(t, held[t])
      /\ UNCHANGED <<q, seq, lock, msgBytes, msgHdrs, st, rmsg, mssNull, dying>>
  BY DEF StoreMsg
<1>2. held[t] \in Msgs /\ held[t] # None
  BY <1>0, <1>1 DEF Task, Hands, SendPcs, LockPcs, TypeOK
<1>3. /\ pc' = [pc EXCEPT ![t] = "idle"] /\ call' = [call EXCEPT ![t] = None]
      /\ id' = [id EXCEPT ![t] = 0] /\ target' = [target EXCEPT ![t] = None]
      /\ held' = [held EXCEPT ![t] = None] /\ msg' = [msg EXCEPT ![held[t]] = None]
  BY <1>1, <1>2 DEF Return, Goto
<1>4. TypeOK'
  BY <1>0, <1>1, <1>2, ReturnTypes DEF TypeOK
<1>5. Frame(t) /\ pc'[t] = "idle" /\ held'[t] = None
  BY <1>0, <1>1, <1>3 DEF Frame, TypeOK
<1>6. pc[t] \notin LockPcs /\ pc'[t] \notin LockPcs /\ ~Awaits(t)
  BY <1>1, <1>5 DEF LockPcs, Awaits
<1>7. Apart' /\ Exact' /\ \A m \in Range(Queued) : msg'[m] = msg[m]
  <2>1. Queued' = Queued
    BY <1>1 DEF Queued
  <2> QED
    BY <1>0, <1>1, <1>2, <1>3, <1>5, <2>1, Freed
<1>8. Task(t)'
  BY <1>0, <1>1, <1>5 DEF Task, Locks, InCall, Listed, Hands, Awaits, Receivers,
         Senders, LockPcs, SendPcs
<1>9. IsInjective(dying'[t].msgs) /\ st[t] # "interruptible" /\ t \notin Receivers
  BY <1>0, <1>1, <1>6 DEF PlaceInv, SleepInv, Task, Listed
<1> QED
  BY <1>1, <1>4, <1>5, <1>6, <1>7, <1>8, <1>9, Unlocked

\* The end of freeque: its messages were in no other place.
LEMMA RmidFreeStep ==
    ASSUME MsgInv, NEW t \in Tasks, RmidFree(t)
    PROVE  MsgInv'
<1>0. TypeOK /\ TaskInv /\ PlaceInv /\ SleepInv /\ Task(t)
  BY DEF MsgInv, TaskInv, Task
<1>1. /\ pc[t] = "rm_free" /\ pc' = [pc EXCEPT ![t] = "idle"]
      /\ msg' = [m \in Msgs |-> IF m \in Range(dying[t].msgs) THEN None ELSE msg[m]]
      /\ dying' = [dying EXCEPT ![t] = Nothing]
      /\ UNCHANGED <<q, seq, lock, call, id, target, held, st, sig, rmsg, mssNull>>
  BY DEF RmidFree, callVars, Goto
<1>2. msgBytes' \in Int /\ msgHdrs' \in Int
  BY <1>0 DEF RmidFree, FreedBytes, TypeOK
<1>3. Nothing \in [msgs : Seq(Msgs), cbytes : Int] /\ Nothing.msgs = <<>>
  BY DEF Nothing
<1>4. TypeOK'
  BY <1>0, <1>1, <1>2, <1>3 DEF TypeOK, PCs
<1>5. Frame(t) /\ pc'[t] = "idle" /\ dying'[t] = Nothing
  BY <1>0, <1>1 DEF Frame, TypeOK
<1>6. pc[t] \notin LockPcs /\ pc'[t] \notin LockPcs /\ ~Awaits(t)
  BY <1>1, <1>5 DEF LockPcs, Awaits
<1>7. Apart' /\ Exact'
  <2>1. \A x \in Places \ {FreedBy(t)} : Contents(x)' = Contents(x)
    <3>1. Queued' = Queued
      BY <1>1 DEF Queued
    <3> QED
      BY <1>1, <1>5, <3>1, OtherPlaces DEF Frame
  <2>2. Contents(FreedBy(t))' = Contents(FreedBy(t)) \ Range(dying[t].msgs)
    BY <1>3, <1>5, ContentsOf, ContentsOfNext DEF Range
  <2>3. Range(dying[t].msgs) \subseteq Contents(FreedBy(t))
    BY ContentsOf
  <2>4. \A m \in Msgs : msg'[m] = IF m \in Range(dying[t].msgs) THEN None ELSE msg[m]
    BY <1>1
  <2>5. Apart /\ Exact /\ FreedBy(t) \in Places
    BY <1>0, PlacesOf DEF PlaceInv, Apart, Exact
  <2> QED
    BY ONLY <2>1, <2>2, <2>3, <2>4, <2>5, PlacesFreed
<1>8. Task(t)'
  BY <1>0, <1>1, <1>5 DEF Task, Locks, InCall, Listed, Hands, Awaits, Receivers,
         Senders, LockPcs, SendPcs
<1>9. /\ st[t] # "interruptible" /\ t \notin Receivers
      /\ \A u \in Tasks \ {t} : st'[u] = st[u]
  BY <1>0, <1>1, <1>6 DEF SleepInv, Task, Listed
<1>10. IsInjective(dying'[t].msgs)
  BY <1>3, <1>5 DEF IsInjective
<1>11. \A m \in Range(Queued) : msg'[m] = msg[m]
  <2>1. Range(Queued) \subseteq Msgs
    BY <1>0, QueueParts DEF Queued, Range, TypeOK
  <2>2. Range(Queued) \cap Range(dying[t].msgs) = {}
    BY <1>0, ContentsOf, ContentsOfQueue, PlacesOf DEF PlaceInv
  <2> QED
    BY <1>1, <2>1, <2>2
<1> QED
  BY <1>1, <1>4, <1>5, <1>6, <1>7, <1>8, <1>9, <1>10, <1>11, Unlocked

-----------------------------------------------------------------------------
(***************************************************************************)
(* The steps that take ipc_lock: msgget and msgctl.                        *)
(***************************************************************************)
LEMMA Locked ==
    ASSUME MsgInv, NEW t \in Tasks, lock = None, TypeOK', Frame(t), SameLists(t),
           \A u \in Tasks \ {t} : rmsg'[u] = rmsg[u] /\ mssNull'[u] = mssNull[u],
           lock' = None \/ (lock' = t /\ pc'[t] = "snd_pipe"), Task(t)',
           \A u \in Tasks \ {t} : st'[u] \in {st[u], "running"},
           \A u \in Senders \ {t} : st'[u] = "interruptible" /\ Full(q, call[u].size)
                                        => Full(q', call[u].size),
           st'[t] = "interruptible" =>
               \/ pc'[t] = "snd_sleep" /\ t \in Senders' /\ Full(q', call'[t].size)
               \/ pc'[t] = "rcv_sleep" /\ t \in Receivers',
           QueueInv', NoneWaitsForTaker', PlaceInv'
    PROVE  MsgInv'
<1>0. TypeOK /\ TaskInv /\ SleepInv /\ None \notin Tasks
  BY MsgQueueAssumption DEF MsgInv
<1>1. \A u \in Tasks : pc[u] # "snd_wake"
  BY <1>0 DEF TaskInv, Locks, LockPcs
<1>2. TaskInv'
  <2>1. \A u \in Tasks \ {t} : lock' = u <=> lock = u
    BY <1>0
  <2>2. \A u \in Tasks \ {t} : Task(u)'
    BY <1>0, <2>1, OthersKept
  <2> QED
    BY <2>2 DEF TaskInv, Task
<1>3. TargetInv'
  BY <1>0, <1>2, NoTargets
<1>4. SleepInv'
  BY <1>0, <1>1, SleepersKept
<1> QED
  BY <1>2, <1>3, <1>4 DEF MsgInv

\* newque: a queue without anything.
LEMMA MsgGetStep ==
    ASSUME MsgInv, NEW t \in Tasks, MsgGet(t)
    PROVE  MsgInv'
<1>0. TypeOK /\ TaskInv /\ PlaceInv /\ SleepInv /\ Task(t)
  BY DEF MsgInv, TaskInv, Task
<1>1. /\ pc[t] = "idle" /\ lock = None /\ q = None /\ seq' = seq + 1
      /\ UNCHANGED <<lock, msg, msgBytes, msgHdrs, pc, call, id, target, held, st, sig, rmsg,
                     mssNull, dying>>
  BY DEF MsgGet, msgVars, callVars
<1>2. PICK s \in Settings :
        q' = [seq |-> seq, qbytes |-> s.qbytes, mode |-> s.mode, msgs |-> <<>>, cbytes |-> 0,
              qnum |-> 0, receivers |-> <<>>, senders |-> <<>>]
  BY DEF MsgGet
<1>3. /\ q' \in Queues /\ q'.msgs = <<>> /\ q'.receivers = <<>> /\ q'.senders = <<>>
  <2>1. s.qbytes \in Nat /\ s.mode \in SUBSET {"r", "w"} /\ seq \in Nat
    BY <1>0, MsgQueueAssumption DEF TypeOK
  <2> QED
    BY <1>2, <2>1 DEF Queues
<1>4. TypeOK'
  BY <1>0, <1>1, <1>3 DEF TypeOK
<1>5. q' # None
  BY <1>3, QueueParts
<1>6. /\ Receivers' = {} /\ Receivers = {} /\ Senders' = {} /\ Senders = {}
      /\ Queued' = <<>> /\ Queued = <<>>
  BY <1>1, <1>3, <1>5 DEF Receivers, Senders, Queued, Range
<1>7. Frame(t) /\ SameLists(t)
  BY <1>1, <1>6 DEF Frame, SameLists
<1>8. Task(t)'
  BY <1>0, <1>1, <1>6 DEF Task, Locks, InCall, Listed, Hands, Awaits
<1>9. QueueInv'
  BY <1>1, <1>3, <1>5 DEF QueueInv, IsInjective
<1>10. NoneWaitsForTaker'
  BY <1>3 DEF NoneWaitsForTaker, Range
<1>11. PlaceInv'
  <2>1. Apart' /\ Exact'
    BY <1>0, <1>1, <1>6, NothingMoved
  <2> QED
    BY <1>0, <1>1, <1>6, <2>1 DEF PlaceInv, Apart, Exact
<1>12. st[t] # "interruptible"
  BY <1>0, <1>1 DEF SleepInv
<1> QED
  BY <1>1, <1>4, <1>6, <1>7, <1>8, <1>9, <1>10, <1>11, <1>12, Locked

\* IPC_SET: everyone is woken and stays on its list.
LEMMA MsgCtlSetStep ==
    ASSUME MsgInv, NEW t \in Tasks, MsgCtlSet(t)
    PROVE  MsgInv'
<1>0. TypeOK /\ TaskInv /\ PlaceInv /\ SleepInv /\ Task(t) /\ NoneWaitsForTaker /\ QueueInv
  BY DEF MsgInv, TaskInv, Task
<1>1. /\ pc[t] = "idle" /\ lock = None /\ q # None
      /\ rmsg' = Expunged(q.receivers, "EAGAIN") /\ st' = Woken(SetWakes)
      /\ UNCHANGED <<seq, lock, msg, msgBytes, msgHdrs, pc, call, id, target, held, sig,
                     mssNull, dying>>
  BY DEF MsgCtlSet, msgVars, callVars
<1>2. PICK s \in Settings : q' = [q EXCEPT !.qbytes = s.qbytes, !.mode = s.mode]
  BY DEF MsgCtlSet
<1>3. /\ q \in Queues /\ q' \in Queues /\ q'.msgs = q.msgs /\ q'.receivers = q.receivers
      /\ q'.senders = q.senders /\ q'.seq = q.seq
  <2>1. q \in Queues
    BY <1>0, <1>1 DEF TypeOK
  <2>2. s.qbytes \in Nat /\ s.mode \in SUBSET {"r", "w"}
    BY MsgQueueAssumption
  <2> QED
    BY <1>2, <2>1, <2>2 DEF Queues
<1>4. q' # None /\ q.receivers \in Seq(Tasks) /\ q.senders \in Seq(Tasks)
  BY <1>3, QueueParts
<1>5. Receivers' = Receivers /\ Senders' = Senders /\ Queued' = Queued
  BY <1>1, <1>3, <1>4 DEF Receivers, Senders, Queued
<1>6. rmsg' = rmsg
  <2>1. \A u \in Tasks : u \in Range(q.receivers) => rmsg[u] = "EAGAIN"
    BY <1>0, <1>1 DEF TaskInv, Listed, Receivers
  <2> QED
    BY <1>0, <1>1, <2>1 DEF Expunged, TypeOK
<1>7. /\ \A u \in Tasks : st'[u] \in {st[u], "running"}
      /\ \A u \in Senders : st'[u] = "running"
      /\ st' \in [Tasks -> {"running", "interruptible"}]
  <2>1. Range(q.senders) \subseteq Range(SetWakes)
    <3>1. PICK a \in Seq(Tasks), b \in Seq(Tasks) : a = q.receivers /\ b = q.senders
      BY <1>4
    <3>2. /\ a \o b \in Seq(Tasks) /\ Len(a \o b) = Len(a) + Len(b)
          /\ \A i \in 1..Len(b) : (a \o b)[Len(a) + i] = b[i]
      BY ONLY a \in Seq(Tasks), b \in Seq(Tasks), JoinedElements
    <3>3. ASSUME NEW i \in 1..Len(b) PROVE b[i] \in Range(a \o b)
      <4>1. Len(a) + i \in DOMAIN (a \o b)
        BY <3>2
      <4> QED
        BY <3>2, <4>1 DEF Range
    <3>4. \A x \in Range(b) : \E i \in 1..Len(b) : x = b[i]
      BY DEF Range
    <3>5. Range(b) \subseteq Range(a \o b)
      BY <3>3, <3>4
    <3> QED
      BY <3>1, <3>5 DEF SetWakes
  <2>2. Senders \subseteq Tasks /\ Senders = Range(q.senders)
    BY <1>0, <1>1, ListedTasks DEF Senders
  <2> QED
    BY <1>0, <1>1, <2>1, <2>2 DEF Woken, TypeOK
<1>8. TypeOK'
  BY <1>0, <1>1, <1>3, <1>6, <1>7 DEF TypeOK
<1>9. Frame(t) /\ SameLists(t)
  BY <1>1, <1>3, <1>5 DEF Frame, SameLists
<1>10. Task(t)'
  BY <1>0, <1>1, <1>3, <1>5, <1>6 DEF Task, Locks, InCall, Listed, Hands, Awaits
<1>11. QueueInv'
  BY <1>0, <1>1, <1>3 DEF QueueInv
<1>12. NoneWaitsForTaker'
  BY <1>0, <1>1, <1>5, NoneWaitsKept
<1>13. PlaceInv'
  <2>1. Apart' /\ Exact'
    BY <1>0, <1>1, <1>5, <1>6, NothingMoved
  <2> QED
    BY <1>0, <1>1, <1>5, <2>1 DEF PlaceInv, Apart, Exact
<1>14. st'[t] # "interruptible"
  BY <1>0, <1>1, <1>7 DEF SleepInv
<1> QED
  BY <1>1, <1>6, <1>7, <1>8, <1>9, <1>10, <1>11, <1>12, <1>13, <1>14, Locked

\* IPC_RMID: everyone is told and woken, and the messages are with the caller.
LEMMA MsgCtlRmidStep ==
    ASSUME MsgInv, NEW t \in Tasks, MsgCtlRmid(t)
    PROVE  MsgInv'
<1>0. /\ TypeOK /\ TaskInv /\ PlaceInv /\ SleepInv /\ Task(t) /\ NoneWaitsForTaker /\ QueueInv
      /\ None \notin Tasks
  BY MsgQueueAssumption DEF MsgInv, TaskInv, Task
<1>1. /\ pc[t] = "idle" /\ lock = None /\ q # None /\ q' = None
      /\ rmsg' = Expunged(q.receivers, "EIDRM") /\ st' = Woken(q.receivers \o q.senders)
      /\ mssNull' = [u \in Tasks |-> u \in Range(q.senders) \/ mssNull[u]]
      /\ dying' = [dying EXCEPT ![t] = [msgs |-> q.msgs, cbytes |-> q.cbytes]]
      /\ pc' = [pc EXCEPT ![t] = "rm_free"]
      /\ UNCHANGED <<seq, lock, msg, msgBytes, msgHdrs, call, id, target, held, sig>>
  BY DEF MsgCtlRmid, msgVars, callVars, Goto
<1>2. /\ q \in Queues /\ q.receivers \in Seq(Tasks) /\ q.senders \in Seq(Tasks)
      /\ q.msgs \in Seq(Msgs) /\ q.cbytes \in Int
  BY <1>0, <1>1, QueueParts DEF TypeOK
<1>3. /\ Receivers = Range(q.receivers) /\ Senders = Range(q.senders) /\ Queued = q.msgs
      /\ Receivers' = {} /\ Senders' = {} /\ Queued' = <<>>
      /\ Receivers \subseteq Tasks /\ Senders \subseteq Tasks
  BY <1>0, <1>1, ListedTasks DEF Receivers, Senders, Queued
<1>4. /\ \A u \in Receivers \cup Senders : st'[u] = "running"
      /\ \A u \in Tasks : st'[u] \in {st[u], "running"}
  <2>1. PICK a \in Seq(Tasks), b \in Seq(Tasks) : a = q.receivers /\ b = q.senders
    BY <1>2
  <2>2. /\ a \o b \in Seq(Tasks) /\ Len(a \o b) = Len(a) + Len(b)
        /\ \A i \in 1..Len(a) : (a \o b)[i] = a[i]
        /\ \A i \in 1..Len(b) : (a \o b)[Len(a) + i] = b[i]
    BY ONLY a \in Seq(Tasks), b \in Seq(Tasks), JoinedElements
  <2>3. ASSUME NEW i \in 1..Len(b) PROVE b[i] \in Range(a \o b)
    <3>1. Len(a) + i \in DOMAIN (a \o b)
      BY <2>2
    <3> QED
      BY <2>2, <3>1 DEF Range
  <2>4. ASSUME NEW i \in 1..Len(a) PROVE a[i] \in Range(a \o b)
    <3>1. i \in DOMAIN (a \o b)
      BY <2>2
    <3> QED
      BY <2>2, <3>1 DEF Range
  <2>5. /\ \A x \in Range(b) : \E i \in 1..Len(b) : x = b[i]
        /\ \A x \in Range(a) : \E i \in 1..Len(a) : x = a[i]
    BY DEF Range
  <2>6. Range(a) \cup Range(b) \subseteq Range(a \o b)
    BY <2>3, <2>4, <2>5
  <2> QED
    BY <1>1, <1>3, <2>1, <2>6 DEF Woken
<1>5. \A u \in Tasks : rmsg'[u] = IF u \in Receivers THEN "EIDRM" ELSE rmsg[u]
  BY <1>1, <1>3 DEF Expunged
<1>6. /\ pc'[t] = "rm_free" /\ \A u \in Tasks \ {t} : pc'[u] = pc[u]
      /\ dying'[t].msgs = q.msgs /\ \A u \in Tasks \ {t} : dying'[u] = dying[u]
      /\ \A u \in Tasks : mssNull'[u] = (u \in Senders \/ mssNull[u])
  BY <1>0, <1>1, <1>3 DEF TypeOK
<1>7. TypeOK'
  <2>1. st' \in [Tasks -> {"running", "interruptible"}]
    BY <1>0, <1>1 DEF Woken, TypeOK
  <2>2. rmsg' \in [Tasks -> Errors \cup Msgs]
    BY <1>0, <1>1 DEF Expunged, TypeOK, Errors
  <2>3. dying' \in [Tasks -> [msgs : Seq(Msgs), cbytes : Int]]
    BY <1>0, <1>1, <1>2 DEF TypeOK
  <2> QED
    BY <1>0, <1>1, <2>1, <2>2, <2>3 DEF TypeOK, PCs
<1>8. TaskInv'
  <2> SUFFICES ASSUME NEW u \in Tasks PROVE Locks(u)' /\ InCall(u)' /\ Listed(u)' /\ Hands(u)'
    BY DEF TaskInv
  <2>1. Locks(u) /\ InCall(u) /\ Listed(u) /\ Hands(u)
    BY <1>0 DEF TaskInv
  <2>2. CASE u = t
    BY <1>0, <1>1, <1>3, <1>5, <1>6, <2>1, <2>2 DEF Locks, InCall, Listed, Hands, Awaits, LockPcs, SendPcs
  <2>3. CASE u # t
    BY <1>0, <1>1, <1>3, <1>5, <1>6, <2>1, <2>3 DEF Locks, InCall, Listed, Hands, Awaits
  <2> QED
    BY <2>2, <2>3
<1>9. QueueInv' /\ NoneWaitsForTaker'
  BY <1>1 DEF QueueInv, NoneWaitsForTaker
<1>10. TargetInv'
  BY <1>0, <1>1, <1>8, NoTargets
<1>11. SleepInv'
  <2>1. \A u \in Tasks : pc[u] # "snd_wake"
    BY <1>0, <1>1 DEF TaskInv, Locks, LockPcs
  <2>2. \A u \in Tasks : st[u] = "interruptible" => u \in Receivers \cup Senders
    BY <1>0, <2>1 DEF SleepInv
  <2>3. \A u \in Tasks : st'[u] # "interruptible"
    BY <1>4, <2>2
  <2> QED
    BY <2>3 DEF SleepInv
<1>12. PlaceInv'
  <2>1. dying[t].msgs = <<>> /\ Range(<<>>) = {}
    BY <1>0, <1>1 DEF Task, Hands, Nothing, Range
  <2>2. /\ Contents(InQueue) = Range(q.msgs) /\ Contents(InQueue)' = {}
        /\ Contents(FreedBy(t)) = {} /\ Contents(FreedBy(t))' = Range(q.msgs)
    BY <1>3, <1>6, <2>1, ContentsOfQueue, ContentsOf, ContentsOfNext
  <2>3. \A x \in Places \ {InQueue, FreedBy(t)} : Contents(x)' = Contents(x)
    <3>1. \A u \in Tasks : {rmsg'[u]} \cap Msgs = {rmsg[u]} \cap Msgs
      <4>1. \A u \in Receivers : rmsg[u] = "EAGAIN"
        BY <1>0, <1>3 DEF TaskInv, Listed
      <4>2. "EIDRM" \notin Msgs /\ "EAGAIN" \notin Msgs
        BY MsgQueueAssumption DEF Errors
      <4> QED
        BY <1>5, <4>1, <4>2
    <3> QED
      BY <1>1, <1>6, <3>1, OtherPlaces
  <2>4. Apart /\ Exact /\ InQueue \in Places /\ FreedBy(t) \in Places /\ InQueue # FreedBy(t)
    BY <1>0, PlacesOf DEF PlaceInv, Apart, Exact
  <2>5. /\ Contents(InQueue)' = Contents(InQueue) \ Range(q.msgs)
        /\ Contents(FreedBy(t))' = Contents(FreedBy(t)) \cup Range(q.msgs)
        /\ Range(q.msgs) \subseteq Contents(InQueue) /\ msg' = msg
    BY <1>1, <2>2
  <2>6. Apart' /\ Exact'
    BY ONLY <2>3, <2>4, <2>5, PlacesMoved
  <2>7. IsInjective(Queued)' /\ \A u \in Tasks : IsInjective(dying'[u].msgs)
    <3>1. IsInjective(<<>>)
      BY DEF IsInjective
    <3> QED
      BY <1>0, <1>3, <1>6, <3>1 DEF PlaceInv
  <2> QED
    BY <2>6, <2>7 DEF PlaceInv, Apart, Exact
<1> QED
  BY <1>7, <1>8, <1>9, <1>10, <1>11, <1>12 DEF MsgInv

-----------------------------------------------------------------------------
(***************************************************************************)
(* The ends of msgsnd and msgrcv under ipc_lock.                           *)
(***************************************************************************)
LEMMA Returned ==
    ASSUME MsgInv, NEW t \in Tasks, Return(t, held[t]), lock = None, lock' = None,
           pc[t] # "rm_free",
           q' \in Queues \cup {None}, QueueInv', SameLists(t),
           t \notin Receivers' \cup Senders', Receivers' \subseteq Receivers,
           Queued' = Queued,
           q' = q \/ (q'.cbytes = q.cbytes /\ q'.qnum = q.qnum /\ q'.qbytes = q.qbytes),
           rmsg' \in [Tasks -> Errors \cup Msgs], rmsg'[t] = "EAGAIN", rmsg[t] \in Errors,
           \A u \in Tasks \ {t} : rmsg'[u] = rmsg[u],
           mssNull' \in [Tasks -> BOOLEAN], \A u \in Tasks \ {t} : mssNull'[u] = mssNull[u],
           pc[t] \notin {"snd_sleep", "rcv_sleep"},
           UNCHANGED <<seq, msgBytes, msgHdrs, st, dying>>
    PROVE  MsgInv'
<1>0. /\ TypeOK /\ TaskInv /\ PlaceInv /\ SleepInv /\ Task(t) /\ NoneWaitsForTaker
      /\ None \notin Tasks \cup Msgs
  BY MsgQueueAssumption DEF MsgInv, TaskInv, Task
<1>1. /\ pc' = [pc EXCEPT ![t] = "idle"] /\ call' = [call EXCEPT ![t] = None]
      /\ id' = [id EXCEPT ![t] = 0] /\ target' = [target EXCEPT ![t] = None]
      /\ held' = [held EXCEPT ![t] = None]
      /\ msg' = IF held[t] = None THEN msg ELSE [msg EXCEPT ![held[t]] = None]
  BY DEF Return, Goto
<1>2. TypeOK'
  <2>1. held[t] \in Msgs \cup {None}
    BY <1>0 DEF TypeOK
  <2> QED
    BY <1>0, <2>1, ReturnTypes DEF TypeOK
<1>3. Frame(t) /\ pc'[t] = "idle" /\ held'[t] = None
  BY <1>0, <1>1 DEF Frame, TypeOK
<1>4. \A u \in Tasks : {rmsg'[u]} \cap Msgs = {rmsg[u]} \cap Msgs
  <2>1. "EAGAIN" \notin Msgs /\ rmsg[t] \notin Msgs
    BY MsgQueueAssumption DEF Errors
  <2> QED
    BY <2>1
<1>5. Apart' /\ Exact' /\ \A m \in Range(Queued) : msg'[m] = msg[m]
  <2>1. CASE held[t] = None
    <3>1. msg' = msg /\ \A u \in Tasks : held'[u] = held[u]
      BY <1>1, <1>3, <2>1 DEF Frame
    <3> QED
      BY <1>0, <1>4, <3>1, NothingMoved
  <2>2. CASE held[t] # None
    <3>1. held[t] \in Msgs /\ msg' = [msg EXCEPT ![held[t]] = None]
      BY <1>0, <1>1, <2>2 DEF TypeOK
    <3> QED
      BY <1>0, <1>3, <1>4, <3>1, Freed
  <2> QED
    BY <2>1, <2>2
<1>6. PlaceInv'
  BY <1>0, <1>5 DEF PlaceInv, Apart, Exact
<1>7. NoneWaitsForTaker'
  <2>1. \A r \in Receivers' : call'[r] = call[r]
    BY <1>0, <1>3, ListedTasks DEF Frame
  <2> QED
    BY <1>0, <1>5, <2>1, NoneWaitsKept
<1>8. Task(t)'
  <2>1. dying'[t] = Nothing
    BY <1>0 DEF Task, Hands
  <2> QED
    BY <1>0, <1>3, <2>1 DEF Task, Locks, InCall, Listed, Hands, Awaits, LockPcs, SendPcs
<1>9. st'[t] # "interruptible"
  BY <1>0 DEF SleepInv
<1>10. \A u \in Senders \ {t} : Full(q, call[u].size) => Full(q', call[u].size)
  BY DEF Full
<1> QED
  BY <1>2, <1>3, <1>6, <1>7, <1>8, <1>9, <1>10, Locked

-----------------------------------------------------------------------------
(***************************************************************************)
(* msgsnd under ipc_lock.                                                  *)
(***************************************************************************)

\* A task that may go on under the lock is at none of the places where it sleeps.
LEMMA SndGone ==
    ASSUME MsgInv, NEW t \in Tasks, pc[t] \in {"snd_lock", "snd_relock"}, lock = None, q # None,
           NEW ss \in Seq(Tasks), IsInjective(ss), Range(ss) = Senders \ {t},
           q' = [q EXCEPT !.senders = ss], Return(t, held[t]), UNCHANGED <<lock, st>>,
           mssNull' = [mssNull EXCEPT ![t] = FALSE],
           UNCHANGED <<seq, msgBytes, msgHdrs, rmsg, dying>>
    PROVE  MsgInv'
<1>0. TypeOK /\ TaskInv /\ Task(t) /\ QueueInv /\ q \in Queues
  BY DEF MsgInv, TaskInv, Task, TypeOK
<1>1. /\ q' \in Queues /\ q'.senders = ss /\ q'.receivers = q.receivers
      /\ q'.msgs = q.msgs /\ q'.seq = q.seq
      /\ q'.qbytes = q.qbytes /\ q'.cbytes = q.cbytes /\ q'.qnum = q.qnum
  BY <1>0, NewSenders
<1>2. q' # None
  BY <1>1, QueueParts
<1>3. /\ Receivers' = Receivers /\ Senders' = Senders \ {t} /\ Queued' = Queued
  BY <1>1, <1>2 DEF Receivers, Senders, Queued
<1>4. t \notin Receivers /\ rmsg[t] = "EAGAIN" /\ "EAGAIN" \in Errors
  BY <1>0 DEF Task, Listed, Hands, Awaits, Errors
<1>5. SameLists(t) /\ QueueInv'
  BY <1>0, <1>1, <1>3 DEF SameLists, QueueInv
<1>6. /\ mssNull' \in [Tasks -> BOOLEAN] /\ \A u \in Tasks \ {t} : mssNull'[u] = mssNull[u]
      /\ rmsg' \in [Tasks -> Errors \cup Msgs]
  BY <1>0 DEF TypeOK
<1> QED
  BY <1>1, <1>3, <1>4, <1>5, <1>6, Returned

\* retry: the sender gives up, sleeps on the list, or goes on with the lock.
LEMMA SndTried ==
    ASSUME MsgInv, NEW t \in Tasks, pc[t] \in {"snd_lock", "snd_relock"}, lock = None, q # None,
           NEW ss \in Seq(Tasks), IsInjective(ss), Range(ss) = Senders \ {t},
           SndTry(t, ss), mssNull' = [mssNull EXCEPT ![t] = FALSE],
           UNCHANGED <<seq, msgBytes, msgHdrs, rmsg, dying>>
    PROVE  MsgInv'
<1>0. /\ TypeOK /\ TaskInv /\ Task(t) /\ QueueInv /\ q \in Queues /\ SleepInv /\ PlaceInv
      /\ NoneWaitsForTaker /\ None \notin Tasks
  BY MsgQueueAssumption DEF MsgInv, TaskInv, Task, TypeOK
<1>a. /\ mssNull' \in [Tasks -> BOOLEAN] /\ mssNull'[t] = FALSE
      /\ \A u \in Tasks \ {t} : mssNull'[u] = mssNull[u]
  BY <1>0 DEF TypeOK
<1>b. /\ rmsg[t] = "EAGAIN" /\ t \notin Receivers /\ held[t] # None /\ call[t] \in Sends
      /\ dying[t] = Nothing
  BY <1>0 DEF Task, Listed, Hands, Awaits, InCall, SendPcs, LockPcs
<1>1. CASE /\ q' = [q EXCEPT !.senders = ss] /\ Return(t, held[t]) /\ UNCHANGED <<lock, st>>
  BY <1>1, SndGone
<1>2. CASE /\ q.seq = id[t] /\ Full(q, call[t].size)
           /\ q' = [q EXCEPT !.senders = Append(ss, t)]
           /\ st' = [st EXCEPT ![t] = "interruptible"]
           /\ pc' = [pc EXCEPT ![t] = "snd_sleep"]
           /\ UNCHANGED <<lock, msg, call, id, target, held, sig>>
  <2>1. /\ Append(ss, t) \in Seq(Tasks) /\ Range(Append(ss, t)) = Senders \cup {t}
        /\ IsInjective(Append(ss, t))
    BY AppendElements, AppendInjective
  <2>2. /\ q' \in Queues /\ q'.senders = Append(ss, t) /\ q'.receivers = q.receivers
        /\ q'.msgs = q.msgs /\ q'.seq = q.seq
        /\ q'.qbytes = q.qbytes /\ q'.cbytes = q.cbytes /\ q'.qnum = q.qnum
    BY <1>0, <1>2, <2>1, NewSenders
  <2>3. q' # None
    BY <2>2, QueueParts
  <2>4. Receivers' = Receivers /\ Senders' = Senders \cup {t} /\ Queued' = Queued
    BY <2>1, <2>2, <2>3 DEF Receivers, Senders, Queued
  <2>5. TypeOK'
    BY <1>0, <1>2, <1>a, <2>2 DEF TypeOK, PCs
  <2>6. /\ Frame(t) /\ SameLists(t) /\ QueueInv' /\ pc'[t] = "snd_sleep"
        /\ st'[t] = "interruptible" /\ \A u \in Tasks \ {t} : st'[u] = st[u]
    BY <1>0, <1>2, <2>1, <2>2, <2>4 DEF Frame, SameLists, QueueInv, TypeOK
  <2>7. Task(t)'
    BY <1>0, <1>2, <1>a, <1>b, <2>2, <2>4, <2>6
       DEF Task, Locks, InCall, Listed, Hands, Awaits, LockPcs, SendPcs
  <2>8. \A n : Full(q, n) <=> Full(q', n)
    BY <2>2 DEF Full
  <2>9. NoneWaitsForTaker'
    BY <1>0, <1>2, <2>4, NoneWaitsKept
  <2>10. PlaceInv'
    <3>1. Apart' /\ Exact'
      BY <1>0, <1>2, <2>4, NothingMoved
    <3> QED
      BY <1>0, <1>2, <2>4, <3>1 DEF PlaceInv, Apart, Exact
  <2> QED
    BY <1>2, <1>a, <2>4, <2>5, <2>6, <2>7, <2>8, <2>9, <2>10, Locked
<1>3. CASE /\ q' = [q EXCEPT !.senders = ss] /\ lock' = t
           /\ pc' = [pc EXCEPT ![t] = "snd_pipe"]
           /\ UNCHANGED <<msg, call, id, target, held, st, sig>>
  <2>2. /\ q' \in Queues /\ q'.senders = ss /\ q'.receivers = q.receivers
        /\ q'.msgs = q.msgs /\ q'.seq = q.seq
        /\ q'.qbytes = q.qbytes /\ q'.cbytes = q.cbytes /\ q'.qnum = q.qnum
    BY <1>0, <1>3, NewSenders
  <2>3. q' # None
    BY <2>2, QueueParts
  <2>4. Receivers' = Receivers /\ Senders' = Senders \ {t} /\ Queued' = Queued
    BY <2>2, <2>3 DEF Receivers, Senders, Queued
  <2>5. TypeOK'
    BY <1>0, <1>3, <1>a, <2>2 DEF TypeOK, PCs
  <2>6. /\ Frame(t) /\ SameLists(t) /\ QueueInv' /\ pc'[t] = "snd_pipe"
    BY <1>0, <1>3, <2>2, <2>3, <2>4 DEF Frame, SameLists, QueueInv, TypeOK
  <2>7. Task(t)'
    BY <1>0, <1>3, <1>a, <1>b, <2>2, <2>4, <2>6
       DEF Task, Locks, InCall, Listed, Hands, Awaits, LockPcs, SendPcs
  <2>8. \A n : Full(q, n) <=> Full(q', n)
    BY <2>2 DEF Full
  <2>9. NoneWaitsForTaker'
    BY <1>0, <1>3, <2>4, NoneWaitsKept
  <2>10. PlaceInv'
    <3>1. Apart' /\ Exact'
      BY <1>0, <1>3, <2>4, NothingMoved
    <3> QED
      BY <1>0, <1>3, <2>4, <3>1 DEF PlaceInv, Apart, Exact
  <2>11. st'[t] # "interruptible"
    BY <1>0, <1>3 DEF SleepInv
  <2> QED
    BY <1>3, <1>a, <2>4, <2>5, <2>6, <2>7, <2>8, <2>9, <2>10, <2>11, Locked
<1> QED
  BY <1>1, <1>2, <1>3 DEF SndTry, Goto, callVars

\* A sender whose queue is gone.
LEMMA SndNoQueue ==
    ASSUME MsgInv, NEW t \in Tasks, pc[t] \in {"snd_lock", "snd_relock"}, lock = None, q = None,
           Return(t, held[t]), UNCHANGED <<q, lock, st>>,
           mssNull' = [mssNull EXCEPT ![t] = FALSE],
           UNCHANGED <<seq, msgBytes, msgHdrs, rmsg, dying>>
    PROVE  MsgInv'
<1>0. TypeOK /\ TaskInv /\ Task(t) /\ QueueInv
  BY DEF MsgInv, TaskInv, Task, TypeOK
<1>3. /\ Receivers' = {} /\ Senders' = {} /\ Receivers = {} /\ Senders = {} /\ Queued' = Queued
  BY DEF Receivers, Senders, Queued
<1>4. rmsg[t] = "EAGAIN" /\ "EAGAIN" \in Errors
  BY <1>0 DEF Task, Hands, Awaits, Errors
<1>5. SameLists(t) /\ QueueInv'
  BY <1>0, <1>3 DEF SameLists, QueueInv
<1>6. /\ mssNull' \in [Tasks -> BOOLEAN] /\ \A u \in Tasks \ {t} : mssNull'[u] = mssNull[u]
      /\ rmsg' \in [Tasks -> Errors \cup Msgs] /\ q' \in Queues \cup {None}
  BY <1>0 DEF TypeOK
<1> QED
  BY <1>3, <1>4, <1>5, <1>6, Returned

LEMMA SndLockStep ==
    ASSUME MsgInv, NEW t \in Tasks, SndLock(t)
    PROVE  MsgInv'
<1>0. TypeOK /\ Task(t) /\ QueueInv
  BY DEF MsgInv, TaskInv, Task
<1>1. /\ pc[t] = "snd_lock" /\ lock = None /\ mssNull' = [mssNull EXCEPT ![t] = FALSE]
      /\ UNCHANGED <<seq, msgBytes, msgHdrs, rmsg, dying>>
  BY DEF SndLock
<1>2. CASE q = None /\ Return(t, held[t]) /\ UNCHANGED <<q, lock, st>>
  BY <1>1, <1>2, SndNoQueue
<1>3. CASE q # None /\ SndTry(t, q.senders)
  <2>1. q.senders \in Seq(Tasks) /\ IsInjective(q.senders)
    BY <1>0, <1>3, QueueParts DEF TypeOK, QueueInv
  <2>2. Range(q.senders) = Senders \ {t}
    BY <1>0, <1>1, <1>3 DEF Task, Listed, Senders
  <2> QED
    BY <1>1, <1>3, <2>1, <2>2, SndTried
<1> QED
  BY <1>2, <1>3 DEF SndLock

\* ss_del: the sender is off the list, be it that freeque has taken it off.
LEMMA SndRelockStep ==
    ASSUME MsgInv, NEW t \in Tasks, SndRelock(t)
    PROVE  MsgInv'
<1>0. TypeOK /\ Task(t) /\ QueueInv
  BY DEF MsgInv, TaskInv, Task
<1>1. /\ pc[t] = "snd_relock" /\ lock = None /\ mssNull' = [mssNull EXCEPT ![t] = FALSE]
      /\ UNCHANGED <<seq, msgBytes, msgHdrs, rmsg, dying>>
  BY DEF SndRelock
<1>2. CASE q = None /\ Return(t, held[t]) /\ UNCHANGED <<q, lock, st>>
  BY <1>1, <1>2, SndNoQueue
<1>3. ASSUME q # None, NEW ss \in SsDel(t),
             \/ /\ sig[t] /\ q' = [q EXCEPT !.senders = ss] /\ Return(t, held[t])
                /\ UNCHANGED <<lock, st>>
             \/ ~sig[t] /\ SndTry(t, ss)
      PROVE  MsgInv'
  <2>1. q.senders \in Seq(Tasks) /\ IsInjective(q.senders) /\ Senders = Range(q.senders)
    BY <1>0, <1>3, QueueParts DEF TypeOK, QueueInv, Senders
  <2>2. ss \in Seq(Tasks) /\ IsInjective(ss) /\ Range(ss) = Senders \ {t}
    <3>1. CASE mssNull[t]
      BY <1>0, <1>1, <1>3, <2>1, <3>1 DEF Task, Listed, SsDel
    <3>2. CASE ~mssNull[t]
      BY <1>3, <2>1, <3>2, UnlinkedElements DEF SsDel
    <3> QED
      BY <3>1, <3>2
  <2>3. CASE /\ q' = [q EXCEPT !.senders = ss] /\ Return(t, held[t]) /\ UNCHANGED <<lock, st>>
    BY <1>1, <1>3, <2>2, <2>3, SndGone
  <2>4. CASE SndTry(t, ss)
    BY <1>1, <1>3, <2>2, <2>4, SndTried
  <2> QED
    BY <1>3, <2>3, <2>4
<1>4. (q = None /\ Return(t, held[t]) /\ UNCHANGED <<q, lock, st>>) \/
      (q # None /\ \E ss \in SsDel(t) :
             \/ /\ sig[t] /\ q' = [q EXCEPT !.senders = ss] /\ Return(t, held[t])
                /\ UNCHANGED <<lock, st>>
             \/ ~sig[t] /\ SndTry(t, ss))
  BY DEF SndRelock
<1> QED
  BY <1>2, <1>3, <1>4

-----------------------------------------------------------------------------
(***************************************************************************)
(* msgrcv under ipc_lock.                                                  *)
(***************************************************************************)

\* The receiver goes with nothing.
LEMMA RcvGone ==
    ASSUME MsgInv, NEW t \in Tasks, pc[t] \in {"rcv_lock", "rcv_relock"}, lock = None, q # None,
           rmsg[t] = "EAGAIN", NEW rs \in Seq(Tasks), IsInjective(rs), Range(rs) = Receivers \ {t},
           q' = [q EXCEPT !.receivers = rs], Return(t, None),
           UNCHANGED <<seq, lock, msgBytes, msgHdrs, st, rmsg, mssNull, dying>>
    PROVE  MsgInv'
<1>0. TypeOK /\ TaskInv /\ Task(t) /\ QueueInv /\ q \in Queues
  BY DEF MsgInv, TaskInv, Task, TypeOK
<1>1. /\ q' \in Queues /\ q'.receivers = rs /\ q'.senders = q.senders
      /\ q'.msgs = q.msgs /\ q'.seq = q.seq
      /\ q'.qbytes = q.qbytes /\ q'.cbytes = q.cbytes /\ q'.qnum = q.qnum
  BY <1>0, NewReceivers
<1>2. q' # None
  BY <1>1, QueueParts
<1>3. /\ Receivers' = Receivers \ {t} /\ Senders' = Senders /\ Queued' = Queued
  BY <1>1, <1>2 DEF Receivers, Senders, Queued
<1>4. t \notin Senders /\ held[t] = None /\ "EAGAIN" \in Errors
  BY <1>0 DEF Task, Listed, Hands, Errors, SendPcs, LockPcs
<1>5. SameLists(t) /\ QueueInv'
  BY <1>0, <1>1, <1>3 DEF SameLists, QueueInv
<1>6. mssNull' \in [Tasks -> BOOLEAN] /\ rmsg' \in [Tasks -> Errors \cup Msgs]
  BY <1>0 DEF TypeOK
<1> QED
  BY <1>1, <1>3, <1>4, <1>5, <1>6, Returned

\* retry: the receiver gives up, takes a message, or sleeps on the list.
LEMMA RcvTried ==
    ASSUME MsgInv, NEW t \in Tasks, pc[t] \in {"rcv_lock", "rcv_relock"}, lock = None, q # None,
           rmsg[t] = "EAGAIN", NEW rs \in Seq(Tasks), IsInjective(rs), Range(rs) = Receivers \ {t},
           RcvTry(t, rs), UNCHANGED <<seq, lock, mssNull, dying>>
    PROVE  MsgInv'
<1>0. /\ TypeOK /\ TaskInv /\ Task(t) /\ QueueInv /\ q \in Queues /\ SleepInv /\ PlaceInv
      /\ NoneWaitsForTaker /\ None \notin Tasks \cup Msgs
  BY MsgQueueAssumption DEF MsgInv, TaskInv, Task, TypeOK
<1>b. /\ t \notin Senders /\ held[t] = None /\ call[t] \in Receives /\ dying[t] = Nothing
  BY <1>0 DEF Task, Listed, Hands, Awaits, InCall, SendPcs, LockPcs
<1>c. /\ q.receivers \in Seq(Tasks) /\ q.senders \in Seq(Tasks) /\ q.msgs \in Seq(Msgs)
      /\ Queued = q.msgs /\ Senders = Range(q.senders) /\ Senders \subseteq Tasks
  BY <1>0, QueueParts, ListedTasks DEF Queued, Senders
<1>1. CASE /\ q' = [q EXCEPT !.receivers = rs] /\ Return(t, None)
           /\ UNCHANGED <<msgBytes, msgHdrs, st, rmsg>>
  BY <1>1, RcvGone
<1>2. ASSUME NEW i \in Found(call[t]), NEW ms \in Unlinked(q.msgs, q.msgs[i]),
             q' = [q EXCEPT !.receivers = rs, !.msgs = ms, !.qnum = @ - 1,
                            !.cbytes = @ - msg[q.msgs[i]].size],
             msgBytes' = msgBytes - msg[q.msgs[i]].size, msgHdrs' = msgHdrs - 1,
             held' = [held EXCEPT ![t] = q.msgs[i]],
             st' = Woken(q.senders), pc' = [pc EXCEPT ![t] = "rcv_store"],
             UNCHANGED <<msg, call, id, target, sig, rmsg>>
      PROVE  MsgInv'
  <2>0. i \in DOMAIN q.msgs
    <3>1. i \in Matches(call[t])
      BY DEF Found
    <3> QED
      BY <3>1 DEF Matches
  <2>1. PICK m \in Msgs : m = q.msgs[i] /\ msg[m] # None /\ msg[m].size \in Nat
    BY <1>0, <2>0, ListedMessages, Sized
  <2>2. /\ ms \in Seq(Msgs) /\ m \in Range(q.msgs)
        /\ Range(ms) = Range(q.msgs) \ {m} /\ IsInjective(ms)
    BY <1>0, <1>2, <1>c, <2>1, UnlinkedElements DEF PlaceInv
  <2>3. /\ q' \in Queues /\ q'.receivers = rs /\ q'.senders = q.senders
        /\ q'.msgs = ms /\ q'.seq = q.seq
    <3>1. PICK n \in Int : n = msg[q.msgs[i]].size
      BY <2>1
    <3>2. PICK x \in Queues, y \in {q'} :
            /\ x = q /\ y = q'
            /\ y = [x EXCEPT !.receivers = rs, !.msgs = ms, !.qnum = @ - 1, !.cbytes = @ - n]
      BY <1>0, <1>2, <3>1
    <3>3. PICK a \in Int, b \in Int : a = x.qnum - 1 /\ b = x.cbytes - n
      BY QueueParts
    <3>4. y = [x EXCEPT !.receivers = rs, !.msgs = ms, !.qnum = a, !.cbytes = b]
      BY <3>2, <3>3 DEF Queues
    <3>5. /\ y \in Queues /\ y.receivers = rs /\ y.senders = x.senders
          /\ y.msgs = ms /\ y.seq = x.seq
      BY <2>2, <3>4 DEF Queues
    <3> QED
      BY <3>2, <3>5
  <2>4. q' # None
    BY <2>3, QueueParts
  <2>5. /\ Receivers' = Receivers \ {t} /\ Senders' = Senders /\ Queued' = ms
    BY <2>3, <2>4 DEF Receivers, Senders, Queued
  <2>6. /\ \A u \in Senders : st'[u] = "running"
        /\ \A u \in Tasks : st'[u] \in {st[u], "running"}
        /\ st' \in [Tasks -> {"running", "interruptible"}]
    BY <1>0, <1>2, <1>c DEF Woken, TypeOK
  <2>7. TypeOK'
    <3>1. msgBytes' \in Int /\ msgHdrs' \in Int
      BY <1>0, <1>2, <2>1 DEF TypeOK
    <3> QED
      BY <1>0, <1>2, <2>1, <2>3, <2>6, <3>1 DEF TypeOK, PCs
  <2>8. /\ Frame(t) /\ SameLists(t) /\ QueueInv' /\ pc'[t] = "rcv_store" /\ held'[t] = m
    BY <1>0, <1>2, <2>1, <2>3, <2>5 DEF Frame, SameLists, QueueInv, TypeOK
  <2>9. Task(t)'
    <3>1. held'[t] # None
      BY <1>0, <2>8
    <3> QED
      BY <1>0, <1>2, <1>b, <2>5, <2>8, <3>1
         DEF Task, Locks, InCall, Listed, Hands, Awaits, LockPcs, SendPcs
  <2>10. NoneWaitsForTaker'
    <3>1. Range(Queued)' \subseteq Range(Queued)
      BY <1>c, <2>2, <2>5
    <3> QED
      BY <1>0, <1>2, <2>5, <3>1, NoneWaitsKept
  <2>11. PlaceInv'
    <3>1. /\ Contents(InQueue) = Range(q.msgs) /\ Contents(InQueue)' = Range(q.msgs) \ {m}
          /\ Contents(HeldBy(t)) = {} /\ Contents(HeldBy(t))' = {m}
      BY <1>0, <1>b, <1>c, <2>1, <2>2, <2>5, <2>8, ContentsOfQueue, ContentsOf, ContentsOfNext
    <3>2. \A x \in Places \ {InQueue, HeldBy(t)} : Contents(x)' = Contents(x)
      BY <1>2, <2>8, OtherPlaces DEF Frame
    <3>3. Apart /\ Exact /\ InQueue \in Places /\ HeldBy(t) \in Places /\ InQueue # HeldBy(t)
      BY <1>0, PlacesOf DEF PlaceInv, Apart, Exact
    <3>4. PICK M : /\ Contents(InQueue)' = Contents(InQueue) \ M
                   /\ Contents(HeldBy(t))' = Contents(HeldBy(t)) \cup M
                   /\ M \subseteq Contents(InQueue) /\ msg' = msg
      <4>1. /\ Contents(InQueue)' = Contents(InQueue) \ {m}
            /\ Contents(HeldBy(t))' = Contents(HeldBy(t)) \cup {m}
            /\ {m} \subseteq Contents(InQueue) /\ msg' = msg
        BY <1>2, <2>2, <3>1
      <4> QED
        BY <4>1
    <3>5. Apart' /\ Exact'
      BY ONLY <3>2, <3>3, <3>4, PlacesMoved
    <3>6. IsInjective(Queued)' /\ \A u \in Tasks : IsInjective(dying'[u].msgs)
      BY <1>0, <2>2, <2>5 DEF PlaceInv
    <3> QED
      BY <3>5, <3>6 DEF PlaceInv, Apart, Exact
  <2>12. st'[t] # "interruptible"
    BY <1>0, <2>6 DEF SleepInv
  <2> QED
    BY <1>2, <2>6, <2>7, <2>8, <2>9, <2>10, <2>11, <2>12, Locked
<1>3. CASE /\ q.seq = id[t] /\ Matches(call[t]) = {}
           /\ q' = [q EXCEPT !.receivers = Append(rs, t)]
           /\ rmsg' = [rmsg EXCEPT ![t] = "EAGAIN"]
           /\ st' = [st EXCEPT ![t] = "interruptible"]
           /\ pc' = [pc EXCEPT ![t] = "rcv_sleep"]
           /\ UNCHANGED <<msg, msgBytes, msgHdrs, call, id, target, held, sig>>
  <2>1. /\ Append(rs, t) \in Seq(Tasks) /\ Range(Append(rs, t)) = Receivers \cup {t}
        /\ IsInjective(Append(rs, t))
    BY AppendElements, AppendInjective
  <2>2. /\ q' \in Queues /\ q'.receivers = Append(rs, t) /\ q'.senders = q.senders
        /\ q'.msgs = q.msgs /\ q'.seq = q.seq
        /\ q'.qbytes = q.qbytes /\ q'.cbytes = q.cbytes /\ q'.qnum = q.qnum
    BY <1>0, <1>3, <2>1, NewReceivers
  <2>3. q' # None
    BY <2>2, QueueParts
  <2>4. Receivers' = Receivers \cup {t} /\ Senders' = Senders /\ Queued' = Queued
    BY <2>1, <2>2, <2>3 DEF Receivers, Senders, Queued
  <2>r. rmsg' = rmsg
    BY <1>0, <1>3 DEF TypeOK
  <2>5. TypeOK'
    BY <1>0, <1>3, <2>r, <2>2 DEF TypeOK, PCs
  <2>6. /\ Frame(t) /\ SameLists(t) /\ QueueInv' /\ pc'[t] = "rcv_sleep"
        /\ st'[t] = "interruptible" /\ \A u \in Tasks \ {t} : st'[u] = st[u]
    BY <1>0, <1>3, <2>1, <2>2, <2>4 DEF Frame, SameLists, QueueInv, TypeOK
  <2>7. Task(t)'
    BY <1>0, <1>3, <1>b, <2>r, <2>2, <2>4, <2>6
       DEF Task, Locks, InCall, Listed, Hands, Awaits, LockPcs, SendPcs
  <2>8. \A n : Full(q, n) <=> Full(q', n)
    BY <2>2 DEF Full
  <2>9. NoneWaitsForTaker'
    <3> SUFFICES ASSUME NEW m \in Range(q.msgs), NEW r \in Receivers \cup {t}
                 PROVE  ~TestMsg(msg[m].type, call[r].type, call[r].mode)
      BY <1>3, <2>1, <2>2 DEF NoneWaitsForTaker
    <3>1. CASE r = t
      <4>1. PICK i \in DOMAIN q.msgs : m = q.msgs[i]
        BY DEF Range
      <4> QED
        BY <1>3, <3>1, <4>1 DEF Matches
    <3>2. CASE r # t
      BY <1>0, <3>2 DEF NoneWaitsForTaker, Receivers
    <3> QED
      BY <3>1, <3>2
  <2>10. PlaceInv'
    <3>1. Apart' /\ Exact'
      BY <1>0, <1>3, <2>r, <2>4, NothingMoved
    <3> QED
      BY <1>0, <1>3, <2>4, <3>1 DEF PlaceInv, Apart, Exact
  <2> QED
    BY <1>3, <2>r, <2>4, <2>5, <2>6, <2>7, <2>8, <2>9, <2>10, Locked
<1> QED
  BY <1>1, <1>2, <1>3 DEF RcvTry, Goto, callVars, msgVars

\* A receiver whose queue is gone, or that is told of an error.
LEMMA RcvNothing ==
    ASSUME MsgInv, NEW t \in Tasks, pc[t] \in {"rcv_lock", "rcv_relock"}, lock = None,
           t \notin Receivers, rmsg[t] \in Errors, Return(t, None),
           rmsg' = [rmsg EXCEPT ![t] = "EAGAIN"],
           UNCHANGED <<q, seq, lock, msgBytes, msgHdrs, st, mssNull, dying>>
    PROVE  MsgInv'
<1>0. TypeOK /\ TaskInv /\ Task(t) /\ QueueInv
  BY DEF MsgInv, TaskInv, Task, TypeOK
<1>3. /\ Receivers' = Receivers /\ Senders' = Senders /\ Queued' = Queued
  BY DEF Receivers, Senders, Queued
<1>4. t \notin Senders /\ held[t] = None
  BY <1>0 DEF Task, Listed, Hands, SendPcs, LockPcs
<1>5. SameLists(t) /\ QueueInv'
  BY <1>0, <1>3 DEF SameLists, QueueInv
<1>6. /\ mssNull' \in [Tasks -> BOOLEAN] /\ rmsg' \in [Tasks -> Errors \cup Msgs]
      /\ q' \in Queues \cup {None} /\ rmsg'[t] = "EAGAIN"
      /\ \A u \in Tasks \ {t} : rmsg'[u] = rmsg[u]
  BY <1>0 DEF TypeOK, Errors
<1> QED
  BY <1>3, <1>4, <1>5, <1>6, Returned

LEMMA RcvLockStep ==
    ASSUME MsgInv, NEW t \in Tasks, RcvLock(t)
    PROVE  MsgInv'
<1>0. TypeOK /\ Task(t) /\ QueueInv
  BY DEF MsgInv, TaskInv, Task
<1>1. pc[t] = "rcv_lock" /\ lock = None /\ UNCHANGED <<seq, lock, mssNull, dying>>
  BY DEF RcvLock
<1>2. rmsg[t] = "EAGAIN" /\ t \notin Receivers /\ rmsg = [rmsg EXCEPT ![t] = "EAGAIN"]
      /\ "EAGAIN" \in Errors
  BY <1>0, <1>1 DEF Task, Hands, Listed, Awaits, TypeOK, Errors
<1>3. CASE q = None /\ Return(t, None) /\ UNCHANGED <<q, msgBytes, msgHdrs, st, rmsg>>
  BY <1>1, <1>2, <1>3, RcvNothing
<1>4. CASE q # None /\ RcvTry(t, q.receivers)
  <2>1. q.receivers \in Seq(Tasks) /\ IsInjective(q.receivers)
    BY <1>0, <1>4, QueueParts DEF TypeOK, QueueInv
  <2>2. Range(q.receivers) = Receivers \ {t}
    BY <1>2, <1>4 DEF Receivers
  <2> QED
    BY <1>1, <1>2, <1>4, <2>1, <2>2, RcvTried
<1> QED
  BY <1>3, <1>4 DEF RcvLock

\* The message that was handed over goes from r_msg to the hands of the receiver.
LEMMA RcvArrived ==
    ASSUME MsgInv, NEW t \in Tasks, pc[t] = "rcv_relock", lock = None, rmsg[t] \notin Errors,
           held' = [held EXCEPT ![t] = rmsg[t]], rmsg' = [rmsg EXCEPT ![t] = "EAGAIN"],
           pc' = [pc EXCEPT ![t] = "rcv_store"],
           UNCHANGED <<q, msg, msgBytes, msgHdrs, call, id, target, st, sig>>,
           UNCHANGED <<seq, lock, mssNull, dying>>
    PROVE  MsgInv'
<1>0. /\ TypeOK /\ TaskInv /\ Task(t) /\ QueueInv /\ SleepInv /\ PlaceInv
      /\ NoneWaitsForTaker /\ None \notin Tasks \cup Msgs
  BY MsgQueueAssumption DEF MsgInv, TaskInv, Task
<1>1. PICK m \in Msgs : m = rmsg[t]
  BY <1>0 DEF TypeOK
<1>2. /\ t \notin Senders /\ t \notin Receivers /\ held[t] = None /\ dying[t] = Nothing
      /\ "EAGAIN" \notin Msgs
  BY <1>0, MsgQueueAssumption DEF Task, Listed, Hands, SendPcs, LockPcs, Errors
<1>3. TypeOK'
  BY <1>0, <1>1 DEF TypeOK, PCs, Errors
<1>4. /\ Receivers' = Receivers /\ Senders' = Senders /\ Queued' = Queued
  BY DEF Receivers, Senders, Queued
<1>5. /\ Frame(t) /\ SameLists(t) /\ QueueInv' /\ pc'[t] = "rcv_store" /\ held'[t] = m
      /\ rmsg'[t] = "EAGAIN" /\ \A u \in Tasks \ {t} : rmsg'[u] = rmsg[u]
  BY <1>0, <1>1, <1>4 DEF Frame, SameLists, QueueInv, TypeOK
<1>6. Task(t)'
  <2>1. held'[t] # None
    BY <1>0, <1>5
  <2> QED
    BY <1>0, <1>2, <1>4, <1>5, <2>1
       DEF Task, Locks, InCall, Listed, Hands, Awaits, LockPcs, SendPcs
<1>7. NoneWaitsForTaker'
  BY <1>0, <1>4, NoneWaitsKept
<1>8. PlaceInv'
  <2>1. /\ Contents(GivenTo(t)) = {m} /\ Contents(GivenTo(t))' = {}
        /\ Contents(HeldBy(t)) = {} /\ Contents(HeldBy(t))' = {m}
    BY <1>0, <1>1, <1>2, <1>5, ContentsOf, ContentsOfNext
  <2>2. \A x \in Places \ {GivenTo(t), HeldBy(t)} : Contents(x)' = Contents(x)
    BY <1>4, <1>5, OtherPlaces, ZenonT(20) DEF Frame
  <2>3. Apart /\ Exact /\ GivenTo(t) \in Places /\ HeldBy(t) \in Places /\ GivenTo(t) # HeldBy(t)
    BY <1>0, PlacesOf DEF PlaceInv, Apart, Exact
  <2>4. PICK M : /\ Contents(GivenTo(t))' = Contents(GivenTo(t)) \ M
                 /\ Contents(HeldBy(t))' = Contents(HeldBy(t)) \cup M
                 /\ M \subseteq Contents(GivenTo(t)) /\ msg' = msg
    <3>1. /\ Contents(GivenTo(t))' = Contents(GivenTo(t)) \ {m}
          /\ Contents(HeldBy(t))' = Contents(HeldBy(t)) \cup {m}
          /\ {m} \subseteq Contents(GivenTo(t)) /\ msg' = msg
      BY <2>1
    <3> QED
      BY <3>1
  <2>5. Apart' /\ Exact'
    BY ONLY <2>2, <2>3, <2>4, PlacesMoved
  <2> QED
    BY <1>0, <1>4, <2>5 DEF PlaceInv, Apart, Exact
<1>9. st'[t] # "interruptible"
  BY <1>0 DEF SleepInv
<1> QED
  BY <1>3, <1>5, <1>6, <1>7, <1>8, <1>9, Locked

\* After the sleep: what r_msg says, and what the receiver does when it says nothing.
LEMMA RcvRelockStep ==
    ASSUME MsgInv, NEW t \in Tasks, RcvRelock(t)
    PROVE  MsgInv'
<1>0. TypeOK /\ Task(t) /\ QueueInv
  BY DEF MsgInv, TaskInv, Task
<1>1. pc[t] = "rcv_relock" /\ lock = None /\ UNCHANGED <<seq, lock, mssNull, dying>>
  BY DEF RcvRelock, MayLook
<1>2. CASE /\ Arrived(t) /\ held' = [held EXCEPT ![t] = rmsg[t]]
           /\ rmsg' = [rmsg EXCEPT ![t] = "EAGAIN"] /\ Goto(t, "rcv_store")
           /\ UNCHANGED <<q, msgVars, callVars, st, sig>>
  BY <1>1, <1>2, RcvArrived DEF Arrived, Goto, msgVars, callVars
<1>3. CASE /\ ~Arrived(t) /\ rmsg[t] # "EAGAIN" /\ Return(t, None)
           /\ rmsg' = [rmsg EXCEPT ![t] = "EAGAIN"]
           /\ UNCHANGED <<q, msgBytes, msgHdrs, st>>
  <2>1. t \notin Receivers /\ rmsg[t] \in Errors
    BY <1>0, <1>3 DEF Task, Listed, Arrived
  <2> QED
    BY <1>1, <1>3, <2>1, RcvNothing
<1>4. ASSUME rmsg[t] = "EAGAIN", q # None, NEW rs \in Unlinked(q.receivers, t),
             \/ /\ sig[t] /\ q' = [q EXCEPT !.receivers = rs] /\ Return(t, None)
                /\ UNCHANGED <<msgBytes, msgHdrs, st, rmsg>>
             \/ ~sig[t] /\ RcvTry(t, rs)
      PROVE  MsgInv'
  <2>1. q.receivers \in Seq(Tasks) /\ IsInjective(q.receivers) /\ Receivers = Range(q.receivers)
    BY <1>0, <1>4, QueueParts DEF TypeOK, QueueInv, Receivers
  <2>2. rs \in Seq(Tasks) /\ IsInjective(rs) /\ Range(rs) = Receivers \ {t}
    BY <1>4, <2>1, UnlinkedElements
  <2>3. CASE /\ q' = [q EXCEPT !.receivers = rs] /\ Return(t, None)
             /\ UNCHANGED <<msgBytes, msgHdrs, st, rmsg>>
    BY <1>1, <1>4, <2>2, <2>3, RcvGone
  <2>4. CASE RcvTry(t, rs)
    BY <1>1, <1>4, <2>2, <2>4, RcvTried
  <2> QED
    BY <1>4, <2>3, <2>4
<1> QED
  BY <1>2, <1>3, <1>4 DEF RcvRelock

-----------------------------------------------------------------------------
(***************************************************************************)
(* pipelined_send.                                                         *)
(***************************************************************************)

\* What holds while the lock is kept over a step.
LEMMA LockHeld ==
    ASSUME MsgInv, NEW t \in Tasks, pc[t] \in LockPcs
    PROVE  /\ lock = t /\ q \in Queues /\ q # None /\ call[t] \in Sends
           /\ t \notin Receivers /\ t \notin Senders /\ rmsg[t] = "EAGAIN" /\ dying[t] = Nothing
           /\ \A u \in Tasks \ {t} : pc[u] \notin LockPcs
           /\ st[t] # "interruptible"
<1>1. /\ TypeOK /\ TaskInv /\ QueueInv /\ SleepInv /\ None \notin Tasks
  BY MsgQueueAssumption DEF MsgInv
<1>2. Locks(t) /\ InCall(t) /\ Listed(t) /\ Hands(t)
  BY <1>1 DEF TaskInv
<1>3. lock = t /\ q # None /\ q \in Queues
  BY <1>1, <1>2 DEF Locks, QueueInv, TypeOK
<1>4. \A u \in Tasks \ {t} : pc[u] \notin LockPcs
  BY <1>1, <1>3 DEF TaskInv, Locks
<1> QED
  BY <1>1, <1>2, <1>3, <1>4 DEF InCall, Listed, Hands, Awaits, SleepInv, LockPcs, SendPcs

\* Nobody waits for the message: it goes to the end of the queue.
LEMMA SndQueued ==
    ASSUME MsgInv, NEW t \in Tasks, pc[t] = "snd_pipe", NEW m, m = held[t], Takers(m) = {},
           q' = [q EXCEPT !.msgs = Append(@, m), !.cbytes = @ + msg[m].size, !.qnum = @ + 1],
           msgBytes' = msgBytes + msg[m].size, msgHdrs' = msgHdrs + 1,
           lock' = None, Return(t, None), UNCHANGED <<rmsg, seq, st, mssNull, dying>>
    PROVE  MsgInv'
<1>0. /\ TypeOK /\ TaskInv /\ Task(t) /\ SleepInv /\ PlaceInv /\ QueueInv
      /\ NoneWaitsForTaker /\ None \notin Tasks \cup Msgs
  BY MsgQueueAssumption DEF MsgInv, TaskInv, Task
<1>1. /\ lock = t /\ q \in Queues /\ q # None /\ call[t] \in Sends
      /\ t \notin Receivers /\ t \notin Senders /\ rmsg[t] = "EAGAIN" /\ dying[t] = Nothing
      /\ \A u \in Tasks \ {t} : pc[u] \notin LockPcs
      /\ st[t] # "interruptible"
  BY LockHeld DEF LockPcs
<1>2. m \in Msgs
  BY <1>0 DEF Task, Hands, TypeOK, SendPcs, LockPcs
<1>3. msg[m] # None /\ m \notin Range(Queued)
  <2>1. m \in Contents(HeldBy(t))
    BY <1>2, ContentsOf
  <2> QED
    BY <1>0, <1>2, <2>1, ContentsOfQueue, PlacesOf DEF PlaceInv
<1>4. PICK n \in Nat : n = msg[m].size
  BY <1>0, <1>2, <1>3, Sized
<1>5. /\ q.msgs \in Seq(Msgs) /\ Queued = q.msgs /\ IsInjective(q.msgs)
      /\ q.cbytes \in Int /\ q.qnum \in Int /\ q.qbytes \in Nat
      /\ Receivers = Range(q.receivers)
  BY <1>0, <1>1, QueueParts DEF Queued, PlaceInv, Receivers
<1>6. /\ Append(q.msgs, m) \in Seq(Msgs) /\ Range(Append(q.msgs, m)) = Range(q.msgs) \cup {m}
      /\ IsInjective(Append(q.msgs, m))
  BY <1>2, <1>3, <1>5, AppendElements, AppendInjective
<1>7. /\ q' \in Queues /\ q'.msgs = Append(q.msgs, m) /\ q'.receivers = q.receivers
      /\ q'.senders = q.senders /\ q'.seq = q.seq /\ q'.qbytes = q.qbytes
      /\ q'.cbytes = q.cbytes + n /\ q'.qnum = q.qnum + 1
  <2>1. PICK x \in Queues : x = q
    BY <1>1
  <2>2. PICK ms \in Seq(Msgs) : ms = Append(x.msgs, m)
    BY <1>6, <2>1
  <2>3. PICK a \in Int, b \in Int : a = x.cbytes + n /\ b = x.qnum + 1
    BY <1>5, <2>1
  <2>4. PICK y : /\ y = q'
                 /\ y = [x EXCEPT !.msgs = Append(@, m), !.cbytes = @ + n, !.qnum = @ + 1]
    BY <1>4, <2>1
  <2>5. y = [x EXCEPT !.msgs = ms, !.cbytes = a, !.qnum = b]
    BY <2>2, <2>3, <2>4 DEF Queues
  <2>6. /\ y \in Queues /\ y.msgs = ms /\ y.receivers = x.receivers
        /\ y.senders = x.senders /\ y.seq = x.seq /\ y.qbytes = x.qbytes
        /\ y.cbytes = a /\ y.qnum = b
    BY <2>5 DEF Queues
  <2> QED
    BY <2>1, <2>2, <2>3, <2>4, <2>6
<1>8. q' # None
  BY <1>7, QueueParts
<1>9. /\ Receivers' = Receivers /\ Senders' = Senders /\ Queued' = Append(q.msgs, m)
  BY <1>1, <1>7, <1>8 DEF Receivers, Senders, Queued
<1>10. /\ pc' = [pc EXCEPT ![t] = "idle"] /\ call' = [call EXCEPT ![t] = None]
       /\ id' = [id EXCEPT ![t] = 0] /\ target' = [target EXCEPT ![t] = None]
       /\ held' = [held EXCEPT ![t] = None] /\ msg' = msg
  BY DEF Return, Goto
<1>11. TypeOK'
  <2>1. msgBytes' \in Int /\ msgHdrs' \in Int
    BY <1>0, <1>4 DEF TypeOK
  <2> QED
    BY <1>0, <1>7, <2>1, ReturnTypes DEF TypeOK
<1>12. Frame(t) /\ SameLists(t) /\ pc'[t] = "idle" /\ held'[t] = None
  BY <1>0, <1>7, <1>9, <1>10 DEF Frame, SameLists, TypeOK
<1>13. Task(t)'
  BY <1>0, <1>1, <1>9, <1>12 DEF Task, Locks, InCall, Listed, Hands, Awaits, LockPcs, SendPcs
<1>14. TaskInv'
  <2>1. \A u \in Tasks \ {t} : lock' = u <=> lock = u
    BY <1>0, <1>1
  <2>2. \A u \in Tasks \ {t} : Task(u)'
    BY <1>0, <1>12, <2>1, OthersKept
  <2> QED
    BY <1>13, <2>2 DEF TaskInv, Task
<1>15. QueueInv'
  BY <1>0, <1>1, <1>7 DEF QueueInv
<1>16. TargetInv'
  BY <1>0, <1>14, NoTargets
<1>17. SleepInv'
  <2>1. \A u \in Senders \ {t} : Full(q, call[u].size) => Full(q', call[u].size)
    <3> SUFFICES ASSUME NEW u \in Senders, Full(q, call[u].size) PROVE Full(q', call[u].size)
      OBVIOUS
    <3>1. call[u] \in Sends
      <4>1. u \in Tasks
        BY <1>0, ListedTasks
      <4> QED
        BY <1>0, <4>1 DEF TaskInv, Listed, InCall, SendPcs
    <3>2. PICK k \in Nat : k = call[u].size
      BY <3>1, MsgQueueAssumption
    <3>3. Full(q', k)
      BY <1>5, <1>7, <3>2 DEF Full
    <3> QED
      BY <3>2, <3>3
  <2> QED
    <3>1. pc[t] # "snd_wake" /\ st'[t] # "interruptible"
      BY <1>1
    <3> QED
      BY <1>0, <1>12, <2>1, <3>1, SleepersKept
<1>18. NoneWaitsForTaker'
  <2> SUFFICES ASSUME NEW k \in Range(q.msgs) \cup {m}, NEW r \in Receivers
               PROVE  ~TestMsg(msg[k].type, call'[r].type, call'[r].mode)
    BY <1>5, <1>6, <1>7, <1>10 DEF NoneWaitsForTaker
  <2>1. r \in Tasks /\ call'[r] = call[r]
    BY <1>0, <1>1, <1>12, ListedTasks DEF Frame
  <2>2. CASE k = m
    <3>1. PICK i \in DOMAIN q.receivers : r = q.receivers[i]
      BY <1>5 DEF Range
    <3> QED
      BY <2>1, <2>2, <3>1 DEF Takers
  <2>3. CASE k # m
    BY <1>0, <1>1, <1>5, <2>1, <2>3 DEF NoneWaitsForTaker
  <2> QED
    BY <2>2, <2>3
<1>19. PlaceInv'
  <2>1. /\ Contents(HeldBy(t)) = {m} /\ Contents(HeldBy(t))' = {}
        /\ Contents(InQueue) = Range(q.msgs) /\ Contents(InQueue)' = Range(q.msgs) \cup {m}
    BY <1>0, <1>2, <1>5, <1>6, <1>9, <1>12, ContentsOf, ContentsOfNext, ContentsOfQueue
  <2>2. \A x \in Places \ {HeldBy(t), InQueue} : Contents(x)' = Contents(x)
    BY <1>12, OtherPlaces DEF Frame
  <2>3. Apart /\ Exact /\ HeldBy(t) \in Places /\ InQueue \in Places /\ HeldBy(t) # InQueue
    BY <1>0, PlacesOf DEF PlaceInv, Apart, Exact
  <2>4. PICK M : /\ Contents(HeldBy(t))' = Contents(HeldBy(t)) \ M
                 /\ Contents(InQueue)' = Contents(InQueue) \cup M
                 /\ M \subseteq Contents(HeldBy(t)) /\ msg' = msg
    <3>1. /\ Contents(HeldBy(t))' = Contents(HeldBy(t)) \ {m}
          /\ Contents(InQueue)' = Contents(InQueue) \cup {m}
          /\ {m} \subseteq Contents(HeldBy(t)) /\ msg' = msg
      BY <1>10, <2>1
    <3> QED
      BY <3>1
  <2>5. Apart' /\ Exact'
    BY ONLY <2>2, <2>3, <2>4, PlacesMoved
  <2>6. IsInjective(Queued)' /\ \A u \in Tasks : IsInjective(dying'[u].msgs)
    BY <1>0, <1>6, <1>9 DEF PlaceInv
  <2> QED
    BY <2>5, <2>6 DEF PlaceInv, Apart, Exact
<1> QED
  BY <1>11, <1>14, <1>15, <1>16, <1>17, <1>18, <1>19 DEF MsgInv

\* The first taker is off the list: it has the message, or is told that it is too big.
LEMMA SndGiven ==
    ASSUME MsgInv, NEW t \in Tasks, pc[t] = "snd_pipe", NEW m, m = held[t],
           NEW r \in Receivers, NEW rs \in Unlinked(q.receivers, r), NEW big \in BOOLEAN,
           q' = [q EXCEPT !.receivers = rs],
           rmsg' = [rmsg EXCEPT ![r] = IF big THEN "E2BIG" ELSE m],
           target' = [target EXCEPT ![t] = r],
           held' = [held EXCEPT ![t] = IF big THEN m ELSE None],
           pc' = [pc EXCEPT ![t] = "snd_wake"],
           UNCHANGED <<lock, msg, msgBytes, msgHdrs, call, id, sig>>,
           UNCHANGED <<seq, st, mssNull, dying>>
    PROVE  MsgInv'
<1>0. /\ TypeOK /\ TaskInv /\ Task(t) /\ SleepInv /\ PlaceInv /\ QueueInv
      /\ NoneWaitsForTaker /\ None \notin Tasks \cup Msgs
  BY MsgQueueAssumption DEF MsgInv, TaskInv, Task
<1>1. /\ lock = t /\ q \in Queues /\ q # None /\ call[t] \in Sends
      /\ t \notin Receivers /\ t \notin Senders /\ rmsg[t] = "EAGAIN" /\ dying[t] = Nothing
      /\ \A u \in Tasks \ {t} : pc[u] \notin LockPcs
      /\ st[t] # "interruptible"
  BY LockHeld DEF LockPcs
<1>2. m \in Msgs
  BY <1>0 DEF Task, Hands, TypeOK, SendPcs, LockPcs
<1>3. /\ r \in Tasks /\ r # t /\ pc[r] \in {"rcv_sleep", "rcv_relock"} /\ rmsg[r] = "EAGAIN"
      /\ id[r] = q.seq
  <2>1. r \in Tasks /\ r # t
    BY <1>0, <1>1, ListedTasks
  <2>2. Listed(r)
    BY <1>0, <2>1 DEF TaskInv
  <2> QED
    BY <2>1, <2>2 DEF Listed, Awaits
<1>4. /\ rs \in Seq(Tasks) /\ Range(rs) = Receivers \ {r} /\ IsInjective(rs)
  <2>1. q.receivers \in Seq(Tasks) /\ IsInjective(q.receivers) /\ Receivers = Range(q.receivers)
    BY <1>0, <1>1, QueueParts DEF QueueInv, Receivers
  <2> QED
    BY <2>1, UnlinkedElements
<1>5. /\ q' \in Queues /\ q'.receivers = rs /\ q'.senders = q.senders
      /\ q'.msgs = q.msgs /\ q'.seq = q.seq
      /\ q'.qbytes = q.qbytes /\ q'.cbytes = q.cbytes /\ q'.qnum = q.qnum
  BY <1>1, <1>4, NewReceivers
<1>6. q' # None
  BY <1>5, QueueParts
<1>7. /\ Receivers' = Receivers \ {r} /\ Senders' = Senders /\ Queued' = Queued
  BY <1>1, <1>4, <1>5, <1>6 DEF Receivers, Senders, Queued
<1>8. TypeOK'
  <2>1. (IF big THEN "E2BIG" ELSE m) \in Errors \cup Msgs
    BY <1>2 DEF Errors
  <2>2. (IF big THEN m ELSE None) \in Msgs \cup {None}
    BY <1>2
  <2> QED
    BY <1>0, <1>3, <1>5, <2>1, <2>2 DEF TypeOK, PCs
<1>9. /\ Frame(t) /\ pc'[t] = "snd_wake" /\ held'[t] = (IF big THEN m ELSE None)
      /\ target'[t] = r /\ rmsg'[r] = (IF big THEN "E2BIG" ELSE m)
      /\ \A u \in Tasks \ {r} : rmsg'[u] = rmsg[u]
  BY <1>0, <1>3 DEF Frame, TypeOK
<1>10. rmsg'[r] # "EAGAIN"
  <2>1. m # "EAGAIN"
    BY <1>2, MsgQueueAssumption DEF Errors
  <2> QED
    BY <1>9, <2>1
<1>11. TaskInv'
  <2> SUFFICES ASSUME NEW u \in Tasks PROVE Locks(u)' /\ InCall(u)' /\ Listed(u)' /\ Hands(u)'
    BY DEF TaskInv
  <2>1. Locks(u) /\ InCall(u) /\ Listed(u) /\ Hands(u)
    BY <1>0 DEF TaskInv
  <2>2. CASE u = t
    <3>1. rmsg'[t] = "EAGAIN" /\ t \notin Receivers' /\ t \notin Senders'
      BY <1>1, <1>3, <1>7, <1>9
    <3> QED
      BY <1>1, <1>9, <2>2, <3>1 DEF Locks, InCall, Listed, Hands, Awaits, LockPcs, SendPcs
  <2>3. CASE u = r
    <3>1. /\ pc'[r] = pc[r] /\ call'[r] = call[r] /\ held'[r] = held[r] /\ dying'[r] = dying[r]
          /\ r \notin Receivers' /\ r \notin Senders
      BY <1>3, <1>7, <1>9, <2>1, <2>3 DEF Frame, Listed
    <3> QED
      BY <1>1, <1>3, <1>7, <1>10, <2>1, <2>3, <3>1
         DEF Locks, InCall, Listed, Hands, Awaits, LockPcs, SendPcs
  <2>4. CASE u # t /\ u # r
    <3>1. /\ pc'[u] = pc[u] /\ call'[u] = call[u] /\ held'[u] = held[u] /\ dying'[u] = dying[u]
          /\ rmsg'[u] = rmsg[u] /\ u \in Receivers' <=> u \in Receivers
      BY <1>7, <1>9, <2>4 DEF Frame
    <3>2. Locks(u)' /\ InCall(u)' /\ Hands(u)'
      BY <2>1, <3>1 DEF Locks, InCall, Hands, Awaits
    <3>3. Listed(u)'
      BY <1>5, <1>7, <2>1, <3>1 DEF Listed, Awaits
    <3> QED
      BY <3>2, <3>3
  <2> QED
    BY <2>2, <2>3, <2>4
<1>12. QueueInv'
  BY <1>0, <1>1, <1>4, <1>5, <1>6 DEF QueueInv
<1>13. TargetInv'
  <2> SUFFICES ASSUME NEW u \in Tasks, pc'[u] = "snd_wake"
               PROVE  /\ target'[u] \in Tasks /\ id'[target'[u]] = q'.seq
                      /\ pc'[target'[u]] \in {"rcv_sleep", "rcv_relock"}
    BY DEF TargetInv, Awaits
  <2>1. u = t
    BY <1>1, <1>9 DEF Frame, LockPcs
  <2>2. target'[u] = r /\ pc'[r] = pc[r]
    BY <1>3, <1>9, <2>1 DEF Frame
  <2> QED
    BY <1>3, <1>5, <2>2
<1>14. SleepInv'
  <2> SUFFICES ASSUME NEW v \in Tasks, st[v] = "interruptible"
               PROVE \/ pc'[v] = "snd_sleep" /\ v \in Senders' /\ Full(q', call'[v].size)
                     \/ pc'[v] = "rcv_sleep" /\ v \in Receivers'
                     \/ pc'[v] = "rcv_sleep" /\ \E u \in Tasks : pc'[u] = "snd_wake" /\ target'[u] = v
    BY DEF SleepInv, Full
  <2>1. v # t /\ pc'[v] = pc[v] /\ call'[v] = call[v]
    BY <1>1, <1>9 DEF Frame
  <2>2. \A n : Full(q, n) <=> Full(q', n)
    BY <1>5 DEF Full
  <2>3. \A u \in Tasks : pc[u] # "snd_wake"
    BY <1>1 DEF LockPcs
  <2>4. CASE pc[v] = "snd_sleep" /\ v \in Senders /\ Full(q, call[v].size)
    BY <1>7, <2>1, <2>2, <2>4
  <2>5. CASE pc[v] = "rcv_sleep" /\ v \in Receivers
    BY <1>7, <1>9, <2>1, <2>5
  <2> QED
    BY <1>0, <2>3, <2>4, <2>5 DEF SleepInv
<1>15. NoneWaitsForTaker'
  BY <1>0, <1>7, NoneWaitsKept
<1>16. PlaceInv'
  <2>1. Apart' /\ Exact'
    <3>0. "EAGAIN" \notin Msgs /\ "E2BIG" \notin Msgs
      BY MsgQueueAssumption DEF Errors
    <3>1. CASE big
      <4>1. \A u \in Tasks : /\ held'[u] = held[u]
                             /\ {rmsg'[u]} \cap Msgs = {rmsg[u]} \cap Msgs
        BY <1>3, <1>9, <3>0, <3>1 DEF Frame
      <4> QED
        BY <1>0, <1>7, <4>1, NothingMoved
    <3>2. CASE ~big
      <4>1. /\ Contents(HeldBy(t)) = {m} /\ Contents(HeldBy(t))' = {}
            /\ Contents(GivenTo(r)) = {} /\ Contents(GivenTo(r))' = {m}
        BY <1>0, <1>2, <1>3, <1>9, <3>0, <3>2, ContentsOf, ContentsOfNext
      <4>2. \A x \in Places \ {HeldBy(t), GivenTo(r)} : Contents(x)' = Contents(x)
        BY <1>7, <1>9, OtherPlaces DEF Frame
      <4>3. /\ Apart /\ Exact /\ HeldBy(t) \in Places /\ GivenTo(r) \in Places
            /\ HeldBy(t) # GivenTo(r)
        BY <1>0, <1>3, PlacesOf DEF PlaceInv, Apart, Exact
      <4>4. PICK M : /\ Contents(HeldBy(t))' = Contents(HeldBy(t)) \ M
                     /\ Contents(GivenTo(r))' = Contents(GivenTo(r)) \cup M
                     /\ M \subseteq Contents(HeldBy(t)) /\ msg' = msg
        <5>1. /\ Contents(HeldBy(t))' = Contents(HeldBy(t)) \ {m}
              /\ Contents(GivenTo(r))' = Contents(GivenTo(r)) \cup {m}
              /\ {m} \subseteq Contents(HeldBy(t)) /\ msg' = msg
          BY <4>1
        <5> QED
          BY <5>1
      <4> QED
        BY ONLY <4>2, <4>3, <4>4, PlacesMoved
    <3> QED
      BY <3>1, <3>2
  <2> QED
    BY <1>0, <1>7, <2>1 DEF PlaceInv, Apart, Exact
<1> QED
  BY <1>8, <1>11, <1>12, <1>13, <1>14, <1>15, <1>16 DEF MsgInv

LEMMA SndPipeStep ==
    ASSUME MsgInv, NEW t \in Tasks, SndPipe(t)
    PROVE  MsgInv'
<1>0. TypeOK /\ QueueInv
  BY DEF MsgInv
<1>1. pc[t] = "snd_pipe" /\ UNCHANGED <<seq, st, mssNull, dying>>
  BY DEF SndPipe
<1>2. PICK m : m = held[t]
  OBVIOUS
<1>3. CASE /\ Takers(m) = {}
           /\ q' = [q EXCEPT !.msgs = Append(@, m), !.cbytes = @ + msg[m].size, !.qnum = @ + 1]
           /\ msgBytes' = msgBytes + msg[m].size /\ msgHdrs' = msgHdrs + 1
           /\ lock' = None /\ Return(t, None) /\ UNCHANGED rmsg
  BY <1>1, <1>2, <1>3, SndQueued
<1>4. ASSUME NEW i \in Takers(m), NEW rs \in Unlinked(q.receivers, q.receivers[i]),
             NEW big \in BOOLEAN,
             q' = [q EXCEPT !.receivers = rs],
             rmsg' = [rmsg EXCEPT ![q.receivers[i]] = IF big THEN "E2BIG" ELSE m],
             target' = [target EXCEPT ![t] = q.receivers[i]],
             held' = [held EXCEPT ![t] = IF big THEN m ELSE None], Goto(t, "snd_wake"),
             UNCHANGED <<lock, msgVars, call, id, sig>>
      PROVE  MsgInv'
  <2>1. PICK r \in Receivers : r = q.receivers[i]
    BY <1>0, <1>1, LockHeld DEF Takers, Receivers, Range, LockPcs
  <2>2. /\ rs \in Unlinked(q.receivers, r) /\ target' = [target EXCEPT ![t] = r]
        /\ rmsg' = [rmsg EXCEPT ![r] = IF big THEN "E2BIG" ELSE m]
        /\ pc' = [pc EXCEPT ![t] = "snd_wake"]
        /\ UNCHANGED <<lock, msg, msgBytes, msgHdrs, call, id, sig>>
    BY <1>4, <2>1 DEF Goto, msgVars
  <2> QED
    BY <1>1, <1>2, <1>4, <2>2, SndGiven
<1>5. CASE \E i \in Takers(m) :
              /\ LET r == q.receivers[i]
                     big == ~call[r].noerror /\ call[r].size < msg[m].size
                 IN /\ \E rs \in Unlinked(q.receivers, r) : q' = [q EXCEPT !.receivers = rs]
                    /\ rmsg' = [rmsg EXCEPT ![r] = IF big THEN "E2BIG" ELSE m]
                    /\ target' = [target EXCEPT ![t] = r]
                    /\ held' = [held EXCEPT ![t] = IF big THEN m ELSE None]
              /\ Goto(t, "snd_wake")
              /\ UNCHANGED <<lock, msgVars, call, id, sig>>
  BY <1>4, <1>5
<1> QED
  BY <1>2, <1>3, <1>5 DEF SndPipe

\* The receiver is woken: it sleeps no more, whatever it was told.
LEMMA SndWakeStep ==
    ASSUME MsgInv, NEW t \in Tasks, SndWake(t)
    PROVE  MsgInv'
<1>0. /\ TypeOK /\ TaskInv /\ Task(t) /\ SleepInv /\ PlaceInv /\ QueueInv /\ TargetInv
      /\ NoneWaitsForTaker /\ None \notin Tasks \cup Msgs
  BY MsgQueueAssumption DEF MsgInv, TaskInv, Task
<1>1. /\ pc[t] = "snd_wake" /\ st' = [st EXCEPT ![target[t]] = "running"]
      /\ UNCHANGED <<q, seq, msgBytes, msgHdrs, rmsg, mssNull, dying>>
  BY DEF SndWake
<1>2. /\ lock = t /\ q \in Queues /\ q # None /\ call[t] \in Sends
      /\ t \notin Receivers /\ t \notin Senders /\ rmsg[t] = "EAGAIN" /\ dying[t] = Nothing
      /\ \A u \in Tasks \ {t} : pc[u] \notin LockPcs
      /\ st[t] # "interruptible"
  BY <1>1, LockHeld DEF LockPcs
<1>3. target[t] \in Tasks
  BY <1>0, <1>1 DEF TargetInv
<1>4. /\ \A u \in Tasks : st'[u] \in {st[u], "running"}
      /\ st'[target[t]] = "running" /\ st' \in [Tasks -> {"running", "interruptible"}]
  BY <1>0, <1>1, <1>3 DEF TypeOK
<1>5. /\ Receivers' = Receivers /\ Senders' = Senders /\ Queued' = Queued
  BY <1>1 DEF Receivers, Senders, Queued
<1>6. /\ TypeOK' /\ Frame(t) /\ msg' = msg /\ held'[t] = held[t]
      /\ \/ pc'[t] = "idle" /\ lock' = None /\ held[t] = None
         \/ pc'[t] = "snd_pipe" /\ lock' = t /\ held[t] # None /\ call'[t] = call[t]
  <2>1. CASE held[t] = None /\ lock' = None /\ Return(t, None)
    <3>1. TypeOK'
      BY <1>0, <1>1, <1>4, <2>1, ReturnTypes DEF TypeOK
    <3>2. /\ pc' = [pc EXCEPT ![t] = "idle"] /\ call' = [call EXCEPT ![t] = None]
          /\ id' = [id EXCEPT ![t] = 0] /\ target' = [target EXCEPT ![t] = None]
          /\ held' = [held EXCEPT ![t] = None] /\ msg' = msg
      BY <2>1 DEF Return, Goto
    <3> QED
      BY <1>0, <1>1, <2>1, <3>1, <3>2 DEF Frame, TypeOK
  <2>2. CASE held[t] # None /\ Goto(t, "snd_pipe") /\ UNCHANGED <<lock, callVars, held, msg, sig>>
    <3>1. TypeOK'
      BY <1>0, <1>1, <1>4, <2>2 DEF TypeOK, Goto, PCs, callVars
    <3> QED
      BY <1>0, <1>1, <1>2, <2>2, <3>1 DEF Frame, TypeOK, Goto, callVars
  <2> QED
    BY <2>1, <2>2 DEF SndWake
<1>7. SameLists(t)
  BY <1>1, <1>5 DEF SameLists
<1>8. Task(t)'
  BY <1>0, <1>1, <1>2, <1>5, <1>6
     DEF Task, Locks, InCall, Listed, Hands, Awaits, LockPcs, SendPcs
<1>9. TaskInv'
  <2>1. \A u \in Tasks \ {t} : lock' = u <=> lock = u
    BY <1>0, <1>2, <1>6
  <2>2. \A u \in Tasks \ {t} : Task(u)'
    BY <1>0, <1>1, <1>6, <1>7, <2>1, OthersKept
  <2> QED
    BY <1>8, <2>2 DEF TaskInv, Task
<1>10. QueueInv'
  BY <1>0, <1>1, <1>2 DEF QueueInv
<1>11. TargetInv'
  BY <1>0, <1>6, <1>9, NoTargets
<1>12. SleepInv'
  <2>1. st'[t] # "interruptible" /\ \A u \in Senders : Full(q, call[u].size) => Full(q', call[u].size)
    BY <1>1, <1>2, <1>4
  <2> QED
    BY <1>0, <1>4, <1>6, <1>7, <2>1, SleepersKept
<1>13. NoneWaitsForTaker'
  <2>1. \A r \in Receivers : call'[r] = call[r]
    BY <1>0, <1>2, <1>6, ListedTasks DEF Frame
  <2> QED
    BY <1>0, <1>5, <1>6, <2>1, NoneWaitsKept
<1>14. PlaceInv'
  <2>1. Apart' /\ Exact'
    <3>1. \A u \in Tasks : held'[u] = held[u]
      BY <1>6 DEF Frame
    <3> QED
      BY <1>0, <1>1, <1>5, <1>6, <3>1, NothingMoved
  <2> QED
    BY <1>0, <1>1, <1>5, <2>1 DEF PlaceInv, Apart, Exact
<1> QED
  BY <1>6, <1>9, <1>10, <1>11, <1>12, <1>13, <1>14 DEF MsgInv

-----------------------------------------------------------------------------
(***************************************************************************)
(* The theorems.                                                           *)
(***************************************************************************)
LEMMA InitInv == Init => MsgInv
<1> SUFFICES ASSUME Init PROVE MsgInv
  OBVIOUS
<1>0. None \notin Tasks \cup Msgs /\ "EAGAIN" \notin Msgs
  BY MsgQueueAssumption DEF Errors
<1>1. TypeOK
  BY DEF Init, TypeOK, PCs, Nothing, Errors
<1>2. Receivers = {} /\ Senders = {} /\ Queued = <<>> /\ Range(<<>>) = {}
  BY DEF Init, Receivers, Senders, Queued, Range
<1>3. TaskInv
  BY <1>0, <1>2 DEF Init, TaskInv, Locks, InCall, Listed, Hands, Awaits, LockPcs, SendPcs
<1>4. QueueInv /\ TargetInv /\ SleepInv /\ NoneWaitsForTaker
  BY DEF Init, QueueInv, TargetInv, SleepInv, NoneWaitsForTaker
<1>5. PlaceInv
  <2>1. \A x \in Places : Contents(x) = {}
    <3> SUFFICES ASSUME NEW x \in Places PROVE Contents(x) = {}
      OBVIOUS
    <3>1. CASE x = InQueue
      BY <1>2, <3>1, ContentsOfQueue
    <3>2. ASSUME NEW t \in Tasks, x \in {HeldBy(t), GivenTo(t), FreedBy(t)}
          PROVE  Contents(x) = {}
      <4>1. held[t] = None /\ rmsg[t] = "EAGAIN" /\ dying[t].msgs = <<>>
        BY DEF Init, Nothing
      <4>2. Contents(HeldBy(t)) = {} /\ Contents(GivenTo(t)) = {} /\ Contents(FreedBy(t)) = {}
        BY <1>0, <1>2, <4>1, ContentsOf
      <4> QED
        BY <3>2, <4>2
    <3> QED
      BY <3>1, <3>2, PlacesOf
  <2>2. IsInjective(<<>>)
    BY DEF IsInjective
  <2>3. \A t \in Tasks : dying[t].msgs = <<>>
    BY DEF Init, Nothing
  <2>4. \A m \in Msgs : msg[m] = None
    BY DEF Init
  <2> QED
    BY <1>2, <2>1, <2>2, <2>3, <2>4 DEF PlaceInv
<1> QED
  BY <1>1, <1>3, <1>4, <1>5 DEF MsgInv

LEMMA Stuttering == MsgInv /\ UNCHANGED vars => MsgInv'
<1> SUFFICES ASSUME MsgInv, UNCHANGED vars PROVE MsgInv'
  OBVIOUS
<1> USE DEF vars, msgVars, callVars
<1>1. TypeOK' /\ QueueInv' /\ NoneWaitsForTaker'
  BY DEF MsgInv, TypeOK, QueueInv, NoneWaitsForTaker
<1>2. Receivers' = Receivers /\ Senders' = Senders /\ Queued' = Queued
  BY DEF Receivers, Senders, Queued
<1>3. TaskInv'
  BY <1>2 DEF MsgInv, TaskInv, Locks, InCall, Listed, Hands, Awaits
<1>4. TargetInv' /\ SleepInv'
  BY <1>2 DEF MsgInv, TargetInv, SleepInv, Awaits, Full
<1>5. PlaceInv'
  <2>1. Apart' /\ Exact'
    BY <1>2, NothingMoved DEF MsgInv
  <2> QED
    BY <1>2, <2>1 DEF MsgInv, PlaceInv, Apart, Exact
<1> QED
  BY <1>1, <1>3, <1>4, <1>5 DEF MsgInv

LEMMA NextInv == MsgInv /\ [Next]_vars => MsgInv'
<1> SUFFICES ASSUME MsgInv, [Next]_vars PROVE MsgInv'
  OBVIOUS
<1>1. ASSUME NEW t \in Tasks, Step(t) PROVE MsgInv'
  <2>1. ASSUME NEW c \in Sends, MsgSnd(t, c) PROVE MsgInv'
    BY <2>1, MsgSndStep
  <2>2. ASSUME NEW c \in Receives, MsgRcv(t, c) PROVE MsgInv'
    BY <2>2, MsgRcvStep
  <2>3. CASE SndLock(t)
    BY <2>3, SndLockStep
  <2>4. CASE SndSchedule(t) \/ RcvSchedule(t)
    BY <2>4, ScheduleStep
  <2>5. CASE SndRelock(t)
    BY <2>5, SndRelockStep
  <2>6. CASE SndPipe(t)
    BY <2>6, SndPipeStep
  <2>7. CASE SndWake(t)
    BY <2>7, SndWakeStep
  <2>8. CASE RcvLock(t)
    BY <2>8, RcvLockStep
  <2>9. CASE RcvRelock(t)
    BY <2>9, RcvRelockStep
  <2>10. CASE StoreMsg(t)
    BY <2>10, StoreMsgStep
  <2>11. CASE MsgGet(t)
    BY <2>11, MsgGetStep
  <2>12. CASE MsgCtlSet(t)
    BY <2>12, MsgCtlSetStep
  <2>13. CASE MsgCtlRmid(t)
    BY <2>13, MsgCtlRmidStep
  <2>14. CASE RmidFree(t)
    BY <2>14, RmidFreeStep
  <2> QED
    BY <1>1, <2>1, <2>2, <2>3, <2>4, <2>5, <2>6, <2>7, <2>8, <2>9, <2>10, <2>11, <2>12,
       <2>13, <2>14 DEF Step
<1>2. ASSUME NEW t \in Tasks, Signal(t) PROVE MsgInv'
  BY <1>2, SignalStep
<1> QED
  BY <1>1, <1>2, Stuttering DEF Next

\* MsgInv is an invariant: the type of every variable, and for each task where it is
\* listed, what is in its hands and why it may sleep.
THEOREM MsgInvariant == Spec => []MsgInv
<1>1. Init => MsgInv
  BY InitInv
<1>2. MsgInv /\ [Next]_vars => MsgInv'
  BY NextInv
<1> QED
  BY <1>1, <1>2, PTL DEF Spec

\* What PlaceInv says of a message, as a number of places.
LEMMA InOnePlace ==
    ASSUME PlaceInv, NEW m \in Msgs
    PROVE  Cardinality({x \in Places : m \in Contents(x)}) = (IF msg[m] = None THEN 0 ELSE 1)
<1> DEFINE at == {x \in Places : m \in Contents(x)}
<1>1. CASE msg[m] = None
  <2>1. at = {}
    BY <1>1 DEF PlaceInv
  <2> QED
    BY <1>1, <2>1, FS_EmptySet
<1>2. CASE msg[m] # None
  <2>1. PICK x \in Places : m \in Contents(x)
    BY <1>2 DEF PlaceInv
  <2>2. \A y \in at : y = x
    BY <2>1 DEF PlaceInv
  <2>3. at = {x}
    BY <2>1, <2>2
  <2> QED
    BY <1>2, <2>3, FS_Singleton
<1> QED
  BY <1>1, <1>2

\* No message is lost, received twice or freed twice, for any number of tasks, messages
\* and calls, and whatever signals, IPC_SET and IPC_RMID do to those that wait
\* (pipelined_send, sys_msgrcv and freeque in msg.c).
THEOREM MessagesInOnePlace == Spec => []OnePlace
<1>1. MsgInv => OnePlace
  BY InOnePlace DEF MsgInv, OnePlace, PlaceInv
<1> QED
  BY <1>1, MsgInvariant, PTL

\* Whoever sleeps in msgsnd sleeps on a full queue that has it on its list, whoever sleeps in
\* msgrcv is listed or about to be woken, no message waits for a listed receiver, and no
\* stack entry outlives its call: for any number of tasks (msg.c:601-640, 760-840).
THEOREM SleepersAreSafe == Spec => []SleepersSafe
<1>1. MsgInv => SleepersSafe
  <2> SUFFICES ASSUME MsgInv PROVE SleepersSafe
    OBVIOUS
  <2>0. /\ TypeOK /\ TaskInv /\ SleepInv /\ QueueInv /\ TargetInv /\ NoneWaitsForTaker
        /\ None \notin Tasks
    BY MsgQueueAssumption DEF MsgInv
  <2>1. \A t \in Tasks : Listed(t)
    BY <2>0 DEF TaskInv
  <2>2. /\ q # None => Receivers = Range(q.receivers) /\ Senders = Range(q.senders)
        /\ q = None => Receivers = {} /\ Senders = {}
    BY DEF Receivers, Senders
  <2>3. NoLostWakeup
    <3> SUFFICES ASSUME NEW t \in Tasks, st[t] = "interruptible"
                 PROVE  /\ q # None /\ id[t] = q.seq
                        /\ pc[t] = "snd_sleep" => t \in Range(q.senders) /\ Full(q, call[t].size)
                        /\ pc[t] = "rcv_sleep" => t \in Range(q.receivers) \/
                             \E u \in Tasks : pc[u] = "snd_wake" /\ target[u] = t
      BY DEF NoLostWakeup
    <3>1. CASE pc[t] = "snd_sleep" /\ t \in Senders /\ Full(q, call[t].size)
      BY <2>1, <2>2, <3>1 DEF Listed
    <3>2. CASE pc[t] = "rcv_sleep" /\ t \in Receivers
      BY <2>1, <2>2, <3>2 DEF Listed
    <3>3. CASE pc[t] = "rcv_sleep" /\ \E u \in Tasks : pc[u] = "snd_wake" /\ target[u] = t
      <4>1. PICK u \in Tasks : pc[u] = "snd_wake" /\ target[u] = t
        BY <3>3
      <4>2. q # None
        BY <2>0, <4>1 DEF TaskInv, Locks, LockPcs, QueueInv
      <4>3. id[t] = q.seq
        BY <2>0, <4>1 DEF TargetInv
      <4> QED
        BY <3>3, <4>2, <4>3
    <3> QED
      BY <2>0, <3>1, <3>2, <3>3 DEF SleepInv
  <2>4. NoUseAfterReturn
    <3>1. ASSUME q # None
          PROVE /\ \A i \in DOMAIN q.receivers : pc[q.receivers[i]] \in {"rcv_sleep", "rcv_relock"}
                /\ \A i \in DOMAIN q.senders : pc[q.senders[i]] \in {"snd_sleep", "snd_relock"}
      <4>1. \A r \in Receivers : pc[r] \in {"rcv_sleep", "rcv_relock"}
        BY <2>0, <2>1, ListedTasks DEF Listed, Awaits
      <4>2. \A r \in Senders : pc[r] \in {"snd_sleep", "snd_relock"}
        BY <2>0, <2>1, ListedTasks DEF Listed
      <4> QED
        BY <2>2, <3>1, <4>1, <4>2 DEF Range
    <3>2. q # None => IsInjective(q.receivers) /\ IsInjective(q.senders)
      BY <2>0 DEF QueueInv
    <3>3. \A t \in Tasks : pc[t] = "snd_wake" => pc[target[t]] \in {"rcv_sleep", "rcv_relock"}
      BY <2>0 DEF TargetInv, Awaits
    <3>4. \A t \in Tasks : pc[t] = "rcv_relock" /\ rmsg[t] = "EAGAIN"
                               => q # None /\ t \in Range(q.receivers)
      BY <2>1, <2>2 DEF Listed, Awaits
    <3> QED
      BY <3>1, <3>2, <3>3, <3>4 DEF NoUseAfterReturn
  <2> QED
    BY <2>0, <2>3, <2>4 DEF SleepersSafe
<1> QED
  BY <1>1, MsgInvariant, PTL

-----------------------------------------------------------------------------
(***************************************************************************)
(* Which message msgrcv takes.                                             *)
(***************************************************************************)

LEMMA MinIs ==
    ASSUME NEW S, S \subseteq Nat, NEW i \in S, \A k \in S : i <= k
    PROVE  Min(S) = i
<1>1. \A x \in S : (\A k \in S : x <= k) => x = i
  <2> SUFFICES ASSUME NEW x \in S, \A k \in S : x <= k PROVE x = i
    OBVIOUS
  <2>1. x <= i /\ i <= x /\ x \in Nat /\ i \in Nat
    OBVIOUS
  <2> QED
    BY <2>1
<1>2. Min(S) \in S /\ \A k \in S : Min(S) <= k
  BY DEF Min
<1> QED
  BY <1>1, <1>2

\* The places of the messages of the least type among those that c may take.
LeastOf(c) ==
    {i \in Matches(c) : c.mode = "LESSEQUAL" =>
                            \A k \in Matches(c) : msg[q.msgs[i]].type <= msg[q.msgs[k]].type}

\* The search, which goes on with a smaller type whenever it has found something, ends at
\* the first of them.
LEMMA SearchFindsLeast ==
    ASSUME TypeOK, PlaceInv, q # None, NEW c, NEW i \in Found(c)
    PROVE  i = Min(LeastOf(c))
<1> DEFINE ty(k) == msg[q.msgs[k]].type
<1>1. /\ Matches(c) \subseteq Nat /\ i \in Matches(c)
      /\ \A k \in Matches(c) : ty(k) \in Nat
  <2>1. q.msgs \in Seq(Msgs)
    BY QueueParts DEF TypeOK
  <2>2. \A k \in DOMAIN q.msgs : k \in Nat /\ ty(k) \in Nat
    BY <2>1, ListedMessages, Sized
  <2> QED
    BY <2>2 DEF Matches, Found
<1>2. CASE c.mode # "LESSEQUAL"
  <2>1. LeastOf(c) = Matches(c) /\ \A k \in Matches(c) : i <= k
    BY <1>2 DEF LeastOf, Found
  <2> QED
    BY <1>1, <2>1, MinIs
<1>3. CASE c.mode = "LESSEQUAL"
  <2>1. /\ i \in Matches(c)
        /\ \A k \in Matches(c) : k < i => ty(i) <= ty(k) - 1
        /\ \A j \in Matches(c) : (\A k \in Matches(c) : k < j => ty(j) <= ty(k) - 1) => j <= i
    BY <1>3 DEF Found, Lower
  <2>2. LeastOf(c) = {j \in Matches(c) : \A k \in Matches(c) : ty(j) <= ty(k)}
    BY <1>3 DEF LeastOf
  <2>3. PICK x \in {ty(k) : k \in Matches(c)} : \A y \in {ty(k) : k \in Matches(c)} : x <= y
    BY <1>1, LeastNumber
  <2>4. LeastOf(c) \subseteq Nat /\ LeastOf(c) # {}
    BY <1>1, <2>2, <2>3
  <2>5. PICK j \in LeastOf(c) : \A k \in LeastOf(c) : j <= k
    BY <2>4, LeastNumber
  <2> HIDE DEF ty
  <2>6. j \in Matches(c) /\ \A k \in Matches(c) : ty(j) <= ty(k)
    BY <2>2, <2>5
  <2>7. ASSUME NEW k \in Matches(c), k < j PROVE ty(j) <= ty(k) - 1
    <3>1. k \notin LeastOf(c)
      <4>1. k \in Nat /\ j \in Nat
        BY <1>1, <2>6
      <4> QED
        BY <2>5, <2>7, <4>1
    <3>2. PICK l \in Matches(c) : ~(ty(k) <= ty(l))
      BY <2>2, <3>1
    <3>3. ty(j) <= ty(l) /\ ty(j) \in Nat /\ ty(k) \in Nat /\ ty(l) \in Nat
      BY <1>1, <2>6, <3>2
    <3> QED
      BY <3>2, <3>3
  <2>8. j <= i
    BY <2>1, <2>6, <2>7
  <2>9. ~(j < i)
    <3> SUFFICES ASSUME j < i PROVE FALSE
      OBVIOUS
    <3>1. ty(i) <= ty(j) - 1 /\ ty(j) <= ty(i)
      BY <2>1, <2>6
    <3>2. ty(i) \in Nat /\ ty(j) \in Nat
      BY <1>1, <2>6
    <3> QED
      BY <3>1, <3>2
  <2>10. i = j
    BY <1>1, <2>6, <2>8, <2>9
  <2> QED
    BY <2>4, <2>5, <2>10, MinIs
<1> QED
  BY <1>2, <1>3

\* A receiver gets a message in its own step, out of the queue or out of r_msg.
LEMMA Takes ==
    ASSUME MsgInv, Next, NEW t \in Tasks, pc'[t] = "rcv_store", pc[t] # "rcv_store"
    PROVE  \/ q # None /\ \E i \in Found(call[t]) : held'[t] = q.msgs[i]
           \/ held'[t] = rmsg[t] /\ rmsg[t] \notin Errors
<1>0. pc \in [Tasks -> PCs] /\ held \in [Tasks -> Msgs \cup {None}]
  BY DEF MsgInv, TypeOK
<1>1. PICK u \in Tasks : Step(u) \/ Signal(u)
  BY DEF Next
<1>2. ASSUME NEW l, l # "rcv_store", Goto(u, l) PROVE FALSE
  BY <1>0, <1>2 DEF Goto
<1>3. ASSUME NEW h, Return(u, h) PROVE FALSE
  BY <1>2, <1>3 DEF Return
<1>4. pc' # pc
  OBVIOUS
<1>5. RcvLock(u) \/ RcvRelock(u)
  <2>1. ~Signal(u) /\ ~MsgGet(u) /\ ~MsgCtlSet(u)
    BY <1>4 DEF Signal, MsgGet, MsgCtlSet
  <2>2. ~MsgCtlRmid(u) /\ ~RmidFree(u) /\ ~SndSchedule(u) /\ ~RcvSchedule(u)
    BY <1>2 DEF MsgCtlRmid, RmidFree, SndSchedule, RcvSchedule
  <2>3. (\A c \in Sends : ~MsgSnd(u, c)) /\ \A c \in Receives : ~MsgRcv(u, c)
    BY <1>2 DEF MsgSnd, MsgRcv
  <2>4. ~SndPipe(u) /\ ~SndWake(u) /\ ~StoreMsg(u)
    BY <1>2, <1>3 DEF SndPipe, SndWake, StoreMsg
  <2>5. \A ss : ~SndTry(u, ss)
    BY <1>2, <1>3 DEF SndTry
  <2>6. ~SndLock(u) /\ ~SndRelock(u)
    BY <1>3, <2>5 DEF SndLock, SndRelock
  <2> QED
    BY <1>1, <2>1, <2>2, <2>3, <2>4, <2>6 DEF Step
<1>6. ASSUME Goto(u, "rcv_store") PROVE u = t
  BY <1>0, <1>6 DEF Goto
<1>7. ASSUME NEW rs, RcvTry(u, rs), q # None
      PROVE  q # None /\ \E i \in Found(call[t]) : held'[t] = q.msgs[i]
  <2>1. PICK i \in Found(call[u]) : held' = [held EXCEPT ![u] = q.msgs[i]] /\ Goto(u, "rcv_store")
    BY <1>2, <1>3, <1>7 DEF RcvTry
  <2> QED
    BY <1>0, <1>6, <1>7, <2>1
<1>8. CASE RcvLock(u)
  BY <1>3, <1>7, <1>8 DEF RcvLock
<1>9. CASE RcvRelock(u)
  <2>1. CASE /\ Arrived(u) /\ held' = [held EXCEPT ![u] = rmsg[u]] /\ Goto(u, "rcv_store")
    BY <1>0, <1>6, <2>1 DEF Arrived
  <2>2. CASE \E rs : RcvTry(u, rs) /\ q # None
    BY <1>7, <2>2
  <2> QED
    BY <1>3, <1>9, <2>1, <2>2 DEF RcvRelock
<1> QED
  BY <1>5, <1>8, <1>9

\* "msgtyp < 0 => get message with least type": for any queue, msgrcv takes out of it the
\* first of the messages with the least type that it may take (msg.c:715, 755-769).
THEOREM LeastTypeTaken == Spec => TakesLeast
<1>1. ASSUME MsgInv, [Next]_vars
      PROVE  [\A t \in Tasks : (pc'[t] = "rcv_store" /\ pc[t] # "rcv_store" /\ held'[t] \in Range(Queued)) =>
                 LET c == call[t]
                     ok == {i \in DOMAIN q.msgs : TestMsg(msg[q.msgs[i]].type, c.type, c.mode)}
                     least == {i \in ok : c.mode = "LESSEQUAL" =>
                                   \A k \in ok : msg[q.msgs[i]].type <= msg[q.msgs[k]].type}
                 IN held'[t] = q.msgs[Min(least)]]_vars
  <2>1. CASE UNCHANGED vars
    BY <2>1
  <2>2. CASE Next
    <3> SUFFICES ASSUME NEW t \in Tasks, pc'[t] = "rcv_store", pc[t] # "rcv_store",
                        held'[t] \in Range(Queued)
                 PROVE  held'[t] = q.msgs[Min(LeastOf(call[t]))]
      BY DEF LeastOf, Matches
    <3>1. TypeOK /\ PlaceInv
      BY <1>1 DEF MsgInv
    <3>2. CASE q # None /\ \E i \in Found(call[t]) : held'[t] = q.msgs[i]
      BY <3>1, <3>2, SearchFindsLeast
    <3>3. CASE held'[t] = rmsg[t] /\ rmsg[t] \notin Errors
      <4>1. rmsg[t] \in Contents(GivenTo(t)) /\ rmsg[t] \in Contents(InQueue)
        BY <3>1, <3>3, ContentsOf, ContentsOfQueue DEF TypeOK
      <4> QED
        BY <3>1, <4>1, PlacesOf DEF PlaceInv
    <3> QED
      BY <1>1, <2>2, <3>2, <3>3, Takes
  <2> QED
    BY <1>1, <2>1, <2>2
<1> QED
  BY <1>1, MsgInvariant, PTL DEF Spec, TakesLeast
-----------------------------------------------------------------------------
(* Pipes.  First who uses the pipe, who is on its wait queue and who has   *)
(* i_sem, in terms of the values of the variables before and after a step. *)

CONSTANTS PIPE_SIZE, PIPE_BUF, Counts, Opens, MaxOpens, Faults

VARIABLES pipe, sem, file, p_pc, left, done, cnt, p_st, p_sig, opens, stream

P == INSTANCE Pipe WITH pc <- p_pc, st <- p_st, sig <- p_sig

PipeGiven == P!PipeAssumption /\ IsFiniteSet(Tasks)

PipePCs == {"idle"} \cup P!Copies \cup P!Polls \cup P!Waits
OpenTypes == [Tasks -> P!OpenFiles \cup {None}]
PlaceTypes == [Tasks -> PipePCs]
StateTypes == [Tasks -> {"running", "interruptible"}]

LEMMA PipeCardinality == ASSUME NEW T PROVE P!Cardinality(T) = Cardinality(T)
BY Zenon DEF P!Cardinality, Cardinality

In(x, S) == IF x \in S THEN 1 ELSE 0

\* The open file o reads, or writes.
Uses(o, m) == o # None /\ m \in o.mode
UseNum(o, m) == IF Uses(o, m) THEN 1 ELSE 0
UsersOf(f, m) == {t \in Tasks : Uses(f[t], m)}
TasksAt(c, W) == {t \in Tasks : c[t] \in W}

Counted(p, f, c) ==
    /\ p.readers = Cardinality(UsersOf(f, "r")) /\ p.writers = Cardinality(UsersOf(f, "w"))
    /\ p.waitingReaders = Cardinality(TasksAt(c, {"read_wait"}))
    /\ p.waitingWriters = Cardinality(TasksAt(c, {"room_wait", "full_wait"}))
    /\ \A t \in p.wait : f[t] # None

\* CallOf of one task t with the open file o, at w, in state y, when s has i_sem.
CallIn(t, p, s, o, w, y) ==
    /\ w # "idle" => o # None
    /\ w \in P!Copies <=> s = t
    /\ t \in p.wait <=> w \in P!Waits \cup P!Polls
    /\ y = "interruptible" => w \in P!Waits \cup P!Polls
    /\ w = "open_wait" => o.mode # {"r", "w"}

UseIn(p, s, f, c, x) ==
    /\ Counted(p, f, c)
    /\ \A t \in Tasks : CallIn(t, p, s, f[t], c[t], x[t])

\* UseInv says this of a pipe that is there, and that nobody is anywhere if it is not.
UseForm ==
    /\ P!TypeOK
    /\ pipe = None => /\ sem = None
                      /\ \A t \in Tasks : file[t] = None /\ p_pc[t] = "idle" /\ p_st[t] # "interruptible"
    /\ pipe # None => /\ UseIn(pipe, sem, file, p_pc, p_st)
                      /\ \E t \in Tasks : file[t] # None

LEMMA UseParts == P!UseInv <=> UseForm
<1> SUFFICES ASSUME P!TypeOK
             PROVE  (P!CallInv /\ P!UsersCounted) <=>
                      /\ pipe = None =>
                          /\ sem = None
                          /\ \A t \in Tasks : file[t] = None /\ p_pc[t] = "idle" /\ p_st[t] # "interruptible"
                      /\ pipe # None => /\ UseIn(pipe, sem, file, p_pc, p_st)
                                        /\ \E t \in Tasks : file[t] # None
  BY DEF P!UseInv, UseForm
<1>1. CASE pipe = None
  <2>1. P!UsersCounted <=> \A t \in Tasks : file[t] = None
    BY <1>1 DEF P!UsersCounted
  <2>2. sem \in Tasks \cup {None}
    BY DEF P!TypeOK
  <2>3. ASSUME \A t \in Tasks : file[t] = None, P!CallInv
        PROVE  sem = None /\ \A t \in Tasks : p_pc[t] = "idle" /\ p_st[t] # "interruptible"
    BY <2>2, <2>3 DEF P!CallInv, P!CallOf, P!Copies, P!Waits, P!Polls
  <2>4. ASSUME sem = None, None \notin Tasks,
               \A t \in Tasks : file[t] = None /\ p_pc[t] = "idle" /\ p_st[t] # "interruptible"
        PROVE  P!CallInv
    BY <1>1, <2>4 DEF P!CallInv, P!CallOf, P!Copies, P!Waits, P!Polls
  <2>5. None \notin Tasks
    BY MsgQueueAssumption
  <2> QED
    BY <1>1, <2>1, <2>3, <2>4, <2>5
<1>2. CASE pipe # None
  <2>1. UsersOf(file, "r") = {t \in Tasks : file[t] # None /\ "r" \in file[t].mode}
    BY DEF UsersOf, Uses
  <2>2. UsersOf(file, "w") = {t \in Tasks : file[t] # None /\ "w" \in file[t].mode}
    BY DEF UsersOf, Uses
  <2>3. TasksAt(p_pc, {"read_wait"}) = {t \in Tasks : p_pc[t] = "read_wait"}
    BY DEF TasksAt
  <2>4. TasksAt(p_pc, {"room_wait", "full_wait"}) = {t \in Tasks : p_pc[t] \in {"room_wait", "full_wait"}}
    BY DEF TasksAt
  <2>5. P!UsersCounted <=> (\E t \in Tasks : file[t] # None) /\ Counted(pipe, file, p_pc)
    BY <1>2, <2>1, <2>2, <2>3, <2>4, PipeCardinality, Zenon DEF P!UsersCounted, Counted
  <2>6. P!CallInv <=> \A t \in Tasks : CallIn(t, pipe, sem, file[t], p_pc[t], p_st[t])
    BY <1>2 DEF P!CallInv, P!CallOf, CallIn
  <2> QED
    BY <1>2, <2>5, <2>6 DEF UseIn
<1> QED
  BY <1>1, <1>2

LEMMA UsePartsNext == P!UseInv' <=> UseForm'
BY UseParts, PTL

LEMMA CountUpdate ==
    ASSUME NEW A, NEW B, IsFiniteSet(A), NEW t, B \ {t} = A \ {t}
    PROVE  IsFiniteSet(B) /\ Cardinality(A) \in Nat /\ Cardinality(B) \in Nat
           /\ Cardinality(B) = Cardinality(A) - In(t, A) + In(t, B)
<1>1. PICK R : R = A \ {t}
  OBVIOUS
<1>2. IsFiniteSet(R) /\ Cardinality(R) = (IF t \in A THEN Cardinality(A) - 1 ELSE Cardinality(A))
  BY <1>1, FS_RemoveElement
<1>3. IsFiniteSet(R \cup {t}) /\ Cardinality(R \cup {t}) = Cardinality(R) + 1
  BY <1>1, <1>2, FS_AddElement
<1>4. (t \in B => B = R \cup {t}) /\ (t \notin B => B = R)
  BY <1>1
<1>5. IsFiniteSet(B)
  BY <1>2, <1>3, <1>4
<1>6. Cardinality(A) \in Nat /\ Cardinality(B) \in Nat /\ Cardinality(R) \in Nat
  BY <1>2, <1>5, FS_CardinalityType
<1>7. Cardinality(B) = Cardinality(A) - In(t, A) + In(t, B)
  <2>1. PICK a, b, r \in Nat : a = Cardinality(A) /\ b = Cardinality(B) /\ r = Cardinality(R)
    BY <1>6
  <2>2. r = a - In(t, A)
    BY <1>2, <2>1 DEF In
  <2>3. b = r + In(t, B)
    <3>1. CASE t \in B
      BY <1>3, <1>4, <2>1, <3>1 DEF In
    <3>2. CASE t \notin B
      BY <1>4, <2>1, <3>2 DEF In
    <3> QED
      BY <3>1, <3>2
  <2>4. In(t, A) \in Int /\ In(t, B) \in Int
    BY DEF In
  <2> QED
    BY <2>1, <2>2, <2>3, <2>4
<1> QED
  BY <1>5, <1>6, <1>7

\* t has got the open file g for o, and goes from a to w.
Moved(p, q2, t, o, g, a, w) ==
    /\ q2.readers = p.readers - UseNum(o, "r") + UseNum(g, "r")
    /\ q2.writers = p.writers - UseNum(o, "w") + UseNum(g, "w")
    /\ q2.waitingReaders = p.waitingReaders - In(a, {"read_wait"}) + In(w, {"read_wait"})
    /\ q2.waitingWriters =
           p.waitingWriters - In(a, {"room_wait", "full_wait"}) + In(w, {"room_wait", "full_wait"})
    /\ q2.wait \subseteq Tasks
    /\ \A u \in Tasks : u # t => (u \in q2.wait <=> u \in p.wait)

\* The counters of a pipe, as numbers.
PipeNats(p) ==
    p.readers \in Nat /\ p.writers \in Nat /\ p.waitingReaders \in Nat /\ p.waitingWriters \in Nat

LEMMA UsersUpdate ==
    ASSUME IsFiniteSet(Tasks), NEW f, NEW h, NEW t \in Tasks, NEW m, \A u \in Tasks : u # t => h[u] = f[u]
    PROVE  /\ Cardinality(UsersOf(h, m)) \in Nat
           /\ Cardinality(UsersOf(h, m)) = Cardinality(UsersOf(f, m)) - UseNum(f[t], m) + UseNum(h[t], m)
<1>3. PICK A, B : A = UsersOf(f, m) /\ B = UsersOf(h, m)
  OBVIOUS
<1>4. /\ A \subseteq Tasks /\ B \ {t} = A \ {t}
      /\ t \in A <=> Uses(f[t], m)
      /\ t \in B <=> Uses(h[t], m)
  BY <1>3 DEF UsersOf
<1>5. IsFiniteSet(A)
  BY <1>4, FS_Subset
<1>6. /\ Cardinality(A) \in Nat /\ Cardinality(B) \in Nat
      /\ Cardinality(B) = Cardinality(A) - In(t, A) + In(t, B)
  BY ONLY <1>4, <1>5, CountUpdate
<1>7. In(t, A) = UseNum(f[t], m) /\ In(t, B) = UseNum(h[t], m)
  BY <1>4 DEF In, UseNum
<1> QED
  BY <1>3, <1>6, <1>7

LEMMA PlacesUpdate ==
    ASSUME IsFiniteSet(Tasks), NEW c, NEW d, NEW t \in Tasks, NEW W, \A u \in Tasks : u # t => d[u] = c[u]
    PROVE  /\ Cardinality(TasksAt(d, W)) \in Nat
           /\ Cardinality(TasksAt(d, W)) = Cardinality(TasksAt(c, W)) - In(c[t], W) + In(d[t], W)
<1>3. PICK A, B : A = TasksAt(c, W) /\ B = TasksAt(d, W)
  OBVIOUS
<1>4. /\ A \subseteq Tasks /\ B \ {t} = A \ {t}
      /\ t \in A <=> c[t] \in W
      /\ t \in B <=> d[t] \in W
  BY <1>3 DEF TasksAt
<1>5. IsFiniteSet(A)
  BY <1>4, FS_Subset
<1>6. /\ Cardinality(A) \in Nat /\ Cardinality(B) \in Nat
      /\ Cardinality(B) = Cardinality(A) - In(t, A) + In(t, B)
  BY ONLY <1>4, <1>5, CountUpdate
<1>7. In(t, A) = In(c[t], W) /\ In(t, B) = In(d[t], W)
  BY <1>4 DEF In, UseNum
<1> QED
  BY <1>3, <1>6, <1>7

\* One task moves; the others may at most be woken.
LEMMA UseStep ==
    ASSUME IsFiniteSet(Tasks), NEW p, NEW s, NEW f \in OpenTypes, NEW c \in PlaceTypes, NEW x,
           UseIn(p, s, f, c, x),
           NEW t \in Tasks, NEW g, NEW w, NEW q2, NEW r, NEW y,
           Moved(p, q2, t, f[t], g, c[t], w),
           \A u \in Tasks : u # t => y[u] \in {x[u], "running"} /\ (s = u <=> r = u),
           CallIn(t, q2, r, g, w, y[t])
    PROVE  UseIn(q2, r, [f EXCEPT ![t] = g], [c EXCEPT ![t] = w], y) /\ PipeNats(q2)
<1>1. PICK h, d : h = [f EXCEPT ![t] = g] /\ d = [c EXCEPT ![t] = w]
  OBVIOUS
<1>2. /\ h[t] = g /\ d[t] = w
      /\ \A u \in Tasks : u # t => h[u] = f[u] /\ d[u] = c[u]
  BY <1>1 DEF OpenTypes, PlaceTypes
<1>3. ASSUME NEW u \in Tasks PROVE CallIn(u, q2, r, h[u], d[u], y[u])
  <2>1. CASE u = t
    BY <1>2, <2>1
  <2>2. CASE u # t
    <3>1. CallIn(u, p, s, f[u], c[u], x[u])
      BY DEF UseIn
    <3>2. h[u] = f[u] /\ d[u] = c[u] /\ (y[u] = x[u] \/ y[u] = "running")
      BY <1>2, <2>2
    <3>3. (u \in q2.wait <=> u \in p.wait) /\ (s = u <=> r = u)
      BY <2>2 DEF Moved
    <3> QED
      BY <3>1, <3>2, <3>3 DEF CallIn
  <2> QED
    BY <2>1, <2>2
<1>4. Counted(p, f, c)
  BY DEF UseIn
<1>5. q2.readers \in Nat /\ q2.readers = Cardinality(UsersOf(h, "r"))
  <2>1. PICK m : m = "r"
    OBVIOUS
  <2>2. /\ Cardinality(UsersOf(h, m)) \in Nat
        /\ Cardinality(UsersOf(h, m)) = Cardinality(UsersOf(f, m)) - UseNum(f[t], m) + UseNum(h[t], m)
    <3>1. \A u \in Tasks : u # t => h[u] = f[u]
      BY <1>2
    <3>2. Cardinality(UsersOf(h, m)) \in Nat
      BY <3>1, UsersUpdate
    <3>3. Cardinality(UsersOf(h, m)) = Cardinality(UsersOf(f, m)) - UseNum(f[t], m) + UseNum(h[t], m)
      BY <3>1, UsersUpdate
    <3> QED
      BY <3>2, <3>3
  <2>3. p.readers = Cardinality(UsersOf(f, m))
    BY <1>4, <2>1 DEF Counted
  <2>4. q2.readers = p.readers - UseNum(f[t], m) + UseNum(h[t], m)
    BY <1>2, <2>1 DEF Moved
  <2> QED
    BY <2>1, <2>2, <2>3, <2>4
<1>6. q2.writers \in Nat /\ q2.writers = Cardinality(UsersOf(h, "w"))
  <2>1. PICK m : m = "w"
    OBVIOUS
  <2>2. /\ Cardinality(UsersOf(h, m)) \in Nat
        /\ Cardinality(UsersOf(h, m)) = Cardinality(UsersOf(f, m)) - UseNum(f[t], m) + UseNum(h[t], m)
    <3>1. \A u \in Tasks : u # t => h[u] = f[u]
      BY <1>2
    <3>2. Cardinality(UsersOf(h, m)) \in Nat
      BY <3>1, UsersUpdate
    <3>3. Cardinality(UsersOf(h, m)) = Cardinality(UsersOf(f, m)) - UseNum(f[t], m) + UseNum(h[t], m)
      BY <3>1, UsersUpdate
    <3> QED
      BY <3>2, <3>3
  <2>3. p.writers = Cardinality(UsersOf(f, m))
    BY <1>4, <2>1 DEF Counted
  <2>4. q2.writers = p.writers - UseNum(f[t], m) + UseNum(h[t], m)
    BY <1>2, <2>1 DEF Moved
  <2> QED
    BY <2>1, <2>2, <2>3, <2>4
<1>7. q2.waitingReaders \in Nat /\ q2.waitingReaders = Cardinality(TasksAt(d, {"read_wait"}))
  <2>1. PICK W : W = {"read_wait"}
    OBVIOUS
  <2>2. /\ Cardinality(TasksAt(d, W)) \in Nat
        /\ Cardinality(TasksAt(d, W)) = Cardinality(TasksAt(c, W)) - In(c[t], W) + In(d[t], W)
    BY <1>2, PlacesUpdate
  <2>3. p.waitingReaders = Cardinality(TasksAt(c, W))
    BY <1>4, <2>1 DEF Counted
  <2>4. q2.waitingReaders = p.waitingReaders - In(c[t], W) + In(d[t], W)
    BY <1>2, <2>1 DEF Moved
  <2> QED
    BY <2>1, <2>2, <2>3, <2>4
<1>8. q2.waitingWriters \in Nat /\ q2.waitingWriters = Cardinality(TasksAt(d, {"room_wait", "full_wait"}))
  <2>1. PICK W : W = {"room_wait", "full_wait"}
    OBVIOUS
  <2>2. /\ Cardinality(TasksAt(d, W)) \in Nat
        /\ Cardinality(TasksAt(d, W)) = Cardinality(TasksAt(c, W)) - In(c[t], W) + In(d[t], W)
    BY <1>2, PlacesUpdate
  <2>3. p.waitingWriters = Cardinality(TasksAt(c, W))
    BY <1>4, <2>1 DEF Counted
  <2>4. q2.waitingWriters = p.waitingWriters - In(c[t], W) + In(d[t], W)
    BY <1>2, <2>1 DEF Moved
  <2> QED
    BY <2>1, <2>2, <2>3, <2>4
<1>9. ASSUME NEW u \in q2.wait PROVE h[u] # None
  <2>1. u \in Tasks
    BY DEF Moved
  <2>2. CallIn(u, q2, r, h[u], d[u], y[u])
    BY <1>3, <2>1
  <2> QED
    BY <2>2 DEF CallIn, P!Waits, P!Polls
<1> QED
  BY <1>1, <1>3, <1>5, <1>6, <1>7, <1>8, <1>9 DEF UseIn, Counted, PipeNats

\* A pipe that has just been made has no users.
LEMMA UseNew ==
    ASSUME NEW f \in OpenTypes, NEW c \in PlaceTypes, NEW x,
           \A t \in Tasks : f[t] = None /\ c[t] = "idle" /\ x[t] # "interruptible"
    PROVE  UseIn(P!NewPipe, None, f, c, x)
<1>1. PICK n : /\ n = P!NewPipe /\ n.readers = 0 /\ n.writers = 0 /\ n.waitingReaders = 0
               /\ n.waitingWriters = 0 /\ n.wait = {}
  <2>1. /\ P!NewPipe.readers = 0 /\ P!NewPipe.writers = 0 /\ P!NewPipe.waitingReaders = 0
        /\ P!NewPipe.waitingWriters = 0 /\ P!NewPipe.wait = {}
    BY DEF P!NewPipe
  <2> QED
    BY <2>1
<1>2. None \notin Tasks
  BY MsgQueueAssumption
<1>3. /\ UsersOf(f, "r") = {} /\ UsersOf(f, "w") = {}
      /\ TasksAt(c, {"read_wait"}) = {} /\ TasksAt(c, {"room_wait", "full_wait"}) = {}
  BY DEF UsersOf, Uses, TasksAt
<1>4. Counted(n, f, c)
  BY <1>1, <1>3, FS_EmptySet DEF Counted
<1>5. ASSUME NEW t \in Tasks PROVE CallIn(t, n, None, f[t], c[t], x[t])
  BY <1>1, <1>2 DEF CallIn, P!Copies, P!Waits, P!Polls
<1> QED
  BY <1>1, <1>4, <1>5 DEF UseIn

\* When there are neither readers nor writers nobody is anywhere.
LEMMA UseNobody ==
    ASSUME IsFiniteSet(Tasks), NEW p, NEW s \in Tasks \cup {None}, NEW f \in OpenTypes, NEW c, NEW x,
           UseIn(p, s, f, c, x)
    PROVE  P!Unused(p) <=> \A t \in Tasks : f[t] = None
<1>1. PICK A, B : A = UsersOf(f, "r") /\ B = UsersOf(f, "w")
  OBVIOUS
<1>2. IsFiniteSet(A) /\ IsFiniteSet(B)
  BY <1>1, FS_Subset DEF UsersOf
<1>3. p.readers = Cardinality(A) /\ p.writers = Cardinality(B)
  BY <1>1 DEF UseIn, Counted
<1>4. P!Unused(p) <=> A = {} /\ B = {}
  BY <1>2, <1>3, FS_EmptySet DEF P!Unused
<1>5. ASSUME NEW t \in Tasks, f[t] # None PROVE "r" \in f[t].mode \/ "w" \in f[t].mode
  <2>1. f[t] \in P!OpenFiles
    BY <1>5 DEF OpenTypes
  <2>2. f[t].mode \in {{"r"}, {"w"}, {"r", "w"}}
    BY <2>1 DEF P!OpenFiles, P!FileModes
  <2> QED
    BY <2>2
<1>6. (A = {} /\ B = {}) <=> \A t \in Tasks : f[t] = None
  BY <1>1, <1>5 DEF UsersOf, Uses
<1> QED
  BY <1>4, <1>6

LEMMA UseIdle ==
    ASSUME NEW p, NEW s, NEW f, NEW c, NEW x, UseIn(p, s, f, c, x), NEW t \in Tasks, f[t] = None
    PROVE  c[t] = "idle" /\ x[t] # "interruptible"
BY DEF UseIn, CallIn, P!Waits, P!Polls

-----------------------------------------------------------------------------
(* The steps of tasks that have the pipe open, and who uses it.            *)

\* A pipe, apart from the signs of its counters.
IntPipes ==
    [buf : [0 .. PIPE_SIZE - 1 -> P!Bytes \cup {None}], start : 0 .. PIPE_SIZE - 1, len : 0 .. PIPE_SIZE,
     readers : Int, writers : Int, waitingReaders : Int, waitingWriters : Int,
     rCounter : Nat, wCounter : Nat, wait : SUBSET Tasks]

LEMMA IntPipe ==
    /\ \A p \in P!Pipes : p \in IntPipes /\ PipeNats(p)
    /\ \A p \in IntPipes : PipeNats(p) => p \in P!Pipes
BY DEF IntPipes, P!Pipes, PipeNats

\* The same but for who waits.
WaitedFor(p, W, a, b) == [p EXCEPT !.wait = W, !.waitingReaders = a, !.waitingWriters = b]

SameRing(p, n) == n.buf = p.buf /\ n.start = p.start /\ n.len = p.len
SameUsers(p, n) ==
    n.readers = p.readers /\ n.writers = p.writers /\ n.rCounter = p.rCounter /\ n.wCounter = p.wCounter

LEMMA WaitedFields ==
    ASSUME NEW p \in IntPipes, NEW W \in SUBSET Tasks, NEW a \in Int, NEW b \in Int,
           NEW n, n = WaitedFor(p, W, a, b)
    PROVE  /\ n \in IntPipes /\ SameRing(p, n) /\ SameUsers(p, n)
           /\ n.wait = W /\ n.waitingReaders = a /\ n.waitingWriters = b
BY DEF IntPipes, WaitedFor, SameRing, SameUsers

\* pipe_wait, before and after the sleep.
LEMMA WaitForms ==
    ASSUME NEW p \in IntPipes, NEW t
    PROVE  /\ [p EXCEPT !.wait = @ \cup {t}] = WaitedFor(p, p.wait \cup {t}, p.waitingReaders, p.waitingWriters)
           /\ [p EXCEPT !.wait = @ \ {t}] = WaitedFor(p, p.wait \ {t}, p.waitingReaders, p.waitingWriters)
           /\ [p EXCEPT !.waitingReaders = @ + 1] =
                  WaitedFor(p, p.wait, p.waitingReaders + 1, p.waitingWriters)
           /\ [p EXCEPT !.waitingReaders = @ - 1] =
                  WaitedFor(p, p.wait, p.waitingReaders - 1, p.waitingWriters)
           /\ [p EXCEPT !.waitingWriters = @ + 1] =
                  WaitedFor(p, p.wait, p.waitingReaders, p.waitingWriters + 1)
           /\ [p EXCEPT !.waitingWriters = @ - 1] =
                  WaitedFor(p, p.wait, p.waitingReaders, p.waitingWriters - 1)
BY DEF IntPipes, WaitedFor

LEMMA UseFacts ==
    ASSUME P!UseInv, NEW t \in Tasks, file[t] # None
    PROVE  /\ pipe \in P!Pipes /\ pipe \in IntPipes /\ PipeNats(pipe) /\ pipe # None
           /\ UseIn(pipe, sem, file, p_pc, p_st)
           /\ CallIn(t, pipe, sem, file[t], p_pc[t], p_st[t])
           /\ file \in OpenTypes /\ p_pc \in PlaceTypes /\ p_st \in StateTypes
           /\ sem \in Tasks \cup {None} /\ file[t] \in P!OpenFiles
<1>1. P!TypeOK /\ pipe # None /\ UseIn(pipe, sem, file, p_pc, p_st)
  BY UseParts DEF UseForm
<1>2. pipe \in P!Pipes
  BY <1>1 DEF P!TypeOK
<1>3. pipe \in IntPipes /\ PipeNats(pipe)
  BY <1>2, IntPipe
<1>4. file \in OpenTypes /\ p_pc \in PlaceTypes /\ p_st \in StateTypes
  BY <1>1 DEF P!TypeOK, OpenTypes, PlaceTypes, StateTypes, PipePCs
<1>5. file[t] \in P!OpenFiles
  BY <1>4 DEF OpenTypes
<1>6. sem \in Tasks \cup {None}
  BY <1>1 DEF P!TypeOK
<1> QED
  BY <1>1, <1>2, <1>3, <1>4, <1>5, <1>6 DEF UseIn

\* The other variables keep their types.
RestTypes(l, d, k, g, o, m) ==
    /\ l \in [Tasks -> Nat] /\ d \in [Tasks -> Nat] /\ k \in [Tasks -> Nat]
    /\ g \in [Tasks -> BOOLEAN] /\ o \in Nat /\ m \in Seq(P!Bytes)

\* A task that has the pipe open goes on.
LEMMA UseKept ==
    ASSUME PipeGiven, P!UseInv, NEW t \in Tasks, file[t] # None,
           NEW n \in IntPipes, NEW w \in PipePCs,
           pipe' = n, file' = file, p_pc' = [p_pc EXCEPT ![t] = w],
           Moved(pipe, n, t, file[t], file[t], p_pc[t], w),
           sem' \in Tasks \cup {None}, p_st' \in StateTypes,
           \A u \in Tasks : u # t => p_st'[u] \in {p_st[u], "running"} /\ (sem = u <=> sem' = u),
           CallIn(t, n, sem', file[t], w, p_st'[t]),
           RestTypes(left', done', cnt', p_sig', opens', stream')
    PROVE  P!UseInv'
<1>1. /\ UseIn(pipe, sem, file, p_pc, p_st)
      /\ file \in OpenTypes /\ p_pc \in PlaceTypes
  BY UseFacts
<1>2. PICK p, s, f, c, x : p = pipe /\ s = sem /\ f = file /\ c = p_pc /\ x = p_st
  OBVIOUS
<1>3. PICK r, y : r = sem' /\ y = p_st'
  OBVIOUS
<1>4. UseIn(n, r, [f EXCEPT ![t] = f[t]], [c EXCEPT ![t] = w], y) /\ PipeNats(n)
  <2>1. /\ UseIn(p, s, f, c, x) /\ f \in OpenTypes /\ c \in PlaceTypes
        /\ Moved(p, n, t, f[t], f[t], c[t], w)
    BY <1>1, <1>2
  <2>2. \A u \in Tasks : u # t => y[u] \in {x[u], "running"} /\ (s = u <=> r = u)
    BY <1>2, <1>3
  <2>3. CallIn(t, n, r, f[t], w, y[t])
    BY <1>2, <1>3
  <2>4. IsFiniteSet(Tasks)
    BY DEF PipeGiven
  <2> QED
    BY ONLY <2>1, <2>2, <2>3, <2>4, t \in Tasks, UseStep, SMTT(20)
<1>5. [f EXCEPT ![t] = f[t]] = f
  BY <1>1, <1>2 DEF OpenTypes
<1>6. UseIn(pipe', sem', file', p_pc', p_st')
  BY <1>2, <1>3, <1>4, <1>5
<1>7. n \in P!Pipes /\ n # None
  BY <1>4, IntPipe DEF PipeGiven, P!PipeAssumption
<1>8. P!TypeOK'
  BY <1>1, <1>7 DEF P!TypeOK, RestTypes, OpenTypes, PlaceTypes, StateTypes, PipePCs
<1>9. UseForm'
  BY <1>6, <1>7, <1>8 DEF UseForm
<1> QED
  BY <1>9, UsePartsNext

\* What a step does to the counters of those who wait.
SameWaits(p, n, t, a, w) ==
    /\ n.waitingReaders = p.waitingReaders - In(a, {"read_wait"}) + In(w, {"read_wait"})
    /\ n.waitingWriters =
           p.waitingWriters - In(a, {"room_wait", "full_wait"}) + In(w, {"room_wait", "full_wait"})
    /\ n.wait \subseteq Tasks /\ \A u \in Tasks : u # t => (u \in n.wait <=> u \in p.wait)

LEMMA MovedSame ==
    ASSUME NEW p \in IntPipes, NEW n, NEW t, NEW o, NEW a, NEW w, SameUsers(p, n), SameWaits(p, n, t, a, w)
    PROVE  Moved(p, n, t, o, o, a, w)
<1>1. UseNum(o, "r") \in Int /\ UseNum(o, "w") \in Int
  BY DEF UseNum
<1>2. p.readers \in Int /\ p.writers \in Int /\ n.readers = p.readers /\ n.writers = p.writers
  BY DEF IntPipes, SameUsers
<1>3. n.readers = p.readers - UseNum(o, "r") + UseNum(o, "r")
  BY <1>1, <1>2
<1>4. n.writers = p.writers - UseNum(o, "w") + UseNum(o, "w")
  BY <1>1, <1>2
<1> QED
  BY <1>3, <1>4 DEF Moved, SameWaits

\* The types of the arguments of a call.
LEMMA RestKept ==
    ASSUME P!UseInv
    PROVE  RestTypes(left, done, cnt, p_sig, opens, stream)
BY DEF P!UseInv, P!TypeOK, RestTypes

LEMMA RestReturn ==
    ASSUME NEW l, NEW d, NEW k, NEW g, NEW o, NEW m, RestTypes(l, d, k, g, o, m), NEW t
    PROVE  RestTypes([l EXCEPT ![t] = 0], [d EXCEPT ![t] = 0], [k EXCEPT ![t] = 0], [g EXCEPT ![t] = FALSE], o, m)
BY DEF RestTypes

\* The call is over.
LEMMA ReturnUse ==
    ASSUME PipeGiven, P!UseInv, NEW t \in Tasks, file[t] # None, NEW n \in IntPipes, NEW y \in StateTypes,
           P!Return(t, n, y), file' = file, opens' = opens, stream' = stream,
           sem = None \/ sem = t, y[t] = "running",
           \A u \in Tasks : u # t => y[u] \in {p_st[u], "running"},
           SameUsers(pipe, n), SameWaits(pipe, n, t, p_pc[t], "idle"), t \notin n.wait
    PROVE  P!UseInv'
<1>1. /\ pipe' = n /\ p_st' = y /\ sem' = None /\ p_pc' = [p_pc EXCEPT ![t] = "idle"]
      /\ left' = [left EXCEPT ![t] = 0] /\ done' = [done EXCEPT ![t] = 0] /\ cnt' = [cnt EXCEPT ![t] = 0]
      /\ p_sig' = [p_sig EXCEPT ![t] = FALSE]
  BY DEF P!Return
<1>2. None \notin Tasks
  BY MsgQueueAssumption
<1>3. Moved(pipe, n, t, file[t], file[t], p_pc[t], "idle")
  <2>1. PICK p, o, a : p = pipe /\ o = file[t] /\ a = p_pc[t]
    OBVIOUS
  <2>2. p \in IntPipes
    BY <2>1, UseFacts
  <2>3. Moved(p, n, t, o, o, a, "idle")
    BY <2>1, <2>2, MovedSame
  <2> QED
    BY <2>1, <2>3
<1>4. CallIn(t, n, sem', file[t], "idle", p_st'[t])
  BY <1>1, <1>2 DEF CallIn, P!Copies, P!Waits, P!Polls
<1>5. RestTypes(left', done', cnt', p_sig', opens', stream')
  BY <1>1, RestKept, RestReturn
<1>6. \A u \in Tasks : u # t => p_st'[u] \in {p_st[u], "running"} /\ (sem = u <=> sem' = u)
  BY <1>1, <1>2
<1>7. "idle" \in PipePCs
  BY DEF PipePCs
<1> QED
  BY <1>1, <1>3, <1>4, <1>5, <1>6, <1>7, UseKept

\* It sleeps in pipe_wait.
LEMMA WaitUse ==
    ASSUME PipeGiven, P!UseInv, NEW t \in Tasks, file[t] # None, NEW n \in IntPipes, NEW y \in StateTypes,
           NEW w \in {"open_wait", "read_wait", "room_wait", "full_wait"},
           P!PipeWait(t, n, y, w), file' = file, RestTypes(left', done', cnt', p_sig', opens', stream'),
           sem = None \/ sem = t, w = "open_wait" => file[t].mode # {"r", "w"},
           \A u \in Tasks : u # t => y[u] \in {p_st[u], "running"},
           SameUsers(pipe, n), SameWaits(pipe, n, t, p_pc[t], w)
    PROVE  P!UseInv'
<1>1. PICK m : m = WaitedFor(n, n.wait \cup {t}, n.waitingReaders, n.waitingWriters)
  OBVIOUS
<1>2. /\ pipe' = m /\ sem' = None /\ p_pc' = [p_pc EXCEPT ![t] = w]
      /\ p_st' = [y EXCEPT ![t] = IF p_sig[t] THEN "running" ELSE "interruptible"]
  BY <1>1, WaitForms DEF P!PipeWait
<1>3. /\ m \in IntPipes /\ SameUsers(n, m) /\ m.wait = n.wait \cup {t}
      /\ m.waitingReaders = n.waitingReaders /\ m.waitingWriters = n.waitingWriters
  <2>1. n.wait \cup {t} \in SUBSET Tasks /\ n.waitingReaders \in Int /\ n.waitingWriters \in Int
    BY DEF IntPipes
  <2> QED
    BY <1>1, <2>1, WaitedFields
<1>4. None \notin Tasks
  BY MsgQueueAssumption
<1>5. Moved(pipe, m, t, file[t], file[t], p_pc[t], w)
  <2>1. PICK p, o, a : p = pipe /\ o = file[t] /\ a = p_pc[t]
    OBVIOUS
  <2>2. p \in IntPipes
    BY <2>1, UseFacts
  <2>3. SameUsers(p, m) /\ SameWaits(p, m, t, a, w)
    BY <1>3, <2>1 DEF SameUsers, SameWaits
  <2>4. Moved(p, m, t, o, o, a, w)
    BY <2>2, <2>3, MovedSame
  <2> QED
    BY <2>1, <2>4
<1>6. CallIn(t, m, sem', file[t], w, p_st'[t])
  BY <1>2, <1>3, <1>4 DEF CallIn, P!Copies, P!Waits, P!Polls
<1>7. p_st' \in StateTypes /\ \A u \in Tasks : u # t => p_st'[u] \in {p_st[u], "running"} /\ (sem = u <=> sem' = u)
  BY <1>2, <1>4 DEF StateTypes
<1>8. w \in PipePCs
  BY DEF PipePCs, P!Waits
<1> QED
  BY <1>2, <1>3, <1>5, <1>6, <1>7, <1>8, UseKept

\* It has i_sem for a copy.
LEMMA HoldUse ==
    ASSUME PipeGiven, P!UseInv, NEW t \in Tasks, file[t] # None, NEW n \in IntPipes, NEW w \in P!Copies,
           P!Hold(t, n, w), file' = file, p_st' = p_st, p_st[t] = "running",
           RestTypes(left', done', cnt', p_sig', opens', stream'),
           sem = None \/ sem = t,
           SameUsers(pipe, n), SameWaits(pipe, n, t, p_pc[t], w), t \notin n.wait
    PROVE  P!UseInv'
<1>1. pipe' = n /\ sem' = t /\ p_pc' = [p_pc EXCEPT ![t] = w]
  BY DEF P!Hold
<1>2. None \notin Tasks
  BY MsgQueueAssumption
<1>3. Moved(pipe, n, t, file[t], file[t], p_pc[t], w)
  <2>1. PICK p, o, a : p = pipe /\ o = file[t] /\ a = p_pc[t]
    OBVIOUS
  <2>2. p \in IntPipes
    BY <2>1, UseFacts
  <2>3. Moved(p, n, t, o, o, a, w)
    BY <2>1, <2>2, MovedSame
  <2> QED
    BY <2>1, <2>3
<1>4. CallIn(t, n, sem', file[t], w, p_st'[t])
  BY <1>1, <1>2 DEF CallIn, P!Copies, P!Waits, P!Polls
<1>5. p_st' \in StateTypes /\ \A u \in Tasks : u # t => p_st'[u] \in {p_st[u], "running"} /\ (sem = u <=> sem' = u)
  BY <1>1, <1>2, UseFacts
<1>6. w \in PipePCs /\ sem' \in Tasks \cup {None}
  BY <1>1 DEF PipePCs
<1> QED
  BY <1>1, <1>3, <1>4, <1>5, <1>6, UseKept

\* The counters when a task begins to wait as a reader or as a writer, and when it is through.
LEMMA WaitersMore ==
    ASSUME NEW p \in IntPipes, NEW n \in IntPipes, NEW t, NEW a, NEW w, NEW z, SameUsers(p, n),
           SameWaits(p, n, t, a, z), z \notin {"read_wait", "room_wait", "full_wait"}, NEW m,
           \/ w = "read_wait" /\ m = [n EXCEPT !.waitingReaders = @ + 1]
           \/ w \in {"room_wait", "full_wait"} /\ m = [n EXCEPT !.waitingWriters = @ + 1]
    PROVE  m \in IntPipes /\ SameUsers(p, m) /\ SameRing(n, m) /\ m.wait = n.wait /\ SameWaits(p, m, t, a, w)
<1>1. PICK R, W \in Int : R = n.waitingReaders /\ W = n.waitingWriters
  BY DEF IntPipes
<1>2. PICK i, j \in Int : i = p.waitingReaders - In(a, {"read_wait"})
                          /\ j = p.waitingWriters - In(a, {"room_wait", "full_wait"})
  <2>1. p.waitingReaders \in Int /\ p.waitingWriters \in Int
    BY DEF IntPipes
  <2>2. In(a, {"read_wait"}) \in Int /\ In(a, {"room_wait", "full_wait"}) \in Int
    BY DEF In
  <2> QED
    BY ONLY <2>1, <2>2
<1>3. n.wait \in SUBSET Tasks
  BY DEF IntPipes
<1>4. R = i /\ W = j
  BY <1>1, <1>2 DEF SameWaits, In
<1>5. CASE w \in {"room_wait", "full_wait"} /\ m = [n EXCEPT !.waitingWriters = @ + 1]
  <2>1. m = WaitedFor(n, n.wait, R, W + 1)
    BY <1>1, <1>5, WaitForms
  <2>2. /\ m \in IntPipes /\ SameRing(n, m) /\ SameUsers(n, m)
        /\ m.wait = n.wait /\ m.waitingReaders = R /\ m.waitingWriters = W + 1
    BY <1>3, <2>1, WaitedFields
  <2>3. SameWaits(p, m, t, a, w)
    BY <1>2, <1>4, <1>5, <2>2 DEF SameWaits, In
  <2> QED
    BY <2>2, <2>3 DEF SameUsers
<1>6. CASE w = "read_wait" /\ m = [n EXCEPT !.waitingReaders = @ + 1]
  <2>1. m = WaitedFor(n, n.wait, R + 1, W)
    BY <1>1, <1>6, WaitForms
  <2>2. /\ m \in IntPipes /\ SameRing(n, m) /\ SameUsers(n, m)
        /\ m.wait = n.wait /\ m.waitingReaders = R + 1 /\ m.waitingWriters = W
    BY <1>3, <2>1, WaitedFields
  <2>3. SameWaits(p, m, t, a, w)
    BY <1>2, <1>4, <1>6, <2>2 DEF SameWaits, In
  <2> QED
    BY <2>2, <2>3 DEF SameUsers
<1> QED
  BY <1>5, <1>6

\* Before the sleep: t is not counted.
LEMMA WaitersNone ==
    ASSUME NEW p \in IntPipes, NEW t, NEW a, NEW w,
           a \notin {"read_wait", "room_wait", "full_wait"}, w \notin {"read_wait", "room_wait", "full_wait"}
    PROVE  SameUsers(p, p) /\ SameRing(p, p) /\ SameWaits(p, p, t, a, w)
BY DEF IntPipes, SameUsers, SameRing, SameWaits, In

\* n is p without t, who waited at a.
Without(p, t, a, n) ==
    \/ a = "read_wait" /\ n = [[p EXCEPT !.wait = @ \ {t}] EXCEPT !.waitingReaders = @ - 1]
    \/ a \in {"room_wait", "full_wait"} /\ n = [[p EXCEPT !.wait = @ \ {t}] EXCEPT !.waitingWriters = @ - 1]
    \/ a \notin {"read_wait", "room_wait", "full_wait"} /\ n = [p EXCEPT !.wait = @ \ {t}]

\* After the sleep: neither is it any more.
LEMMA WaitersLess ==
    ASSUME NEW p \in IntPipes, NEW t, NEW a, NEW w, NEW n, w \notin {"read_wait", "room_wait", "full_wait"},
           Without(p, t, a, n)
    PROVE  n \in IntPipes /\ SameUsers(p, n) /\ SameRing(p, n) /\ n.wait = p.wait \ {t} /\ SameWaits(p, n, t, a, w)
<1>1. PICK R, W \in Int : R = p.waitingReaders /\ W = p.waitingWriters
  BY DEF IntPipes
<1>2. p.wait \ {t} \in SUBSET Tasks
  BY DEF IntPipes
<1>3. PICK m : m = [p EXCEPT !.wait = @ \ {t}]
  OBVIOUS
<1>4. m = WaitedFor(p, p.wait \ {t}, R, W)
  BY <1>1, <1>3, WaitForms
<1>5. /\ m \in IntPipes /\ SameRing(p, m) /\ SameUsers(p, m)
      /\ m.wait = p.wait \ {t} /\ m.waitingReaders = R /\ m.waitingWriters = W
  BY <1>1, <1>2, <1>4, WaitedFields
<1>6. CASE a = "read_wait"
  <2>0. n = [m EXCEPT !.waitingReaders = @ - 1]
    BY ONLY <1>3, <1>6, Without(p, t, a, n) DEF Without
  <2>1. n = WaitedFor(m, m.wait, R - 1, W)
    BY ONLY <1>5, <2>0, WaitForms
  <2>2. /\ n \in IntPipes /\ SameRing(m, n) /\ SameUsers(m, n)
        /\ n.wait = m.wait /\ n.waitingReaders = R - 1 /\ n.waitingWriters = W
    BY <1>2, <1>5, <2>1, WaitedFields
  <2> QED
    BY <1>1, <1>5, <1>6, <2>2 DEF SameRing, SameUsers, SameWaits, In, IntPipes
<1>7. CASE a \in {"room_wait", "full_wait"}
  <2>0. n = [m EXCEPT !.waitingWriters = @ - 1]
    BY ONLY <1>3, <1>7, Without(p, t, a, n) DEF Without
  <2>1. n = WaitedFor(m, m.wait, R, W - 1)
    BY ONLY <1>5, <2>0, WaitForms
  <2>2. /\ n \in IntPipes /\ SameRing(m, n) /\ SameUsers(m, n)
        /\ n.wait = m.wait /\ n.waitingReaders = R /\ n.waitingWriters = W - 1
    BY <1>2, <1>5, <2>1, WaitedFields
  <2> QED
    BY <1>1, <1>5, <1>7, <2>2 DEF SameRing, SameUsers, SameWaits, In, IntPipes
<1>8. CASE a \notin {"read_wait", "room_wait", "full_wait"}
  <2>1. n = m
    BY ONLY <1>3, <1>8, Without(p, t, a, n) DEF Without
  <2> QED
    BY <1>1, <1>5, <1>8, <2>1 DEF SameRing, SameUsers, SameWaits, In, IntPipes
<1> QED
  BY <1>6, <1>7, <1>8

-----------------------------------------------------------------------------
(* Room, pieces and sleepers, task by task.                                *)

\* What keeps a task asleep at w on the pipe p, with k bytes to do, the open file o and c in cnt.
SleepIn(p, w, k, o, c) ==
    /\ w = "read_wait" => p.len = 0 /\ p.writers > 0
    /\ w = "room_wait" => P!Free(p) < P!Needed(k) /\ p.readers > 0
    /\ w = "full_wait" => P!Free(p) = 0 /\ p.readers > 0
    /\ w = "open_wait" => P!Partner(p, o.mode) = c /\ P!Alone(p, o.mode)
    /\ w = "poll_sleep" => p.len = 0 /\ (p.writers = 0 => o.version = p.wCounter)
    /\ w = "poll_writers" /\ c # 1 => p.len = 0

PipeSleepInv ==
    sem = None => \A t \in Tasks : p_st[t] = "interruptible" => SleepIn(pipe, p_pc[t], left[t], file[t], cnt[t])

LEMMA SleepParts == PipeSleepInv <=> P!NoLostWakeup /\ P!PollInv
BY DEF PipeSleepInv, SleepIn, P!NoLostWakeup, P!PollInv, P!Hup

\* RoomInv of one task at w with k bytes to do and d done, on the pipe p.
RoomIn(w, k, d, p) ==
    /\ w \notin {"read_copy", "read_wait", "write_copy", "full_wait"} => d = 0
    /\ w = "write_copy" => p.readers > 0
    /\ w = "write_copy" /\ d + k <= PIPE_BUF => k <= P!Free(p)
    /\ w = "full_wait" => d + k > PIPE_BUF

LEMMA RoomParts == P!RoomInv <=> \A t \in Tasks : RoomIn(p_pc[t], left[t], done[t], pipe)
BY DEF P!RoomInv, RoomIn

LEMMA RoomPartsNext == P!RoomInv' <=> \A t \in Tasks : RoomIn(p_pc'[t], left'[t], done'[t], pipe')
<1>1. P!RoomInv' <=> (\A t \in Tasks : RoomIn(p_pc[t], left[t], done[t], pipe))'
  BY RoomParts, PTL
<1> QED
  BY <1>1

\* PartnerInv of one task.
OpenIn(p, w, o, c) ==
    w = "open_wait" => c <= P!Partner(p, o.mode) /\ (c = P!Partner(p, o.mode) => P!Alone(p, o.mode))

LEMMA PartnerParts == P!PartnerInv <=> \A t \in Tasks : OpenIn(pipe, p_pc[t], file[t], cnt[t])
BY DEF P!PartnerInv, OpenIn

LEMMA PartnerPartsNext == P!PartnerInv' <=> \A t \in Tasks : OpenIn(pipe', p_pc'[t], file'[t], cnt'[t])
<1>1. P!PartnerInv' <=> (\A t \in Tasks : OpenIn(pipe, p_pc[t], file[t], cnt[t]))'
  BY PartnerParts, PTL
<1> QED
  BY <1>1

SafeInv == P!RoomInv /\ P!PartnerInv /\ P!PieceInv /\ PipeSleepInv

\* Only t does something.
OnlyOf(t) ==
    \A u \in Tasks : u # t => /\ left'[u] = left[u] /\ done'[u] = done[u] /\ cnt'[u] = cnt[u]
                              /\ file'[u] = file[u] /\ p_pc'[u] = p_pc[u]

SameNeeds(p, n) == n.len = p.len /\ SameUsers(p, n)

\* Whoever is on the wait queue has been woken.
Told(t, y) == \A u \in Tasks : u # t /\ u \in pipe.wait => y[u] = "running"

\* A task that has i_sem is alone with the bytes.
LEMMA RoomStep ==
    ASSUME P!UseInv, P!RoomInv, NEW t \in Tasks, OnlyOf(t),
           SameNeeds(pipe, pipe') \/ sem = None \/ sem = t,
           RoomIn(p_pc'[t], left'[t], done'[t], pipe')
    PROVE  P!RoomInv'
<1>1. ASSUME NEW u \in Tasks PROVE RoomIn(p_pc'[u], left'[u], done'[u], pipe')
  <2>1. CASE u = t
    BY <2>1
  <2>2. CASE u # t
    <3>1. p_pc'[u] = p_pc[u] /\ left'[u] = left[u] /\ done'[u] = done[u]
      BY <2>2 DEF OnlyOf
    <3>2. RoomIn(p_pc[u], left[u], done[u], pipe)
      BY RoomParts
    <3>3. p_pc[u] = "write_copy" => sem = u
      BY DEF P!UseInv, P!CallInv, P!CallOf, P!Copies
    <3>4. p_pc[u] = "write_copy" => SameNeeds(pipe, pipe')
      BY <2>2, <3>3, MsgQueueAssumption
    <3>5. PICK w, k, d, m, i : w = p_pc[u] /\ k = left[u] /\ d = done[u] /\ m = pipe /\ i = pipe'
      OBVIOUS
    <3>6. RoomIn(w, k, d, m) /\ (w = "write_copy" => SameNeeds(m, i))
      BY <3>2, <3>4, <3>5
    <3>7. RoomIn(w, k, d, i)
      BY ONLY <3>6 DEF RoomIn, SameNeeds, SameUsers, P!Free
    <3> QED
      BY <3>1, <3>5, <3>7
  <2> QED
    BY <2>1, <2>2
<1> QED
  BY <1>1, RoomPartsNext

LEMMA OpenSame ==
    ASSUME NEW p, NEW n, SameUsers(p, n), NEW w, NEW o, NEW c, OpenIn(p, w, o, c)
    PROVE  OpenIn(n, w, o, c)
BY DEF SameUsers, OpenIn, P!Partner, P!Alone

LEMMA PartnerStep ==
    ASSUME P!PartnerInv, NEW t \in Tasks, OnlyOf(t),
           \A u \in Tasks : u # t /\ OpenIn(pipe, p_pc[u], file[u], cnt[u]) => OpenIn(pipe', p_pc[u], file[u], cnt[u]),
           OpenIn(pipe', p_pc'[t], file'[t], cnt'[t])
    PROVE  P!PartnerInv'
<1>1. ASSUME NEW u \in Tasks PROVE OpenIn(pipe', p_pc'[u], file'[u], cnt'[u])
  <2>1. CASE u = t
    BY <2>1
  <2>2. CASE u # t
    BY <2>2, PartnerParts DEF OnlyOf
  <2> QED
    BY <2>1, <2>2
<1> QED
  BY <1>1, PartnerPartsNext

LEMMA PartnerSame ==
    ASSUME P!PartnerInv, NEW t \in Tasks, OnlyOf(t), SameUsers(pipe, pipe'),
           OpenIn(pipe, p_pc'[t], file'[t], cnt'[t])
    PROVE  P!PartnerInv'
<1>1. PICK p, n : p = pipe /\ n = pipe' /\ SameUsers(p, n)
  OBVIOUS
<1>2. \A w, o, c : OpenIn(p, w, o, c) => OpenIn(n, w, o, c)
  BY <1>1, OpenSame
<1> QED
  BY <1>1, <1>2, PartnerStep

\* t has no short write under way.
Whole(t) == p_pc[t] = "write_copy" => left[t] = 0 \/ done[t] + left[t] > PIPE_BUF

LEMMA PieceStep ==
    ASSUME P!UseInv, P!PieceInv, PIPE_BUF \in Nat, NEW t \in Tasks, OnlyOf(t), stream' = stream,
           sem' = sem \/ sem = None \/ sem = t, Whole(t)
    PROVE  P!PieceInv'
<1> SUFFICES ASSUME NEW k \in DOMAIN stream, NEW b, b = stream[k], b[3] <= PIPE_BUF, b[2] < b[3]
             PROVE  \/ k < Len(stream) /\ stream[k + 1] = <<b[1], b[2] + 1, b[3]>>
                    \/ /\ k = Len(stream) /\ sem' = b[1] /\ p_pc'[b[1]] = "write_copy"
                       /\ b[2] = done'[b[1]] /\ b[3] = done'[b[1]] + left'[b[1]]
  BY DEF P!PieceInv
<1>1. \/ k < Len(stream) /\ stream[k + 1] = <<b[1], b[2] + 1, b[3]>>
      \/ /\ k = Len(stream) /\ sem = b[1] /\ p_pc[b[1]] = "write_copy"
         /\ b[2] = done[b[1]] /\ b[3] = done[b[1]] + left[b[1]]
  BY DEF P!PieceInv
<1>2. b \in P!Bytes
  BY DEF P!UseInv, P!TypeOK
<1>3. PICK u \in Tasks, i, m \in Nat : u = b[1] /\ i = b[2] /\ m = b[3]
  BY <1>2 DEF P!Bytes
<1>4. CASE /\ k = Len(stream) /\ sem = u /\ p_pc[u] = "write_copy"
           /\ i = done[u] /\ m = done[u] + left[u]
  <2>1. u # t
    <3>1. SUFFICES ASSUME u = t PROVE FALSE
      OBVIOUS
    <3>2. left[t] \in Nat /\ done[t] \in Nat
      BY DEF P!UseInv, P!TypeOK
    <3>3. i < m /\ m <= PIPE_BUF
      BY <1>3
    <3> QED
      BY <1>4, <3>1, <3>2, <3>3 DEF Whole
  <2>2. sem' = u
    BY <1>4, <2>1, MsgQueueAssumption
  <2>3. p_pc'[u] = p_pc[u] /\ done'[u] = done[u] /\ left'[u] = left[u]
    BY <2>1 DEF OnlyOf
  <2> QED
    BY <1>3, <1>4, <2>2, <2>3
<1> QED
  BY <1>1, <1>3, <1>4

\* The others sleep for the same reasons, if at all.
LEMMA SleepStep ==
    ASSUME NEW t \in Tasks, OnlyOf(t),
           sem' = None => \A u \in Tasks : u # t /\ p_st'[u] = "interruptible" =>
                              SleepIn(pipe', p_pc[u], left[u], file[u], cnt[u]),
           sem' = None /\ p_st'[t] = "interruptible" => SleepIn(pipe', p_pc'[t], left'[t], file'[t], cnt'[t])
    PROVE  PipeSleepInv'
<1> SUFFICES ASSUME sem' = None, NEW u \in Tasks, p_st'[u] = "interruptible"
             PROVE  SleepIn(pipe', p_pc'[u], left'[u], file'[u], cnt'[u])
  BY DEF PipeSleepInv
<1>1. CASE u = t
  BY <1>1
<1>2. CASE u # t
  BY <1>2 DEF OnlyOf
<1> QED
  BY <1>1, <1>2

LEMMA SleepSame ==
    ASSUME NEW p, NEW n, SameNeeds(p, n), NEW w, NEW k, NEW o, NEW c, SleepIn(p, w, k, o, c)
    PROVE  SleepIn(n, w, k, o, c)
BY DEF SameNeeds, SameUsers, SleepIn, P!Free, P!Partner, P!Alone

LEMMA OthersSame ==
    ASSUME P!UseInv, PipeSleepInv, NEW t \in Tasks, NEW n, NEW y, SameNeeds(pipe, n), pipe # None,
           \A u \in Tasks : u # t => y[u] \in {p_st[u], "running"},
           sem = None \/ Told(t, y), NEW u \in Tasks, u # t, y[u] = "interruptible"
    PROVE  SleepIn(n, p_pc[u], left[u], file[u], cnt[u])
<1>1. p_st[u] = "interruptible"
  OBVIOUS
<1>2. u \in pipe.wait
  BY <1>1 DEF P!UseInv, P!CallInv, P!CallOf
<1>3. sem = None
  BY <1>2 DEF Told
<1>4. SleepIn(pipe, p_pc[u], left[u], file[u], cnt[u])
  BY <1>1, <1>3 DEF PipeSleepInv
<1>5. PICK p, w, k, o, c : p = pipe /\ w = p_pc[u] /\ k = left[u] /\ o = file[u] /\ c = cnt[u]
  OBVIOUS
<1>6. SleepIn(n, w, k, o, c)
  BY <1>4, <1>5, SleepSame
<1> QED
  BY <1>5, <1>6

\* The step of a task that leaves the users and the bytes alone.
LEMMA SafeStep ==
    ASSUME P!UseInv, SafeInv, PIPE_BUF \in Nat, NEW t \in Tasks, OnlyOf(t), pipe # None, SameNeeds(pipe, pipe'),
           stream' = stream, sem' = sem \/ sem = None \/ sem = t, Whole(t),
           \A u \in Tasks : u # t => p_st'[u] \in {p_st[u], "running"},
           sem' = None => sem = None \/ Told(t, p_st'),
           RoomIn(p_pc'[t], left'[t], done'[t], pipe), OpenIn(pipe, p_pc'[t], file'[t], cnt'[t]),
           sem' = None /\ p_st'[t] = "interruptible" => SleepIn(pipe', p_pc'[t], left'[t], file'[t], cnt'[t])
    PROVE  SafeInv'
<1>1. RoomIn(p_pc'[t], left'[t], done'[t], pipe')
  BY DEF SameNeeds, SameUsers, RoomIn, P!Free
<1>2. P!RoomInv'
  BY <1>1, RoomStep DEF SafeInv
<1>6. P!PartnerInv'
  BY PartnerSame DEF SafeInv, SameNeeds
<1>3. P!PieceInv'
  BY PieceStep DEF SafeInv
<1>4. ASSUME sem' = None, NEW u \in Tasks, u # t, p_st'[u] = "interruptible"
      PROVE  SleepIn(pipe', p_pc[u], left[u], file[u], cnt[u])
  <2>1. PICK n, y : n = pipe' /\ y = p_st'
    OBVIOUS
  <2> QED
    BY <1>4, <2>1, OthersSame DEF SafeInv
<1>5. PipeSleepInv'
  BY <1>4, SleepStep
<1> QED
  BY <1>2, <1>3, <1>5, <1>6 DEF SafeInv

\* The place of the i-th byte of a ring from s on, and the ring p with the bytes m.
Slot(s, i) == (s + i - 1) % PIPE_SIZE
RingOf(p, m) == m = [i \in 1 .. p.len |-> p.buf[Slot(p.start, i)]]

PipeInv == P!UseInv /\ P!RingIsStream /\ (~Faults => SafeInv)

LEMMA RingNow ==
    ASSUME PipeInv, pipe # None
    PROVE  RingOf(pipe, stream)
BY DEF PipeInv, P!RingIsStream, RingOf, Slot

LEMMA RingNext ==
    ASSUME P!UseInv', NEW t \in Tasks, file'[t] # None, RingOf(pipe', stream')
    PROVE  P!RingIsStream'
<1>1. pipe' # None
  BY DEF P!UseInv, P!UsersCounted
<1> QED
  BY <1>1 DEF P!RingIsStream, RingOf, Slot

LEMMA RingSame ==
    ASSUME NEW p, NEW n, NEW m, RingOf(p, m), SameRing(p, n)
    PROVE  RingOf(n, m) /\ n.len = p.len
BY DEF RingOf, SameRing

\* t is off the wait queue, with the pipe n and the states y.
Begun(t, n, y) ==
    /\ file[t] # None /\ n \in IntPipes /\ y \in StateTypes /\ y[t] = "running"
    /\ sem = None \/ sem = t
    /\ \A u \in Tasks : u # t => y[u] \in {p_st[u], "running"}
    /\ SameUsers(pipe, n) /\ SameWaits(pipe, n, t, p_pc[t], "idle") /\ t \notin n.wait
    /\ n.len = pipe.len /\ RingOf(n, stream)

\* t may give i_sem up.
MayLeave(t, y) == Faults \/ (Whole(t) /\ (sem = None \/ Told(t, y)))

LEMMA OnlyOne ==
    ASSUME P!UseInv, NEW t \in Tasks, file' = file, \E w : p_pc' = [p_pc EXCEPT ![t] = w],
           \E k : left' = [left EXCEPT ![t] = k], \E d : done' = [done EXCEPT ![t] = d],
           \E c : cnt' = [cnt EXCEPT ![t] = c]
    PROVE  OnlyOf(t)
BY DEF P!UseInv, P!TypeOK, OnlyOf

LEMMA SameOne ==
    ASSUME P!UseInv, NEW t
    PROVE  left = [left EXCEPT ![t] = left[t]] /\ done = [done EXCEPT ![t] = done[t]] /\ cnt = [cnt EXCEPT ![t] = cnt[t]]
BY DEF P!UseInv, P!TypeOK

LEMMA BegunReturn ==
    ASSUME PipeGiven, PipeInv, NEW t \in Tasks, NEW n, NEW y, Begun(t, n, y), MayLeave(t, y),
           P!Return(t, n, y), file' = file, opens' = opens, stream' = stream
    PROVE  PipeInv'
<1>1. P!UseInv'
  BY ReturnUse DEF Begun, PipeInv
<1>2. P!RingIsStream'
  BY <1>1, RingNext DEF Begun, P!Return
<1>3. ASSUME ~Faults PROVE SafeInv'
  <2>1. P!UseInv /\ SafeInv /\ PIPE_BUF \in Nat /\ pipe # None
    BY <1>3, UseFacts DEF PipeInv, PipeGiven, P!PipeAssumption, Begun
  <2>2. OnlyOf(t)
    BY <2>1, OnlyOne DEF P!Return
  <2>3. SameNeeds(pipe, pipe')
    BY DEF SameNeeds, Begun, P!Return
  <2>4. /\ sem = None \/ sem = t
        /\ \A u \in Tasks : u # t => p_st'[u] \in {p_st[u], "running"}
        /\ Whole(t) /\ (sem = None \/ Told(t, p_st'))
    BY <1>3 DEF Begun, MayLeave, P!Return
  <2>5. p_pc'[t] = "idle" /\ done'[t] = 0 /\ p_st'[t] = "running"
    BY <2>1 DEF Begun, P!Return, P!UseInv, P!TypeOK
  <2>6. RoomIn(p_pc'[t], left'[t], done'[t], pipe)
    BY <2>5 DEF RoomIn
  <2>7. OpenIn(pipe, p_pc'[t], file'[t], cnt'[t])
    BY <2>5 DEF OpenIn
  <2> QED
    BY <2>1, <2>2, <2>3, <2>4, <2>5, <2>6, <2>7, SafeStep
<1> QED
  BY <1>1, <1>2, <1>3 DEF PipeInv

LEMMA BegunHold ==
    ASSUME PipeGiven, PipeInv, NEW t \in Tasks, NEW n, NEW w \in P!Copies, Begun(t, n, p_st), sem = None,
           P!Hold(t, n, w), file' = file, p_st' = p_st,
           RestTypes(left', done', cnt', p_sig', opens', stream'), stream' = stream,
           NEW k, left' = [left EXCEPT ![t] = k], done' = done, cnt' = cnt,
           ~Faults /\ w = "write_copy" => RoomIn(w, k, done[t], pipe)
    PROVE  PipeInv'
<1>0. SameWaits(pipe, n, t, p_pc[t], w)
  BY DEF Begun, SameWaits, In, P!Copies
<1>1. P!UseInv'
  BY <1>0, HoldUse DEF Begun, PipeInv
<1>2. P!RingIsStream'
  BY <1>1, RingNext DEF Begun, P!Hold
<1>3. ASSUME ~Faults PROVE SafeInv'
  <2>1. P!UseInv /\ SafeInv /\ PIPE_BUF \in Nat /\ pipe # None
    BY <1>3, UseFacts DEF PipeInv, PipeGiven, P!PipeAssumption, Begun
  <2>2. OnlyOf(t)
    BY <2>1, OnlyOne, SameOne DEF P!Hold
  <2>3. SameNeeds(pipe, pipe')
    BY DEF SameNeeds, Begun, P!Hold
  <2>4. \A u \in Tasks : u # t => p_st'[u] \in {p_st[u], "running"}
    BY DEF Begun
  <2>5. p_pc'[t] = w /\ p_st'[t] = "running" /\ left'[t] = k /\ done'[t] = done[t]
    BY <2>1 DEF Begun, P!Hold, P!UseInv, P!TypeOK
  <2>6. RoomIn(p_pc'[t], left'[t], done'[t], pipe)
    BY <1>3, <2>5 DEF RoomIn, P!Copies
  <2>7. Whole(t)
    <3>1. p_pc[t] \notin P!Copies
      BY <2>1, MsgQueueAssumption DEF P!UseInv, P!CallInv, P!CallOf
    <3> QED
      BY <3>1 DEF Whole, P!Copies
  <2>8. OpenIn(pipe, p_pc'[t], file'[t], cnt'[t])
    BY <2>5 DEF OpenIn, P!Copies
  <2> QED
    BY <2>1, <2>2, <2>3, <2>4, <2>5, <2>6, <2>7, <2>8, SafeStep
<1> QED
  BY <1>1, <1>2, <1>3 DEF PipeInv

\* A task that is idle, or that has woken up.
LEMMA BegunIdle ==
    ASSUME PipeInv, NEW t \in Tasks, file[t] # None, p_pc[t] = "idle", sem = None
    PROVE  Begun(t, pipe, p_st)
<1>1. /\ pipe \in IntPipes /\ p_st \in StateTypes /\ CallIn(t, pipe, sem, file[t], p_pc[t], p_st[t])
  BY UseFacts DEF PipeInv
<1>2. t \notin pipe.wait /\ p_st[t] # "interruptible"
  BY <1>1 DEF CallIn, P!Waits, P!Polls
<1>3. p_st[t] = "running"
  BY <1>1, <1>2 DEF StateTypes
<1>4. SameUsers(pipe, pipe) /\ SameWaits(pipe, pipe, t, p_pc[t], "idle")
  <2>1. PICK p, a : p = pipe /\ a = p_pc[t]
    OBVIOUS
  <2>2. SameUsers(p, p) /\ SameWaits(p, p, t, a, "idle")
    BY <1>1, <2>1, WaitersNone
  <2> QED
    BY <2>1, <2>2
<1>5. RingOf(pipe, stream)
  BY RingNow, UseFacts DEF PipeInv
<1> QED
  BY <1>1, <1>2, <1>3, <1>4, <1>5 DEF Begun

LEMMA BegunCopy ==
    ASSUME PipeInv, NEW t \in Tasks, p_pc[t] \in P!Copies
    PROVE  Begun(t, pipe, p_st) /\ sem = t
<1>0. file[t] # None
  BY DEF PipeInv, P!UseInv, P!CallInv, P!CallOf, P!Copies
<1>1. /\ pipe \in IntPipes /\ p_st \in StateTypes /\ CallIn(t, pipe, sem, file[t], p_pc[t], p_st[t])
  BY <1>0, UseFacts DEF PipeInv
<1>2. t \notin pipe.wait /\ p_st[t] # "interruptible" /\ sem = t
  BY <1>1 DEF CallIn, P!Waits, P!Polls, P!Copies
<1>3. p_st[t] = "running"
  BY <1>1, <1>2 DEF StateTypes
<1>4. SameUsers(pipe, pipe) /\ SameWaits(pipe, pipe, t, p_pc[t], "idle")
  <2>1. PICK p, a : p = pipe /\ a = p_pc[t]
    OBVIOUS
  <2>2. SameUsers(p, p) /\ SameWaits(p, p, t, a, "idle")
    BY <1>1, <2>1, WaitersNone DEF P!Copies
  <2> QED
    BY <2>1, <2>2
<1>5. RingOf(pipe, stream)
  BY <1>0, RingNow, UseFacts DEF PipeInv
<1> QED
  BY <1>0, <1>1, <1>2, <1>3, <1>4, <1>5 DEF Begun

LEMMA BegunWaited ==
    ASSUME PipeInv, NEW t \in Tasks, NEW n,
           \/ P!Waited(t, "read_wait") /\ n = [P!OffQueue(t) EXCEPT !.waitingReaders = @ - 1]
           \/ P!Waited(t, "room_wait") /\ n = [P!OffQueue(t) EXCEPT !.waitingWriters = @ - 1]
           \/ P!Waited(t, "full_wait") /\ n = [P!OffQueue(t) EXCEPT !.waitingWriters = @ - 1]
           \/ P!Waited(t, "open_wait") /\ n = P!OffQueue(t)
    PROVE  Begun(t, n, p_st) /\ sem = None
<1>0. file[t] # None /\ p_st[t] = "running" /\ sem = None
  BY DEF PipeInv, P!UseInv, P!CallInv, P!CallOf, P!Waited
<1>1. /\ pipe \in IntPipes /\ p_st \in StateTypes
  BY <1>0, UseFacts DEF PipeInv
<1>2. /\ n \in IntPipes /\ SameUsers(pipe, n) /\ SameRing(pipe, n) /\ t \notin n.wait
      /\ SameWaits(pipe, n, t, p_pc[t], "idle")
  <2>1. PICK p, a : p = pipe /\ a = p_pc[t]
    OBVIOUS
  <2>2. Without(p, t, a, n)
    BY <2>1 DEF P!Waited, P!OffQueue, Without
  <2>3. n \in IntPipes /\ SameUsers(p, n) /\ SameRing(p, n) /\ n.wait = p.wait \ {t} /\ SameWaits(p, n, t, a, "idle")
    <3>1. p \in IntPipes
      BY <1>1, <2>1
    <3>2. PICK z : z = "idle" /\ z \notin {"read_wait", "room_wait", "full_wait"}
      OBVIOUS
    <3>3. n \in IntPipes /\ SameUsers(p, n) /\ SameRing(p, n) /\ n.wait = p.wait \ {t} /\ SameWaits(p, n, t, a, z)
      BY ONLY <2>2, <3>1, <3>2, WaitersLess
    <3> QED
      BY <3>2, <3>3
  <2> QED
    BY <2>1, <2>3
<1>3. RingOf(n, stream) /\ n.len = pipe.len
  <2>1. RingOf(pipe, stream)
    BY <1>0, RingNow, UseFacts DEF PipeInv
  <2>2. PICK p, m : p = pipe /\ m = stream
    OBVIOUS
  <2>3. RingOf(n, m) /\ n.len = p.len
    BY <1>2, <2>1, <2>2, RingSame
  <2> QED
    BY <2>2, <2>3
<1> QED
  BY <1>0, <1>1, <1>2, <1>3 DEF Begun

\* wake_up_interruptible.
LEMMA BegunWoken ==
    ASSUME PipeInv, NEW t \in Tasks, NEW n, Begun(t, n, p_st)
    PROVE  Begun(t, n, P!Woken(n)) /\ Told(t, P!Woken(n))
<1>1. p_st \in StateTypes
  BY DEF Begun
<1>2. PICK x, y : x = p_st /\ y = P!Woken(n)
  OBVIOUS
<1>3. y = [u \in Tasks |-> IF u \in n.wait THEN "running" ELSE x[u]]
  BY <1>2 DEF P!Woken
<1>4. y \in StateTypes /\ (\A u \in Tasks : y[u] \in {x[u], "running"}) /\ (x[t] = "running" => y[t] = "running")
  BY <1>1, <1>2, <1>3 DEF StateTypes
<1>5. Told(t, y)
  BY <1>3 DEF Told, Begun, SameWaits
<1> QED
  BY <1>2, <1>4, <1>5 DEF Begun

\* t goes to sleep as a reader, or as a writer.
LEMMA BegunWait ==
    ASSUME PipeGiven, PipeInv, NEW t \in Tasks, NEW n, NEW y, Begun(t, n, y), NEW w,
           \/ w = "read_wait" /\ P!PipeWait(t, [n EXCEPT !.waitingReaders = @ + 1], y, w)
           \/ w \in {"room_wait", "full_wait"} /\ P!PipeWait(t, [n EXCEPT !.waitingWriters = @ + 1], y, w)
           \/ w = "open_wait" /\ P!PipeWait(t, n, y, w) /\ file[t].mode # {"r", "w"} /\ p_pc[t] = "open_wait",
           file' = file, RestTypes(left', done', cnt', p_sig', opens', stream'), MayLeave(t, y),
           NEW k, left' = [left EXCEPT ![t] = k], done' = done, cnt' = cnt, stream' = stream,
           ~Faults => /\ RoomIn(w, k, done[t], pipe)
                      /\ ~p_sig[t] => SleepIn(n, w, k, file[t], cnt[t])
    PROVE  PipeInv'
<1>1. PICK m : /\ P!PipeWait(t, m, y, w)
               /\ \/ w = "read_wait" /\ m = [n EXCEPT !.waitingReaders = @ + 1]
                  \/ w \in {"room_wait", "full_wait"} /\ m = [n EXCEPT !.waitingWriters = @ + 1]
                  \/ w = "open_wait" /\ m = n
  OBVIOUS
<1>2. /\ m \in IntPipes /\ SameUsers(pipe, m) /\ SameWaits(pipe, m, t, p_pc[t], w)
      /\ SameUsers(n, m) /\ SameRing(n, m)
  <2>1. PICK p, a : p = pipe /\ a = p_pc[t]
    OBVIOUS
  <2>2. p \in IntPipes /\ n \in IntPipes /\ SameUsers(p, n) /\ SameWaits(p, n, t, a, "idle")
    BY <2>1, UseFacts DEF Begun, PipeInv
  <2>3. CASE w = "open_wait"
    <3>1. m = n /\ SameWaits(p, n, t, a, "open_wait")
      BY <1>1, <2>2, <2>3 DEF SameWaits, In
    <3> QED
      BY <2>1, <2>2, <2>3, <3>1 DEF SameUsers, SameRing
  <2>4. CASE w # "open_wait"
    <3>1. \/ w = "read_wait" /\ m = [n EXCEPT !.waitingReaders = @ + 1]
          \/ w \in {"room_wait", "full_wait"} /\ m = [n EXCEPT !.waitingWriters = @ + 1]
      BY <1>1, <2>4
    <3>2. PICK z : z = "idle" /\ z \notin {"read_wait", "room_wait", "full_wait"} /\ SameWaits(p, n, t, a, z)
      BY <2>2
    <3>3. m \in IntPipes /\ SameUsers(p, m) /\ SameRing(n, m) /\ SameWaits(p, m, t, a, w)
      BY ONLY <2>2, <3>1, <3>2, WaitersMore
    <3> QED
      BY <2>1, <2>2, <3>3 DEF SameUsers
  <2> QED
    BY <2>3, <2>4
<1>3. /\ w \in {"open_wait", "read_wait", "room_wait", "full_wait"}
      /\ w = "open_wait" => file[t].mode # {"r", "w"} /\ p_pc[t] = "open_wait"
  OBVIOUS
<1>4. P!UseInv'
  BY <1>1, <1>2, <1>3, WaitUse DEF Begun, PipeInv
<1>5. SameUsers(n, pipe') /\ SameRing(n, pipe')
  <2>1. PICK z : z = pipe'
    OBVIOUS
  <2>2. m.wait \cup {t} \in SUBSET Tasks /\ m.waitingReaders \in Int /\ m.waitingWriters \in Int
    BY <1>2 DEF IntPipes
  <2>3. z = WaitedFor(m, m.wait \cup {t}, m.waitingReaders, m.waitingWriters)
    BY <1>1, <1>2, <2>1, WaitForms DEF P!PipeWait
  <2>4. SameUsers(m, z) /\ SameRing(m, z)
    BY <1>2, <2>2, <2>3, WaitedFields
  <2> QED
    BY <1>2, <2>1, <2>4 DEF SameUsers, SameRing
<1>6. P!RingIsStream'
  <2>1. RingOf(pipe', stream')
    BY <1>5 DEF Begun, RingOf, SameRing
  <2> QED
    BY <1>4, <2>1, RingNext DEF Begun
<1>7. ASSUME ~Faults PROVE SafeInv'
  <2>1. P!UseInv /\ SafeInv /\ PIPE_BUF \in Nat /\ pipe # None
    BY <1>7, UseFacts DEF PipeInv, PipeGiven, P!PipeAssumption, Begun
  <2>2. OnlyOf(t)
    BY <1>1, <2>1, OnlyOne, SameOne DEF P!PipeWait
  <2>3. SameNeeds(pipe, pipe')
    BY <1>5 DEF SameNeeds, SameUsers, SameRing, Begun
  <2>4. /\ sem = None \/ sem = t
        /\ \A u \in Tasks : u # t => p_st'[u] \in {p_st[u], "running"}
        /\ Whole(t) /\ (sem = None \/ Told(t, p_st'))
    BY <1>1, <1>7 DEF Begun, MayLeave, Told, P!PipeWait, StateTypes
  <2>5. /\ p_pc'[t] = w /\ left'[t] = k /\ done'[t] = done[t] /\ file'[t] = file[t] /\ cnt'[t] = cnt[t]
        /\ p_st'[t] = "interruptible" => ~p_sig[t]
    BY <1>1, <2>1 DEF Begun, P!PipeWait, P!UseInv, P!TypeOK, StateTypes
  <2>6. RoomIn(p_pc'[t], left'[t], done'[t], pipe)
    BY <1>7, <2>5
  <2>7. ASSUME p_st'[t] = "interruptible" PROVE SleepIn(pipe', p_pc'[t], left'[t], file'[t], cnt'[t])
    <3>1. PICK z, o, c : z = pipe' /\ o = file[t] /\ c = cnt[t]
      OBVIOUS
    <3>2. SleepIn(n, w, k, o, c)
      BY <1>7, <2>5, <2>7, <3>1
    <3>3. SameNeeds(n, z)
      BY <1>5, <3>1 DEF SameNeeds, SameRing
    <3>4. SleepIn(z, w, k, o, c)
      BY <3>2, <3>3, SleepSame
    <3> QED
      BY <2>5, <3>1, <3>4
  <2>8. OpenIn(pipe, p_pc'[t], file'[t], cnt'[t])
    <3>1. OpenIn(pipe, p_pc[t], file[t], cnt[t])
      BY <2>1, PartnerParts DEF SafeInv
    <3>2. OpenIn(pipe, w, file[t], cnt[t])
      BY <1>3, <3>1 DEF OpenIn
    <3> QED
      BY <2>5, <3>2
  <2> QED
    BY <2>1, <2>2, <2>3, <2>4, <2>6, <2>7, <2>8, SafeStep
<1> QED
  BY <1>4, <1>6, <1>7 DEF PipeInv

LEMMA RestLeft ==
    ASSUME PipeInv, NEW t, NEW k \in Nat, left' = [left EXCEPT ![t] = k],
           done' = done, cnt' = cnt, p_sig' = p_sig, opens' = opens, stream' = stream
    PROVE  RestTypes(left', done', cnt', p_sig', opens', stream')
BY RestKept DEF RestTypes, PipeInv

\* The arguments of the call of t, and what RoomInv says of it.
LEMMA CallFacts ==
    ASSUME PipeGiven, PipeInv, NEW t \in Tasks
    PROVE  /\ left[t] \in Nat /\ done[t] \in Nat /\ left = [left EXCEPT ![t] = left[t]]
           /\ PIPE_BUF \in Nat /\ PIPE_SIZE \in Nat \ {0}
           /\ ~Faults => RoomIn(p_pc[t], left[t], done[t], pipe)
           /\ sem = None => Whole(t)
<1>1. sem = None => Whole(t)
  BY MsgQueueAssumption DEF PipeInv, P!UseInv, P!CallInv, P!CallOf, P!Copies, Whole
<1>2. ~Faults => RoomIn(p_pc[t], left[t], done[t], pipe)
  BY RoomParts DEF PipeInv, SafeInv
<1>3. left[t] \in Nat /\ done[t] \in Nat
  BY RestKept DEF RestTypes, PipeInv
<1> QED
  BY <1>1, <1>2, <1>3, SameOne DEF PipeInv, PipeGiven, P!PipeAssumption

LEMMA MoreReadUse ==
    ASSUME PipeGiven, PipeInv, NEW t \in Tasks, NEW n, NEW y, NEW k \in Nat, Begun(t, n, y), MayLeave(t, y),
           P!MoreRead(t, n, y, k), n.len = 0, file' = file, opens' = opens, stream' = stream
    PROVE  PipeInv'
<1>1. CASE P!Return(t, n, y)
  BY <1>1, BegunReturn
<1>2. CASE /\ n.writers > 0 /\ P!PipeWait(t, [n EXCEPT !.waitingReaders = @ + 1], y, "read_wait")
           /\ left' = [left EXCEPT ![t] = k] /\ done' = done /\ cnt' = cnt /\ p_sig' = p_sig
  <2>1. SleepIn(n, "read_wait", k, file[t], cnt[t]) /\ RoomIn("read_wait", k, done[t], pipe)
    BY <1>2 DEF SleepIn, RoomIn
  <2>2. RestTypes(left', done', cnt', p_sig', opens', stream')
    BY <1>2, RestLeft
  <2> QED
    BY <1>2, <2>1, <2>2, BegunWait
<1> QED
  BY <1>1, <1>2 DEF P!MoreRead

LEMMA WriteRoomUse ==
    ASSUME PipeGiven, PipeInv, NEW t \in Tasks, NEW n, NEW k \in Nat, Begun(t, n, p_st), sem = None,
           p_pc[t] \in {"idle", "room_wait"},
           P!WriteRoom(t, n, k), file' = file, opens' = opens, stream' = stream
    PROVE  PipeInv'
<1>0. MayLeave(t, p_st) /\ (~Faults => done[t] = 0)
  BY CallFacts DEF MayLeave, RoomIn
<1>1. CASE P!Return(t, n, p_st)
  BY <1>0, <1>1, BegunReturn
<1>2. CASE /\ n.readers > 0 /\ P!Free(n) < P!Needed(k)
           /\ P!PipeWait(t, [n EXCEPT !.waitingWriters = @ + 1], p_st, "room_wait")
           /\ left' = [left EXCEPT ![t] = k] /\ done' = done /\ cnt' = cnt /\ p_sig' = p_sig
  <2>1. SleepIn(n, "room_wait", k, file[t], cnt[t]) /\ (~Faults => RoomIn("room_wait", k, done[t], pipe))
    BY <1>0, <1>2 DEF SleepIn, RoomIn
  <2>2. RestTypes(left', done', cnt', p_sig', opens', stream')
    BY <1>2, RestLeft
  <2> QED
    BY <1>0, <1>2, <2>1, <2>2, BegunWait
<1>3. CASE /\ n.readers > 0 /\ P!Free(n) >= P!Needed(k) /\ P!Hold(t, n, "write_copy") /\ p_st' = p_st
           /\ left' = [left EXCEPT ![t] = k] /\ done' = done /\ cnt' = cnt /\ p_sig' = p_sig
  <2>1. ASSUME ~Faults PROVE RoomIn("write_copy", k, done[t], pipe)
    <3>1. pipe.readers = n.readers /\ P!Free(pipe) = P!Free(n)
      BY DEF Begun, SameUsers, P!Free
    <3>2. done[t] + k <= PIPE_BUF => P!Needed(k) = k
      BY <1>0, <2>1 DEF P!Needed
    <3>3. P!Free(n) \in Int
      BY CallFacts DEF Begun, IntPipes, P!Free
    <3> QED
      BY <1>0, <1>3, <2>1, <3>1, <3>2, <3>3 DEF RoomIn
  <2>2. RestTypes(left', done', cnt', p_sig', opens', stream')
    BY <1>3, RestLeft
  <2> QED
    BY <1>3, <2>1, <2>2, BegunHold DEF P!Copies
<1> QED
  BY <1>1, <1>2, <1>3 DEF P!WriteRoom

LEMMA PipeReadUse ==
    ASSUME PipeGiven, PipeInv, NEW t \in Tasks, NEW k \in Counts, P!PipeRead(t, k)
    PROVE  PipeInv'
<1>1. k \in Nat /\ Begun(t, pipe, p_st) /\ sem = None
  BY BegunIdle DEF PipeGiven, P!PipeAssumption, P!PipeRead, P!CanRead
<1>2. file' = file /\ opens' = opens /\ stream' = stream
  BY DEF P!PipeRead
<1>3. PICK n, y : n = pipe /\ y = p_st
  OBVIOUS
<1>4. CASE n.len = 0 /\ P!MoreRead(t, n, y, k)
  <2>1. MayLeave(t, y)
    BY <1>1, CallFacts DEF MayLeave
  <2> QED
    BY <1>1, <1>2, <1>3, <1>4, <2>1, MoreReadUse
<1>5. CASE /\ P!Hold(t, n, "read_copy") /\ left' = [left EXCEPT ![t] = k]
           /\ done' = done /\ cnt' = cnt /\ p_st' = p_st /\ p_sig' = p_sig
  <2>1. RestTypes(left', done', cnt', p_sig', opens', stream')
    BY <1>1, <1>2, <1>5, RestLeft
  <2> QED
    BY <1>1, <1>2, <1>3, <1>5, <2>1, BegunHold DEF P!Copies
<1> QED
  BY <1>3, <1>4, <1>5 DEF P!PipeRead

LEMMA ReadWaitedUse ==
    ASSUME PipeGiven, PipeInv, NEW t \in Tasks, P!ReadWaited(t)
    PROVE  PipeInv'
<1>1. PICK n, y, k : n = [P!OffQueue(t) EXCEPT !.waitingReaders = @ - 1] /\ y = p_st /\ k = left[t]
  OBVIOUS
<1>2. Begun(t, n, y) /\ sem = None
  BY <1>1, BegunWaited DEF P!ReadWaited
<1>3. file' = file /\ opens' = opens /\ stream' = stream
  BY DEF P!ReadWaited
<1>4. MayLeave(t, y) /\ k \in Nat /\ left = [left EXCEPT ![t] = k]
  BY <1>1, <1>2, CallFacts DEF MayLeave
<1>5. CASE P!Return(t, n, y)
  BY <1>2, <1>3, <1>4, <1>5, BegunReturn
<1>6. CASE left' = left /\ done' = done /\ cnt' = cnt /\ p_sig' = p_sig
  <2>1. left' = [left EXCEPT ![t] = k] /\ RestTypes(left', done', cnt', p_sig', opens', stream')
    BY <1>3, <1>4, <1>6, RestLeft
  <2>2. CASE P!Hold(t, n, "read_copy") /\ p_st' = p_st
    BY <1>1, <1>2, <1>3, <1>6, <2>1, <2>2, BegunHold DEF P!Copies
  <2>3. CASE /\ n.len = 0 /\ n.writers > 0
             /\ P!PipeWait(t, [n EXCEPT !.waitingReaders = @ + 1], y, "read_wait")
    <3>1. SleepIn(n, "read_wait", k, file[t], cnt[t]) /\ RoomIn("read_wait", k, done[t], pipe)
      BY <2>3 DEF SleepIn, RoomIn
    <3> QED
      BY <1>2, <1>3, <1>4, <1>6, <2>1, <2>3, <3>1, BegunWait
  <2> QED
    BY <1>1, <1>5, <2>2, <2>3 DEF P!ReadWaited
<1> QED
  BY <1>1, <1>5, <1>6 DEF P!ReadWaited

LEMMA PipeWriteUse ==
    ASSUME PipeGiven, PipeInv, NEW t \in Tasks, NEW k \in Counts, P!PipeWrite(t, k)
    PROVE  PipeInv'
<1>1. k \in Nat /\ Begun(t, pipe, p_st) /\ sem = None /\ p_pc[t] = "idle"
  BY BegunIdle DEF PipeGiven, P!PipeAssumption, P!PipeWrite
<1>2. file' = file /\ opens' = opens /\ stream' = stream /\ P!WriteRoom(t, pipe, k)
  BY DEF P!PipeWrite
<1>3. PICK n : n = pipe
  OBVIOUS
<1> QED
  BY <1>1, <1>2, <1>3, WriteRoomUse

LEMMA RoomWaitedUse ==
    ASSUME PipeGiven, PipeInv, NEW t \in Tasks, P!RoomWaited(t)
    PROVE  PipeInv'
<1>1. PICK n : n = [P!OffQueue(t) EXCEPT !.waitingWriters = @ - 1]
  OBVIOUS
<1>2. Begun(t, n, p_st) /\ sem = None /\ p_pc[t] = "room_wait"
  BY <1>1, BegunWaited DEF P!RoomWaited, P!Waited
<1>3. file' = file /\ opens' = opens /\ stream' = stream
  BY DEF P!RoomWaited
<1>4. PICK y, k : y = p_st /\ k = left[t]
  OBVIOUS
<1>5. MayLeave(t, y) /\ k \in Nat
  BY <1>2, <1>4, CallFacts DEF MayLeave
<1>6. CASE P!Return(t, n, y)
  BY <1>2, <1>3, <1>4, <1>5, <1>6, BegunReturn
<1>7. CASE P!WriteRoom(t, n, k)
  BY <1>2, <1>3, <1>5, <1>7, WriteRoomUse
<1> QED
  BY <1>1, <1>4, <1>6, <1>7 DEF P!RoomWaited

LEMMA FullWaitedUse ==
    ASSUME PipeGiven, PipeInv, NEW t \in Tasks, P!FullWaited(t)
    PROVE  PipeInv'
<1>1. PICK n, x, y, k : n = [P!OffQueue(t) EXCEPT !.waitingWriters = @ - 1] /\ x = p_st /\ y = P!Woken(n) /\ k = left[t]
  OBVIOUS
<1>2. Begun(t, n, x) /\ sem = None /\ p_pc[t] = "full_wait"
  BY <1>1, BegunWaited DEF P!FullWaited, P!Waited
<1>3. file' = file /\ opens' = opens /\ stream' = stream
  BY DEF P!FullWaited
<1>4. MayLeave(t, x) /\ MayLeave(t, y) /\ k \in Nat /\ left = [left EXCEPT ![t] = k]
  BY <1>1, <1>2, CallFacts DEF MayLeave
<1>5. Begun(t, n, y)
  BY <1>1, <1>2, BegunWoken
<1>6. CASE P!Return(t, n, x)
  BY <1>2, <1>3, <1>4, <1>6, BegunReturn
<1>7. CASE left' = left /\ done' = done /\ cnt' = cnt /\ p_sig' = p_sig
  <2>1. left' = [left EXCEPT ![t] = k] /\ RestTypes(left', done', cnt', p_sig', opens', stream')
    BY <1>3, <1>4, <1>7, RestLeft
  <2>2. ~Faults => done[t] + k > PIPE_BUF
    BY <1>1, <1>2, CallFacts DEF RoomIn
  <2>3. done[t] + k \in Int /\ PIPE_BUF \in Int
    BY <1>4, CallFacts
  <2>4. CASE n.readers > 0 /\ P!Hold(t, n, "write_copy") /\ p_st' = p_st
    <3>1. ~Faults => RoomIn("write_copy", k, done[t], pipe)
      BY <1>2, <2>2, <2>3, <2>4 DEF RoomIn, Begun, SameUsers
    <3> QED
      BY <1>1, <1>2, <1>3, <1>7, <2>1, <2>4, <3>1, BegunHold DEF P!Copies
  <2>5. CASE /\ n.readers > 0 /\ P!Free(n) = 0
             /\ P!PipeWait(t, [n EXCEPT !.waitingWriters = @ + 1], y, "full_wait")
    <3>1. SleepIn(n, "full_wait", k, file[t], cnt[t]) /\ (~Faults => RoomIn("full_wait", k, done[t], pipe))
      BY <2>2, <2>5 DEF SleepIn, RoomIn
    <3> QED
      BY <1>3, <1>4, <1>5, <1>7, <2>1, <2>5, <3>1, BegunWait
  <2> QED
    BY <1>1, <1>6, <2>4, <2>5 DEF P!FullWaited
<1> QED
  BY <1>1, <1>6, <1>7 DEF P!FullWaited

LEMMA WriteFullUse ==
    ASSUME PipeGiven, PipeInv, NEW t \in Tasks, P!WriteFull(t)
    PROVE  PipeInv'
<1>1. PICK n, y, k : n = pipe /\ y = P!Woken(n) /\ k = left[t]
  OBVIOUS
<1>2. Begun(t, n, p_st)
  BY <1>1, BegunCopy DEF P!WriteFull, P!Copies
<1>3. file' = file /\ opens' = opens /\ stream' = stream /\ p_pc[t] = "write_copy" /\ k > 0 /\ P!Free(n) = 0
  BY <1>1 DEF P!WriteFull
<1>4. Begun(t, n, y) /\ Told(t, y)
  BY <1>1, <1>2, BegunWoken
<1>5. k \in Nat /\ left = [left EXCEPT ![t] = k] /\ done[t] \in Nat /\ PIPE_BUF \in Nat
  BY <1>1, CallFacts
<1>6. ~Faults => done[t] + k > PIPE_BUF /\ n.readers > 0
  BY <1>1, <1>3, <1>5, CallFacts DEF RoomIn
<1>7. MayLeave(t, y)
  BY <1>1, <1>4, <1>6 DEF MayLeave, Whole
<1>8. CASE P!Return(t, n, y)
  BY <1>3, <1>4, <1>7, <1>8, BegunReturn
<1>9. CASE /\ P!PipeWait(t, [n EXCEPT !.waitingWriters = @ + 1], y, "full_wait")
           /\ left' = left /\ done' = done /\ cnt' = cnt /\ p_sig' = p_sig
  <2>1. left' = [left EXCEPT ![t] = k] /\ RestTypes(left', done', cnt', p_sig', opens', stream')
    BY <1>3, <1>5, <1>9, RestLeft
  <2>2. ~Faults => SleepIn(n, "full_wait", k, file[t], cnt[t]) /\ RoomIn("full_wait", k, done[t], pipe)
    BY <1>3, <1>6 DEF SleepIn, RoomIn
  <2> QED
    BY <1>3, <1>4, <1>7, <1>9, <2>1, <2>2, BegunWait
<1> QED
  BY <1>1, <1>8, <1>9 DEF P!WriteFull

LEMMA WriteDoneUse ==
    ASSUME PipeGiven, PipeInv, NEW t \in Tasks, P!WriteDone(t)
    PROVE  PipeInv'
<1>1. PICK n, y : n = pipe /\ y = P!Woken(n)
  OBVIOUS
<1>2. Begun(t, n, p_st)
  BY <1>1, BegunCopy DEF P!WriteDone, P!Copies
<1>3. file' = file /\ opens' = opens /\ stream' = stream /\ P!Return(t, n, y)
  BY <1>1 DEF P!WriteDone
<1>4. Begun(t, n, y) /\ Told(t, y)
  BY <1>1, <1>2, BegunWoken
<1>5. MayLeave(t, y)
  BY <1>4 DEF MayLeave, Whole, P!WriteDone
<1> QED
  BY <1>3, <1>4, <1>5, BegunReturn

\* The "cache behaviour optimization" is not seen by anybody.
LEMMA RestartedFields ==
    ASSUME NEW p \in IntPipes, NEW n, n = P!Restarted(p), PIPE_SIZE \in Nat \ {0}, NEW m, RingOf(p, m)
    PROVE  /\ n \in IntPipes /\ SameUsers(p, n) /\ n.wait = p.wait /\ n.len = p.len
           /\ n.waitingReaders = p.waitingReaders /\ n.waitingWriters = p.waitingWriters
           /\ RingOf(n, m)
<1>1. CASE p.len = 0
  <2>1. n = [p EXCEPT !.start = 0] /\ 0 \in 0 .. PIPE_SIZE - 1
    BY <1>1 DEF P!Restarted
  <2>2. /\ n \in IntPipes /\ SameUsers(p, n) /\ n.wait = p.wait /\ n.len = p.len
        /\ n.waitingReaders = p.waitingReaders /\ n.waitingWriters = p.waitingWriters
    BY <1>1, <2>1 DEF IntPipes, SameUsers
  <2>3. RingOf(n, m)
    <3>1. m = [i \in 1 .. 0 |-> p.buf[Slot(p.start, i)]]
      BY <1>1 DEF RingOf
    <3>2. m = [i \in 1 .. 0 |-> n.buf[Slot(n.start, i)]]
      BY <3>1
    <3> QED
      BY <1>1, <2>2, <3>2 DEF RingOf
  <2> QED
    BY <2>2, <2>3
<1>2. CASE p.len # 0
  BY <1>2 DEF P!Restarted, SameUsers
<1> QED
  BY <1>1, <1>2

LEMMA ReadDoneUse ==
    ASSUME PipeGiven, PipeInv, NEW t \in Tasks, P!ReadDone(t)
    PROVE  PipeInv'
<1>1. PICK p, n, y, k : p = pipe /\ n = P!Restarted(p) /\ y = P!ReadWakes(n) /\ k = left[t]
  OBVIOUS
<1>2. Begun(t, p, p_st)
  BY <1>1, BegunCopy DEF P!ReadDone, P!Copies
<1>3. file' = file /\ opens' = opens /\ stream' = stream /\ p_pc[t] = "read_copy" /\ (k = 0 \/ p.len = 0)
  BY <1>1 DEF P!ReadDone
<1>4. Begun(t, n, p_st) /\ n.len = p.len
  <2>1. PIPE_SIZE \in Nat \ {0} /\ p \in IntPipes /\ RingOf(p, stream)
    BY <1>2 DEF PipeGiven, P!PipeAssumption, Begun
  <2>2. PICK m : m = stream
    OBVIOUS
  <2>3. /\ n \in IntPipes /\ SameUsers(p, n) /\ n.wait = p.wait /\ n.len = p.len
        /\ n.waitingReaders = p.waitingReaders /\ n.waitingWriters = p.waitingWriters
        /\ RingOf(n, m)
    BY <1>1, <2>1, <2>2, RestartedFields
  <2>4. SameUsers(pipe, n) /\ SameWaits(pipe, n, t, p_pc[t], "idle") /\ t \notin n.wait
    BY <1>1, <1>2, <2>3 DEF Begun, SameUsers, SameWaits
  <2> QED
    BY <1>1, <1>2, <2>2, <2>3, <2>4 DEF Begun
<1>5. Begun(t, n, y) /\ Told(t, y)
  BY <1>1, <1>4, BegunWoken DEF P!ReadWakes
<1>6. k \in Nat
  BY <1>1, CallFacts
<1>7. MayLeave(t, y)
  BY <1>3, <1>5 DEF MayLeave, Whole
<1>8. CASE P!Return(t, n, y)
  BY <1>3, <1>5, <1>7, <1>8, BegunReturn
<1>9. CASE k > 0 /\ P!MoreRead(t, n, y, k)
  <2>1. n.len = 0
    BY <1>3, <1>4, <1>6, <1>9
  <2> QED
    BY <1>3, <1>5, <1>6, <1>7, <1>9, <2>1, MoreReadUse
<1> QED
  BY <1>1, <1>8, <1>9 DEF P!ReadDone

-----------------------------------------------------------------------------
(* The ring.                                                               *)

\* PIPE_START and PIPE_END stay within the page.
LEMMA Wraps ==
    ASSUME NEW n \in Nat \ {0}, NEW x \in 0 .. 2 * n - 1
    PROVE  x % n = IF x < n THEN x ELSE x - n
OBVIOUS

LEMMA WrapsAt ==
    ASSUME NEW n \in Nat \ {0}, NEW y \in 0 .. n - 1, NEW d \in 0 .. n, NEW z, z = (y + d) % n
    PROVE  z = (IF y + d < n THEN y + d ELSE y + d - n) /\ z \in 0 .. n - 1
<1>1. PICK x \in Nat : x = y + d /\ x \in 0 .. 2 * n - 1
  OBVIOUS
<1>2. x % n = IF x < n THEN x ELSE x - n
  BY <1>1, Wraps
<1>3. z = IF x < n THEN x ELSE x - n
  BY <1>1, <1>2
<1>4. CASE x < n
  BY <1>1, <1>3, <1>4
<1>5. CASE ~(x < n)
  <2>1. z = x - n
    BY <1>3, <1>5
  <2> QED
    BY <1>1, <1>5, <2>1
<1> QED
  BY <1>4, <1>5

LEMMA LeastOfThree ==
    ASSUME NEW a \in Nat, NEW b \in Nat, NEW c \in Nat
    PROVE  LET m == P!Min({a, b, c}) IN m \in {a, b, c} /\ m <= a /\ m <= b /\ m <= c
<1>1. PICK m \in {a, b, c} : \A y \in {a, b, c} : m <= y
  <2>1. CASE a <= b /\ a <= c
    BY <2>1
  <2>2. CASE b <= a /\ b <= c
    BY <2>2
  <2>3. CASE c <= a /\ c <= b
    BY <2>3
  <2> QED
    BY <2>1, <2>2, <2>3
<1>2. P!Min({a, b, c}) = CHOOSE x \in {a, b, c} : \A y \in {a, b, c} : x <= y
  BY DEF P!Min
<1> QED
  BY <1>1, <1>2

LEMMA SlotValue ==
    ASSUME PIPE_SIZE \in Nat \ {0}, NEW s \in 0 .. PIPE_SIZE - 1, NEW i \in 1 .. PIPE_SIZE
    PROVE  /\ Slot(s, i) \in 0 .. PIPE_SIZE - 1
           /\ Slot(s, i) = IF s + i - 1 < PIPE_SIZE THEN s + i - 1 ELSE s + i - 1 - PIPE_SIZE
<1>1. PICK x, n \in Nat : x = s + i - 1 /\ n = PIPE_SIZE /\ n # 0 /\ x \in 0 .. 2 * n - 1
  OBVIOUS
<1>2. x % n = IF x < n THEN x ELSE x - n
  BY <1>1, Wraps
<1> QED
  BY <1>1, <1>2 DEF Slot

\* Two of the places of a ring are different, and the free room begins behind the last.
LEMMA SlotsApart ==
    ASSUME PIPE_SIZE \in Nat \ {0}, NEW s \in 0 .. PIPE_SIZE - 1, NEW i \in 1 .. PIPE_SIZE, NEW j \in 1 .. PIPE_SIZE,
           Slot(s, i) = Slot(s, j)
    PROVE  i = j
<1>1. PICK a, b \in Int : a = Slot(s, i) /\ b = Slot(s, j)
  BY SlotValue
<1>2. /\ a = (IF s + i - 1 < PIPE_SIZE THEN s + i - 1 ELSE s + i - 1 - PIPE_SIZE)
      /\ b = (IF s + j - 1 < PIPE_SIZE THEN s + j - 1 ELSE s + j - 1 - PIPE_SIZE)
  BY <1>1, SlotValue
<1> QED
  BY <1>1, <1>2

\* c bytes are read.
ReadRing(p, c) ==
    [p EXCEPT !.start = (@ + c) % PIPE_SIZE, !.len = @ - c,
              !.buf = [i \in DOMAIN @ |-> IF i \in p.start .. p.start + c - 1 THEN None ELSE @[i]]]

LEMMA RestOfStream ==
    ASSUME NEW S, NEW m \in Seq(S), NEW c \in 0 .. Len(m), NEW r, r = SubSeq(m, c + 1, Len(m))
    PROVE  r \in Seq(S) /\ Len(r) = Len(m) - c /\ \A i \in 1 .. Len(m) - c : r[i] = m[c + i]
OBVIOUS

LEMMA RingRead ==
    ASSUME PIPE_SIZE \in Nat \ {0}, NEW p \in IntPipes, NEW m \in Seq(P!Bytes), RingOf(p, m),
           NEW c \in 0 .. p.len, c <= PIPE_SIZE - p.start,
           NEW n, n = ReadRing(p, c)
    PROVE  /\ n \in IntPipes /\ SameUsers(p, n) /\ n.wait = p.wait /\ n.len = p.len - c
           /\ n.waitingReaders = p.waitingReaders /\ n.waitingWriters = p.waitingWriters
           /\ Len(m) = p.len
           /\ SubSeq(m, c + 1, Len(m)) \in Seq(P!Bytes)
           /\ RingOf(n, SubSeq(m, c + 1, Len(m)))
<1>1. PICK s, l : s = p.start /\ l = p.len /\ s \in 0 .. PIPE_SIZE - 1 /\ l \in 0 .. PIPE_SIZE
  BY DEF IntPipes
<1>2. PICK z : z = (s + c) % PIPE_SIZE
  OBVIOUS
<1>3. z = (IF s + c < PIPE_SIZE THEN s + c ELSE s + c - PIPE_SIZE) /\ z \in 0 .. PIPE_SIZE - 1
  <2>1. c \in 0 .. PIPE_SIZE
    BY <1>1
  <2> QED
    BY <1>1, <1>2, <2>1, WrapsAt
<1>4. PICK f, g : /\ f = p.buf /\ f \in [0 .. PIPE_SIZE - 1 -> P!Bytes \cup {None}]
                  /\ g = [i \in 0 .. PIPE_SIZE - 1 |-> IF i \in s .. s + c - 1 THEN None ELSE f[i]]
  BY DEF IntPipes
<1>5. g \in [0 .. PIPE_SIZE - 1 -> P!Bytes \cup {None}]
  BY <1>4
<1>6. n = [p EXCEPT !.start = z, !.len = l - c, !.buf = g]
  <2>1. [i \in DOMAIN f |-> IF i \in s .. s + c - 1 THEN None ELSE f[i]] = g
    BY <1>4
  <2> QED
    BY <1>1, <1>2, <1>4, <2>1 DEF ReadRing
<1>7. l - c \in 0 .. PIPE_SIZE
  BY <1>1
<1>8. /\ n \in IntPipes /\ SameUsers(p, n) /\ n.wait = p.wait /\ n.len = l - c /\ n.start = z /\ n.buf = g
      /\ n.waitingReaders = p.waitingReaders /\ n.waitingWriters = p.waitingWriters
  BY <1>3, <1>5, <1>6, <1>7 DEF IntPipes, SameUsers
<1>9. Len(m) = l /\ \A i \in 1 .. l : m[i] = f[Slot(s, i)]
  BY <1>1, <1>4 DEF RingOf
<1>10. PICK q2 : q2 = SubSeq(m, c + 1, Len(m))
  OBVIOUS
<1>11. q2 \in Seq(P!Bytes) /\ Len(q2) = l - c /\ \A i \in 1 .. l - c : q2[i] = m[c + i]
  <2>1. c \in 0 .. Len(m)
    BY <1>1, <1>9
  <2>2. q2 \in Seq(P!Bytes) /\ Len(q2) = Len(m) - c /\ \A i \in 1 .. Len(m) - c : q2[i] = m[c + i]
    BY ONLY <1>10, <2>1, m \in Seq(P!Bytes), RestOfStream, SMTT(20)
  <2> QED
    BY ONLY <1>9, <2>2
<1>12. ASSUME NEW i \in 1 .. l - c PROVE q2[i] = g[Slot(z, i)]
  <2>1. c + i \in 1 .. l /\ c + i \in 1 .. PIPE_SIZE /\ i \in 1 .. PIPE_SIZE
    BY <1>1
  <2>2. PICK j \in 1 .. PIPE_SIZE : j = c + i
    BY <2>1
  <2>3. PICK a \in 0 .. PIPE_SIZE - 1 :
            a = Slot(s, j) /\ a = IF s + j - 1 < PIPE_SIZE THEN s + j - 1 ELSE s + j - 1 - PIPE_SIZE
    BY <1>1, SlotValue
  <2>4. PICK b \in 0 .. PIPE_SIZE - 1 :
            b = Slot(z, i) /\ b = IF z + i - 1 < PIPE_SIZE THEN z + i - 1 ELSE z + i - 1 - PIPE_SIZE
    BY <1>3, <2>1, SlotValue
  <2>5. a = b /\ a \notin s .. s + c - 1
    <3>1. PICK k \in Nat \ {0} : k = PIPE_SIZE
      OBVIOUS
    <3>2. /\ s \in 0 .. k - 1 /\ l \in 0 .. k /\ c \in 0 .. l /\ c <= k - s /\ i \in 1 .. l - c /\ j = c + i
          /\ z = (IF s + c < k THEN s + c ELSE s + c - k) /\ z \in 0 .. k - 1
          /\ a = (IF s + j - 1 < k THEN s + j - 1 ELSE s + j - 1 - k)
          /\ b = (IF z + i - 1 < k THEN z + i - 1 ELSE z + i - 1 - k)
      BY <1>1, <1>3, <2>2, <2>3, <2>4, <3>1
    <3> QED
      BY ONLY <3>2, k \in Nat \ {0}
  <2>6. g[b] = f[b]
    BY <1>4, <2>4, <2>5
  <2>7. q2[i] = f[a]
    BY <1>9, <1>11, <2>1, <2>2, <2>3
  <2> QED
    BY <2>4, <2>5, <2>6, <2>7
<1>13. q2 = [i \in 1 .. l - c |-> g[Slot(z, i)]]
  BY <1>7, <1>11, <1>12
<1> QED
  BY <1>1, <1>8, <1>9, <1>10, <1>11, <1>13 DEF RingOf

\* c bytes are written from e on.
WrittenRing(p, c, e, b) ==
    [p EXCEPT !.len = @ + c,
              !.buf = [i \in DOMAIN @ |-> IF i \in e .. e + c - 1 THEN b[i - e + 1] ELSE @[i]]]

LEMMA RingWrite ==
    ASSUME PIPE_SIZE \in Nat \ {0}, NEW p \in IntPipes, NEW m \in Seq(P!Bytes), RingOf(p, m),
           NEW c \in Nat, NEW e, e = P!End(p), c <= PIPE_SIZE - e, c <= P!Free(p), NEW b \in [1 .. c -> P!Bytes],
           NEW n, n = WrittenRing(p, c, e, b)
    PROVE  /\ n \in IntPipes /\ SameUsers(p, n) /\ n.wait = p.wait /\ n.len = p.len + c
           /\ n.waitingReaders = p.waitingReaders /\ n.waitingWriters = p.waitingWriters
           /\ Len(m) = p.len
           /\ m \o b \in Seq(P!Bytes)
           /\ RingOf(n, m \o b)
<1>1. PICK s, l : s = p.start /\ l = p.len /\ s \in 0 .. PIPE_SIZE - 1 /\ l \in 0 .. PIPE_SIZE
  BY DEF IntPipes
<1>2. c <= PIPE_SIZE - l /\ c \in 0 .. PIPE_SIZE
  BY <1>1 DEF P!Free
<1>3. e = (IF s + l < PIPE_SIZE THEN s + l ELSE s + l - PIPE_SIZE) /\ e \in 0 .. PIPE_SIZE - 1
  <2>1. e = (s + l) % PIPE_SIZE
    BY <1>1 DEF P!End
  <2> QED
    BY <1>1, <2>1, WrapsAt
<1>4. PICK f, g : /\ f = p.buf /\ f \in [0 .. PIPE_SIZE - 1 -> P!Bytes \cup {None}]
                  /\ g = [i \in 0 .. PIPE_SIZE - 1 |-> IF i \in e .. e + c - 1 THEN b[i - e + 1] ELSE f[i]]
  BY DEF IntPipes
<1>5. g \in [0 .. PIPE_SIZE - 1 -> P!Bytes \cup {None}]
  <2>1. ASSUME NEW i \in 0 .. PIPE_SIZE - 1 PROVE g[i] \in P!Bytes \cup {None}
    <3>1. CASE i \in e .. e + c - 1
      <4>1. i - e + 1 \in 1 .. c
        BY <1>3, <3>1
      <4> QED
        BY <1>4, <3>1, <4>1
    <3>2. CASE i \notin e .. e + c - 1
      BY <1>4, <3>2
    <3> QED
      BY <3>1, <3>2
  <2> QED
    BY <1>4, <2>1
<1>6. n = [p EXCEPT !.len = l + c, !.buf = g]
  <2>1. [i \in DOMAIN f |-> IF i \in e .. e + c - 1 THEN b[i - e + 1] ELSE f[i]] = g
    BY <1>4
  <2> QED
    BY <1>1, <1>4, <2>1 DEF WrittenRing
<1>7. l + c \in 0 .. PIPE_SIZE
  BY <1>1, <1>2
<1>8. /\ n \in IntPipes /\ SameUsers(p, n) /\ n.wait = p.wait /\ n.len = l + c /\ n.start = s /\ n.buf = g
      /\ n.waitingReaders = p.waitingReaders /\ n.waitingWriters = p.waitingWriters
  BY <1>1, <1>5, <1>6, <1>7 DEF IntPipes, SameUsers
<1>9. Len(m) = l /\ \A i \in 1 .. l : m[i] = f[Slot(s, i)]
  BY <1>1, <1>4 DEF RingOf
<1>10. b \in Seq(P!Bytes) /\ Len(b) = c
  OBVIOUS
<1>11. PICK q2 : q2 = m \o b
  OBVIOUS
<1>12. /\ q2 \in Seq(P!Bytes) /\ Len(q2) = l + c
       /\ \A i \in 1 .. l : q2[i] = m[i]
       /\ \A i \in 1 .. c : q2[l + i] = b[i]
  <2>1. PICK v \in Seq(P!Bytes) : v = b /\ Len(v) = c
    BY <1>10
  <2>2. q2 = m \o v
    BY <1>11, <2>1
  <2>3. q2 \in Seq(P!Bytes) /\ Len(q2) = Len(m) + Len(v)
    BY <2>2
  <2>4. \A i \in 1 .. Len(m) : q2[i] = m[i]
    BY <2>2
  <2>5. \A i \in 1 .. Len(v) : q2[Len(m) + i] = v[i]
    BY <2>2
  <2> QED
    BY <1>9, <2>1, <2>3, <2>4, <2>5
<1>13. ASSUME NEW i \in 1 .. l + c PROVE q2[i] = g[Slot(s, i)]
  <2>1. i \in 1 .. PIPE_SIZE
    BY <1>7
  <2>2. PICK a \in 0 .. PIPE_SIZE - 1 :
            a = Slot(s, i) /\ a = IF s + i - 1 < PIPE_SIZE THEN s + i - 1 ELSE s + i - 1 - PIPE_SIZE
    BY <1>1, <2>1, SlotValue
  <2>10. PICK k \in Nat \ {0} : k = PIPE_SIZE
    OBVIOUS
  <2>20. /\ s \in 0 .. k - 1 /\ l \in 0 .. k /\ c \in 0 .. k /\ c <= k - l /\ i \in 1 .. l + c
         /\ e = (IF s + l < k THEN s + l ELSE s + l - k) /\ e \in 0 .. k - 1 /\ c <= k - e
         /\ a = (IF s + i - 1 < k THEN s + i - 1 ELSE s + i - 1 - k)
    BY <1>1, <1>2, <1>3, <2>2, <2>10
  <2>3. CASE i <= l
    <3>1. a \notin e .. e + c - 1
      BY ONLY <2>3, <2>20, k \in Nat \ {0}
    <3>2. g[a] = f[a]
      BY <1>4, <3>1
    <3> QED
      <4>1. i \in 1 .. l
        BY <1>1, <2>3
      <4> QED
        BY <1>9, <1>12, <2>2, <3>2, <4>1
  <2>4. CASE i > l
    <3>1. a \in e .. e + c - 1 /\ a - e + 1 = i - l /\ i - l \in 1 .. c
      BY ONLY <2>4, <2>20, k \in Nat \ {0}
    <3>2. g[a] = b[i - l]
      BY <1>4, <3>1
    <3>3. q2[i] = b[i - l]
      <4>1. PICK j \in 1 .. c : j = i - l
        BY <3>1
      <4>2. l + j = i
        BY <1>1, <4>1
      <4> QED
        BY <1>12, <4>1, <4>2
    <3> QED
      BY <2>2, <3>2, <3>3
  <2> QED
    BY <1>1, <2>3, <2>4
<1>14. q2 = [i \in 1 .. l + c |-> g[Slot(s, i)]]
  BY <1>7, <1>12, <1>13
<1> QED
  BY <1>1, <1>8, <1>9, <1>11, <1>12, <1>14 DEF RingOf

-----------------------------------------------------------------------------
(* The copies.                                                             *)

LEMMA CopyUse ==
    ASSUME PipeGiven, PipeInv, NEW t \in Tasks, p_pc[t] \in P!Copies, NEW n \in IntPipes,
           pipe' = n, SameUsers(pipe, n), n.wait = pipe.wait,
           n.waitingReaders = pipe.waitingReaders, n.waitingWriters = pipe.waitingWriters,
           sem' = sem, p_pc' = p_pc, cnt' = cnt, p_st' = p_st, p_sig' = p_sig, file' = file, opens' = opens,
           left' \in [Tasks -> Nat], done' \in [Tasks -> Nat], stream' \in Seq(P!Bytes), RingOf(n, stream')
    PROVE  P!UseInv' /\ P!RingIsStream'
<1>0. P!UseInv
  BY DEF PipeInv
<1>1. file[t] # None
  BY <1>0 DEF P!UseInv, P!CallInv, P!CallOf, P!Copies
<1>2. /\ pipe \in IntPipes /\ p_st \in StateTypes /\ p_pc \in PlaceTypes /\ sem \in Tasks \cup {None}
      /\ CallIn(t, pipe, sem, file[t], p_pc[t], p_st[t])
  BY <1>0, <1>1, UseFacts
<1>3. PICK w : w = p_pc[t] /\ w \in PipePCs
  BY <1>2 DEF PlaceTypes
<1>4. p_pc' = [p_pc EXCEPT ![t] = w]
  BY <1>2, <1>3 DEF PlaceTypes
<1>5. Moved(pipe, n, t, file[t], file[t], p_pc[t], w)
  <2>1. PICK p, o : p = pipe /\ o = file[t]
    OBVIOUS
  <2>2. p \in IntPipes /\ SameUsers(p, n)
    BY <1>2, <2>1
  <2>3. SameWaits(p, n, t, w, w)
    <3>1. PICK i, j \in Int : i = In(w, {"read_wait"}) /\ j = In(w, {"room_wait", "full_wait"})
      BY DEF In
    <3>2. p.waitingReaders \in Int /\ p.waitingWriters \in Int /\ p.wait \subseteq Tasks
      BY ONLY <2>2 DEF IntPipes
    <3>3. n.waitingReaders = p.waitingReaders /\ n.waitingWriters = p.waitingWriters /\ n.wait = p.wait
      BY <2>1
    <3> QED
      BY ONLY <3>1, <3>2, <3>3 DEF SameWaits
  <2>4. Moved(p, n, t, o, o, w, w)
    BY ONLY <2>2, <2>3, MovedSame
  <2> QED
    BY <1>3, <2>1, <2>4
<1>6. CallIn(t, n, sem', file[t], w, p_st'[t])
  BY <1>2, <1>3 DEF CallIn
<1>7. RestTypes(left', done', cnt', p_sig', opens', stream')
  BY <1>0, RestKept DEF RestTypes
<1>8. /\ sem' \in Tasks \cup {None} /\ p_st' \in StateTypes
      /\ \A u \in Tasks : u # t => p_st'[u] \in {p_st[u], "running"} /\ (sem = u <=> sem' = u)
  BY <1>2
<1>9. P!UseInv'
  BY <1>0, <1>1, <1>3, <1>4, <1>5, <1>6, <1>7, <1>8, UseKept
<1> QED
  BY <1>1, <1>9, RingNext

LEMMA PieceRead ==
    ASSUME PipeInv, ~Faults, NEW t \in Tasks, p_pc[t] = "read_copy", sem' = sem, p_pc' = p_pc,
           NEW c \in 0 .. Len(stream), stream' = SubSeq(stream, c + 1, Len(stream))
    PROVE  P!PieceInv'
<1>0. P!UseInv /\ P!PieceInv /\ sem = t
  <2>1. P!UseInv /\ P!PieceInv
    BY DEF PipeInv, SafeInv
  <2> QED
    BY <2>1 DEF P!UseInv, P!CallInv, P!CallOf, P!Copies
<1>1. PICK m, q2 : m = stream /\ q2 = SubSeq(m, c + 1, Len(m))
  OBVIOUS
<1>2. m \in Seq(P!Bytes)
  BY <1>0, <1>1 DEF P!UseInv, P!TypeOK
<1>3. Len(q2) = Len(m) - c /\ DOMAIN q2 = 1 .. Len(m) - c /\ \A i \in 1 .. Len(m) - c : q2[i] = m[c + i]
  BY <1>1, <1>2
<1>6. \A k \in 1 .. Len(m) :
           m[k][3] <= PIPE_BUF /\ m[k][2] < m[k][3] =>
               \/ k < Len(m) /\ m[k + 1] = <<m[k][1], m[k][2] + 1, m[k][3]>>
               \/ /\ k = Len(m) /\ sem = m[k][1] /\ p_pc[m[k][1]] = "write_copy"
                  /\ m[k][2] = done[m[k][1]] /\ m[k][3] = done[m[k][1]] + left[m[k][1]]
  <2>1. DOMAIN m = 1 .. Len(m)
    BY ONLY <1>2
  <2> QED
    BY ONLY <1>0, <1>1, <2>1 DEF P!PieceInv
<1>4. ASSUME NEW k \in DOMAIN q2, NEW b, b = q2[k], b[3] <= PIPE_BUF, b[2] < b[3]
      PROVE  k < Len(q2) /\ q2[k + 1] = <<b[1], b[2] + 1, b[3]>>
  <2>1. PICK j \in 1 .. Len(m) : j = c + k /\ b = m[j]
    <3>1. PICK z \in Nat : z = Len(m) /\ c \in 0 .. z
      BY <1>1, <1>2
    <3>2. k \in 1 .. z - c /\ b = m[c + k]
      BY ONLY <1>3, <1>4, <3>1
    <3>3. c + k \in 1 .. z
      BY ONLY <3>1, <3>2, z \in Nat
    <3> QED
      BY ONLY <3>1, <3>2, <3>3
  <2>2. \/ j < Len(m) /\ m[j + 1] = <<b[1], b[2] + 1, b[3]>>
        \/ sem = b[1] /\ p_pc[b[1]] = "write_copy"
    BY ONLY <1>4, <1>6, <2>1
  <2>3. j < Len(m) /\ m[j + 1] = <<b[1], b[2] + 1, b[3]>>
    BY <1>0, <2>2
  <2>4. k < Len(q2) /\ k + 1 \in 1 .. Len(m) - c /\ c + (k + 1) = j + 1
    <3>1. PICK z \in Nat : z = Len(m) /\ c \in 0 .. z
      BY <1>1, <1>2
    <3>2. k \in 1 .. z - c /\ Len(q2) = z - c /\ j = c + k /\ j < z
      BY <1>3, <2>1, <2>3, <3>1
    <3>3. k < z - c /\ k + 1 \in 1 .. z - c /\ c + (k + 1) = j + 1
      BY ONLY <3>1, <3>2, z \in Nat
    <3> QED
      BY <3>1, <3>2, <3>3
  <2> QED
    BY <1>3, <2>3, <2>4
<1>5. stream' = q2
  BY <1>1
<1> QED
  BY <1>4, <1>5 DEF P!PieceInv

LEMMA PieceWrite ==
    ASSUME PipeInv, ~Faults, NEW t \in Tasks, p_pc[t] = "write_copy", sem' = sem, p_pc' = p_pc,
           NEW c \in Nat \ {0}, NEW v \in Seq(P!Bytes), Len(v) = c,
           \A i \in 1 .. c : v[i] = <<t, done[t] + i, done[t] + left[t]>>,
           left' = [left EXCEPT ![t] = @ - c], done' = [done EXCEPT ![t] = @ + c], stream' = stream \o v
    PROVE  P!PieceInv'
<1>0. P!UseInv /\ P!PieceInv /\ sem = t /\ left[t] \in Nat /\ done[t] \in Nat
  <2>1. P!UseInv /\ P!PieceInv
    BY DEF PipeInv, SafeInv
  <2> QED
    BY <2>1 DEF P!UseInv, P!TypeOK, P!CallInv, P!CallOf, P!Copies
<1>1. PICK m, q2 : m = stream /\ q2 = m \o v
  OBVIOUS
<1>2. m \in Seq(P!Bytes)
  BY <1>0, <1>1 DEF P!UseInv, P!TypeOK
<1>3. /\ Len(q2) = Len(m) + c /\ DOMAIN q2 = 1 .. Len(m) + c
      /\ \A i \in 1 .. Len(m) : q2[i] = m[i]
      /\ \A i \in 1 .. c : q2[Len(m) + i] = v[i]
  <2>1. q2 = m \o v
    BY <1>1
  <2>4. q2 \in Seq(P!Bytes) /\ Len(q2) = Len(m) + Len(v)
    BY ONLY <1>2, <2>1, v \in Seq(P!Bytes)
  <2>2. \A i \in 1 .. Len(m) : q2[i] = m[i]
    BY ONLY <1>2, <2>1, v \in Seq(P!Bytes)
  <2>3. \A i \in 1 .. Len(v) : q2[Len(m) + i] = v[i]
    BY ONLY <1>2, <2>1, v \in Seq(P!Bytes)
  <2> QED
    BY <2>2, <2>3, <2>4
<1>4. PICK d, l \in Nat : d = done[t] /\ l = left[t]
  BY <1>0
<1>5. done'[t] = d + c /\ left'[t] = l - c /\ sem' = t /\ p_pc'[t] = "write_copy"
  BY <1>0, <1>4 DEF P!UseInv, P!TypeOK
<1>6. PICK z \in Nat : z = Len(m)
  BY <1>2
<1>9. \A k \in 1 .. Len(m) :
           m[k][3] <= PIPE_BUF /\ m[k][2] < m[k][3] =>
               \/ k < Len(m) /\ m[k + 1] = <<m[k][1], m[k][2] + 1, m[k][3]>>
               \/ /\ k = Len(m) /\ sem = m[k][1] /\ p_pc[m[k][1]] = "write_copy"
                  /\ m[k][2] = done[m[k][1]] /\ m[k][3] = done[m[k][1]] + left[m[k][1]]
  <2>1. DOMAIN m = 1 .. Len(m)
    BY ONLY <1>2
  <2> QED
    BY ONLY <1>0, <1>1, <2>1 DEF P!PieceInv
<1>7. ASSUME NEW k \in DOMAIN q2, NEW b, b = q2[k], b[3] <= PIPE_BUF, b[2] < b[3]
      PROVE  \/ k < Len(q2) /\ q2[k + 1] = <<b[1], b[2] + 1, b[3]>>
             \/ k = Len(q2) /\ b[1] = t /\ b[2] = d + c /\ b[3] = d + l
  <2>1. k \in 1 .. z + c
    BY <1>3, <1>6
  <2>2. CASE k <= z
    <3>1. k \in 1 .. z /\ b = m[k]
      BY <1>3, <1>6, <1>7, <2>1, <2>2
    <3>2. \/ k < z /\ m[k + 1] = <<b[1], b[2] + 1, b[3]>>
          \/ /\ k = z /\ sem = b[1] /\ b[2] = done[b[1]] /\ b[3] = done[b[1]] + left[b[1]]
      BY ONLY <1>6, <1>7, <1>9, <3>1
    <3>3. CASE k < z /\ m[k + 1] = <<b[1], b[2] + 1, b[3]>>
      <4>1. k + 1 \in 1 .. z /\ k < z + c
        BY <2>1, <3>3
      <4> QED
        BY <1>3, <1>6, <3>3, <4>1
    <3>4. CASE k = z /\ b[1] = t /\ b[2] = d /\ b[3] = d + l
      <4>1. 1 \in 1 .. c /\ k + 1 = z + 1 /\ k < z + c
        BY <3>4
      <4>2. q2[k + 1] = <<t, d + 1, d + l>>
        BY <1>3, <1>4, <1>6, <4>1
      <4> QED
        BY <1>3, <1>6, <3>4, <4>1, <4>2
    <3> QED
      BY <1>0, <1>4, <3>2, <3>3, <3>4
  <2>3. CASE k > z
    <3>1. PICK i \in 1 .. c : k = z + i
      <4>1. k - z \in 1 .. c /\ k = z + (k - z)
        BY <2>1, <2>3
      <4> QED
        BY <4>1
    <3>2. b = <<t, d + i, d + l>>
      BY <1>3, <1>4, <1>6, <1>7, <3>1
    <3>3. b[1] = t /\ b[2] = d + i /\ b[3] = d + l
      BY <3>2
    <3>4. CASE i = c
      BY <1>3, <1>6, <3>1, <3>3, <3>4
    <3>5. CASE i # c
      <4>1. i + 1 \in 1 .. c /\ k + 1 = z + (i + 1) /\ k < z + c
        BY <3>1, <3>5
      <4>2. q2[k + 1] = <<t, d + (i + 1), d + l>>
        BY <1>3, <1>4, <1>6, <4>1
      <4>3. d + (i + 1) = (d + i) + 1
        OBVIOUS
      <4> QED
        BY <1>3, <1>6, <3>3, <4>1, <4>2, <4>3
    <3> QED
      BY <3>4, <3>5
  <2> QED
    BY <2>1, <2>2, <2>3
<1>8. stream' = q2 /\ d + l = (d + c) + (l - c)
  BY <1>1
<1> QED
  BY <1>5, <1>7, <1>8 DEF P!PieceInv

LEMMA ReadCopyUse ==
    ASSUME PipeGiven, PipeInv, NEW t \in Tasks, P!ReadCopy(t)
    PROVE  PipeInv'
<1>1. PICK p, c, m, l : p = pipe /\ c = P!RChunk(t) /\ m = stream /\ l = left[t]
  OBVIOUS
<1>2. Begun(t, p, p_st) /\ sem = t
  BY <1>1, BegunCopy DEF P!ReadCopy, P!Copies
<1>3. file' = file /\ opens' = opens /\ p_pc[t] = "read_copy"
  BY DEF P!ReadCopy
<1>4. p \in IntPipes /\ RingOf(p, m) /\ l \in Nat /\ done[t] \in Nat /\ PIPE_SIZE \in Nat \ {0}
  BY <1>1, <1>2, CallFacts DEF Begun
<1>5. CASE Faults /\ P!Return(t, pipe, p_st) /\ stream' = stream
  <2>1. PICK n, y : n = pipe /\ y = p_st
    OBVIOUS
  <2> QED
    BY <1>1, <1>2, <1>3, <1>5, <2>1, BegunReturn DEF MayLeave
<1>6. CASE /\ pipe' = ReadRing(p, c)
           /\ left' = [left EXCEPT ![t] = @ - c] /\ done' = [done EXCEPT ![t] = @ + c]
           /\ stream' = SubSeq(m, c + 1, Len(m))
           /\ sem' = sem /\ p_pc' = p_pc /\ cnt' = cnt /\ p_st' = p_st /\ p_sig' = p_sig
  <2>1. PICK s, z \in Nat : s = PIPE_SIZE - p.start /\ z = p.len
    BY <1>4 DEF IntPipes
  <2>2. c \in Nat /\ c <= s /\ c <= l /\ c <= z
    <3>1. c = P!Min({s, l, z})
      BY <1>1, <2>1 DEF P!RChunk
    <3>2. PICK r : r = P!Min({s, l, z}) /\ r \in {s, l, z} /\ r <= s /\ r <= l /\ r <= z
      BY <1>4, LeastOfThree
    <3> QED
      BY <1>4, <2>1, <3>1, <3>2
  <2>3. PICK n : n = pipe'
    OBVIOUS
  <2>4. m \in Seq(P!Bytes)
    BY <1>1, RestKept DEF RestTypes, PipeInv
  <2>5. c \in 0 .. p.len /\ c <= PIPE_SIZE - p.start
    BY <2>1, <2>2
  <2>6. /\ n \in IntPipes /\ SameUsers(p, n) /\ n.wait = p.wait
        /\ n.waitingReaders = p.waitingReaders /\ n.waitingWriters = p.waitingWriters
        /\ Len(m) = p.len
        /\ SubSeq(m, c + 1, Len(m)) \in Seq(P!Bytes)
        /\ RingOf(n, SubSeq(m, c + 1, Len(m)))
    <3>1. n = ReadRing(p, c)
      BY ONLY <1>6, <2>3
    <3> QED
      BY ONLY <1>4, <2>4, <2>5, <3>1, RingRead
  <2>7. left' \in [Tasks -> Nat] /\ done' \in [Tasks -> Nat]
    <3>1. left \in [Tasks -> Nat] /\ done \in [Tasks -> Nat]
      BY RestKept DEF RestTypes, PipeInv
    <3>2. l - c \in Nat /\ done[t] + c \in Nat
      BY <1>4, <2>2
    <3> QED
      BY <1>1, <1>6, <3>1, <3>2
  <2>8. P!UseInv' /\ P!RingIsStream'
    <3>1. pipe' = n /\ SameUsers(pipe, n) /\ n.wait = pipe.wait /\ n.waitingReaders = pipe.waitingReaders
          /\ n.waitingWriters = pipe.waitingWriters /\ stream' \in Seq(P!Bytes) /\ RingOf(n, stream')
      BY <1>1, <1>6, <2>3, <2>6
    <3> QED
      BY <1>3, <1>6, <2>6, <2>7, <3>1, CopyUse DEF P!Copies
  <2>9. ASSUME ~Faults PROVE SafeInv'
    <3>1. P!UseInv /\ P!RoomInv /\ P!PartnerInv
      BY <2>9 DEF PipeInv, SafeInv
    <3>2. OnlyOf(t)
      BY <1>3, <1>6, <3>1 DEF OnlyOf, P!UseInv, P!TypeOK
    <3>3. RoomIn(p_pc'[t], left'[t], done'[t], pipe')
      BY <1>3, <1>6 DEF RoomIn
    <3>4. P!RoomInv'
      BY <1>2, <3>1, <3>2, <3>3, RoomStep
    <3>5. P!PieceInv'
      <4>1. c \in 0 .. Len(stream) /\ stream' = SubSeq(stream, c + 1, Len(stream))
        BY <1>1, <1>6, <2>5, <2>6
      <4> QED
        BY <1>3, <1>6, <2>9, <4>1, PieceRead
    <3>7. P!PartnerInv'
      <4>1. SameUsers(pipe, pipe')
        BY <1>1, <2>3, <2>6
      <4>2. OpenIn(pipe, p_pc[t], file[t], cnt[t])
        BY <3>1, PartnerParts
      <4> QED
        BY <1>3, <1>6, <3>1, <3>2, <4>1, <4>2, PartnerSame
    <3>6. PipeSleepInv'
      BY <1>2, <1>6, MsgQueueAssumption DEF PipeSleepInv
    <3> QED
      BY <3>4, <3>5, <3>6, <3>7 DEF SafeInv
  <2> QED
    BY <2>8, <2>9 DEF PipeInv
<1> QED
  BY <1>1, <1>5, <1>6 DEF P!ReadCopy, ReadRing

LEMMA WriteCopyUse ==
    ASSUME PipeGiven, PipeInv, NEW t \in Tasks, P!WriteCopy(t)
    PROVE  PipeInv'
<1>1. PICK p, c, e, m, l, d : /\ p = pipe /\ c = P!WChunk(t) /\ e = P!End(p) /\ m = stream
                              /\ l = left[t] /\ d = done[t]
  OBVIOUS
<1>2. Begun(t, p, p_st) /\ sem = t
  BY <1>1, BegunCopy DEF P!WriteCopy, P!Copies
<1>3. file' = file /\ opens' = opens /\ p_pc[t] = "write_copy" /\ l > 0 /\ P!Free(p) > 0
  BY <1>1 DEF P!WriteCopy
<1>4. p \in IntPipes /\ RingOf(p, m) /\ l \in Nat /\ d \in Nat /\ PIPE_SIZE \in Nat \ {0} /\ PIPE_BUF \in Nat
  BY <1>1, <1>2, CallFacts DEF Begun
<1>5. CASE Faults /\ P!Return(t, pipe, p_st) /\ stream' = stream
  <2>1. PICK n, y : n = pipe /\ y = p_st
    OBVIOUS
  <2> QED
    BY <1>1, <1>2, <1>3, <1>5, <2>1, BegunReturn DEF MayLeave
<1>7. PICK b : b = [i \in 1 .. c |-> <<t, d + i, d + l>>]
  OBVIOUS
<1>6. CASE /\ pipe' = WrittenRing(p, c, e, b)
           /\ left' = [left EXCEPT ![t] = @ - c] /\ done' = [done EXCEPT ![t] = @ + c]
           /\ stream' = m \o b
           /\ sem' = sem /\ p_pc' = p_pc /\ cnt' = cnt /\ p_st' = p_st /\ p_sig' = p_sig
  <2>1. PICK s, z \in Nat : s = PIPE_SIZE - e /\ z = P!Free(p) /\ s # 0 /\ z # 0
    <3>1. p.start \in 0 .. PIPE_SIZE - 1 /\ p.len \in 0 .. PIPE_SIZE
      BY <1>4 DEF IntPipes
    <3>2. e = (p.start + p.len) % PIPE_SIZE
      BY <1>1 DEF P!End
    <3>3. e \in 0 .. PIPE_SIZE - 1
      BY <1>4, <3>1, <3>2, WrapsAt
    <3>4. PIPE_SIZE - e \in Nat /\ PIPE_SIZE - e # 0 /\ P!Free(p) \in Nat /\ P!Free(p) # 0
      BY <1>3, <1>4, <3>1, <3>3 DEF P!Free
    <3> QED
      BY <3>4
  <2>2. c \in Nat \ {0} /\ c <= s /\ c <= l /\ c <= z
    <3>1. c = P!Min({s, l, z})
      BY <1>1, <2>1 DEF P!WChunk
    <3>2. PICK r : r = P!Min({s, l, z}) /\ r \in {s, l, z} /\ r <= s /\ r <= l /\ r <= z
      BY <1>4, LeastOfThree
    <3> QED
      BY <1>3, <1>4, <2>1, <3>1, <3>2
  <2>3. PICK n : n = pipe'
    OBVIOUS
  <2>4. m \in Seq(P!Bytes)
    BY <1>1, RestKept DEF RestTypes, PipeInv
  <2>5. c <= PIPE_SIZE - e /\ c <= P!Free(p) /\ b \in [1 .. c -> P!Bytes]
    <3>1. ASSUME NEW i \in 1 .. c PROVE <<t, d + i, d + l>> \in P!Bytes
      <4>1. d + i \in Nat \ {0} /\ d + l \in Nat \ {0}
        BY <1>3, <1>4
      <4> QED
        BY <4>1 DEF P!Bytes
    <3> QED
      BY <1>7, <2>1, <2>2, <3>1
  <2>6. /\ n \in IntPipes /\ SameUsers(p, n) /\ n.wait = p.wait /\ n.len = p.len + c
        /\ n.waitingReaders = p.waitingReaders /\ n.waitingWriters = p.waitingWriters
        /\ m \o b \in Seq(P!Bytes)
        /\ RingOf(n, m \o b)
    <3>1. n = WrittenRing(p, c, e, b)
      BY ONLY <1>6, <2>3
    <3>2. c \in Nat /\ e = P!End(p)
      BY <1>1, <2>2
    <3> QED
      BY ONLY <1>4, <2>4, <2>5, <3>1, <3>2, RingWrite
  <2>7. left' \in [Tasks -> Nat] /\ done' \in [Tasks -> Nat] /\ left'[t] = l - c /\ done'[t] = d + c
    <3>1. left \in [Tasks -> Nat] /\ done \in [Tasks -> Nat]
      BY RestKept DEF RestTypes, PipeInv
    <3>2. l - c \in Nat /\ d + c \in Nat
      BY <1>4, <2>2
    <3> QED
      BY <1>1, <1>6, <3>1, <3>2
  <2>8. P!UseInv' /\ P!RingIsStream'
    <3>1. pipe' = n /\ SameUsers(pipe, n) /\ n.wait = pipe.wait /\ n.waitingReaders = pipe.waitingReaders
          /\ n.waitingWriters = pipe.waitingWriters /\ stream' \in Seq(P!Bytes) /\ RingOf(n, stream')
      BY <1>1, <1>6, <2>3, <2>6
    <3> QED
      BY <1>3, <1>6, <2>6, <2>7, <3>1, CopyUse DEF P!Copies
  <2>9. ASSUME ~Faults PROVE SafeInv'
    <3>1. P!UseInv /\ P!RoomInv /\ P!PartnerInv
      BY <2>9 DEF PipeInv, SafeInv
    <3>2. OnlyOf(t)
      BY <1>3, <1>6, <3>1 DEF OnlyOf, P!UseInv, P!TypeOK
    <3>3. RoomIn(p_pc'[t], left'[t], done'[t], pipe')
      <4>1. RoomIn("write_copy", l, d, p)
        BY <1>1, <1>3, <2>9, CallFacts
      <4>2. p.len \in Int /\ n.readers = p.readers /\ n.len = p.len + c
        BY <1>4, <2>6 DEF IntPipes, SameUsers
      <4>3. RoomIn("write_copy", l - c, d + c, n)
        <5>1. (d + c) + (l - c) = d + l /\ P!Free(n) = P!Free(p) - c /\ P!Free(p) \in Int
          BY <1>4, <2>2, <4>2 DEF P!Free
        <5> QED
          BY <1>4, <2>2, <4>1, <4>2, <5>1 DEF RoomIn
      <4> QED
        BY <1>3, <1>6, <2>3, <2>7, <4>3
    <3>4. P!RoomInv'
      BY <1>2, <3>1, <3>2, <3>3, RoomStep
    <3>5. P!PieceInv'
      <4>1. b \in Seq(P!Bytes) /\ Len(b) = c
        BY <2>2, <2>5
      <4>2. \A i \in 1 .. c : b[i] = <<t, done[t] + i, done[t] + left[t]>>
        BY <1>1, <1>7
      <4>3. stream' = stream \o b
        BY <1>1, <1>6
      <4> QED
        BY <1>3, <1>6, <2>2, <2>9, <4>1, <4>2, <4>3, PieceWrite
    <3>7. P!PartnerInv'
      <4>1. SameUsers(pipe, pipe')
        BY <1>1, <2>3, <2>6
      <4>2. OpenIn(pipe, p_pc[t], file[t], cnt[t])
        BY <3>1, PartnerParts
      <4> QED
        BY <1>3, <1>6, <3>1, <3>2, <4>1, <4>2, PartnerSame
    <3>6. PipeSleepInv'
      BY <1>2, <1>6, MsgQueueAssumption DEF PipeSleepInv
    <3> QED
      BY <3>4, <3>5, <3>6, <3>7 DEF SafeInv
  <2> QED
    BY <2>8, <2>9 DEF PipeInv
<1>8. \/ Faults /\ P!Return(t, pipe, p_st) /\ stream' = stream
      \/ /\ pipe' = WrittenRing(pipe, P!WChunk(t), P!End(pipe),
                                [i \in 1 .. P!WChunk(t) |-> <<t, done[t] + i, done[t] + left[t]>>])
         /\ left' = [left EXCEPT ![t] = @ - P!WChunk(t)] /\ done' = [done EXCEPT ![t] = @ + P!WChunk(t)]
         /\ stream' = stream \o [i \in 1 .. P!WChunk(t) |-> <<t, done[t] + i, done[t] + left[t]>>]
         /\ sem' = sem /\ p_pc' = p_pc /\ cnt' = cnt /\ p_st' = p_st /\ p_sig' = p_sig
  BY Zenon DEF P!WriteCopy, WrittenRing
<1>9. b = [i \in 1 .. P!WChunk(t) |-> <<t, done[t] + i, done[t] + left[t]>>]
  BY ONLY <1>1, <1>7
<1> QED
  BY <1>1, <1>5, <1>6, <1>8, <1>9

-----------------------------------------------------------------------------
(* select and signals.                                                     *)

LEMMA PollKept ==
    ASSUME PipeGiven, PipeInv, NEW t \in Tasks, file[t] # None, p_pc[t] \notin P!Copies,
           NEW n \in IntPipes, NEW w \in PipePCs, NEW c \in Nat,
           SameUsers(pipe, n), SameRing(pipe, n), SameWaits(pipe, n, t, p_pc[t], w),
           pipe' = n, sem' = sem, file' = file, p_pc' = [p_pc EXCEPT ![t] = w],
           left' = left, done' = done, cnt' = [cnt EXCEPT ![t] = c], p_sig' \in [Tasks -> BOOLEAN],
           opens' = opens, stream' = stream, p_st' \in StateTypes,
           \A u \in Tasks : u # t => p_st'[u] = p_st[u],
           CallIn(t, n, sem, file[t], w, p_st'[t]),
           ~Faults => RoomIn(w, left[t], done[t], pipe) /\ OpenIn(pipe, w, file[t], c),
           ~Faults /\ sem = None /\ p_st'[t] = "interruptible" => SleepIn(pipe, w, left[t], file[t], c)
    PROVE  PipeInv'
<1>0. P!UseInv
  BY DEF PipeInv
<1>1. pipe \in IntPipes /\ pipe # None /\ sem \in Tasks \cup {None} /\ cnt \in [Tasks -> Nat]
  BY <1>0, UseFacts, RestKept DEF RestTypes
<1>2. Moved(pipe, n, t, file[t], file[t], p_pc[t], w)
  <2>1. PICK p, o, a : p = pipe /\ o = file[t] /\ a = p_pc[t]
    OBVIOUS
  <2>2. p \in IntPipes /\ SameUsers(p, n) /\ SameWaits(p, n, t, a, w)
    BY <1>1, <2>1
  <2>3. Moved(p, n, t, o, o, a, w)
    BY ONLY <2>2, MovedSame
  <2> QED
    BY <2>1, <2>3
<1>3. RestTypes(left', done', cnt', p_sig', opens', stream')
  BY <1>0, <1>1, RestKept DEF RestTypes
<1>4. \A u \in Tasks : u # t => p_st'[u] \in {p_st[u], "running"} /\ (sem = u <=> sem' = u)
  OBVIOUS
<1>5. P!UseInv'
  <2>1. sem' \in Tasks \cup {None} /\ CallIn(t, n, sem', file[t], w, p_st'[t])
    BY <1>1
  <2> QED
    BY <1>0, <1>2, <1>3, <1>4, <2>1, UseKept
<1>6. P!RingIsStream'
  <2>1. RingOf(pipe, stream)
    BY <1>1, RingNow
  <2>2. RingOf(pipe', stream')
    BY <2>1 DEF RingOf, SameRing
  <2> QED
    BY <1>5, <2>2, RingNext
<1>7. ASSUME ~Faults PROVE SafeInv'
  <2>1. SafeInv /\ PIPE_BUF \in Nat
    BY <1>7 DEF PipeInv, PipeGiven, P!PipeAssumption
  <2>2. OnlyOf(t)
    BY <1>0, OnlyOne, SameOne
  <2>3. SameNeeds(pipe, pipe')
    BY DEF SameNeeds, SameRing
  <2>4. Whole(t)
    BY DEF Whole, P!Copies
  <2>5. p_pc'[t] = w /\ left'[t] = left[t] /\ done'[t] = done[t] /\ file'[t] = file[t] /\ cnt'[t] = c
    BY <1>0, <1>1 DEF P!UseInv, P!TypeOK
  <2>6. RoomIn(p_pc'[t], left'[t], done'[t], pipe)
    BY <1>7, <2>5
  <2>8. OpenIn(pipe, p_pc'[t], file'[t], cnt'[t])
    BY <1>7, <2>5
  <2>7. ASSUME sem' = None, p_st'[t] = "interruptible" PROVE SleepIn(pipe', p_pc'[t], left'[t], file'[t], cnt'[t])
    <3>1. PICK p, k, o : p = pipe /\ k = left[t] /\ o = file[t]
      OBVIOUS
    <3>2. SleepIn(p, w, k, o, c) /\ SameNeeds(p, n)
      BY <1>7, <2>3, <2>7, <3>1
    <3>3. SleepIn(n, w, k, o, c)
      BY ONLY <3>2, SleepSame
    <3> QED
      BY <2>5, <3>1, <3>3
  <2> QED
    BY <1>0, <1>1, <1>4, <2>1, <2>2, <2>3, <2>4, <2>6, <2>7, <2>8, SafeStep
<1> QED
  BY <1>5, <1>6, <1>7 DEF PipeInv

\* The facts about a task that polls or sleeps.
LEMMA PollFacts ==
    ASSUME PipeGiven, PipeInv, NEW t \in Tasks, file[t] # None, p_pc[t] \notin P!Copies
    PROVE  /\ pipe \in IntPipes /\ p_st \in StateTypes /\ p_pc[t] \in PipePCs /\ p_sig \in [Tasks -> BOOLEAN]
           /\ CallIn(t, pipe, sem, file[t], p_pc[t], p_st[t]) /\ sem # t /\ cnt[t] \in Nat
           /\ cnt = [cnt EXCEPT ![t] = cnt[t]] /\ p_pc = [p_pc EXCEPT ![t] = p_pc[t]]
           /\ SameUsers(pipe, pipe) /\ SameRing(pipe, pipe)
           /\ ~Faults => RoomIn(p_pc[t], left[t], done[t], pipe) /\ OpenIn(pipe, p_pc[t], file[t], cnt[t])
           /\ ~Faults /\ sem = None /\ p_st[t] = "interruptible" => SleepIn(pipe, p_pc[t], left[t], file[t], cnt[t])
<1>0. P!UseInv
  BY DEF PipeInv
<1>1. /\ pipe \in IntPipes /\ p_st \in StateTypes /\ p_pc \in PlaceTypes
      /\ CallIn(t, pipe, sem, file[t], p_pc[t], p_st[t])
  BY <1>0, UseFacts
<1>2. sem # t
  BY <1>1 DEF CallIn
<1>3. cnt[t] \in Nat /\ p_sig \in [Tasks -> BOOLEAN] /\ cnt = [cnt EXCEPT ![t] = cnt[t]]
  BY <1>0, RestKept DEF RestTypes
<1>4. p_pc[t] \in PipePCs /\ p_pc = [p_pc EXCEPT ![t] = p_pc[t]]
  BY <1>1 DEF PlaceTypes
<1>5. ~Faults => RoomIn(p_pc[t], left[t], done[t], pipe) /\ OpenIn(pipe, p_pc[t], file[t], cnt[t])
  BY CallFacts, PartnerParts DEF PipeInv, SafeInv
<1>6. ~Faults /\ sem = None /\ p_st[t] = "interruptible" => SleepIn(pipe, p_pc[t], left[t], file[t], cnt[t])
  BY DEF PipeInv, SafeInv, PipeSleepInv
<1> QED
  BY <1>1, <1>2, <1>3, <1>4, <1>5, <1>6 DEF SameUsers, SameRing

LEMMA SignalUse ==
    ASSUME PipeGiven, PipeInv, NEW t \in Tasks, P!Signal(t)
    PROVE  PipeInv'
<1>1. /\ p_st[t] = "interruptible" /\ p_sig' = [p_sig EXCEPT ![t] = TRUE] /\ p_st' = [p_st EXCEPT ![t] = "running"]
      /\ pipe' = pipe /\ sem' = sem /\ file' = file /\ p_pc' = p_pc /\ left' = left /\ done' = done
      /\ cnt' = cnt /\ opens' = opens /\ stream' = stream
  BY DEF P!Signal
<1>2. p_pc[t] \in P!Waits \cup P!Polls /\ file[t] # None
  BY <1>1 DEF PipeInv, P!UseInv, P!CallInv, P!CallOf, P!Waits, P!Polls
<1>3. p_pc[t] \notin P!Copies
  BY <1>2 DEF P!Waits, P!Polls, P!Copies
<1>4. PICK n, w, c : n = pipe /\ w = p_pc[t] /\ c = cnt[t]
  OBVIOUS
<1>5. /\ n \in IntPipes /\ p_st \in StateTypes /\ w \in PipePCs /\ p_sig \in [Tasks -> BOOLEAN] /\ c \in Nat
      /\ CallIn(t, n, sem, file[t], w, p_st[t])
      /\ cnt = [cnt EXCEPT ![t] = c] /\ p_pc = [p_pc EXCEPT ![t] = w]
      /\ SameUsers(pipe, n) /\ SameRing(pipe, n)
      /\ ~Faults => RoomIn(w, left[t], done[t], pipe) /\ OpenIn(pipe, w, file[t], c)
  BY <1>2, <1>3, <1>4, PollFacts
<1>6. SameWaits(pipe, n, t, p_pc[t], w)
  <2>1. SameWaits(n, n, t, w, w)
    BY <1>5 DEF SameWaits, In, IntPipes
  <2> QED
    BY <1>4, <2>1
<1>7. p_st' \in StateTypes /\ p_st'[t] = "running" /\ (\A u \in Tasks : u # t => p_st'[u] = p_st[u])
      /\ p_sig' \in [Tasks -> BOOLEAN]
  BY <1>1, <1>5 DEF StateTypes
<1>8. CallIn(t, n, sem, file[t], w, p_st'[t])
  BY <1>5, <1>7 DEF CallIn
<1>9. pipe' = n /\ p_pc' = [p_pc EXCEPT ![t] = w] /\ cnt' = [cnt EXCEPT ![t] = c]
  BY ONLY <1>1, <1>4, <1>5
<1>10. p_st'[t] # "interruptible"
  BY ONLY <1>7
<1>11. /\ sem' = sem /\ file' = file /\ left' = left /\ done' = done /\ opens' = opens /\ stream' = stream
       /\ file[t] # None
  BY ONLY <1>1, <1>2
<1> QED
  BY ONLY PipeGiven, PipeInv, t \in Tasks, <1>3, <1>5, <1>6, <1>7, <1>8, <1>9, <1>10, <1>11, PollKept

\* A poll keeps no counter.
LEMMA PollWaits ==
    ASSUME NEW p \in IntPipes, NEW n \in IntPipes, NEW t, NEW a, NEW w,
           a \notin {"read_wait", "room_wait", "full_wait"}, w \notin {"read_wait", "room_wait", "full_wait"},
           n.waitingReaders = p.waitingReaders, n.waitingWriters = p.waitingWriters,
           \A u \in Tasks : u # t => (u \in n.wait <=> u \in p.wait)
    PROVE  SameWaits(p, n, t, a, w)
BY DEF IntPipes, SameWaits, In

LEMMA SelectStartUse ==
    ASSUME PipeGiven, PipeInv, NEW t \in Tasks, P!SelectStart(t)
    PROVE  PipeInv'
<1>1. /\ p_pc[t] = "idle" /\ file[t] # None /\ pipe' = [pipe EXCEPT !.wait = @ \cup {t}]
      /\ p_st' = [p_st EXCEPT ![t] = "interruptible"] /\ p_pc' = [p_pc EXCEPT ![t] = "poll_len"]
      /\ sem' = sem /\ file' = file /\ left' = left /\ done' = done /\ cnt' = cnt /\ p_sig' = p_sig
      /\ opens' = opens /\ stream' = stream
  BY DEF P!SelectStart, P!CanRead
<1>2. p_pc[t] \notin P!Copies
  BY <1>1 DEF P!Copies
<1>3. PICK p, n, a, w, c : p = pipe /\ n = pipe' /\ a = p_pc[t] /\ w = "poll_len" /\ c = cnt[t]
  OBVIOUS
<1>4. /\ p \in IntPipes /\ p_st \in StateTypes /\ p_sig \in [Tasks -> BOOLEAN] /\ c \in Nat /\ sem # t
      /\ cnt = [cnt EXCEPT ![t] = c] /\ (~Faults => RoomIn(a, left[t], done[t], p))
  BY <1>1, <1>2, <1>3, PollFacts
<1>5. n \in IntPipes /\ SameUsers(p, n) /\ SameRing(p, n) /\ n.wait = p.wait \cup {t} /\ SameWaits(p, n, t, a, w)
  <2>1. PICK W, i, j : W = p.wait \cup {t} /\ i = p.waitingReaders /\ j = p.waitingWriters
    OBVIOUS
  <2>2. n = WaitedFor(p, W, i, j) /\ W \in SUBSET Tasks /\ i \in Int /\ j \in Int
    <3>1. n = [p EXCEPT !.wait = @ \cup {t}]
      BY ONLY <1>1, <1>3
    <3>2. n = WaitedFor(p, p.wait \cup {t}, p.waitingReaders, p.waitingWriters)
      BY ONLY <1>4, <3>1, WaitForms
    <3>3. p.wait \subseteq Tasks /\ p.waitingReaders \in Int /\ p.waitingWriters \in Int
      BY ONLY <1>4 DEF IntPipes
    <3> QED
      BY ONLY <2>1, <3>2, <3>3, t \in Tasks
  <2>3. a \notin {"read_wait", "room_wait", "full_wait"} /\ w \notin {"read_wait", "room_wait", "full_wait"}
    BY <1>1, <1>3
  <2>4. /\ n \in IntPipes /\ SameUsers(p, n) /\ SameRing(p, n) /\ n.wait = W
        /\ n.waitingReaders = i /\ n.waitingWriters = j
    BY <1>4, <2>2, WaitedFields
  <2>5. SameWaits(p, n, t, a, w)
    BY <1>4, <2>1, <2>3, <2>4, PollWaits
  <2> QED
    BY <2>1, <2>4, <2>5
<1>6. p_st' \in StateTypes /\ p_st'[t] = "interruptible" /\ \A u \in Tasks : u # t => p_st'[u] = p_st[u]
  BY <1>1, <1>4 DEF StateTypes
<1>7. CallIn(t, n, sem, file[t], w, p_st'[t]) /\ w \in PipePCs
  BY <1>1, <1>3, <1>4, <1>5 DEF CallIn, P!Waits, P!Polls, P!Copies, PipePCs
<1>8. ~Faults => RoomIn(w, left[t], done[t], pipe) /\ OpenIn(pipe, w, file[t], c)
  BY <1>1, <1>3, <1>4 DEF RoomIn, OpenIn
<1>9. SleepIn(pipe, w, left[t], file[t], c)
  BY <1>3 DEF SleepIn
<1> QED
  BY <1>1, <1>2, <1>3, <1>4, <1>5, <1>6, <1>7, <1>8, <1>9, PollKept

LEMMA SelectAgainUse ==
    ASSUME PipeGiven, PipeInv, NEW t \in Tasks, P!SelectAgain(t)
    PROVE  PipeInv'
<1>1. /\ p_pc[t] = "poll_sleep" /\ pipe' = pipe
      /\ p_st' = [p_st EXCEPT ![t] = "interruptible"] /\ p_pc' = [p_pc EXCEPT ![t] = "poll_len"]
      /\ sem' = sem /\ file' = file /\ left' = left /\ done' = done /\ cnt' = cnt /\ p_sig' = p_sig
      /\ opens' = opens /\ stream' = stream
  BY DEF P!SelectAgain
<1>2. p_pc[t] \notin P!Copies /\ file[t] # None
  BY <1>1 DEF P!Copies, PipeInv, P!UseInv, P!CallInv, P!CallOf
<1>3. PICK n, a, w, c : n = pipe /\ a = p_pc[t] /\ w = "poll_len" /\ c = cnt[t]
  OBVIOUS
<1>4. /\ n \in IntPipes /\ p_st \in StateTypes /\ p_sig \in [Tasks -> BOOLEAN] /\ c \in Nat /\ sem # t
      /\ cnt = [cnt EXCEPT ![t] = c] /\ (~Faults => RoomIn(a, left[t], done[t], n))
      /\ SameUsers(pipe, n) /\ SameRing(pipe, n) /\ CallIn(t, n, sem, file[t], a, p_st[t])
  BY <1>1, <1>2, <1>3, PollFacts
<1>5. SameWaits(pipe, n, t, p_pc[t], w)
  <2>1. SameWaits(n, n, t, a, w)
    BY <1>1, <1>3, <1>4 DEF SameWaits, In, IntPipes
  <2> QED
    BY <1>3, <2>1
<1>6. p_st' \in StateTypes /\ p_st'[t] = "interruptible" /\ \A u \in Tasks : u # t => p_st'[u] = p_st[u]
  BY <1>1, <1>4 DEF StateTypes
<1>7. CallIn(t, n, sem, file[t], w, p_st'[t]) /\ w \in PipePCs
  BY <1>1, <1>2, <1>3, <1>4 DEF CallIn, P!Waits, P!Polls, P!Copies, PipePCs
<1>8. ~Faults => RoomIn(w, left[t], done[t], pipe) /\ OpenIn(pipe, w, file[t], c)
  BY <1>1, <1>3, <1>4 DEF RoomIn, OpenIn
<1>9. SleepIn(pipe, w, left[t], file[t], c)
  BY <1>3 DEF SleepIn
<1> QED
  BY <1>1, <1>2, <1>3, <1>4, <1>5, <1>6, <1>7, <1>8, <1>9, PollKept

LEMMA PollLenUse ==
    ASSUME PipeGiven, PipeInv, NEW t \in Tasks, P!PollLen(t)
    PROVE  PipeInv'
<1>1. /\ p_pc[t] = "poll_len" /\ pipe' = pipe /\ p_pc' = [p_pc EXCEPT ![t] = "poll_writers"]
      /\ cnt' = [cnt EXCEPT ![t] = IF pipe.len = 0 THEN 0 ELSE 1]
      /\ sem' = sem /\ file' = file /\ left' = left /\ done' = done /\ p_st' = p_st /\ p_sig' = p_sig
      /\ opens' = opens /\ stream' = stream
  BY DEF P!PollLen
<1>2. p_pc[t] \notin P!Copies /\ file[t] # None
  BY <1>1 DEF P!Copies, PipeInv, P!UseInv, P!CallInv, P!CallOf
<1>3. PICK n, a, w, c : n = pipe /\ a = p_pc[t] /\ w = "poll_writers" /\ c = IF pipe.len = 0 THEN 0 ELSE 1
  OBVIOUS
<1>4. /\ n \in IntPipes /\ p_st \in StateTypes /\ p_sig \in [Tasks -> BOOLEAN] /\ sem # t
      /\ ~Faults => RoomIn(a, left[t], done[t], n)
      /\ SameUsers(pipe, n) /\ SameRing(pipe, n) /\ CallIn(t, n, sem, file[t], a, p_st[t])
  BY <1>1, <1>2, <1>3, PollFacts
<1>5. SameWaits(pipe, n, t, p_pc[t], w) /\ c \in Nat
  <2>1. SameWaits(n, n, t, a, w)
    BY <1>1, <1>3, <1>4 DEF SameWaits, In, IntPipes
  <2> QED
    BY <1>3, <2>1
<1>7. CallIn(t, n, sem, file[t], w, p_st'[t]) /\ w \in PipePCs
  BY <1>1, <1>2, <1>3, <1>4 DEF CallIn, P!Waits, P!Polls, P!Copies, PipePCs
<1>8. ~Faults => RoomIn(w, left[t], done[t], pipe) /\ OpenIn(pipe, w, file[t], c)
  BY <1>1, <1>3, <1>4 DEF RoomIn, OpenIn
<1>9. SleepIn(pipe, w, left[t], file[t], c)
  BY <1>3 DEF SleepIn
<1> QED
  BY <1>1, <1>2, <1>3, <1>4, <1>5, <1>7, <1>8, <1>9, PollKept

LEMMA PollWritersUse ==
    ASSUME PipeGiven, PipeInv, NEW t \in Tasks, P!PollWriters(t)
    PROVE  PipeInv'
<1>1. /\ p_pc[t] = "poll_writers" /\ cnt' = [cnt EXCEPT ![t] = 0]
      /\ sem' = sem /\ file' = file /\ left' = left /\ done' = done /\ opens' = opens /\ stream' = stream
  BY DEF P!PollWriters
<1>2. p_pc[t] \notin P!Copies /\ file[t] # None
  BY <1>1 DEF P!Copies, PipeInv, P!UseInv, P!CallInv, P!CallOf
<1>3. PICK p, n, a, w, c : p = pipe /\ n = pipe' /\ a = p_pc[t] /\ w = p_pc'[t] /\ c = 0
  OBVIOUS
<1>4. /\ p \in IntPipes /\ p_st \in StateTypes /\ p_sig \in [Tasks -> BOOLEAN] /\ sem # t
      /\ ~Faults => RoomIn(a, left[t], done[t], p)
      /\ SameUsers(p, p) /\ SameRing(p, p) /\ CallIn(t, p, sem, file[t], a, p_st[t])
  BY <1>1, <1>2, <1>3, PollFacts
<1>10. p_pc \in [Tasks -> PipePCs]
  BY <1>2, UseFacts DEF PipeInv, PlaceTypes
<1>5. CASE /\ p_pc' = [p_pc EXCEPT ![t] = "idle"] /\ pipe' = P!OffQueue(t) /\ p_st' = [p_st EXCEPT ![t] = "running"]
           /\ p_sig' = [p_sig EXCEPT ![t] = FALSE]
  <2>0. w = "idle"
    BY <1>3, <1>5, <1>10
  <2>1. n \in IntPipes /\ SameUsers(p, n) /\ SameRing(p, n) /\ n.wait = p.wait \ {t} /\ SameWaits(p, n, t, a, w)
    <3>1. PICK W, i, j : W = p.wait \ {t} /\ i = p.waitingReaders /\ j = p.waitingWriters
      OBVIOUS
    <3>2. n = WaitedFor(p, W, i, j) /\ W \in SUBSET Tasks /\ i \in Int /\ j \in Int
      <4>1. n = [p EXCEPT !.wait = @ \ {t}]
        BY ONLY <1>3, <1>5 DEF P!OffQueue
      <4>2. n = WaitedFor(p, p.wait \ {t}, p.waitingReaders, p.waitingWriters)
        BY ONLY <1>4, <4>1, WaitForms
      <4>3. p.wait \subseteq Tasks /\ p.waitingReaders \in Int /\ p.waitingWriters \in Int
        BY ONLY <1>4 DEF IntPipes
      <4> QED
        BY ONLY <3>1, <4>2, <4>3
    <3>3. a \notin {"read_wait", "room_wait", "full_wait"} /\ w \notin {"read_wait", "room_wait", "full_wait"}
      BY <1>1, <1>3, <2>0
    <3>4. /\ n \in IntPipes /\ SameUsers(p, n) /\ SameRing(p, n) /\ n.wait = W
          /\ n.waitingReaders = i /\ n.waitingWriters = j
      BY <1>4, <3>2, WaitedFields
    <3>5. SameWaits(p, n, t, a, w)
      BY <1>4, <3>1, <3>3, <3>4, PollWaits
    <3> QED
      BY <3>1, <3>4, <3>5
  <2>2. /\ p_st' \in StateTypes /\ p_st'[t] = "running" /\ (\A u \in Tasks : u # t => p_st'[u] = p_st[u])
        /\ p_sig' \in [Tasks -> BOOLEAN]
    BY <1>4, <1>5 DEF StateTypes
  <2>3. CallIn(t, n, sem, file[t], w, p_st'[t]) /\ w \in PipePCs
    BY <1>4, <2>0, <2>1, <2>2 DEF CallIn, P!Waits, P!Polls, P!Copies, PipePCs
  <2>4. ~Faults => RoomIn(w, left[t], done[t], pipe) /\ OpenIn(pipe, w, file[t], c)
    BY <1>1, <1>3, <1>4, <2>0 DEF RoomIn, OpenIn
  <2> QED
    BY <1>1, <1>2, <1>3, <1>5, <2>0, <2>1, <2>2, <2>3, <2>4, PollKept
<1>6. CASE /\ cnt[t] # 1 /\ ~P!Hup(t) /\ p_pc' = [p_pc EXCEPT ![t] = "poll_sleep"]
           /\ pipe' = pipe /\ p_st' = p_st /\ p_sig' = p_sig
  <2>0. w = "poll_sleep" /\ n = p
    BY <1>3, <1>6, <1>10
  <2>1. SameWaits(p, n, t, a, w)
    BY <1>1, <1>3, <1>4, <2>0 DEF SameWaits, In, IntPipes
  <2>3. CallIn(t, n, sem, file[t], w, p_st'[t]) /\ w \in PipePCs
    BY <1>1, <1>2, <1>3, <1>4, <1>6, <2>0 DEF CallIn, P!Waits, P!Polls, P!Copies, PipePCs
  <2>4. ~Faults => RoomIn(w, left[t], done[t], pipe) /\ OpenIn(pipe, w, file[t], c)
    BY <1>1, <1>3, <1>4, <2>0 DEF RoomIn, OpenIn
  <2>5. ASSUME ~Faults, sem = None, p_st'[t] = "interruptible" PROVE SleepIn(pipe, w, left[t], file[t], c)
    <3>1. SleepIn(pipe, p_pc[t], left[t], file[t], cnt[t])
      BY <1>2, <1>6, <2>5, PollFacts
    <3>2. pipe.len = 0
      BY <1>1, <1>6, <3>1 DEF SleepIn
    <3> QED
      BY <1>6, <2>0, <3>2 DEF SleepIn, P!Hup
  <2> QED
    BY <1>1, <1>2, <1>3, <1>4, <1>6, <2>0, <2>1, <2>3, <2>4, <2>5, PollKept
<1> QED
  BY <1>5, <1>6 DEF P!PollWriters

-----------------------------------------------------------------------------
(* fifo_open and pipe_release: the users change.                           *)

\* The step takes the pipe from p to n, t gets the open file g and goes to w; a pipe without users is freed.
\* What the new n leaves the others, and t at w with the file g, to wait for.
FileSafe(t, n, w, g) ==
    ~Faults => /\ RoomIn(w, left'[t], done'[t], n)
               /\ \A u \in Tasks : u # t /\ p_st'[u] = "interruptible" /\ PipeNats(n) /\ ~P!Unused(n) =>
                      SleepIn(n, p_pc[u], left[u], file[u], cnt[u])
               /\ p_st'[t] = "interruptible" => SleepIn(n, w, left'[t], g, cnt'[t])
               /\ \A u \in Tasks : u # t /\ PipeNats(n) /\ ~P!Unused(n) => OpenIn(n, p_pc[u], file[u], cnt[u])
               /\ OpenIn(n, w, g, cnt'[t])

LEMMA FileStep ==
    ASSUME PipeGiven, PipeInv, NEW t \in Tasks, sem = None, sem' = None,
           NEW p \in IntPipes, UseIn(p, None, file, p_pc, p_st), RingOf(p, stream),
           NEW n \in IntPipes, SameRing(p, n), NEW g \in P!OpenFiles \cup {None}, NEW w \in PipePCs,
           Moved(p, n, t, file[t], g, p_pc[t], w),
           file' = [file EXCEPT ![t] = g], p_pc' = [p_pc EXCEPT ![t] = w], p_st' \in StateTypes,
           \A u \in Tasks : u # t => p_st'[u] \in {p_st[u], "running"},
           CallIn(t, n, None, g, w, p_st'[t]),
           RestTypes(left', done', cnt', p_sig', opens', stream'),
           \A u \in Tasks : u # t => left'[u] = left[u] /\ done'[u] = done[u] /\ cnt'[u] = cnt[u],
           pipe' = P!Released(n), stream' = P!StreamIn(n),
           FileSafe(t, n, w, g)
    PROVE  PipeInv'
<1>0. P!UseInv /\ P!TypeOK /\ IsFiniteSet(Tasks)
  BY DEF PipeInv, P!UseInv, PipeGiven
<1>1. file \in OpenTypes /\ p_pc \in PlaceTypes
  BY <1>0 DEF P!TypeOK, OpenTypes, PlaceTypes, PipePCs
<1>2. PICK f, c, x, h, d, y : /\ f = file /\ c = p_pc /\ x = p_st /\ h = [f EXCEPT ![t] = g] /\ d = [c EXCEPT ![t] = w]
                              /\ y = p_st'
  OBVIOUS
<1>3. UseIn(n, None, h, d, y) /\ PipeNats(n)
  <2>1. f \in OpenTypes /\ c \in PlaceTypes /\ Moved(p, n, t, f[t], g, c[t], w)
    BY <1>1, <1>2
  <2>2. PICK s, r : s = None /\ r = None
    OBVIOUS
  <2>3. \A u \in Tasks : u # t => y[u] \in {x[u], "running"} /\ (s = u <=> r = u)
    BY <1>2, <2>2
  <2>4. CallIn(t, n, r, g, w, y[t]) /\ UseIn(p, s, f, c, x)
    BY <1>2, <2>2
  <2>6. IsFiniteSet(Tasks)
    BY <1>0
  <2>5. UseIn(n, r, [f EXCEPT ![t] = g], [c EXCEPT ![t] = w], y) /\ PipeNats(n)
    BY ONLY <2>1, <2>3, <2>4, <2>6, t \in Tasks, UseStep
  <2> QED
    BY <1>2, <2>2, <2>5
<1>4. h \in OpenTypes /\ d \in PlaceTypes /\ h[t] = g /\ d[t] = w
  BY <1>1, <1>2 DEF OpenTypes, PlaceTypes
<1>5. file' = h /\ p_pc' = d /\ p_st' = y
  BY <1>2
<1>6. /\ P!Unused(n) => \A u \in Tasks : h[u] = None /\ d[u] = "idle" /\ y[u] # "interruptible"
      /\ ~P!Unused(n) => \E u \in Tasks : h[u] # None
  <2>1. PICK s \in Tasks \cup {None} : s = None
    OBVIOUS
  <2>2. UseIn(n, s, h, d, y) /\ h \in OpenTypes
    BY <1>3, <1>4, <2>1
  <2>3. IsFiniteSet(Tasks)
    BY <1>0
  <2>4. P!Unused(n) <=> \A u \in Tasks : h[u] = None
    BY ONLY <2>2, <2>3, s \in Tasks \cup {None}, UseNobody
  <2>5. ASSUME NEW u \in Tasks, h[u] = None PROVE d[u] = "idle" /\ y[u] # "interruptible"
    BY <2>2, <2>5, UseIdle
  <2> QED
    BY <2>4, <2>5
<1>7. n \in P!Pipes /\ n # None
  BY <1>3, IntPipe DEF PipeGiven, P!PipeAssumption
<1>8. P!TypeOK'
  <2>1. pipe' \in P!Pipes \cup {None}
    BY <1>7 DEF P!Released
  <2> QED
    BY <1>4, <1>5, <2>1 DEF P!TypeOK, RestTypes, OpenTypes, PlaceTypes, StateTypes, PipePCs
<1>9. P!UseInv'
  <2>1. CASE P!Unused(n)
    <3>1. pipe' = None
      BY <2>1 DEF P!Released
    <3> QED
      BY <1>5, <1>6, <1>8, <2>1, <3>1, UsePartsNext DEF UseForm
  <2>2. CASE ~P!Unused(n)
    <3>1. pipe' = n
      BY <2>2 DEF P!Released
    <3>2. UseIn(pipe', sem', file', p_pc', p_st')
      BY <1>3, <1>5, <3>1
    <3> QED
      BY <1>5, <1>6, <1>7, <1>8, <2>2, <3>1, <3>2, UsePartsNext DEF UseForm
  <2> QED
    BY <2>1, <2>2
<1>10. P!RingIsStream'
  <2>1. CASE P!Unused(n)
    BY <2>1 DEF P!Released, P!StreamIn, P!RingIsStream
  <2>2. CASE ~P!Unused(n)
    <3>1. pipe' = n /\ stream' = stream
      BY <2>2 DEF P!Released, P!StreamIn
    <3>2. RingOf(pipe', stream')
      BY <3>1 DEF RingOf, SameRing
    <3> QED
      BY <1>7, <3>1, <3>2 DEF P!RingIsStream, RingOf, Slot
  <2> QED
    BY <2>1, <2>2
<1>11. ASSUME ~Faults PROVE SafeInv'
  <2>0. P!RoomInv /\ P!PartnerInv /\ P!PieceInv /\ PIPE_BUF \in Nat
    BY <1>11 DEF PipeInv, SafeInv, PipeGiven, P!PipeAssumption
  <2>1. OnlyOf(t)
    BY <1>0 DEF OnlyOf, P!TypeOK
  <2>2. p_pc'[t] = w /\ file'[t] = g
    BY <1>4, <1>5
  <2>3. P!RoomInv'
    <3>1. RoomIn(w, left'[t], done'[t], n)
      BY <1>11 DEF FileSafe
    <3>2. RoomIn(p_pc'[t], left'[t], done'[t], pipe')
      <4>1. CASE P!Unused(n)
        <5>1. w = "idle"
          BY <1>4, <1>6, <4>1
        <5> QED
          BY <2>2, <3>1, <5>1 DEF RoomIn
      <4>2. CASE ~P!Unused(n)
        BY <2>2, <3>1, <4>2 DEF P!Released
      <4> QED
        BY <4>1, <4>2
    <3> QED
      BY <1>0, <2>0, <2>1, <3>2, RoomStep
  <2>4. P!PieceInv'
    <3>1. CASE P!Unused(n)
      BY <3>1 DEF P!StreamIn, P!PieceInv
    <3>2. CASE ~P!Unused(n)
      <4>1. stream' = stream
        BY <3>2 DEF P!StreamIn
      <4>2. Whole(t)
        BY <1>0, MsgQueueAssumption DEF P!UseInv, P!CallInv, P!CallOf, P!Copies, Whole
      <4> QED
        BY <1>0, <2>0, <2>1, <4>1, <4>2, PieceStep
    <3> QED
      BY <3>1, <3>2
  <2>5. PipeSleepInv'
    <3>1. CASE P!Unused(n)
      BY <1>5, <1>6, <3>1 DEF PipeSleepInv
    <3>2. CASE ~P!Unused(n)
      <4>1. pipe' = n
        BY <3>2 DEF P!Released
      <4> QED
        BY <1>3, <1>11, <2>1, <2>2, <3>2, <4>1, SleepStep DEF FileSafe
    <3> QED
      BY <3>1, <3>2
  <2>6. P!PartnerInv'
    <3>1. CASE P!Unused(n)
      <4>1. \A u \in Tasks : p_pc'[u] = "idle"
        BY <1>5, <1>6, <3>1
      <4> QED
        BY <4>1, PartnerPartsNext DEF OpenIn
    <3>2. CASE ~P!Unused(n)
      <4>1. pipe' = n
        BY <3>2 DEF P!Released
      <4> QED
        BY <1>3, <1>11, <2>0, <2>1, <2>2, <3>2, <4>1, PartnerStep DEF FileSafe
    <3> QED
      BY <3>1, <3>2
  <2> QED
    BY <2>3, <2>4, <2>5, <2>6 DEF SafeInv
<1> QED
  BY <1>9, <1>10, <1>11 DEF PipeInv

\* The users after an open and after a close.
MoreUsers(p, n, m) ==
    /\ n \in IntPipes /\ SameRing(p, n) /\ n.wait = p.wait
    /\ n.waitingReaders = p.waitingReaders /\ n.waitingWriters = p.waitingWriters
    /\ n.readers = p.readers + In("r", m) /\ n.rCounter = p.rCounter + In("r", m)
    /\ n.writers = p.writers + In("w", m) /\ n.wCounter = p.wCounter + In("w", m)

LEMMA OpenedFields ==
    ASSUME NEW p \in IntPipes, NEW o, NEW n, n = P!Opened(p, o)
    PROVE  MoreUsers(p, n, o.mode)
<1>1. PICK i, j \in Nat : i = In("r", o.mode) /\ j = In("w", o.mode)
  BY DEF In
<1>2. n = [p EXCEPT !.readers = @ + i, !.rCounter = @ + i, !.writers = @ + j, !.wCounter = @ + j]
  BY <1>1 DEF P!Opened, In
<1>3. /\ n \in IntPipes /\ SameRing(p, n) /\ n.wait = p.wait
      /\ n.waitingReaders = p.waitingReaders /\ n.waitingWriters = p.waitingWriters
      /\ n.readers = p.readers + i /\ n.rCounter = p.rCounter + i
      /\ n.writers = p.writers + j /\ n.wCounter = p.wCounter + j
  <2>1. PICK a, b \in Int, c, d \in Nat : a = p.readers + i /\ b = p.writers + j /\ c = p.rCounter + i /\ d = p.wCounter + j
    <3>1. p.readers \in Int /\ p.writers \in Int /\ p.rCounter \in Nat /\ p.wCounter \in Nat
      BY DEF IntPipes
    <3>2. /\ p.readers + i \in Int /\ p.writers + j \in Int
          /\ p.rCounter + i \in Nat /\ p.wCounter + j \in Nat
      BY ONLY <3>1, i \in Nat, j \in Nat
    <3> QED
      BY ONLY <3>2, Zenon
  <2>2. n = [p EXCEPT !.readers = a, !.rCounter = c, !.writers = b, !.wCounter = d]
    BY <1>2, <2>1
  <2>3. /\ n \in IntPipes /\ SameRing(p, n) /\ n.wait = p.wait
        /\ n.waitingReaders = p.waitingReaders /\ n.waitingWriters = p.waitingWriters
        /\ n.readers = a /\ n.rCounter = c /\ n.writers = b /\ n.wCounter = d
    BY ONLY <2>2, p \in IntPipes, a \in Int, b \in Int, c \in Nat, d \in Nat DEF IntPipes, SameRing
  <2> QED
    BY <2>1, <2>3
<1> QED
  BY ONLY <1>1, <1>3 DEF MoreUsers

LEMMA ClosedFields ==
    ASSUME NEW p \in IntPipes, NEW m, NEW n, n = P!Closed(p, m)
    PROVE  /\ n \in IntPipes /\ SameRing(p, n) /\ n.wait = p.wait
           /\ n.waitingReaders = p.waitingReaders /\ n.waitingWriters = p.waitingWriters
           /\ n.readers = p.readers - In("r", m) /\ n.rCounter = p.rCounter
           /\ n.writers = p.writers - In("w", m) /\ n.wCounter = p.wCounter
<1>1. PICK i, j \in Nat : i = In("r", m) /\ j = In("w", m)
  BY DEF In
<1>2. n = [p EXCEPT !.readers = @ - i, !.writers = @ - j]
  BY <1>1 DEF P!Closed, In
<1>3. /\ n \in IntPipes /\ SameRing(p, n) /\ n.wait = p.wait
      /\ n.waitingReaders = p.waitingReaders /\ n.waitingWriters = p.waitingWriters
      /\ n.readers = p.readers - i /\ n.rCounter = p.rCounter
      /\ n.writers = p.writers - j /\ n.wCounter = p.wCounter
  <2>1. PICK a, b \in Int : a = p.readers - i /\ b = p.writers - j
    <3>1. p.readers \in Int /\ p.writers \in Int
      BY DEF IntPipes
    <3> QED
      BY <3>1
  <2>2. n = [p EXCEPT !.readers = a, !.writers = b]
    BY <1>2, <2>1
  <2>3. /\ n \in IntPipes /\ SameRing(p, n) /\ n.wait = p.wait
        /\ n.waitingReaders = p.waitingReaders /\ n.waitingWriters = p.waitingWriters
        /\ n.readers = a /\ n.rCounter = p.rCounter /\ n.writers = b /\ n.wCounter = p.wCounter
    BY ONLY <2>2, p \in IntPipes, a \in Int, b \in Int DEF IntPipes, SameRing
  <2> QED
    BY <2>1, <2>3
<1> QED
  BY <1>1, <1>3

LEMMA UsesMode ==
    ASSUME PipeGiven, NEW g \in P!OpenFiles, NEW m
    PROVE  g # None /\ UseNum(g, m) = In(m, g.mode) /\ UseNum(None, m) = 0
BY DEF PipeGiven, P!PipeAssumption, UseNum, Uses, In

\* The open wakes those whom it gives a partner; the others sleep on.
LEMMA OpenedSleep ==
    ASSUME NEW p \in IntPipes, PipeNats(p), NEW o, ~P!OpenWakes(p, o), NEW n, n = P!Opened(p, o),
           NEW w, NEW k, NEW g, NEW c, SleepIn(p, w, k, g, c)
    PROVE  SleepIn(n, w, k, g, c)
<1>1. PICK i, j \in Nat : i = In("r", o.mode) /\ j = In("w", o.mode)
  BY DEF In
<1>2. /\ n.len = p.len /\ n.readers = p.readers + i /\ n.rCounter = p.rCounter + i
      /\ n.writers = p.writers + j /\ n.wCounter = p.wCounter + j
  <2>1. /\ SameRing(p, n)
        /\ n.readers = p.readers + In("r", o.mode) /\ n.rCounter = p.rCounter + In("r", o.mode)
        /\ n.writers = p.writers + In("w", o.mode) /\ n.wCounter = p.wCounter + In("w", o.mode)
    BY ONLY p \in IntPipes, n = P!Opened(p, o), OpenedFields DEF MoreUsers
  <2> QED
    BY ONLY <1>1, <2>1 DEF SameRing
<1>3. p.readers \in Nat /\ p.writers \in Nat /\ p.rCounter \in Nat /\ p.wCounter \in Nat
  BY DEF IntPipes, PipeNats
<1>4. (p.readers = 0 => i = 0) /\ (p.writers = 0 => j = 0)
  BY <1>1 DEF P!OpenWakes, In
<1>5. P!Free(n) = P!Free(p)
  BY <1>2 DEF P!Free
<1>6. CASE w = "open_wait"
  <2>1. P!Partner(p, g.mode) = c /\ P!Alone(p, g.mode)
    BY <1>6 DEF SleepIn
  <2>2. CASE g.mode = {"r"} /\ p.writers = 0
    BY <1>2, <1>3, <1>4, <1>6, <2>1, <2>2 DEF SleepIn, P!Partner, P!Alone
  <2>3. CASE g.mode = {"w"} /\ p.readers = 0
    <3>1. g.mode # {"r"}
      BY <2>3
    <3> QED
      BY <1>2, <1>3, <1>4, <1>6, <2>1, <2>3, <3>1 DEF SleepIn, P!Partner, P!Alone
  <2> QED
    BY <2>1, <2>2, <2>3 DEF P!Alone
<1>7. CASE w # "open_wait"
  BY <1>2, <1>3, <1>4, <1>5, <1>7 DEF SleepIn
<1> QED
  BY <1>6, <1>7

\* So does a reader or writer that gives up, as long as it is not the last.
LEMMA ClosedSleep ==
    ASSUME NEW p, NEW n, PipeNats(p), PipeNats(n), n.len = p.len, n.rCounter = p.rCounter, n.wCounter = p.wCounter,
           NEW m \in {{"r"}, {"w"}}, n.readers = p.readers - In("r", m), n.writers = p.writers - In("w", m),
           m = {"r"} => n.readers # 0, m = {"w"} => n.writers # 0,
           NEW w, NEW k, NEW g, NEW c, SleepIn(p, w, k, g, c)
    PROVE  SleepIn(n, w, k, g, c)
<1>1. /\ p.readers \in Nat /\ p.writers \in Nat /\ n.readers \in Nat /\ n.writers \in Nat
  BY DEF PipeNats
<1>2. \/ n.writers = p.writers /\ n.readers = p.readers - 1 /\ n.readers # 0
      \/ n.readers = p.readers /\ n.writers = p.writers - 1 /\ n.writers # 0
  <2>1. CASE m = {"r"}
    BY <1>1, <2>1 DEF In
  <2>2. CASE m = {"w"}
    BY <1>1, <2>2 DEF In
  <2> QED
    BY <2>1, <2>2
<1>3. /\ p.readers > 0 => n.readers > 0
      /\ p.writers > 0 => n.writers > 0
      /\ p.readers = 0 => n.readers = 0
      /\ p.writers = 0 => n.writers = 0
      /\ n.writers = 0 => p.writers = 0
  BY <1>1, <1>2
<1>4. P!Free(n) = P!Free(p) /\ P!Partner(n, g.mode) = P!Partner(p, g.mode)
  BY DEF P!Free, P!Partner
<1> QED
  BY <1>3, <1>4 DEF SleepIn, P!Alone

\* Whoever has the pipe open closes it.
LEMMA CloseMoved ==
    ASSUME PipeGiven, NEW p \in IntPipes, NEW t, NEW g \in P!OpenFiles, NEW a \in {"idle", "open_wait"}, NEW n \in IntPipes,
           n.waitingReaders = p.waitingReaders, n.waitingWriters = p.waitingWriters, n.wait = p.wait \ {t},
           n.readers = p.readers - In("r", g.mode), n.writers = p.writers - In("w", g.mode)
    PROVE  Moved(p, n, t, g, None, a, "idle")
<1>1. UseNum(g, "r") = In("r", g.mode) /\ UseNum(g, "w") = In("w", g.mode) /\ UseNum(None, "r") = 0 /\ UseNum(None, "w") = 0
  BY UsesMode
<1>2. /\ p.readers \in Int /\ p.writers \in Int /\ p.waitingReaders \in Int /\ p.waitingWriters \in Int
      /\ n.wait \subseteq Tasks /\ In("r", g.mode) \in Int /\ In("w", g.mode) \in Int
  BY DEF IntPipes, In
<1>3. /\ In(a, {"read_wait"}) = 0 /\ In(a, {"room_wait", "full_wait"}) = 0
      /\ In("idle", {"read_wait"}) = 0 /\ In("idle", {"room_wait", "full_wait"}) = 0
  BY DEF In
<1> QED
  BY <1>1, <1>2, <1>3 DEF Moved

\* Whoever waits for a partner goes on doing so, or has one.
LEMMA OpenedOpen ==
    ASSUME NEW p \in IntPipes, NEW o, NEW n, n = P!Opened(p, o),
           NEW w, NEW g, NEW c \in Nat, OpenIn(p, w, g, c)
    PROVE  OpenIn(n, w, g, c)
<1>1. PICK i, j \in Nat : i = In("r", o.mode) /\ j = In("w", o.mode)
  BY DEF In
<1>2. /\ n.readers = p.readers + i /\ n.rCounter = p.rCounter + i
      /\ n.writers = p.writers + j /\ n.wCounter = p.wCounter + j
  BY <1>1, OpenedFields DEF MoreUsers
<1>3. p.readers \in Int /\ p.writers \in Int /\ p.rCounter \in Nat /\ p.wCounter \in Nat
  BY DEF IntPipes
<1>4. SUFFICES ASSUME w = "open_wait" PROVE OpenIn(n, w, g, c)
  BY DEF OpenIn
<1>5. c <= P!Partner(p, g.mode) /\ (c = P!Partner(p, g.mode) => P!Alone(p, g.mode))
  BY <1>4 DEF OpenIn
<1>6. CASE g.mode = {"r"}
  <2>1. c <= n.wCounter /\ (c = n.wCounter => n.writers = 0)
    <3>1. c <= p.wCounter /\ (c = p.wCounter => p.writers = 0)
      <4>1. g.mode # {"w"}
        BY <1>6
      <4> QED
        BY <1>5, <1>6, <4>1 DEF P!Partner, P!Alone
    <3> QED
      BY <1>2, <1>3, <3>1
  <2> QED
    BY <1>6, <2>1 DEF OpenIn, P!Partner, P!Alone
<1>7. CASE g.mode # {"r"}
  <2>1. c <= n.rCounter /\ (c = n.rCounter => g.mode = {"w"} /\ n.readers = 0)
    <3>1. c <= p.rCounter /\ (c = p.rCounter => g.mode = {"w"} /\ p.readers = 0)
      BY <1>5, <1>7 DEF P!Partner, P!Alone
    <3> QED
      BY <1>2, <1>3, <3>1
  <2> QED
    BY <1>7, <2>1 DEF OpenIn, P!Partner, P!Alone
<1> QED
  BY <1>6, <1>7

LEMMA ClosedOpen ==
    ASSUME NEW p, NEW n, PipeNats(p), PipeNats(n), n.rCounter = p.rCounter, n.wCounter = p.wCounter,
           NEW m, n.readers = p.readers - In("r", m), n.writers = p.writers - In("w", m),
           NEW w, NEW g, NEW c, OpenIn(p, w, g, c)
    PROVE  OpenIn(n, w, g, c)
<1>1. In("r", m) \in Nat /\ In("w", m) \in Nat
  BY DEF In
<1>2. (p.readers = 0 => n.readers = 0) /\ (p.writers = 0 => n.writers = 0)
  BY <1>1 DEF PipeNats
<1>3. P!Partner(n, g.mode) = P!Partner(p, g.mode)
  BY DEF P!Partner
<1> QED
  BY <1>2, <1>3 DEF OpenIn, P!Alone

\* An open by somebody who had nothing open.
LEMMA OpenMoved ==
    ASSUME PipeGiven, NEW p \in IntPipes, NEW t, NEW g \in P!OpenFiles, NEW w \in {"idle", "open_wait"}, NEW n \in IntPipes,
           n.waitingReaders = p.waitingReaders, n.waitingWriters = p.waitingWriters, n.wait \ {t} = p.wait \ {t},
           n.readers = p.readers + In("r", g.mode), n.writers = p.writers + In("w", g.mode)
    PROVE  Moved(p, n, t, None, g, "idle", w)
<1>1. UseNum(g, "r") = In("r", g.mode) /\ UseNum(g, "w") = In("w", g.mode) /\ UseNum(None, "r") = 0 /\ UseNum(None, "w") = 0
  BY UsesMode
<1>2. /\ p.readers \in Int /\ p.writers \in Int /\ p.waitingReaders \in Int /\ p.waitingWriters \in Int
      /\ n.wait \subseteq Tasks /\ In("r", g.mode) \in Int /\ In("w", g.mode) \in Int
  BY DEF IntPipes, In
<1>3. /\ In(w, {"read_wait"}) = 0 /\ In(w, {"room_wait", "full_wait"}) = 0
      /\ In("idle", {"read_wait"}) = 0 /\ In("idle", {"room_wait", "full_wait"}) = 0
  BY DEF In
<1> QED
  BY <1>1, <1>2, <1>3 DEF Moved

LEMMA ReturnRest ==
    ASSUME PipeInv, NEW t \in Tasks, NEW n, NEW y, P!Return(t, n, y), opens' \in Nat, stream' \in Seq(P!Bytes)
    PROVE  /\ RestTypes(left', done', cnt', p_sig', opens', stream')
           /\ \A u \in Tasks : u # t => left'[u] = left[u] /\ done'[u] = done[u] /\ cnt'[u] = cnt[u]
           /\ done'[t] = 0
BY RestKept DEF PipeInv, RestTypes, P!Return

LEMMA StreamTypes ==
    ASSUME PipeInv, NEW n
    PROVE  P!StreamIn(n) \in Seq(P!Bytes) /\ stream \in Seq(P!Bytes) /\ opens \in Nat
BY RestKept DEF PipeInv, RestTypes, P!StreamIn

LEMMA WokenStates ==
    ASSUME PipeInv, NEW n
    PROVE  /\ P!Woken(n) \in StateTypes /\ p_st \in StateTypes
           /\ \A u \in Tasks : P!Woken(n)[u] \in {p_st[u], "running"}
           /\ \A u \in Tasks : u \in n.wait => P!Woken(n)[u] = "running"
BY DEF PipeInv, P!UseInv, P!TypeOK, P!Woken, StateTypes

\* The others wait on for a partner when somebody closes.
LEMMA OpenKept ==
    ASSUME PipeInv, ~Faults, NEW t \in Tasks, file[t] # None, NEW n, PipeNats(n), NEW m,
           n.rCounter = pipe.rCounter, n.wCounter = pipe.wCounter,
           n.readers = pipe.readers - In("r", m), n.writers = pipe.writers - In("w", m), NEW u \in Tasks
    PROVE  OpenIn(n, p_pc[u], file[u], cnt[u])
<1>1. PICK p, w, g, c : p = pipe /\ w = p_pc[u] /\ g = file[u] /\ c = cnt[u]
  OBVIOUS
<1>2. OpenIn(p, w, g, c)
  BY <1>1, PartnerParts DEF PipeInv, SafeInv
<1>3. PipeNats(p)
  BY <1>1, UseFacts DEF PipeInv
<1>4. OpenIn(n, w, g, c)
  BY <1>1, <1>2, <1>3, ClosedOpen
<1> QED
  BY <1>1, <1>4

LEMMA PipeReleaseUse ==
    ASSUME PipeGiven, PipeInv, NEW t \in Tasks, P!PipeRelease(t)
    PROVE  PipeInv'
<1>1. PICK p, g, m, n, y : /\ p = pipe /\ g = file[t] /\ m = g.mode /\ n = P!Closed(p, m)
                           /\ y = IF P!Unused(n) THEN p_st ELSE P!Woken(n)
  OBVIOUS
<1>2. /\ p_pc[t] = "idle" /\ g # None /\ sem = None /\ P!Return(t, P!Released(n), y)
      /\ file' = [file EXCEPT ![t] = None] /\ stream' = P!StreamIn(n) /\ opens' = opens
  BY <1>1 DEF P!PipeRelease
<1>3. /\ p \in IntPipes /\ UseIn(p, None, file, p_pc, p_st) /\ g \in P!OpenFiles
      /\ CallIn(t, p, None, g, "idle", p_st[t]) /\ p # None
  BY <1>1, <1>2, UseFacts DEF PipeInv
<1>4. /\ n \in IntPipes /\ SameRing(p, n) /\ n.wait = p.wait
      /\ n.waitingReaders = p.waitingReaders /\ n.waitingWriters = p.waitingWriters
      /\ n.readers = p.readers - In("r", m) /\ n.writers = p.writers - In("w", m)
      /\ n.rCounter = p.rCounter /\ n.wCounter = p.wCounter
  BY <1>1, <1>3, ClosedFields
<1>5. t \notin p.wait /\ p_st[t] # "interruptible"
  BY <1>3 DEF CallIn, P!Waits, P!Polls
<1>6. Moved(p, n, t, file[t], None, p_pc[t], "idle")
  <2>1. n.wait = p.wait \ {t}
    BY <1>4, <1>5
  <2>2. PICK a \in {"idle", "open_wait"} : a = "idle"
    OBVIOUS
  <2>3. Moved(p, n, t, g, None, a, "idle")
    BY <1>1, <1>3, <1>4, <2>1, CloseMoved
  <2> QED
    BY <1>1, <1>2, <2>2, <2>3
<1>7. y \in StateTypes /\ \A u \in Tasks : y[u] \in {p_st[u], "running"}
  BY <1>1, WokenStates
<1>8. y[t] # "interruptible"
  BY <1>5, <1>7
<1>9. CallIn(t, n, None, None, "idle", y[t])
  BY <1>4, <1>5, <1>8, MsgQueueAssumption DEF CallIn, P!Copies, P!Waits, P!Polls
<1>10. /\ RestTypes(left', done', cnt', p_sig', opens', stream')
       /\ \A u \in Tasks : u # t => left'[u] = left[u] /\ done'[u] = done[u] /\ cnt'[u] = cnt[u]
       /\ done'[t] = 0
  <2>1. opens' \in Nat /\ stream' \in Seq(P!Bytes)
    BY <1>2, StreamTypes
  <2>2. PICK z : z = P!Released(n)
    OBVIOUS
  <2> QED
    BY <1>2, <2>1, <2>2, ReturnRest
<1>11. ASSUME NEW u \in Tasks, y[u] = "interruptible", ~P!Unused(n) PROVE FALSE
  <2>1. y = P!Woken(n) /\ p_st[u] = "interruptible"
    BY <1>1, <1>7, <1>11
  <2>2. u \in n.wait
    BY <1>3, <1>4, <2>1 DEF UseIn, CallIn
  <2> QED
    BY <1>11, <2>1, <2>2, WokenStates
<1>12. RoomIn("idle", left'[t], done'[t], n)
  BY <1>10 DEF RoomIn
<1>13. RingOf(p, stream)
  BY <1>1, <1>3, RingNow
<1>14. pipe' = P!Released(n) /\ p_st' = y /\ sem' = None /\ p_pc' = [p_pc EXCEPT ![t] = "idle"]
  BY <1>2 DEF P!Return
<1>15. "idle" \in PipePCs /\ OpenIn(n, "idle", None, cnt'[t])
  BY DEF PipePCs, OpenIn
<1>16. ASSUME ~Faults, PipeNats(n), NEW u \in Tasks PROVE OpenIn(n, p_pc[u], file[u], cnt[u])
  BY <1>1, <1>2, <1>4, <1>16, OpenKept
<1>17. FileSafe(t, n, "idle", None)
  BY <1>8, <1>11, <1>12, <1>14, <1>15, <1>16 DEF FileSafe
<1> QED
  BY <1>2, <1>3, <1>4, <1>6, <1>7, <1>9, <1>10, <1>13, <1>14, <1>15, <1>17, FileStep

LEMMA FifoPartnerUse ==
    ASSUME PipeGiven, PipeInv, NEW t \in Tasks, P!FifoPartner(t)
    PROVE  PipeInv'
<1>1. PICK p, g, m, o, n : p = pipe /\ g = file[t] /\ m = g.mode /\ o = P!OffQueue(t) /\ n = P!Closed(o, m)
  OBVIOUS
<1>2. P!Waited(t, "open_wait") /\ p_pc[t] = "open_wait" /\ sem = None /\ p_st[t] = "running" /\ opens' = opens
  BY DEF P!FifoPartner, P!Waited
<1>3. g # None /\ m # {"r", "w"}
  BY <1>1, <1>2 DEF PipeInv, P!UseInv, P!CallInv, P!CallOf
<1>4. Begun(t, o, p_st)
  BY <1>1, <1>2, BegunWaited
<1>5. PICK y, k : y = p_st /\ k = left[t]
  OBVIOUS
<1>6. MayLeave(t, y) /\ k \in Nat /\ left = [left EXCEPT ![t] = k]
  BY <1>2, <1>5, CallFacts DEF MayLeave
<1>7. CASE P!Return(t, o, y) /\ file' = file /\ stream' = stream
  BY <1>2, <1>4, <1>5, <1>6, <1>7, BegunReturn
<1>8. CASE /\ P!Partner(o, m) = cnt[t] /\ ~p_sig[t] /\ P!PipeWait(t, o, y, "open_wait")
           /\ file' = file /\ left' = left /\ done' = done /\ cnt' = cnt /\ p_sig' = p_sig /\ stream' = stream
  <2>1. left' = [left EXCEPT ![t] = k] /\ RestTypes(left', done', cnt', p_sig', opens', stream')
    BY <1>2, <1>6, <1>8, RestLeft
  <2>2. ASSUME ~Faults PROVE RoomIn("open_wait", k, done[t], pipe)
    BY <1>2, <1>5, <2>2, CallFacts
  <2>3. ASSUME ~Faults PROVE SleepIn(o, "open_wait", k, file[t], cnt[t])
    <3>1. PICK c : c = cnt[t]
      OBVIOUS
    <3>2. OpenIn(p, "open_wait", g, c) /\ SameUsers(p, o)
      BY <1>1, <1>2, <1>4, <2>3, <3>1, PartnerParts DEF PipeInv, SafeInv, Begun
    <3>3. OpenIn(o, "open_wait", g, c)
      BY <3>2, OpenSame
    <3>4. P!Partner(o, g.mode) = c /\ P!Alone(o, g.mode)
      BY <1>1, <1>8, <3>1, <3>3 DEF OpenIn
    <3> QED
      BY <1>1, <3>1, <3>4 DEF SleepIn
  <2> QED
    BY <1>1, <1>2, <1>3, <1>4, <1>5, <1>6, <1>8, <2>1, <2>2, <2>3, BegunWait
<1>9. CASE /\ P!Return(t, P!Released(n), IF (m = {"r"} /\ n.readers = 0) \/ (m = {"w"} /\ n.writers = 0)
                                           THEN P!Woken(n) ELSE p_st)
           /\ file' = [file EXCEPT ![t] = None] /\ stream' = P!StreamIn(n)
  <2>1. PICK z, q2 : /\ z = IF (m = {"r"} /\ n.readers = 0) \/ (m = {"w"} /\ n.writers = 0) THEN P!Woken(n) ELSE p_st
                     /\ q2 = P!Released(n) /\ P!Return(t, q2, z)
    BY <1>9
  <2>2. /\ p \in IntPipes /\ UseIn(p, None, file, p_pc, p_st) /\ g \in P!OpenFiles /\ p # None /\ PipeNats(p)
        /\ p_st \in StateTypes
    BY <1>1, <1>2, <1>3, UseFacts DEF PipeInv
  <2>3. /\ o \in IntPipes /\ SameUsers(p, o) /\ SameRing(p, o) /\ o.wait = p.wait \ {t}
        /\ o.waitingReaders = p.waitingReaders /\ o.waitingWriters = p.waitingWriters
    <3>1. o = WaitedFor(p, p.wait \ {t}, p.waitingReaders, p.waitingWriters)
      BY <1>1, <2>2, WaitForms DEF P!OffQueue
    <3>2. p.wait \ {t} \in SUBSET Tasks /\ p.waitingReaders \in Int /\ p.waitingWriters \in Int
      BY <2>2 DEF IntPipes
    <3> QED
      BY <2>2, <3>1, <3>2, WaitedFields
  <2>4. /\ n \in IntPipes /\ SameRing(p, n) /\ n.wait = p.wait \ {t}
        /\ n.waitingReaders = p.waitingReaders /\ n.waitingWriters = p.waitingWriters
        /\ n.readers = p.readers - In("r", m) /\ n.writers = p.writers - In("w", m)
        /\ n.rCounter = p.rCounter /\ n.wCounter = p.wCounter
    <3>1. /\ n \in IntPipes /\ SameRing(o, n) /\ n.wait = o.wait
          /\ n.waitingReaders = o.waitingReaders /\ n.waitingWriters = o.waitingWriters
          /\ n.readers = o.readers - In("r", m) /\ n.writers = o.writers - In("w", m)
          /\ n.rCounter = o.rCounter /\ n.wCounter = o.wCounter
      BY <1>1, <2>3, ClosedFields
    <3> QED
      BY <2>3, <3>1 DEF SameRing, SameUsers
  <2>5. Moved(p, n, t, file[t], None, p_pc[t], "idle")
    <3>1. PICK a \in {"idle", "open_wait"} : a = "open_wait"
      OBVIOUS
    <3>2. Moved(p, n, t, g, None, a, "idle")
      BY <1>1, <2>2, <2>4, CloseMoved
    <3> QED
      BY <1>1, <1>2, <3>1, <3>2
  <2>6. z \in StateTypes /\ \A u \in Tasks : z[u] \in {p_st[u], "running"}
    BY <2>1, WokenStates
  <2>7. z[t] = "running"
    BY <1>2, <2>6
  <2>8. CallIn(t, n, None, None, "idle", z[t])
    BY <2>4, <2>7, MsgQueueAssumption DEF CallIn, P!Copies, P!Waits, P!Polls
  <2>9. /\ RestTypes(left', done', cnt', p_sig', opens', stream')
        /\ \A u \in Tasks : u # t => left'[u] = left[u] /\ done'[u] = done[u] /\ cnt'[u] = cnt[u]
        /\ done'[t] = 0
    <3>1. opens' \in Nat /\ stream' \in Seq(P!Bytes)
      BY <1>2, <1>9, StreamTypes
    <3> QED
      BY <2>1, <3>1, ReturnRest
  <2>10. ASSUME ~Faults, PipeNats(n), NEW u \in Tasks, u # t, z[u] = "interruptible"
         PROVE  SleepIn(n, p_pc[u], left[u], file[u], cnt[u])
    <3>1. p_st[u] = "interruptible"
      BY <2>6, <2>10
    <3>2. u \in n.wait
      BY <2>2, <2>4, <2>10, <3>1 DEF UseIn, CallIn
    <3>3. m \in {{"r"}, {"w"}} /\ (m = {"r"} => n.readers # 0) /\ (m = {"w"} => n.writers # 0)
      <4>1. m \in P!FileModes
        BY <1>1, <2>2 DEF P!OpenFiles
      <4>2. z # P!Woken(n)
        BY <2>10, <3>2, WokenStates
      <4> QED
        BY <1>3, <2>1, <4>1, <4>2 DEF P!FileModes
    <3>4. PICK w, l, h, c : w = p_pc[u] /\ l = left[u] /\ h = file[u] /\ c = cnt[u]
      OBVIOUS
    <3>5. SleepIn(p, w, l, h, c)
      BY <1>1, <1>2, <2>10, <3>1, <3>4 DEF PipeInv, SafeInv, PipeSleepInv
    <3>6. n.len = p.len
      BY <2>4 DEF SameRing
    <3>7. SleepIn(n, w, l, h, c)
      BY <2>2, <2>4, <2>10, <3>3, <3>5, <3>6, ClosedSleep
    <3> QED
      BY <3>4, <3>7
  <2>11. RoomIn("idle", left'[t], done'[t], n) /\ OpenIn(n, "idle", None, cnt'[t]) /\ "idle" \in PipePCs
    BY <2>9 DEF RoomIn, OpenIn, PipePCs
  <2>12. RingOf(p, stream)
    BY <1>1, <2>2, RingNow
  <2>13. pipe' = P!Released(n) /\ p_st' = z /\ sem' = None /\ p_pc' = [p_pc EXCEPT ![t] = "idle"]
    BY <2>1 DEF P!Return
  <2>14. ASSUME ~Faults, PipeNats(n), NEW u \in Tasks PROVE OpenIn(n, p_pc[u], file[u], cnt[u])
    BY <1>1, <1>3, <2>4, <2>14, OpenKept
  <2>15. FileSafe(t, n, "idle", None)
    BY <2>7, <2>10, <2>11, <2>13, <2>14 DEF FileSafe
  <2> QED
    BY <1>2, <1>9, <2>2, <2>4, <2>5, <2>6, <2>8, <2>9, <2>11, <2>12, <2>13, <2>15, FileStep
<1> QED
  BY <1>1, <1>5, <1>7, <1>8, <1>9 DEF P!FifoPartner

\* The pipe that fifo_open finds or makes.
Base == IF pipe = None THEN P!NewPipe ELSE pipe

LEMMA NewPipeType ==
    ASSUME PipeGiven
    PROVE  P!NewPipe \in IntPipes /\ PipeNats(P!NewPipe) /\ P!NewPipe.len = 0
<1>1. PICK b : b = [i \in 0 .. PIPE_SIZE - 1 |-> None]
  OBVIOUS
<1>2. b \in [0 .. PIPE_SIZE - 1 -> P!Bytes \cup {None}]
  BY <1>1
<1>3. 0 \in 0 .. PIPE_SIZE - 1 /\ 0 \in 0 .. PIPE_SIZE
  BY DEF PipeGiven, P!PipeAssumption
<1> QED
  BY <1>1, <1>2, <1>3 DEF P!NewPipe, IntPipes, PipeNats

LEMMA BaseFacts ==
    ASSUME PipeGiven, PipeInv, sem = None, NEW p, p = Base
    PROVE  /\ p \in IntPipes /\ PipeNats(p) /\ UseIn(p, None, file, p_pc, p_st) /\ RingOf(p, stream)
           /\ p_st \in StateTypes /\ file \in OpenTypes
<1>0. UseForm /\ P!TypeOK
  BY UseParts DEF PipeInv, P!UseInv
<1>1. /\ file \in OpenTypes /\ p_pc \in PlaceTypes /\ p_st \in StateTypes
  BY <1>0 DEF P!TypeOK, OpenTypes, PlaceTypes, StateTypes, PipePCs
<1>2. CASE pipe = None
  <2>1. \A u \in Tasks : file[u] = None /\ p_pc[u] = "idle" /\ p_st[u] # "interruptible"
    BY <1>0, <1>2 DEF UseForm
  <2>2. p = P!NewPipe /\ stream = <<>>
    BY <1>2 DEF Base, PipeInv, P!RingIsStream
  <2>3. UseIn(p, None, file, p_pc, p_st)
    BY <1>1, <2>1, <2>2, UseNew
  <2>4. p \in IntPipes /\ PipeNats(p) /\ p.len = 0
    BY <2>2, NewPipeType
  <2>5. RingOf(p, stream)
    BY <2>2, <2>4 DEF RingOf
  <2> QED
    BY <1>1, <2>3, <2>4, <2>5
<1>3. CASE pipe # None
  <2>1. p = pipe /\ RingOf(p, stream)
    BY <1>3, RingNow DEF Base
  <2>2. UseIn(p, None, file, p_pc, p_st)
    BY <1>0, <1>3, <2>1 DEF UseForm
  <2>3. p \in P!Pipes
    BY <1>0, <1>3, <2>1 DEF P!TypeOK
  <2> QED
    BY <1>1, <2>1, <2>2, <2>3, IntPipe
<1> QED
  BY <1>2, <1>3

\* Who sleeps or waits for a partner does so on that pipe.
LEMMA BaseSleep ==
    ASSUME PipeInv, ~Faults, sem = None, NEW p, p = Base, NEW u \in Tasks
    PROVE  /\ p_st[u] = "interruptible" => SleepIn(p, p_pc[u], left[u], file[u], cnt[u])
           /\ OpenIn(p, p_pc[u], file[u], cnt[u])
<1>1. CASE pipe = None
  <2>1. p_pc[u] = "idle" /\ p_st[u] # "interruptible"
    BY <1>1, UseParts DEF PipeInv, UseForm
  <2> QED
    BY <2>1 DEF OpenIn
<1>2. CASE pipe # None
  <2>1. p = pipe
    BY <1>2 DEF Base
  <2> QED
    BY <2>1, PartnerParts DEF PipeInv, SafeInv, PipeSleepInv
<1> QED
  BY <1>1, <1>2

\* And with the new user too.
LEMMA OpenedOthers ==
    ASSUME PipeGiven, PipeInv, ~Faults, sem = None, NEW p, p = Base, NEW o, NEW n, n = P!Opened(p, o),
           NEW y, y = (IF P!OpenWakes(p, o) THEN P!Woken(p) ELSE p_st), NEW u \in Tasks
    PROVE  /\ y[u] = "interruptible" => SleepIn(n, p_pc[u], left[u], file[u], cnt[u])
           /\ OpenIn(n, p_pc[u], file[u], cnt[u])
<1>1. p \in IntPipes /\ PipeNats(p) /\ UseIn(p, None, file, p_pc, p_st)
  BY BaseFacts
<1>2. PICK w, k, g, c : w = p_pc[u] /\ k = left[u] /\ g = file[u] /\ c = cnt[u]
  OBVIOUS
<1>3. c \in Nat
  BY <1>2 DEF PipeInv, P!UseInv, P!TypeOK
<1>4. (p_st[u] = "interruptible" => SleepIn(p, w, k, g, c)) /\ OpenIn(p, w, g, c)
  BY <1>2, BaseSleep
<1>5. OpenIn(n, w, g, c)
  BY <1>1, <1>3, <1>4, OpenedOpen
<1>6. ASSUME y[u] = "interruptible" PROVE SleepIn(n, w, k, g, c)
  <2>1. p_st[u] = "interruptible"
    BY <1>6, WokenStates
  <2>2. u \in p.wait
    BY <1>1, <2>1 DEF UseIn, CallIn
  <2>3. ~P!OpenWakes(p, o)
    BY <1>6, <2>2, WokenStates
  <2>4. SleepIn(p, w, k, g, c)
    BY <1>4, <2>1
  <2> QED
    BY <1>1, <2>3, <2>4, OpenedSleep
<1> QED
  BY <1>2, <1>5, <1>6

\* The open is refused: nothing has happened.
LEMMA RefusedUse ==
    ASSUME PipeGiven, PipeInv, NEW t \in Tasks, sem = None, p_pc[t] = "idle", file[t] = None, NEW p, p = Base,
           P!Return(t, P!Released(p), p_st), file' = file, stream' = stream, opens' \in Nat
    PROVE  PipeInv'
<1>1. /\ p \in IntPipes /\ PipeNats(p) /\ UseIn(p, None, file, p_pc, p_st) /\ RingOf(p, stream)
      /\ p_st \in StateTypes /\ file \in OpenTypes
  BY BaseFacts
<1>2. t \notin p.wait /\ p_st[t] # "interruptible"
  BY <1>1 DEF UseIn, CallIn, P!Waits, P!Polls
<1>3. stream' = P!StreamIn(p)
  <2>1. CASE P!Unused(p)
    <3>1. PICK s, f, c, x : s = None /\ f = file /\ c = p_pc /\ x = p_st
      OBVIOUS
    <3>2. UseIn(p, s, f, c, x) /\ f \in OpenTypes /\ IsFiniteSet(Tasks) /\ s \in Tasks \cup {None}
      BY <1>1, <3>1 DEF PipeGiven
    <3>3. \A u \in Tasks : f[u] = None
      BY ONLY <2>1, <3>2, UseNobody
    <3>4. pipe = None
      BY <3>1, <3>3 DEF PipeInv, P!UseInv, P!UsersCounted
    <3> QED
      BY <2>1, <3>4 DEF P!StreamIn, PipeInv, P!RingIsStream
  <2>2. CASE ~P!Unused(p)
    BY <2>2 DEF P!StreamIn
  <2> QED
    BY <2>1, <2>2
<1>4. Moved(p, p, t, file[t], None, p_pc[t], "idle")
  <2>1. PICK a, z, g : a = p_pc[t] /\ z = "idle" /\ g = None
    OBVIOUS
  <2>2. SameUsers(p, p) /\ SameWaits(p, p, t, a, z)
    BY <1>1, <2>1, WaitersNone
  <2>3. Moved(p, p, t, g, g, a, z)
    BY <1>1, <2>2, MovedSame
  <2> QED
    BY <2>1, <2>3
<1>5. CallIn(t, p, None, None, "idle", p_st[t])
  BY <1>2, MsgQueueAssumption DEF CallIn, P!Copies, P!Waits, P!Polls
<1>6. /\ RestTypes(left', done', cnt', p_sig', opens', stream')
      /\ \A u \in Tasks : u # t => left'[u] = left[u] /\ done'[u] = done[u] /\ cnt'[u] = cnt[u]
      /\ done'[t] = 0
  <2>1. stream' \in Seq(P!Bytes)
    BY StreamTypes
  <2>2. PICK z, y : z = P!Released(p) /\ y = p_st
    OBVIOUS
  <2> QED
    BY <2>1, <2>2, ReturnRest
<1>7. RoomIn("idle", left'[t], done'[t], p) /\ OpenIn(p, "idle", None, cnt'[t]) /\ "idle" \in PipePCs
  BY <1>6 DEF RoomIn, OpenIn, PipePCs
<1>8. /\ pipe' = P!Released(p) /\ p_st' = p_st /\ sem' = None /\ p_pc' = [p_pc EXCEPT ![t] = "idle"]
      /\ file' = [file EXCEPT ![t] = None] /\ SameRing(p, p)
  BY <1>1 DEF P!Return, OpenTypes, SameRing
<1>9. FileSafe(t, p, "idle", None)
  BY <1>1, <1>2, <1>7, <1>8, BaseSleep DEF FileSafe
<1> QED
  BY <1>1, <1>3, <1>4, <1>5, <1>6, <1>7, <1>8, <1>9, FileStep

\* The rest of what fifo_open does when it waits for a partner on n.
OpenWaits(t, n, y, m) ==
    /\ P!PipeWait(t, n, y, "open_wait") /\ cnt' = [cnt EXCEPT ![t] = P!Partner(n, m)]
    /\ P!Alone(n, m) /\ left' = left /\ done' = done /\ p_sig' = p_sig

\* The open is through, or waits for a partner.
LEMMA OpenedUse ==
    ASSUME PipeGiven, PipeInv, NEW t \in Tasks, sem = None, p_pc[t] = "idle", file[t] = None, NEW p, p = Base,
           NEW o \in [mode : P!FileModes, nonblock : BOOLEAN], NEW g \in P!OpenFiles, g.mode = o.mode,
           NEW n, n = P!Opened(p, o), NEW y, y = (IF P!OpenWakes(p, o) THEN P!Woken(p) ELSE p_st),
           file' = [file EXCEPT ![t] = g], stream' = stream, opens' \in Nat,
           P!Return(t, n, y) \/ OpenWaits(t, n, y, o.mode)
    PROVE  PipeInv'
<1>1. /\ p \in IntPipes /\ PipeNats(p) /\ UseIn(p, None, file, p_pc, p_st) /\ RingOf(p, stream)
      /\ p_st \in StateTypes
  BY BaseFacts
<1>2. t \notin p.wait /\ p_st[t] # "interruptible"
  BY <1>1 DEF UseIn, CallIn, P!Waits, P!Polls
<1>3. /\ n \in IntPipes /\ SameRing(p, n) /\ n.wait = p.wait
      /\ n.waitingReaders = p.waitingReaders /\ n.waitingWriters = p.waitingWriters
      /\ n.readers = p.readers + In("r", g.mode) /\ n.writers = p.writers + In("w", g.mode)
  <2>1. /\ n \in IntPipes /\ SameRing(p, n) /\ n.wait = p.wait
        /\ n.waitingReaders = p.waitingReaders /\ n.waitingWriters = p.waitingWriters
        /\ n.readers = p.readers + In("r", o.mode) /\ n.writers = p.writers + In("w", o.mode)
    <3>1. MoreUsers(p, n, o.mode)
      BY ONLY <1>1, n = P!Opened(p, o), OpenedFields
    <3> QED
      BY ONLY <3>1 DEF MoreUsers
  <2> QED
    BY <2>1
<1>4. ~P!Unused(n)
  <2>1. "r" \in g.mode \/ "w" \in g.mode
    <3>1. g.mode \in P!FileModes
      BY DEF P!OpenFiles
    <3> QED
      BY <3>1 DEF P!FileModes
  <2>2. n.readers = p.readers + 1 \/ n.writers = p.writers + 1
    BY <1>3, <2>1 DEF In
  <2> QED
    BY <1>1, <2>2 DEF PipeNats, P!Unused
<1>5. y \in StateTypes /\ \A u \in Tasks : y[u] \in {p_st[u], "running"}
  BY <1>1, WokenStates
<1>6. y[t] = "running"
  BY <1>1, <1>2, <1>5 DEF StateTypes
<1>7. CASE P!Return(t, n, y)
  <2>1. pipe' = P!Released(n) /\ stream' = P!StreamIn(n)
    BY <1>4, <1>7 DEF P!Return, P!Released, P!StreamIn
  <2>2. Moved(p, n, t, file[t], g, p_pc[t], "idle")
    <3>1. PICK w \in {"idle", "open_wait"} : w = "idle"
      OBVIOUS
    <3>2. Moved(p, n, t, None, g, "idle", w)
      BY <1>1, <1>3, OpenMoved
    <3> QED
      BY <3>1, <3>2
  <2>3. CallIn(t, n, None, g, "idle", y[t])
    BY <1>2, <1>3, <1>6, MsgQueueAssumption DEF CallIn, P!Copies, P!Waits, P!Polls
  <2>4. /\ RestTypes(left', done', cnt', p_sig', opens', stream')
        /\ \A u \in Tasks : u # t => left'[u] = left[u] /\ done'[u] = done[u] /\ cnt'[u] = cnt[u]
        /\ done'[t] = 0
    <3>1. stream' \in Seq(P!Bytes)
      BY StreamTypes
    <3> QED
      BY <1>7, <3>1, ReturnRest
  <2>5. RoomIn("idle", left'[t], done'[t], n) /\ OpenIn(n, "idle", g, cnt'[t]) /\ "idle" \in PipePCs
    BY <2>4 DEF RoomIn, OpenIn, PipePCs
  <2>6. p_st' = y /\ sem' = None /\ p_pc' = [p_pc EXCEPT ![t] = "idle"]
    BY <1>7 DEF P!Return
  <2>7. ASSUME ~Faults, NEW u \in Tasks
        PROVE  /\ y[u] = "interruptible" => SleepIn(n, p_pc[u], left[u], file[u], cnt[u])
               /\ OpenIn(n, p_pc[u], file[u], cnt[u])
    BY <2>7, OpenedOthers
  <2>8. PICK w \in PipePCs : w = "idle"
    BY <2>5
  <2>9. FileSafe(t, n, w, g)
    BY ONLY <1>6, <2>5, <2>6, <2>7, <2>8 DEF FileSafe
  <2>10. /\ Moved(p, n, t, file[t], g, p_pc[t], w) /\ CallIn(t, n, None, g, w, p_st'[t])
         /\ p_pc' = [p_pc EXCEPT ![t] = w] /\ p_st' \in StateTypes
         /\ \A u \in Tasks : u # t => p_st'[u] \in {p_st[u], "running"}
    BY ONLY <1>5, <2>2, <2>3, <2>6, <2>8
  <2> QED
    BY ONLY PipeGiven, PipeInv, sem = None, t \in Tasks, g \in P!OpenFiles, file' = [file EXCEPT ![t] = g],
            <1>1, <1>3, <2>1, <2>4, <2>6, <2>9, <2>10, w \in PipePCs, FileStep
<1>8. CASE /\ P!PipeWait(t, n, y, "open_wait") /\ cnt' = [cnt EXCEPT ![t] = P!Partner(n, o.mode)]
           /\ P!Alone(n, o.mode) /\ left' = left /\ done' = done /\ p_sig' = p_sig
  <2>1. PICK m : m = WaitedFor(n, n.wait \cup {t}, n.waitingReaders, n.waitingWriters)
    OBVIOUS
  <2>2. /\ pipe' = m /\ sem' = None /\ p_pc' = [p_pc EXCEPT ![t] = "open_wait"]
        /\ p_st' = [y EXCEPT ![t] = IF p_sig[t] THEN "running" ELSE "interruptible"]
    <3>1. [n EXCEPT !.wait = @ \cup {t}] = m
      BY ONLY <1>3, <2>1, WaitForms
    <3> QED
      BY <1>8, <3>1 DEF P!PipeWait
  <2>3. /\ m \in IntPipes /\ SameRing(n, m) /\ SameUsers(n, m) /\ m.wait = n.wait \cup {t}
        /\ m.waitingReaders = n.waitingReaders /\ m.waitingWriters = n.waitingWriters
    <3>1. n.wait \cup {t} \in SUBSET Tasks /\ n.waitingReaders \in Int /\ n.waitingWriters \in Int
      BY <1>3 DEF IntPipes
    <3> QED
      BY <1>3, <2>1, <3>1, WaitedFields
  <2>4. pipe' = P!Released(m) /\ stream' = P!StreamIn(m)
    BY <1>4, <2>2, <2>3 DEF P!Released, P!StreamIn, P!Unused, SameUsers
  <2>5. Moved(p, m, t, file[t], g, p_pc[t], "open_wait")
    <3>1. PICK w \in {"idle", "open_wait"} : w = "open_wait"
      OBVIOUS
    <3>2. /\ m.waitingReaders = p.waitingReaders /\ m.waitingWriters = p.waitingWriters /\ m.wait \ {t} = p.wait \ {t}
          /\ m.readers = p.readers + In("r", g.mode) /\ m.writers = p.writers + In("w", g.mode)
      BY <1>3, <2>3 DEF SameUsers
    <3>3. Moved(p, m, t, None, g, "idle", w)
      BY <1>1, <2>3, <3>2, OpenMoved
    <3> QED
      BY <3>1, <3>3
  <2>6. CallIn(t, m, None, g, "open_wait", p_st'[t])
    <3>1. g # None
      BY UsesMode
    <3>2. g.mode # {"r", "w"}
      BY <1>8 DEF P!Alone
    <3> QED
      BY <2>3, <3>1, <3>2, MsgQueueAssumption DEF CallIn, P!Copies, P!Waits, P!Polls
  <2>7. /\ RestTypes(left', done', cnt', p_sig', opens', stream')
        /\ \A u \in Tasks : u # t => left'[u] = left[u] /\ done'[u] = done[u] /\ cnt'[u] = cnt[u]
        /\ cnt'[t] = P!Partner(n, o.mode) /\ done'[t] = done[t]
    <3>1. P!Partner(n, o.mode) \in Nat
      BY <1>3 DEF IntPipes, P!Partner
    <3>2. RestTypes(left, done, cnt, p_sig, opens, stream)
      BY RestKept DEF PipeInv
    <3> QED
      BY <1>8, <3>1, <3>2 DEF RestTypes
  <2>8. ASSUME ~Faults PROVE RoomIn("open_wait", left'[t], done'[t], m)
    <3>1. done[t] = 0
      BY <2>8, RoomParts DEF PipeInv, SafeInv, RoomIn
    <3> QED
      BY <2>7, <3>1 DEF RoomIn
  <2>9. SleepIn(m, "open_wait", left'[t], g, cnt'[t]) /\ OpenIn(m, "open_wait", g, cnt'[t])
    <3>1. P!Partner(m, g.mode) = P!Partner(n, o.mode) /\ P!Alone(m, g.mode)
      BY <1>8, <2>3 DEF SameUsers, P!Partner, P!Alone
    <3>2. P!Partner(n, o.mode) \in Nat
      BY <1>3 DEF IntPipes, P!Partner
    <3> QED
      BY <2>7, <3>1, <3>2 DEF SleepIn, OpenIn
  <2>10. ASSUME ~Faults, NEW u \in Tasks
         PROVE  /\ y[u] = "interruptible" => SleepIn(m, p_pc[u], left[u], file[u], cnt[u])
                /\ OpenIn(m, p_pc[u], file[u], cnt[u])
    <3>1. /\ y[u] = "interruptible" => SleepIn(n, p_pc[u], left[u], file[u], cnt[u])
          /\ OpenIn(n, p_pc[u], file[u], cnt[u])
      BY <2>10, OpenedOthers
    <3>2. PICK w, k, f, c : w = p_pc[u] /\ k = left[u] /\ f = file[u] /\ c = cnt[u]
      OBVIOUS
    <3>3. SameNeeds(n, m)
      BY <2>3 DEF SameNeeds, SameRing
    <3>4. SleepIn(n, w, k, f, c) => SleepIn(m, w, k, f, c)
      BY <3>3, SleepSame
    <3>5. OpenIn(n, w, f, c) => OpenIn(m, w, f, c)
      BY <2>3, OpenSame
    <3> QED
      BY <3>1, <3>2, <3>4, <3>5
  <2>11. p_st' \in StateTypes /\ \A u \in Tasks : u # t => p_st'[u] = y[u]
    BY <1>5, <2>2 DEF StateTypes
  <2>12. "open_wait" \in PipePCs /\ SameRing(p, m)
    BY <1>3, <2>3 DEF PipePCs, P!Waits, SameRing
  <2>13. PICK w \in PipePCs : w = "open_wait"
    BY <2>12
  <2>14. \A u \in Tasks : u # t => p_st'[u] \in {p_st[u], "running"}
    BY <1>5, <2>11
  <2>15. FileSafe(t, m, w, g)
    BY ONLY <2>8, <2>9, <2>10, <2>11, <2>13 DEF FileSafe
  <2>16. /\ Moved(p, m, t, file[t], g, p_pc[t], w) /\ CallIn(t, m, None, g, w, p_st'[t])
         /\ p_pc' = [p_pc EXCEPT ![t] = w]
    BY <2>2, <2>5, <2>6, <2>13
  <2> QED
    BY ONLY PipeGiven, PipeInv, sem = None, t \in Tasks, g \in P!OpenFiles, file' = [file EXCEPT ![t] = g],
            <1>1, <2>2, <2>3, <2>4, <2>7, <2>11, <2>12, <2>14, <2>15, <2>16, FileStep
<1> QED
  BY <1>7, <1>8 DEF OpenWaits

LEMMA FifoOpenUse ==
    ASSUME PipeGiven, PipeInv, NEW t \in Tasks, NEW o \in Opens, P!FifoOpen(t, o)
    PROVE  PipeInv'
<1>1. PICK p, n, y : p = Base /\ n = P!Opened(p, o) /\ y = (IF P!OpenWakes(p, o) THEN P!Woken(p) ELSE p_st)
  OBVIOUS
<1>2. o \in [mode : P!FileModes, nonblock : BOOLEAN]
  BY DEF PipeGiven, P!PipeAssumption
<1>3. p_pc[t] = "idle" /\ file[t] = None /\ sem = None /\ opens' = opens + 1 /\ stream' = stream
  BY DEF P!FifoOpen
<1>4. opens' \in Nat
  BY <1>3, RestKept DEF PipeInv, RestTypes
<1>5. CASE P!Return(t, P!Released(p), p_st) /\ file' = file
  BY <1>1, <1>3, <1>4, <1>5, RefusedUse
<1>6. CASE /\ P!Return(t, n, y)
           /\ file' = [file EXCEPT ![t] = [mode |-> o.mode, nonblock |-> o.nonblock,
                                           version |-> IF o.mode = {"r"} /\ p.writers = 0 THEN p.wCounter ELSE 0]]
  <2>1. PICK v : v = IF o.mode = {"r"} /\ p.writers = 0 THEN p.wCounter ELSE 0
    OBVIOUS
  <2>2. v \in Nat
    <3>1. p \in IntPipes
      BY <1>1, <1>3, BaseFacts
    <3> QED
      BY <2>1, <3>1 DEF IntPipes
  <2>3. PICK g \in P!OpenFiles : g = [mode |-> o.mode, nonblock |-> o.nonblock, version |-> v]
    BY <1>2, <2>2 DEF P!OpenFiles
  <2>4. g.mode = o.mode /\ file' = [file EXCEPT ![t] = g]
    BY <1>6, <2>1, <2>3
  <2> QED
    BY <1>1, <1>2, <1>3, <1>4, <1>6, <2>4, OpenedUse
<1>7. CASE /\ file' = [file EXCEPT ![t] = [mode |-> o.mode, nonblock |-> FALSE, version |-> 0]]
           /\ P!PipeWait(t, n, y, "open_wait") /\ cnt' = [cnt EXCEPT ![t] = P!Partner(n, o.mode)]
           /\ P!Alone(n, o.mode) /\ left' = left /\ done' = done /\ p_sig' = p_sig
  <2>1. PICK g \in P!OpenFiles : g = [mode |-> o.mode, nonblock |-> FALSE, version |-> 0]
    BY <1>2 DEF P!OpenFiles
  <2>2. g.mode = o.mode /\ file' = [file EXCEPT ![t] = g]
    BY <1>7, <2>1
  <2> QED
    <3>1. OpenWaits(t, n, y, o.mode)
      BY <1>7 DEF OpenWaits
    <3> QED
      BY <1>1, <1>2, <1>3, <1>4, <2>2, <3>1, OpenedUse
<1> QED
  BY <1>1, <1>5, <1>6, <1>7 DEF P!FifoOpen, Base, P!Released

-----------------------------------------------------------------------------
(* The theorems about pipes.                                               *)

LEMMA PipeInit ==
    ASSUME PipeGiven, P!Init
    PROVE  PipeInv
<1>0. None \notin Tasks
  BY MsgQueueAssumption
<1>1. P!TypeOK
  BY DEF P!Init, P!TypeOK
<1>2. UseForm
  BY <1>1 DEF UseForm, P!Init
<1>3. P!UseInv
  BY <1>2, UseParts
<1>4. P!RingIsStream
  BY DEF P!Init, P!RingIsStream
<1>5. P!RoomInv /\ P!PartnerInv /\ P!PieceInv /\ PipeSleepInv
  BY DEF P!Init, P!RoomInv, P!PartnerInv, P!PieceInv, PipeSleepInv
<1> QED
  BY <1>3, <1>4, <1>5 DEF PipeInv, SafeInv

LEMMA PipeNext ==
    ASSUME PipeGiven, PipeInv, P!Next
    PROVE  PipeInv'
<1>1. PICK t \in Tasks : P!Step(t) \/ P!Signal(t)
  BY DEF P!Next
<1>2. CASE \E o \in Opens : P!FifoOpen(t, o)
  BY <1>2, FifoOpenUse
<1>3. CASE P!FifoPartner(t) \/ P!PipeRelease(t)
  BY <1>3, FifoPartnerUse, PipeReleaseUse
<1>4. CASE \E k \in Counts : P!PipeRead(t, k) \/ P!PipeWrite(t, k)
  BY <1>4, PipeReadUse, PipeWriteUse
<1>5. CASE P!ReadWaited(t) \/ P!ReadCopy(t) \/ P!ReadDone(t)
  BY <1>5, ReadWaitedUse, ReadCopyUse, ReadDoneUse
<1>6. CASE P!RoomWaited(t) \/ P!WriteCopy(t) \/ P!WriteFull(t) \/ P!FullWaited(t) \/ P!WriteDone(t)
  BY <1>6, RoomWaitedUse, WriteCopyUse, WriteFullUse, FullWaitedUse, WriteDoneUse
<1>7. CASE P!SelectStart(t) \/ P!PollLen(t) \/ P!PollWriters(t) \/ P!SelectAgain(t)
  BY <1>7, SelectStartUse, PollLenUse, PollWritersUse, SelectAgainUse
<1>8. CASE P!Signal(t)
  BY <1>8, SignalUse
<1> QED
  BY <1>1, <1>2, <1>3, <1>4, <1>5, <1>6, <1>7, <1>8 DEF P!Step

LEMMA PipeStutter ==
    ASSUME PipeInv, UNCHANGED P!vars
    PROVE  PipeInv'
<1> USE DEF P!vars
<1>1. P!UseInv'
  BY DEF PipeInv, P!UseInv, P!TypeOK, P!CallInv, P!CallOf, P!UsersCounted
<1>2. P!RingIsStream'
  BY DEF PipeInv, P!RingIsStream
<1>3. (~Faults => SafeInv)'
  BY DEF PipeInv, SafeInv, P!RoomInv, P!PartnerInv, P!PieceInv, PipeSleepInv, P!Free, P!Alone, P!Partner
<1> QED
  BY <1>1, <1>2, <1>3 DEF PipeInv

\* Who has the pipe open, waits on it or holds i_sem is what its counters, its wait queue and
\* i_sem say, and the ring buffer holds what was written and not read, whatever the copies to
\* and from user space do; if they do not fail, a short write that has begun has the room for
\* its rest and nobody sleeps whom somebody would have had to wake (pipe.c:36-480, fifo.c:28-140).
THEOREM PipeInvariant ==
    ASSUME PipeGiven
    PROVE  P!Spec => []PipeInv
<1>1. P!Init => PipeInv
  BY PipeInit
<1>2. PipeInv /\ [P!Next]_P!vars => PipeInv'
  BY PipeNext, PipeStutter
<1> QED
  BY <1>1, <1>2, PTL DEF P!Spec

\* For pipes and writes of any size, and any number of tasks that open, read, write, select,
\* close and are interrupted: the bytes are read in the order in which they were written, the
\* pipe lives exactly as long as it has users, a write of at most PIPE_BUF bytes is never mixed
\* with another, and no reader, writer, opener or select misses the wakeup that it needs.
THEOREM PipesAreSound ==
    ASSUME PipeGiven
    PROVE  P!Spec => []P!PipeSound
<1>1. PipeInv => P!PipeSound
  <2> SUFFICES ASSUME PipeInv PROVE P!PipeSound
    OBVIOUS
  <2>1. P!TypeOK /\ P!UsersCounted /\ P!RingIsStream
    BY DEF PipeInv, P!UseInv
  <2>2. ASSUME ~Faults PROVE P!NoLostWakeup
    BY <2>2, SleepParts DEF PipeInv, SafeInv
  <2>3. ASSUME ~Faults PROVE P!AtomicWrites
    <3> SUFFICES ASSUME sem = None, NEW k \in DOMAIN stream, NEW b, b = stream[k], b[3] <= PIPE_BUF, b[2] < b[3]
                 PROVE  k < Len(stream) /\ stream[k + 1] = <<b[1], b[2] + 1, b[3]>>
      BY DEF P!AtomicWrites
    <3>1. \/ k < Len(stream) /\ stream[k + 1] = <<b[1], b[2] + 1, b[3]>>
          \/ sem = b[1]
      BY <2>3 DEF PipeInv, SafeInv, P!PieceInv
    <3>2. b[1] # None
      BY <2>1, MsgQueueAssumption DEF P!TypeOK, P!Bytes
    <3> QED
      BY <3>1, <3>2
  <2> QED
    BY <2>1, <2>2, <2>3 DEF P!PipeSound
<1> QED
  BY <1>1, PipeInvariant, PTL
=============================================================================
