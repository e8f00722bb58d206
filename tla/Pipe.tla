-------------------------------- MODULE Pipe --------------------------------
(***************************************************************************)
(* Pipes and FIFOs (fs/pipe.c, fs/fifo.c): the ring buffer of one page,    *)
(* reads and writes that block, close, the rendezvous of fifo_open, and    *)
(* select, which looks at the pipe without the semaphore.                  *)
(*                                                                         *)
(* i_sem is held over the copies to and from user space, which are steps   *)
(* of their own because each of them may fail.  pipe_wait puts the task on *)
(* the wait queue before it gives i_sem up.                                *)
(***************************************************************************)
EXTENDS Integers, Sequences, FiniteSets, SequencesExt, FiniteSetsExt

CONSTANTS
    Tasks,
    PIPE_SIZE, PIPE_BUF,
    Counts,     \* sizes of reads and writes
    Opens,      \* how a FIFO is opened: [mode, nonblock]
    MaxOpens,   \* bound on the number of opens
    Faults,     \* whether a copy to or from user space may fail
    None

\* A byte: its writer, its place in the write, and the size of the write
Bytes == Tasks \X (Nat \ {0}) \X (Nat \ {0})

Pipes == [buf : [0 .. PIPE_SIZE - 1 -> Bytes \cup {None}], start : 0 .. PIPE_SIZE - 1, len : 0 .. PIPE_SIZE,
          readers : Nat, writers : Nat, waitingReaders : Nat, waitingWriters : Nat,
          rCounter : Nat, wCounter : Nat, wait : SUBSET Tasks]

FileModes == {{"r"}, {"w"}, {"r", "w"}}
OpenFiles == [mode : FileModes, nonblock : BOOLEAN, version : Nat]

PipeAssumption ==
    /\ PIPE_SIZE \in Nat \ {0} /\ PIPE_BUF \in 1 .. PIPE_SIZE
    /\ Counts \subseteq Nat \ {0} /\ MaxOpens \in Nat /\ Faults \in BOOLEAN
    /\ Opens \subseteq [mode : FileModes, nonblock : BOOLEAN]
    /\ None \notin Tasks \cup Pipes \cup OpenFiles

VARIABLES
    pipe,    \* i_pipe: [buf, start, len, readers, writers, waitingReaders, waitingWriters,
             \*          rCounter, wCounter, wait], or None
    sem,     \* the task that holds i_sem, or None
    file,    \* the file of each task: [mode, nonblock, version], or None
    pc,
    left, done, \* bytes of the call still to do, and done
    cnt,     \* what wait_for_partner compares, or what select has seen
    st, sig, \* state of each task, and whether a signal is pending
    opens,   \* opens so far
    stream   \* history: what has been written and not read, in order

vars == <<pipe, sem, file, pc, left, done, cnt, st, sig, opens, stream>>

Init ==
    /\ pipe = None /\ sem = None
    /\ file = [t \in Tasks |-> None] /\ pc = [t \in Tasks |-> "idle"]
    /\ left = [t \in Tasks |-> 0] /\ done = [t \in Tasks |-> 0] /\ cnt = [t \in Tasks |-> 0]
    /\ st = [t \in Tasks |-> "running"] /\ sig = [t \in Tasks |-> FALSE]
    /\ opens = 0 /\ stream = <<>>

\* pipe_new
NewPipe == [buf |-> [i \in 0 .. PIPE_SIZE - 1 |-> None], start |-> 0, len |-> 0, readers |-> 0, writers |-> 0,
            waitingReaders |-> 0, waitingWriters |-> 0, rCounter |-> 1, wCounter |-> 1, wait |-> {}]

Free(p) == PIPE_SIZE - p.len
End(p) == (p.start + p.len) % PIPE_SIZE

\* wake_up_interruptible on PIPE_WAIT, and the same as wake_up_interruptible_sync.
Woken(p) == [u \in Tasks |-> IF u \in p.wait THEN "running" ELSE st[u]]

\* Nobody has the pipe open any more.
Unused(p) == p.readers = 0 /\ p.writers = 0

\* The call returns, with the pipe p and the states s; i_sem is free.
Return(t, p, s) ==
    /\ pipe' = p /\ st' = s /\ sem' = None
    /\ pc' = [pc EXCEPT ![t] = "idle"]
    /\ left' = [left EXCEPT ![t] = 0] /\ done' = [done EXCEPT ![t] = 0] /\ cnt' = [cnt EXCEPT ![t] = 0]
    /\ sig' = [sig EXCEPT ![t] = FALSE]

\* pipe_wait up to schedule.
PipeWait(t, p, s, where) ==
    /\ pipe' = [p EXCEPT !.wait = @ \cup {t}]
    /\ st' = [s EXCEPT ![t] = IF sig[t] THEN "running" ELSE "interruptible"]
    /\ sem' = None
    /\ pc' = [pc EXCEPT ![t] = where]

\* pipe_wait from schedule on: the task is off the queue and has i_sem.
Waited(t, where) == pc[t] = where /\ st[t] = "running" /\ sem = None
OffQueue(t) == [pipe EXCEPT !.wait = @ \ {t}]

-----------------------------------------------------------------------------
(***************************************************************************)
(* fifo_open and pipe_release.                                             *)
(***************************************************************************)

\* The open makes the pipe usable for those who wait for a partner.
OpenWakes(p, o) == (p.readers = 0 /\ "r" \in o.mode) \/ (p.writers = 0 /\ "w" \in o.mode)

Opened(p, o) ==
    [p EXCEPT !.readers = @ + (IF "r" \in o.mode THEN 1 ELSE 0), !.rCounter = @ + (IF "r" \in o.mode THEN 1 ELSE 0),
              !.writers = @ + (IF "w" \in o.mode THEN 1 ELSE 0), !.wCounter = @ + (IF "w" \in o.mode THEN 1 ELSE 0)]

\* The counter of those that wait_for_partner waits for.
Partner(p, mode) == IF mode = {"r"} THEN p.wCounter ELSE p.rCounter
Alone(p, mode) == (mode = {"r"} /\ p.writers = 0) \/ (mode = {"w"} /\ p.readers = 0)

FifoOpen(t, o) ==
    LET p == IF pipe = None THEN NewPipe ELSE pipe
        p1 == Opened(p, o)
        s1 == IF OpenWakes(p, o) THEN Woken(p) ELSE st
        refused == o.mode = {"w"} /\ o.nonblock /\ p.readers = 0
        waits == Alone(p1, o.mode) /\ ~o.nonblock
    IN
    /\ pc[t] = "idle" /\ file[t] = None /\ sem = None /\ opens < MaxOpens
    /\ opens' = opens + 1
    /\ \/ refused /\ Return(t, IF Unused(p) THEN None ELSE p, st) /\ UNCHANGED file
       \/ /\ ~refused /\ ~waits
          /\ file' = [file EXCEPT ![t] = [mode |-> o.mode, nonblock |-> o.nonblock,
                                          version |-> IF o.mode = {"r"} /\ p.writers = 0 THEN p.wCounter ELSE 0]]
          /\ Return(t, p1, s1)
       \/ /\ ~refused /\ waits
          /\ file' = [file EXCEPT ![t] = [mode |-> o.mode, nonblock |-> FALSE, version |-> 0]]
          /\ cnt' = [cnt EXCEPT ![t] = Partner(p1, o.mode)]
          /\ PipeWait(t, p1, s1, "open_wait")
          /\ UNCHANGED <<left, done, sig>>
    /\ UNCHANGED stream

\* The end of err_rd and err_wr: the count is taken back and those who wait may be told.
Closed(p, mode) ==
    [p EXCEPT !.readers = @ - (IF "r" \in mode THEN 1 ELSE 0), !.writers = @ - (IF "w" \in mode THEN 1 ELSE 0)]

\* A pipe without users is freed, with all that is in it.
Released(p) == IF Unused(p) THEN None ELSE p
StreamIn(p) == IF Unused(p) THEN <<>> ELSE stream

\* wait_for_partner goes on.
FifoPartner(t) ==
    LET mode == file[t].mode
        p == OffQueue(t)
        p1 == Closed(p, mode)
        last == (mode = {"r"} /\ p1.readers = 0) \/ (mode = {"w"} /\ p1.writers = 0)
    IN
    /\ Waited(t, "open_wait")
    /\ \/ /\ sig[t]
          /\ Return(t, Released(p1), IF last THEN Woken(p1) ELSE st)
          /\ file' = [file EXCEPT ![t] = None]
          /\ stream' = StreamIn(p1)
       \/ ~sig[t] /\ Partner(p, mode) # cnt[t] /\ Return(t, p, st) /\ UNCHANGED <<file, stream>>
       \/ ~sig[t] /\ Partner(p, mode) = cnt[t] /\ PipeWait(t, p, st, "open_wait")
          /\ UNCHANGED <<file, left, done, cnt, sig, stream>>
    /\ UNCHANGED opens

\* pipe_release
PipeRelease(t) ==
    LET p == Closed(pipe, file[t].mode) IN
    /\ pc[t] = "idle" /\ file[t] # None /\ sem = None
    /\ Return(t, Released(p), IF Unused(p) THEN st ELSE Woken(p))
    /\ file' = [file EXCEPT ![t] = None]
    /\ stream' = StreamIn(p)
    /\ UNCHANGED opens

-----------------------------------------------------------------------------
(***************************************************************************)
(* pipe_read.                                                              *)
(***************************************************************************)
CanRead(t) == pc[t] = "idle" /\ file[t] # None /\ "r" \in file[t].mode
Hold(t, p, where) == pipe' = p /\ sem' = t /\ pc' = [pc EXCEPT ![t] = where]

\* do_more_read with the pipe p and the states s; n bytes are still wanted.
MoreRead(t, p, s, n) ==
    \/ /\ p.writers = 0 \/ file[t].nonblock
       /\ Return(t, p, s)
    \/ /\ p.writers > 0 /\ ~file[t].nonblock
       /\ PipeWait(t, [p EXCEPT !.waitingReaders = @ + 1], s, "read_wait")
       /\ left' = [left EXCEPT ![t] = n]
       /\ UNCHANGED <<done, cnt, sig>>

PipeRead(t, n) ==
    /\ CanRead(t) /\ sem = None
    /\ \/ pipe.len = 0 /\ MoreRead(t, pipe, st, n)
       \/ pipe.len > 0 /\ Hold(t, pipe, "read_copy") /\ left' = [left EXCEPT ![t] = n]
          /\ UNCHANGED <<done, cnt, st, sig>>
    /\ UNCHANGED <<file, opens, stream>>

\* The loop goes on after pipe_wait.
ReadWaited(t) ==
    LET p == [OffQueue(t) EXCEPT !.waitingReaders = @ - 1] IN
    /\ Waited(t, "read_wait")
    /\ \/ (sig[t] \/ (p.len = 0 /\ p.writers = 0)) /\ Return(t, p, st)
       \/ ~sig[t] /\ p.len > 0 /\ Hold(t, p, "read_copy") /\ UNCHANGED <<left, done, cnt, st, sig>>
       \/ ~sig[t] /\ p.len = 0 /\ p.writers > 0
          /\ PipeWait(t, [p EXCEPT !.waitingReaders = @ + 1], st, "read_wait") /\ UNCHANGED <<left, done, cnt, sig>>
    /\ UNCHANGED <<file, opens, stream>>

RChunk(t) == Min({PIPE_SIZE - pipe.start, left[t], pipe.len})

\* One turn of the copying loop.
ReadCopy(t) ==
    LET c == RChunk(t) IN
    /\ pc[t] = "read_copy" /\ left[t] > 0 /\ pipe.len > 0
    /\ \/ /\ pipe' = [pipe EXCEPT !.start = (@ + c) % PIPE_SIZE, !.len = @ - c,
                                  !.buf = [i \in DOMAIN @ |-> IF i \in pipe.start .. pipe.start + c - 1 THEN None ELSE @[i]]]
          /\ left' = [left EXCEPT ![t] = @ - c] /\ done' = [done EXCEPT ![t] = @ + c]
          /\ stream' = SubSeq(stream, c + 1, Len(stream))
          /\ UNCHANGED <<sem, pc, cnt, st, sig>>
       \/ Faults /\ Return(t, pipe, st) /\ UNCHANGED stream
    /\ UNCHANGED <<file, opens>>

\* "Cache behaviour optimization"
Restarted(p) == IF p.len = 0 THEN [p EXCEPT !.start = 0] ELSE p

\* Mutant: the writers are told when everything has been read.
ReadWakesEmpty(p) == IF p.len = 0 THEN Woken(p) ELSE st

\* Who is told about the room.
ReadWakes(p) == Woken(p)

\* After the loop.  A reader that wants more sleeps for it when writers wait.
ReadDone(t) ==
    /\ pc[t] = "read_copy" /\ (left[t] = 0 \/ pipe.len = 0)
    /\ LET p == Restarted(pipe)
           more == left[t] > 0 /\ p.waitingWriters > 0 /\ ~file[t].nonblock
       IN \/ ~more /\ Return(t, p, ReadWakes(p))
          \/ more /\ MoreRead(t, p, ReadWakes(p), left[t])
    /\ UNCHANGED <<file, opens, stream>>

-----------------------------------------------------------------------------
(***************************************************************************)
(* pipe_write.                                                             *)
(***************************************************************************)

\* "If count <= PIPE_BUF, we have to make it atomic."
Needed(n) == IF n <= PIPE_BUF THEN n ELSE 1

\* The first wait, with the pipe p.
WriteRoom(t, p, n) ==
    \/ /\ p.readers = 0 \/ (Free(p) < Needed(n) /\ file[t].nonblock)
       /\ Return(t, p, st)
    \/ /\ p.readers > 0 /\ Free(p) < Needed(n) /\ ~file[t].nonblock
       /\ PipeWait(t, [p EXCEPT !.waitingWriters = @ + 1], st, "room_wait")
       /\ left' = [left EXCEPT ![t] = n]
       /\ UNCHANGED <<done, cnt, sig>>
    \/ /\ p.readers > 0 /\ Free(p) >= Needed(n)
       /\ Hold(t, p, "write_copy")
       /\ left' = [left EXCEPT ![t] = n]
       /\ UNCHANGED <<done, cnt, st, sig>>

PipeWrite(t, n) ==
    /\ pc[t] = "idle" /\ file[t] # None /\ "w" \in file[t].mode /\ sem = None
    /\ WriteRoom(t, pipe, n)
    /\ UNCHANGED <<file, opens, stream>>

\* The first loop goes on after pipe_wait.
RoomWaited(t) ==
    LET p == [OffQueue(t) EXCEPT !.waitingWriters = @ - 1] IN
    /\ Waited(t, "room_wait")
    /\ \/ sig[t] /\ Return(t, p, st)
       \/ ~sig[t] /\ WriteRoom(t, p, left[t])
    /\ UNCHANGED <<file, opens, stream>>

WChunk(t) == Min({PIPE_SIZE - End(pipe), left[t], Free(pipe)})

\* One turn of the copying loop with room.
WriteCopy(t) ==
    LET c == WChunk(t)
        at == End(pipe)
        bytes == [i \in 1 .. c |-> <<t, done[t] + i, done[t] + left[t]>>]
    IN
    /\ pc[t] = "write_copy" /\ left[t] > 0 /\ Free(pipe) > 0
    /\ \/ /\ pipe' = [pipe EXCEPT !.len = @ + c,
                                  !.buf = [i \in DOMAIN @ |-> IF i \in at .. at + c - 1 THEN bytes[i - at + 1] ELSE @[i]]]
          /\ left' = [left EXCEPT ![t] = @ - c] /\ done' = [done EXCEPT ![t] = @ + c]
          /\ stream' = stream \o bytes
          /\ UNCHANGED <<sem, pc, cnt, st, sig>>
       \/ Faults /\ Return(t, pipe, st) /\ UNCHANGED stream
    /\ UNCHANGED <<file, opens>>

\* No room: O_NONBLOCK leaves the loop, the others tell the readers and wait.
WriteFull(t) ==
    /\ pc[t] = "write_copy" /\ left[t] > 0 /\ Free(pipe) = 0
    /\ \/ file[t].nonblock /\ Return(t, pipe, Woken(pipe))
       \/ ~file[t].nonblock
          /\ PipeWait(t, [pipe EXCEPT !.waitingWriters = @ + 1], Woken(pipe), "full_wait")
          /\ UNCHANGED <<left, done, cnt, sig>>
    /\ UNCHANGED <<file, opens, stream>>

FullWaited(t) ==
    LET p == [OffQueue(t) EXCEPT !.waitingWriters = @ - 1] IN
    /\ Waited(t, "full_wait")
    /\ \/ (sig[t] \/ p.readers = 0) /\ Return(t, p, st)
       \/ ~sig[t] /\ p.readers > 0 /\ Free(p) = 0
          /\ PipeWait(t, [p EXCEPT !.waitingWriters = @ + 1], Woken(p), "full_wait") /\ UNCHANGED <<left, done, cnt, sig>>
       \/ ~sig[t] /\ p.readers > 0 /\ Free(p) > 0 /\ Hold(t, p, "write_copy") /\ UNCHANGED <<left, done, cnt, st, sig>>
    /\ UNCHANGED <<file, opens, stream>>

WriteDone(t) ==
    /\ pc[t] = "write_copy" /\ left[t] = 0
    /\ Return(t, pipe, Woken(pipe))
    /\ UNCHANGED <<file, opens, stream>>

-----------------------------------------------------------------------------
(***************************************************************************)
(* select for reading: pipe_poll looks at len and writers without i_sem.   *)
(***************************************************************************)
SelectStart(t) ==
    /\ CanRead(t)
    /\ pipe' = [pipe EXCEPT !.wait = @ \cup {t}]
    /\ st' = [st EXCEPT ![t] = "interruptible"]
    /\ pc' = [pc EXCEPT ![t] = "poll_len"]
    /\ UNCHANGED <<sem, file, left, done, cnt, sig, opens, stream>>

\* PIPE_EMPTY; cnt keeps the answer.
PollLen(t) ==
    /\ pc[t] = "poll_len"
    /\ cnt' = [cnt EXCEPT ![t] = IF pipe.len = 0 THEN 0 ELSE 1]
    /\ pc' = [pc EXCEPT ![t] = "poll_writers"]
    /\ UNCHANGED <<pipe, sem, file, left, done, st, sig, opens, stream>>

Hup(t) == pipe.writers = 0 /\ file[t].version # pipe.wCounter

\* PIPE_WRITERS, and the end of the turn.
PollWriters(t) ==
    /\ pc[t] = "poll_writers"
    /\ IF cnt[t] = 1 \/ Hup(t) \/ sig[t]
       THEN pc' = [pc EXCEPT ![t] = "idle"] /\ pipe' = OffQueue(t) /\ st' = [st EXCEPT ![t] = "running"]
            /\ sig' = [sig EXCEPT ![t] = FALSE]
       ELSE pc' = [pc EXCEPT ![t] = "poll_sleep"] /\ UNCHANGED <<pipe, st, sig>>
    /\ cnt' = [cnt EXCEPT ![t] = 0]
    /\ UNCHANGED <<sem, file, left, done, opens, stream>>

\* schedule_timeout returns, and the loop sets the state again.
SelectAgain(t) ==
    /\ pc[t] = "poll_sleep" /\ st[t] = "running"
    /\ st' = [st EXCEPT ![t] = "interruptible"]
    /\ pc' = [pc EXCEPT ![t] = "poll_len"]
    /\ UNCHANGED <<pipe, sem, file, left, done, cnt, sig, opens, stream>>

\* A signal for a task that sleeps.
Signal(t) ==
    /\ st[t] = "interruptible" /\ ~sig[t]
    /\ sig' = [sig EXCEPT ![t] = TRUE] /\ st' = [st EXCEPT ![t] = "running"]
    /\ UNCHANGED <<pipe, sem, file, pc, left, done, cnt, opens, stream>>

Step(t) ==
    \/ \E o \in Opens : FifoOpen(t, o)
    \/ FifoPartner(t) \/ PipeRelease(t)
    \/ \E n \in Counts : PipeRead(t, n) \/ PipeWrite(t, n)
    \/ ReadWaited(t) \/ ReadCopy(t) \/ ReadDone(t)
    \/ RoomWaited(t) \/ WriteCopy(t) \/ WriteFull(t) \/ FullWaited(t) \/ WriteDone(t)
    \/ SelectStart(t) \/ PollLen(t) \/ PollWriters(t) \/ SelectAgain(t)

Next == \E t \in Tasks : Step(t) \/ Signal(t)

Spec == Init /\ [][Next]_vars
-----------------------------------------------------------------------------
Waits == {"open_wait", "read_wait", "room_wait", "full_wait", "poll_sleep"}
Copies == {"read_copy", "write_copy"}
Polls == {"poll_len", "poll_writers"}

\* Every variable has its type; the counters never become negative.
TypeOK ==
    /\ pipe \in Pipes \cup {None} /\ sem \in Tasks \cup {None}
    /\ file \in [Tasks -> OpenFiles \cup {None}]
    /\ pc \in [Tasks -> {"idle"} \cup Copies \cup Polls \cup Waits]
    /\ left \in [Tasks -> Nat] /\ done \in [Tasks -> Nat] /\ cnt \in [Tasks -> Nat]
    /\ st \in [Tasks -> {"running", "interruptible"}] /\ sig \in [Tasks -> BOOLEAN]
    /\ opens \in Nat /\ stream \in Seq(Bytes)

\* What is in the ring buffer, from start on, is what has been written and not read, in order.
RingIsStream ==
    IF pipe = None THEN stream = <<>>
    ELSE stream = [i \in 1 .. pipe.len |-> pipe.buf[(pipe.start + i - 1) % PIPE_SIZE]]

\* A write of at most PIPE_BUF bytes is in the pipe in one piece: no byte of another write
\* comes between, however the writers had to wait.
AtomicWrites ==
    sem = None => \A k \in DOMAIN stream :
        LET b == stream[k] IN
        (b[3] <= PIPE_BUF /\ b[2] < b[3]) => k < Len(stream) /\ stream[k + 1] = <<b[1], b[2] + 1, b[3]>>

\* Nobody sleeps in vain: a reader only on an empty pipe with writers, a writer only without
\* the room that it needs and with readers, somebody in open only as long as no partner has
\* come, and select only without anything to report.
NoLostWakeup ==
    sem = None => \A t \in Tasks : st[t] = "interruptible" =>
        CASE pc[t] = "read_wait" -> pipe.len = 0 /\ pipe.writers > 0
          [] pc[t] = "room_wait" -> Free(pipe) < Needed(left[t]) /\ pipe.readers > 0
          [] pc[t] = "full_wait" -> Free(pipe) = 0 /\ pipe.readers > 0
          [] pc[t] = "open_wait" -> Partner(pipe, file[t].mode) = cnt[t] /\ Alone(pipe, file[t].mode)
          [] pc[t] = "poll_sleep" -> pipe.len = 0 /\ ~Hup(t)
          [] OTHER -> TRUE

\* The pipe is there as long as somebody has it open, waits for a partner, or is on its wait
\* queue; readers, writers and the waiting counters count exactly those.
UsersCounted ==
    /\ (\E t \in Tasks : file[t] # None) <=> pipe # None
    /\ pipe # None =>
        /\ pipe.readers = Cardinality({t \in Tasks : file[t] # None /\ "r" \in file[t].mode})
        /\ pipe.writers = Cardinality({t \in Tasks : file[t] # None /\ "w" \in file[t].mode})
        /\ pipe.waitingReaders = Cardinality({t \in Tasks : pc[t] = "read_wait"})
        /\ pipe.waitingWriters = Cardinality({t \in Tasks : pc[t] \in {"room_wait", "full_wait"}})
        /\ \A t \in pipe.wait : file[t] # None

\* All of this; when a copy fails the sleepers are not told and a write may be left unfinished.
PipeSound ==
    /\ TypeOK /\ UsersCounted /\ RingIsStream
    /\ ~Faults => AtomicWrites /\ NoLostWakeup

-----------------------------------------------------------------------------
(* The inductive invariants behind these. *)

\* Where a task is says whether it has i_sem, is on the wait queue, and may sleep.
CallOf(t) ==
    /\ pc[t] # "idle" => file[t] # None
    /\ pc[t] \in Copies <=> sem = t
    /\ pipe # None => (t \in pipe.wait <=> pc[t] \in Waits \cup Polls)
    /\ st[t] = "interruptible" => pc[t] \in Waits \cup Polls
    /\ pc[t] = "open_wait" => file[t].mode # {"r", "w"}

CallInv == \A t \in Tasks : CallOf(t)

UseInv == TypeOK /\ CallInv /\ UsersCounted

\* A write that is being copied has readers, and one of at most PIPE_BUF bytes that has begun
\* has the room for the rest.
RoomInv ==
    \A t \in Tasks :
        /\ pc[t] \notin {"read_copy", "read_wait", "write_copy", "full_wait"} => done[t] = 0
        /\ pc[t] = "write_copy" => pipe.readers > 0
        /\ pc[t] = "write_copy" /\ done[t] + left[t] <= PIPE_BUF => left[t] <= Free(pipe)
        /\ pc[t] = "full_wait" => done[t] + left[t] > PIPE_BUF

\* Whoever waits for a partner is alone until one has come.
PartnerInv ==
    \A t \in Tasks : pc[t] = "open_wait" =>
        LET now == Partner(pipe, file[t].mode)
        IN  cnt[t] <= now /\ (cnt[t] = now => Alone(pipe, file[t].mode))

\* A short write is in one piece, but for what its writer is about to add.
PieceInv ==
    \A k \in DOMAIN stream :
        LET b == stream[k] IN
        b[3] <= PIPE_BUF /\ b[2] < b[3] =>
            \/ k < Len(stream) /\ stream[k + 1] = <<b[1], b[2] + 1, b[3]>>
            \/ /\ k = Len(stream) /\ sem = b[1] /\ pc[b[1]] = "write_copy"
               /\ b[2] = done[b[1]] /\ b[3] = done[b[1]] + left[b[1]]

\* A poll that has seen an empty pipe and may go to sleep has been woken if it is not empty any more.
PollInv ==
    sem = None => \A t \in Tasks :
        st[t] = "interruptible" /\ pc[t] = "poll_writers" /\ cnt[t] # 1 => pipe.len = 0
=============================================================================
