------------------------------- MODULE RwLock -------------------------------
(***************************************************************************)
(* What a read/write semaphore promises: a lock held by one writer or by   *)
(* any number of readers, with a first come, first served queue.  A task   *)
(* takes the lock directly only when nobody queues; otherwise it joins the *)
(* queue, and when the lock is free the writer at the front, or all the    *)
(* readers at the front, are given it together.                            *)
(***************************************************************************)
EXTENDS Naturals, Sequences

CONSTANT Tasks

VARIABLES readers,   \* the tasks that hold the lock for reading
          writers,   \* the tasks that hold the lock for writing
          queue      \* the waiting tasks, as <<task, mode>>, in order

lockVars == <<readers, writers, queue>>

LockInit ==
    /\ readers = {}
    /\ writers = {}
    /\ queue = <<>>

Free == readers = {} /\ writers = {}

TakeRead(t) ==
    /\ queue = <<>> /\ writers = {} /\ t \notin readers
    /\ readers' = readers \cup {t}
    /\ UNCHANGED <<writers, queue>>

TakeWrite(t) ==
    /\ queue = <<>> /\ Free
    /\ writers' = {t}
    /\ UNCHANGED <<readers, queue>>

Join(t, m) ==
    /\ t \notin readers \cup writers
    /\ queue' = Append(queue, <<t, m>>)
    /\ UNCHANGED <<readers, writers>>

GiveWriter ==
    /\ Free /\ queue # <<>>
    /\ Head(queue)[2] = "write"
    /\ writers' = {Head(queue)[1]}
    /\ queue' = Tail(queue)
    /\ UNCHANGED readers

\* All the readers in front of the first queued writer.
GiveReaders ==
    /\ Free
    /\ \E n \in 1..Len(queue) :
        /\ \A i \in 1..n : queue[i][2] = "read"
        /\ n < Len(queue) => queue[n + 1][2] = "write"
        /\ readers' = {queue[i][1] : i \in 1..n}
        /\ queue' = SubSeq(queue, n + 1, Len(queue))
    /\ UNCHANGED writers

Release(t) ==
    /\ t \in readers \cup writers
    /\ readers' = readers \ {t}
    /\ writers' = writers \ {t}
    /\ UNCHANGED queue

LockNext ==
    \/ \E t \in Tasks : \/ TakeRead(t) \/ TakeWrite(t) \/ Release(t)
                        \/ \E m \in {"read", "write"} : Join(t, m)
    \/ GiveWriter
    \/ GiveReaders

LockSpec == LockInit /\ [][LockNext]_lockVars
=============================================================================
