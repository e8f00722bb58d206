-------------------------------- MODULE MCIpc --------------------------------
(***************************************************************************)
(* Interprocess communication for TLC: MsgQueue, SysvSem and Pipe.  A      *)
(* behaviour is one of one of them, which setup names; the others rest in  *)
(* their initial state.                                                    *)
(*   messages   MsgQueue with the constants of the configuration           *)
(*   undo       one semaphore, with operations that are undone at exit     *)
(*   both       two semaphores that one call takes together                *)
(*   pipe       reads and writes of one FIFO, each of up to three bytes    *)
(*   fault      the same when the copy to or from user space may fail      *)
(*   fifo       every way to open a FIFO                                   *)
(***************************************************************************)
EXTENDS MsgQueue, TLC

CONSTANTS
    Setups,    \* the setups to check
    Pair       \* the tasks of undo

VARIABLES
    setup,
    sma, sseq, undos, status, prev, sst, ssig, spc, scall, base, applied, honest,
    pipe, sem, file, ppc, left, done, cnt, pst, psig, opens, stream

semVars == <<sma, sseq, undos, status, prev, sst, ssig, spc, scall, base, applied, honest>>
pipeVars == <<pipe, sem, file, ppc, left, done, cnt, pst, psig, opens, stream>>

-----------------------------------------------------------------------------
\* Messages that fit into a buffer of size 1, and one that does not.
Snd(type, size, nowait) == [type |-> type, size |-> size, nowait |-> nowait]
Rcv(type, mode, size, noerror, nowait) ==
    [type |-> type, mode |-> mode, size |-> size, noerror |-> noerror, nowait |-> nowait]
SomeSends == {Snd(1, 1, FALSE), Snd(2, 2, FALSE), Snd(2, 0, TRUE)}
SomeReceives == {Rcv(1, "EQUAL", 1, FALSE, FALSE), Rcv(2, "LESSEQUAL", 1, FALSE, FALSE),
                 Rcv(1, "NOTEQUAL", 1, TRUE, TRUE)}
SomeSettings == {[qbytes |-> 2, mode |-> {"r", "w"}], [qbytes |-> 1, mode |-> {"w"}],
                 [qbytes |-> 0, mode |-> {"r"}]}

Op(num, op, undo) == [num |-> num, op |-> op, undo |-> undo, nowait |-> FALSE]
Call(ops) == [ops |-> ops, timeout |-> FALSE]

\* One semaphore with undo, without undo, and with a second operation that does not wait.
UndoCalls ==
    {Call(<<Op(1, -1, TRUE)>>), Call(<<Op(1, 1, TRUE)>>), Call(<<Op(1, 0, FALSE)>>),
     Call(<<Op(1, -1, FALSE), [Op(1, -1, TRUE) EXCEPT !.nowait = TRUE]>>)}

\* Taking two resources together, and giving each of them back.
BothCalls ==
    {[Call(<<Op(1, -1, TRUE), Op(2, -1, FALSE)>>) EXCEPT !.timeout = TRUE],
     Call(<<Op(1, 1, TRUE)>>), Call(<<Op(2, 1, FALSE)>>)}

Undo == INSTANCE SysvSem WITH
    Tasks <- Pair, Sems <- {1}, Calls <- UndoCalls, Values <- {2},
    Modes <- {{"alter", "read"}, {"read"}}, SEMVMX <- 2, MaxSeq <- 2,
    seq <- sseq, st <- sst, sig <- ssig, pc <- spc, call <- scall

Both == INSTANCE SysvSem WITH
    Sems <- {1, 2}, Calls <- BothCalls, Values <- {},
    Modes <- {{"alter", "read"}}, SEMVMX <- 2, MaxSeq <- 1,
    seq <- sseq, st <- sst, sig <- ssig, pc <- spc, call <- scall

Mode(mode, nonblock) == [mode |-> mode, nonblock |-> nonblock]

Stream == INSTANCE Pipe WITH
    PIPE_SIZE <- 2, PIPE_BUF <- 2, Counts <- {1, 2, 3}, MaxOpens <- 3, Faults <- FALSE,
    Opens <- {Mode({"r"}, FALSE), Mode({"w"}, FALSE)},
    pc <- ppc, st <- pst, sig <- psig

Fault == INSTANCE Pipe WITH
    PIPE_SIZE <- 2, PIPE_BUF <- 2, Counts <- {1, 3}, MaxOpens <- 2, Faults <- TRUE,
    Opens <- {Mode({"r"}, FALSE), Mode({"w"}, FALSE)},
    pc <- ppc, st <- pst, sig <- psig

Fifo == INSTANCE Pipe WITH
    PIPE_SIZE <- 2, PIPE_BUF <- 2, Counts <- {1}, MaxOpens <- 3, Faults <- FALSE,
    Opens <- {Mode({"r"}, FALSE), Mode({"w"}, FALSE), Mode({"r", "w"}, FALSE),
              Mode({"w"}, TRUE), Mode({"r"}, TRUE)},
    pc <- ppc, st <- pst, sig <- psig

ASSUME /\ Undo!SysvSemAssumption /\ Both!SysvSemAssumption
       /\ Stream!PipeAssumption /\ Fault!PipeAssumption /\ Fifo!PipeAssumption

MCInit ==
    /\ Init
    /\ setup \in Setups
    /\ IF setup = "undo" THEN Undo!Init ELSE Both!Init
    /\ Stream!Init

MCNext ==
    /\ \/ /\ setup = "messages" /\ Next
          /\ UNCHANGED <<semVars, pipeVars>>
       \/ /\ \/ setup = "undo" /\ Undo!Next
             \/ setup = "both" /\ Both!Next
          /\ UNCHANGED <<vars, pipeVars>>
       \/ /\ \/ setup = "pipe" /\ Stream!Next
             \/ setup = "fault" /\ Fault!Next
             \/ setup = "fifo" /\ Fifo!Next
          /\ UNCHANGED <<vars, semVars>>
    /\ UNCHANGED setup

MCSpec == MCInit /\ [][MCNext]_<<setup, vars, semVars, pipeVars>>

Symmetry == Permutations(Tasks)

-----------------------------------------------------------------------------
\* A semop is done once or not at all, and says which; what is to be undone at exit is
\* remembered over every SETVAL, removal and sleep, by the right set, and the sleepers
\* are on the queue with something to wait for (sem.c:250-360, 870-1120).
SemsSound ==
    /\ setup = "undo" => /\ Undo!TypeOK /\ Undo!Conserved /\ Undo!OnceOnly
                         /\ Undo!Listed /\ Undo!UndoListed
    /\ setup = "both" => Both!Conserved /\ Both!OnceOnly /\ Both!NoLostWakeup

\* What is read is what was written, in order, and short writes in one piece; nobody
\* sleeps in vain, unless a copy failed, and the pipe is freed with its last user
\* (pipe.c:36-330, fifo.c:28-140).
PipeSound ==
    /\ setup = "pipe" => Stream!PipeSound
    /\ setup = "fault" => Fault!PipeSound
    /\ setup = "fifo" => Fifo!PipeSound
=============================================================================
