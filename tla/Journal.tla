------------------------------ MODULE Journal ------------------------------
(***************************************************************************)
(* The journal of ext3 (fs/jbd): handles that modify, free and reuse       *)
(* blocks, kjournald's commit, write-back and checkpointing, the log and   *)
(* its superblock, and recovery after a crash.                             *)
(*                                                                         *)
(* lock_journal is held for one action.  A write is submitted by one       *)
(* action and waited for in another; a crash lets any subset of the writes *)
(* that are not yet waited for reach the disk.  What has been waited for   *)
(* is on the disk.                                                         *)
(***************************************************************************)
EXTENDS Integers, Sequences, FiniteSets, SequencesExt, FiniteSetsExt

CONSTANTS
    Handles,      \* tasks that call journal_start
    Owner,        \* blocks that stay metadata: they refer to the others (inodes)
    Others,       \* blocks that are freed and reused, also for file data
    Values,       \* contents of a block
    Magic,        \* the contents that begin with JFS_MAGIC_NUMBER, or None
    Zeroed,       \* the same with 0 in the place of the number
    OwnerFirst,   \* a handle that touches an Other has modified its owner
    Restarts,     \* a truncate may have to restart its handle
    LogLen,       \* blocks of the log
    MaxBuffers,   \* j_max_transaction_buffers
    Reserved,     \* MIN_LOG_RESERVED_BLOCKS
    Credits,      \* what a handle asks for
    TagsPerBlock, \* buffers that one descriptor block takes
    MaxTid, MaxCrashes, \* bounds
    None

Blocks == Owner \cup Others

JournalAssumption ==
    /\ {LogLen, MaxBuffers, Credits, TagsPerBlock, MaxTid} \subseteq Nat \ {0}
    /\ {Reserved, MaxCrashes} \subseteq Nat /\ {OwnerFirst, Restarts} \subseteq BOOLEAN
    /\ Owner \cap Others = {} /\ Credits <= MaxBuffers
    /\ None \notin Values /\ Zeroed \notin Values \cup {None}
    /\ Magic \in Values \cup {None}

VARIABLES
    fs,      \* the disk: the blocks at home
    log, sb, \*           the log, s_start and s_sequence
    inflight,\* log blocks that have been submitted: position -> block
    buf,     \* the buffers of metadata: see Buf
    data,    \* the buffers of file data: contents and "clean", "dirty", "io"
    role,    \* what the file system uses a block for
    running, committing, \* t_tid of the two transactions, or 0
    phase,   \* where the commit is
    hs,      \* the handles: credits left, blocks it may modify, owner modified,
             \* the block that a truncate has forgotten and not yet freed
    outstanding, coutstanding, \* t_outstanding_credits of the two
    datalist, cdatalist, \* their t_sync_datalist
    freed, cfreed,       \* blocks that are in use in b_committed_data only
    revoke,  \* the revoke table
    cpl,     \* j_checkpoint_transactions: t_tid and t_log_start
    clogstart, \* t_log_start of the committing transaction
    j,       \* j_head, j_tail, j_free, j_tail_sequence, j_transaction_sequence, JFS_FLUSHED
    todo,    \* None, or what recovery has still to write: block -> contents
    stable, next, \* history: the file system after the last commit, after the current one
    crashes

logVars == <<log, sb, inflight>>
txVars  == <<running, committing, phase, outstanding, coutstanding, clogstart>>
fsVars  == <<role, datalist, cdatalist, freed, cfreed>>
vars == <<fs, logVars, buf, data, fsVars, txVars, hs, revoke, cpl, j, todo, stable, next, crashes>>

\* A buffer that is not in the cache, or clean and of no transaction.
CleanBuf(v) == [val |-> v, trans |-> 0, nxt |-> 0, list |-> "None", frozen |-> None, dirty |-> FALSE,
                jdirty |-> FALSE, cp |-> 0, locked |-> FALSE, rv |-> "unknown"]
NoHandle == [credits |-> -1, acc |-> {}, owned |-> FALSE, going |-> None]

\* What somebody may read in the file system: free blocks are not looked at.
Logical == [b \in Blocks |->
    CASE role[b] \in {"meta", "going"} -> <<"meta", buf[b].val>>
      [] role[b] = "data" -> <<"data", data[b].val>>
      [] OTHER -> <<"free", None>>]

Up == todo = None

\* journal_create has zeroed the log.
ZeroBlock == [type |-> "zero", seq |-> 0]

Init ==
    \E v \in Values \ {Magic} :
        /\ fs = [b \in Blocks |-> v]
        /\ buf = [b \in Blocks |-> CleanBuf(v)]
        /\ data = [b \in Blocks |-> [val |-> v, st |-> "clean"]]
        /\ role = [b \in Blocks |-> "meta"]
        /\ stable = [b \in Blocks |-> <<"meta", v>>] /\ next = stable
        /\ log = [p \in 1 .. LogLen |-> ZeroBlock]
        /\ sb = [start |-> 1, seq |-> 1]
        /\ inflight = <<>>
        /\ running = 0 /\ committing = 0 /\ phase = "none" /\ clogstart = 0
        /\ hs = [h \in Handles |-> NoHandle] /\ outstanding = 0 /\ coutstanding = 0
        /\ datalist = {} /\ cdatalist = {} /\ freed = {} /\ cfreed = {}
        /\ revoke = {} /\ cpl = <<>>
        /\ j = [head |-> 1, tail |-> 1, free |-> LogLen, tailseq |-> 1, seq |-> 1, flushed |-> FALSE]
        /\ todo = None /\ crashes = 0

-----------------------------------------------------------------------------
(***************************************************************************)
(* Recovery: what do_one_pass finds in a log, and what it writes.          *)
(***************************************************************************)

\* wrap, and journal_next_log_block at j_last.
Forward(p, n) == 1 + ((p - 1 + n) % LogLen)

\* One step of the walk over the log: the block at pos, if it is what is expected
\* there.  w.found are the control blocks met, with the position behind each.
WalkStep(lg, w) ==
    LET blk == lg[w.pos]
        n == IF blk.type = "desc" THEN Len(blk.tags) ELSE 0
    IN IF w.done \/ blk.type \in {"zero", "data"} \/ blk.seq # w.id
       THEN [w EXCEPT !.done = TRUE]
       ELSE [pos |-> Forward(w.pos, 1 + n), done |-> FALSE,
             id |-> IF blk.type = "commit" THEN w.id + 1 ELSE w.id,
             found |-> Append(w.found, [blk |-> blk, at |-> Forward(w.pos, 1)])]

Walk(lg, s) ==
    LET walk[k \in 0 .. LogLen + 1] ==
            IF k = 0 THEN [pos |-> s.start, id |-> s.seq, found |-> <<>>, done |-> FALSE]
            ELSE WalkStep(lg, walk[k - 1])
    IN walk[LogLen + 1]

\* journal_test_revoke, after the pass over the revoke blocks of the committed
\* transactions.
Revoked(w, b, id) ==
    \E i \in DOMAIN w.found :
        LET blk == w.found[i].blk IN
        blk.type = "revoke" /\ blk.seq < w.id /\ blk.seq >= id /\ b \in blk.blks

\* What is taken from a log block.  The first word of an escaped block is put back
\* into the descriptor block instead of the block itself.
Unescaped(val, escaped) == val

\* The third pass: what the tags of the committed transactions leave in each block,
\* taken in the order of the log.
Replay(lg, w) ==
    LET tags == {<<i, k>> \in (DOMAIN w.found) \X (1 .. TagsPerBlock) :
                    LET blk == w.found[i].blk IN
                    /\ blk.type = "desc" /\ blk.seq < w.id /\ k \in DOMAIN blk.tags
                    /\ ~Revoked(w, blk.tags[k].blk, blk.seq)}
        For(b) == {t \in tags : w.found[t[1]].blk.tags[t[2]].blk = b}
        Latest(ts) == CHOOSE t \in ts : \A u \in ts : u[1] < t[1] \/ (u[1] = t[1] /\ u[2] <= t[2])
        Contents(t) == LET e == w.found[t[1]] IN
                       Unescaped(lg[Forward(e.at, t[2] - 1)].val, e.blk.tags[t[2]].escape)
    IN [b \in Blocks |-> IF For(b) = {} THEN None ELSE Contents(Latest(For(b)))]

\* journal_recover: the blocks to be written, and the sequence number to go on with.
Recover(lg, s) ==
    IF s.start = 0
    THEN [writes |-> [b \in Blocks |-> None], end |-> s.seq, seq |-> s.seq + 1]
    ELSE LET w == Walk(lg, s) IN [writes |-> Replay(lg, w), end |-> w.id, seq |-> w.id + 1]

-----------------------------------------------------------------------------
(***************************************************************************)
(* Buffers.                                                                *)
(***************************************************************************)
\* __journal_file_buffer: a buffer of a transaction is not for bdflush.
File(e, tid, list) ==
    IF e.trans = tid /\ e.list = list THEN e
    ELSE [e EXCEPT !.trans = tid, !.list = list, !.jdirty = @ \/ e.dirty, !.dirty = FALSE]

\* __journal_unfile_buffer, and off the transaction.
Unfile(e) == [e EXCEPT !.trans = 0, !.list = "None", !.dirty = @ \/ e.jdirty, !.jdirty = FALSE]

\* __journal_refile_buffer
Refile(e) ==
    IF e.nxt = 0 THEN Unfile(e)
    ELSE [e EXCEPT !.trans = e.nxt, !.nxt = 0, !.list = "Metadata"]

\* journal_cancel_revoke: the record goes if there is one, and the bit says so or is
\* not known.
CancelRevoke(b) == IF buf[b].rv = "no" THEN revoke ELSE revoke \ {b}

\* __journal_drop_transaction: the checkpoint list without the transactions that have
\* no buffer left.
Dropped(bf) == SelectSeq(cpl, LAMBDA t : \E b \in Blocks : bf[b].cp = t.tid)

\* __try_to_free_cp_buf
CpDone(e) == e.cp # 0 /\ e.list = "None" /\ ~e.locked /\ ~e.dirty

-----------------------------------------------------------------------------
(***************************************************************************)
(* Handles.                                                                *)
(***************************************************************************)
In(h) == hs[h].credits >= 0
Updates == {h \in Handles : In(h)}

SpaceLeft ==
    LET left == j.free - Reserved IN IF left <= 0 THEN 0 ELSE left - left \div 8

\* Mutant: the transaction that is being committed needs no more space.
NeededNow == MaxBuffers

\* What has to be free in the log before a handle may start.
Needed == MaxBuffers + (IF committing # 0 THEN coutstanding ELSE 0)

\* start_this_handle finds the log too full, and has made a transaction before.
StartStalls(h) ==
    /\ Up /\ ~In(h) /\ running = 0 /\ j.seq <= MaxTid
    /\ SpaceLeft < Needed
    /\ running' = j.seq /\ j' = [j EXCEPT !.seq = @ + 1]
    /\ UNCHANGED <<fs, logVars, buf, data, fsVars, committing, phase, outstanding, coutstanding,
                   clogstart, hs, revoke, cpl, todo, stable, next, crashes>>

\* start_this_handle, once nothing keeps it waiting.
Start(h) ==
    /\ Up /\ ~In(h)
    /\ phase # "locked"
    /\ running = 0 => j.seq <= MaxTid
    /\ outstanding + Credits <= MaxBuffers
    /\ SpaceLeft >= Needed
    /\ IF running = 0
       THEN running' = j.seq /\ j' = [j EXCEPT !.seq = @ + 1]
       ELSE UNCHANGED <<running, j>>
    /\ outstanding' = outstanding + Credits
    /\ hs' = [hs EXCEPT ![h].credits = Credits]
    /\ UNCHANGED <<fs, logVars, buf, data, fsVars, committing, phase, coutstanding, clogstart,
                   revoke, cpl, todo, stable, next, crashes>>

\* do_get_write_access waits for a buffer under I/O, and for one whose only copy is
\* on its way to the log.
MayModify(e) ==
    ~e.locked /\ ~(e.trans \notin {0, running} /\ e.list = "Shadow" /\ e.frozen = None)

\* Mutant: no copy for the transaction that is being committed.
AccessedNoCopy(e) ==
    IF e.trans = 0 THEN File(e, running, "Reserved")
    ELSE IF e.trans = running THEN e
    ELSE [e EXCEPT !.nxt = running]

\* do_get_write_access: what becomes of the buffer.
Accessed(e) ==
    IF e.trans = 0 THEN File(e, running, "Reserved")
    ELSE IF e.trans = running \/ e.nxt = running THEN e
    ELSE [e EXCEPT !.nxt = running,
                   !.frozen = IF @ = None /\ e.list # "Forget" THEN e.val ELSE @]

\* Owners come first, where the file system does it so.
Ordered(h, b) == b \in Others /\ OwnerFirst => hs[h].owned

GrantAccess(h, b) ==
    LET costs == running \notin {buf[b].trans, buf[b].nxt} IN
    /\ MayModify(buf[b])
    /\ costs => hs[h].credits > 0
    /\ buf' = [buf EXCEPT ![b] = [Accessed(@) EXCEPT !.rv = "no"]]
    /\ revoke' = CancelRevoke(b)
    /\ hs' = [hs EXCEPT ![h].acc = @ \cup {b}, ![h].credits = IF costs THEN @ - 1 ELSE @]

GetWriteAccess(h, b) ==
    /\ Up /\ In(h) /\ role[b] = "meta" /\ b \notin hs[h].acc /\ Ordered(h, b)
    /\ GrantAccess(h, b)
    /\ UNCHANGED <<fs, logVars, data, fsVars, txVars, cpl, j, todo, stable, next, crashes>>

\* The handle modifies the buffer and calls journal_dirty_metadata.
DirtyMetadata(h, b) ==
    /\ Up /\ In(h) /\ b \in hs[h].acc
    /\ \E v \in Values \ {buf[b].val} :
        buf' = [buf EXCEPT ![b] = [(IF @.trans = running THEN File(@, running, "Metadata") ELSE @)
                                      EXCEPT !.val = v, !.jdirty = TRUE]]
    /\ hs' = [hs EXCEPT ![h].acc = @ \ {b}, ![h].owned = @ \/ b \in Owner]
    /\ UNCHANGED <<fs, logVars, data, fsVars, txVars, revoke, cpl, j, todo, stable, next, crashes>>

\* journal_forget
Forgotten(e) ==
    IF e.trans = running
    THEN LET f == [e EXCEPT !.dirty = FALSE, !.jdirty = FALSE, !.list = "None", !.trans = 0]
         IN IF e.cp # 0 THEN File(f, running, "Forget") ELSE f
    ELSE [e EXCEPT !.nxt = 0]

RevokeRecord(b) == revoke \cup {b}

\* ext3_forget of metadata: journal_revoke, with journal_forget.
Forget(h, b) ==
    /\ Up /\ In(h) /\ b \in Others /\ role[b] = "meta" /\ Ordered(h, b)
    /\ \A g \in Handles : b \notin hs[g].acc
    /\ buf' = [buf EXCEPT ![b] = [Forgotten(@) EXCEPT !.rv = "yes"]]
    /\ revoke' = RevokeRecord(b)

\* ext3_free_branches for an indirect block: the block is forgotten, and free in the
\* bitmap.
Revoke(h, b) ==
    /\ Forget(h, b)
    /\ role' = [role EXCEPT ![b] = "free"]
    /\ freed' = freed \cup {b}
    /\ UNCHANGED <<fs, logVars, data, datalist, cdatalist, cfreed, txVars, hs, cpl, j, todo,
                   stable, next, crashes>>

\* The same if the handle cannot be extended in between: journal_restart lets the
\* transaction go, and waits for the next one.
RevokeRestarts(h, b) ==
    /\ Restarts /\ Forget(h, b) /\ hs[h].acc = {}
    /\ role' = [role EXCEPT ![b] = "going"]
    /\ outstanding' = outstanding - hs[h].credits
    /\ hs' = [hs EXCEPT ![h] = [NoHandle EXCEPT !.going = b]]
    /\ UNCHANGED <<fs, logVars, data, datalist, cdatalist, freed, cfreed, running, committing, phase,
                   coutstanding, clogstart, cpl, j, todo, stable, next, crashes>>

\* ext3_free_blocks after the restart.
FreeBlock(h, b) ==
    /\ Up /\ In(h) /\ hs[h].going = b
    /\ role' = [role EXCEPT ![b] = "free"]
    /\ freed' = freed \cup {b}
    /\ hs' = [hs EXCEPT ![h].going = None]
    /\ UNCHANGED <<fs, logVars, buf, data, datalist, cdatalist, cfreed, txVars, revoke, cpl, j, todo,
                   stable, next, crashes>>

\* ext3_test_allocatable: free in the bitmap and in the committed copy of it.
Allocatable(b) == role[b] = "free" /\ b \notin freed \cup cfreed

\* A block is taken for metadata: journal_get_create_access.
CreateAccess(h, b) ==
    /\ Up /\ In(h) /\ b \in Others /\ Allocatable(b) /\ Ordered(h, b)
    /\ GrantAccess(h, b)
    /\ role' = [role EXCEPT ![b] = "meta"]
    /\ UNCHANGED <<fs, logVars, data, datalist, cdatalist, freed, cfreed, txVars, cpl, j, todo,
                   stable, next, crashes>>

\* A block is taken for data: unmap_underlying_metadata, the data is written into
\* the page and journal_dirty_data called.
AllocData(h, b) ==
    /\ Up /\ In(h) /\ b \in Others /\ Allocatable(b) /\ Ordered(h, b)
    /\ ~buf[b].locked
    /\ buf' = [buf EXCEPT ![b].dirty = FALSE]
    /\ \E v \in Values : data' = [data EXCEPT ![b] = [val |-> v, st |-> "dirty"]]
    /\ role' = [role EXCEPT ![b] = "data"]
    /\ datalist' = datalist \cup {b}
    /\ UNCHANGED <<fs, logVars, cdatalist, freed, cfreed, txVars, hs, revoke, cpl, j, todo,
                   stable, next, crashes>>

\* A block of data is freed: journal_unmap_buffer leaves a buffer alone that the
\* transaction being committed has still to write.
FreeData(h, b) ==
    /\ Up /\ In(h) /\ b \in Others /\ role[b] = "data" /\ data[b].st # "io" /\ Ordered(h, b)
    /\ data' = IF b \in cdatalist THEN data ELSE [data EXCEPT ![b].st = "clean"]
    /\ datalist' = datalist \ {b}
    /\ role' = [role EXCEPT ![b] = "free"]
    /\ freed' = freed \cup {b}
    /\ UNCHANGED <<fs, logVars, buf, cdatalist, cfreed, txVars, hs, revoke, cpl, j, todo, stable,
                   next, crashes>>

\* journal_stop
Stop(h) ==
    /\ Up /\ In(h) /\ hs[h].acc = {} /\ hs[h].going = None
    /\ outstanding' = outstanding - hs[h].credits
    /\ hs' = [hs EXCEPT ![h] = NoHandle]
    /\ UNCHANGED <<fs, logVars, buf, data, fsVars, running, committing, phase, coutstanding,
                   clogstart, revoke, cpl, j, todo, stable, next, crashes>>

-----------------------------------------------------------------------------
(***************************************************************************)
(* journal_commit_transaction.                                             *)
(***************************************************************************)
\* The buffers of the committing transaction on one of its lists.
On(list) == {b \in Blocks : buf[b].trans = committing /\ buf[b].list = list}

\* Log blocks at the head: journal_next_log_block for each.
Submit(blks) ==
    inflight @@ [p \in {Forward(j.head, i - 1) : i \in DOMAIN blks} |->
                    blks[CHOOSE i \in DOMAIN blks : Forward(j.head, i - 1) = p]]
Head1(n) == [j EXCEPT !.head = Forward(@, n), !.free = @ - n]

\* What reaches the disk: the contents of a buffer that is written without a copy
\* are those it has then.
Landed(blk) == IF blk.type = "data" /\ blk.val = None THEN [blk EXCEPT !.val = buf[blk.blk].val] ELSE blk
WithLanded(ps) == [p \in 1 .. LogLen |-> IF p \in ps THEN Landed(inflight[p]) ELSE log[p]]
Waited(ps) == /\ log' = WithLanded(ps)
              /\ inflight' = [p \in DOMAIN inflight \ ps |-> inflight[p]]

\* kjournald has been asked, or the transaction is old enough: t_state is T_LOCKED.
CommitLock ==
    /\ Up /\ running # 0 /\ phase = "none"
    /\ phase' = "locked"
    /\ UNCHANGED <<fs, logVars, buf, data, fsVars, running, committing, outstanding, coutstanding,
                   clogstart, hs, revoke, cpl, j, todo, stable, next, crashes>>

\* What a commit has to tell the superblock after journal_flush.
Unflushed == IF j.flushed THEN [start |-> j.tail, seq |-> j.tailseq] ELSE sb

\* All handles are done: the superblock, the reserved buffers, the clean checkpoint
\* buffers, the revoke records; then the next transaction may start.
CommitFlush ==
    LET unreserved == [b \in Blocks |-> IF buf[b].trans = running /\ buf[b].list = "Reserved"
                                        THEN Refile(buf[b]) ELSE buf[b]]
        cleaned == [b \in Blocks |-> IF CpDone(unreserved[b]) THEN [unreserved[b] EXCEPT !.cp = 0]
                                     ELSE unreserved[b]]
        records == IF revoke = {} THEN <<>>
                   ELSE <<[type |-> "revoke", seq |-> running, blks |-> revoke]>>
    IN
    /\ Up /\ phase = "locked" /\ Updates = {}
    /\ sb' = Unflushed
    /\ buf' = cleaned /\ cpl' = Dropped(cleaned)
    /\ inflight' = Submit(records) /\ revoke' = {}
    /\ j' = [Head1(Len(records)) EXCEPT !.flushed = FALSE]
    /\ clogstart' = j'.head
    /\ phase' = "flush"
    /\ committing' = running /\ running' = 0
    /\ coutstanding' = outstanding /\ outstanding' = 0
    /\ cdatalist' = datalist /\ datalist' = {}
    /\ cfreed' = freed /\ freed' = {}
    /\ next' = Logical
    /\ UNCHANGED <<fs, log, data, role, hs, todo, stable, crashes>>

\* The data of the transaction is on the disk.
DataWritten == \A b \in cdatalist : data[b].st = "clean"

CommitData ==
    /\ Up /\ phase = "flush" /\ DataWritten
    /\ phase' = "meta" /\ cdatalist' = {}
    /\ UNCHANGED <<fs, logVars, buf, data, role, datalist, freed, cfreed, running, committing,
                   outstanding, coutstanding, clogstart, hs, revoke, cpl, j, todo, stable, next, crashes>>

\* journal_write_metadata_buffer: the frozen copy if there is one, a copy if the
\* number has to be escaped, or else the buffer itself.
LogBlock(b) ==
    LET e == buf[b]
        source == IF e.frozen # None THEN e.frozen ELSE e.val
    IN [type |-> "data", seq |-> 0, blk |-> b,
        val |-> IF source = Magic THEN Zeroed ELSE e.frozen]
Escape(b) == LET e == buf[b] IN (IF e.frozen # None THEN e.frozen ELSE e.val) = Magic

\* One descriptor block and the buffers it describes.
CommitBatch ==
    /\ Up /\ phase = "meta"
    /\ \E n \in {Min({TagsPerBlock, Cardinality(On("Metadata"))})} :
       \E batch \in kSubset(n, On("Metadata")) :
        LET order == SetToSeq(batch)
            tags == [i \in DOMAIN order |-> [blk |-> order[i], escape |-> Escape(order[i])]]
            desc == [type |-> "desc", seq |-> committing, tags |-> tags]
        IN
        /\ n > 0
        /\ inflight' = Submit(<<desc>> \o [i \in DOMAIN order |-> LogBlock(order[i])])
        /\ j' = Head1(1 + n)
        /\ buf' = [b \in Blocks |->
                      IF b \in batch
                      THEN [buf[b] EXCEPT !.list = "Shadow", !.frozen = IF Escape(b) THEN Zeroed ELSE @]
                      ELSE buf[b]]
    /\ UNCHANGED <<fs, log, sb, data, fsVars, txVars, hs, revoke, cpl, todo, stable, next, crashes>>

\* The write of a buffer to the log has ended, all of them having been submitted.
CommitIobuf(b) ==
    /\ Up /\ phase = "meta" /\ On("Metadata") = {}
    /\ b \in On("Shadow")
    /\ Waited({p \in DOMAIN inflight : inflight[p].type = "data" /\ inflight[p].blk = b})
    /\ buf' = [buf EXCEPT ![b].list = "Forget"]
    /\ UNCHANGED <<fs, sb, data, fsVars, txVars, hs, revoke, cpl, j, todo, stable, next, crashes>>

\* Descriptors and revoke blocks have been written.
CommitCtl ==
    /\ Up /\ phase = "meta" /\ On("Metadata") \cup On("Shadow") = {}
    /\ Waited(DOMAIN inflight)
    /\ phase' = "ctl"
    /\ UNCHANGED <<fs, sb, buf, data, fsVars, running, committing, outstanding, coutstanding,
                   clogstart, hs, revoke, cpl, j, todo, stable, next, crashes>>

CommitRecord ==
    /\ Up /\ phase = "ctl"
    /\ inflight' = Submit(<<[type |-> "commit", seq |-> committing]>>)
    /\ j' = Head1(1)
    /\ phase' = "record"
    /\ UNCHANGED <<fs, log, sb, buf, data, fsVars, running, committing, outstanding, coutstanding,
                   clogstart, hs, revoke, cpl, todo, stable, next, crashes>>

\* Phase 7 for one buffer of the forget list: a new checkpoint in the place of the
\* old one if there is anything to write.
Committed(e) ==
    LET f == [e EXCEPT !.frozen = None, !.cp = IF e.jdirty THEN committing ELSE 0]
    IN IF e.jdirty THEN Refile(f) ELSE [f EXCEPT !.trans = 0, !.list = "None"]

\* The commit block has been written: the buffers go back to write-back or on to the
\* next transaction, and older transactions lose what this one supersedes.
CommitDone ==
    LET bf == [b \in Blocks |-> IF b \in On("Forget") THEN Committed(buf[b]) ELSE buf[b]]
        mine == [tid |-> committing, start |-> clogstart]
    IN
    /\ Up /\ phase = "record"
    /\ Waited(DOMAIN inflight)
    /\ buf' = bf
    /\ cpl' = Dropped(bf) \o (IF \E b \in Blocks : bf[b].cp = committing THEN <<mine>> ELSE <<>>)
    /\ committing' = 0 /\ coutstanding' = 0 /\ phase' = "none" /\ clogstart' = 0
    /\ cfreed' = {}
    /\ stable' = next
    /\ UNCHANGED <<fs, sb, data, role, datalist, cdatalist, freed, running, outstanding, hs, revoke,
                   j, todo, next, crashes>>

-----------------------------------------------------------------------------
(***************************************************************************)
(* Write-back and checkpoints.                                             *)
(***************************************************************************)
\* bdflush or log_do_checkpoint writes a dirty buffer.
WriteBack(b) ==
    /\ Up /\ buf[b].dirty /\ ~buf[b].locked
    /\ buf' = [buf EXCEPT ![b].dirty = FALSE, ![b].locked = TRUE]
    /\ UNCHANGED <<fs, logVars, data, fsVars, txVars, hs, revoke, cpl, j, todo, stable, next, crashes>>

WriteBackDone(b) ==
    /\ Up /\ buf[b].locked
    /\ buf' = [buf EXCEPT ![b].locked = FALSE]
    /\ fs' = [fs EXCEPT ![b] = buf[b].val]
    /\ UNCHANGED <<logVars, data, fsVars, txVars, hs, revoke, cpl, j, todo, stable, next, crashes>>

\* The same for data: the commit, or bdflush before it.
WriteData(b) ==
    /\ Up /\ data[b].st = "dirty"
    /\ data' = [data EXCEPT ![b].st = "io"]
    /\ UNCHANGED <<fs, logVars, buf, fsVars, txVars, hs, revoke, cpl, j, todo, stable, next, crashes>>

WriteDataDone(b) ==
    /\ Up /\ data[b].st = "io"
    /\ data' = [data EXCEPT ![b].st = "clean"]
    /\ fs' = [fs EXCEPT ![b] = data[b].val]
    /\ UNCHANGED <<logVars, buf, fsVars, txVars, hs, revoke, cpl, j, todo, stable, next, crashes>>

\* log_do_checkpoint takes a buffer off its transaction, and the last one the
\* transaction off the journal.
CleanCheckpoint(b) ==
    LET bf == [buf EXCEPT ![b].cp = 0] IN
    /\ Up /\ CpDone(buf[b])
    /\ buf' = bf /\ cpl' = Dropped(bf)
    /\ UNCHANGED <<fs, logVars, data, fsVars, txVars, hs, revoke, j, todo, stable, next, crashes>>

\* The oldest transaction that is needed, and where it starts.
Oldest ==
    IF cpl # <<>> THEN Head(cpl)
    ELSE IF committing # 0 THEN [tid |-> committing, start |-> clogstart]
    ELSE [tid |-> IF running # 0 THEN running ELSE j.seq, start |-> j.head]

\* cleanup_journal_tail, with the superblock.
CleanTail ==
    LET o == Oldest IN
    /\ Up /\ j.tailseq # o.tid
    /\ j' = [j EXCEPT !.free = @ + ((o.start - j.tail) % LogLen), !.tail = o.start, !.tailseq = o.tid,
                      !.flushed = FALSE]
    /\ sb' = [start |-> o.start, seq |-> o.tid]
    /\ UNCHANGED <<fs, log, inflight, buf, data, fsVars, txVars, hs, revoke, cpl, todo, stable, next,
                   crashes>>

\* journal_flush at its end, behind the barrier of journal_lock_updates.
Flush ==
    /\ Up /\ running = 0 /\ committing = 0 /\ cpl = <<>> /\ ~j.flushed /\ j.tailseq = j.seq
    /\ sb' = [start |-> 0, seq |-> j.tailseq]
    /\ j' = [j EXCEPT !.flushed = TRUE]
    /\ UNCHANGED <<fs, log, inflight, buf, data, fsVars, txVars, hs, revoke, cpl, todo, stable, next,
                   crashes>>

\* A clean buffer leaves the cache, and its cached revoke status with it.
Evict(b) ==
    /\ Up /\ buf[b] = [CleanBuf(buf[b].val) EXCEPT !.rv = buf[b].rv] /\ buf[b].rv # "unknown"
    /\ \A h \in Handles : b \notin hs[h].acc
    /\ buf' = [buf EXCEPT ![b] = CleanBuf(fs[b])]
    /\ UNCHANGED <<fs, logVars, data, fsVars, txVars, hs, revoke, cpl, j, todo, stable, next, crashes>>

-----------------------------------------------------------------------------
(***************************************************************************)
(* A crash, and the next mount.                                            *)
(***************************************************************************)
\* The writes to home blocks that have been submitted.
HomeWrites == {b \in Blocks : buf[b].locked \/ data[b].st = "io"}
HomeAfter(bs) == [b \in Blocks |-> IF b \notin bs THEN fs[b]
                                   ELSE IF buf[b].locked THEN buf[b].val ELSE data[b].val]

\* The memory is lost.  What the next mount will write is already determined.
Crash ==
    /\ crashes < MaxCrashes
    /\ \E ps \in SUBSET DOMAIN inflight, bs \in SUBSET HomeWrites :
        LET r == Recover(WithLanded(ps), sb) IN
        /\ log' = WithLanded(ps) /\ fs' = HomeAfter(bs)
        /\ todo' = r.writes
        /\ stable' = IF committing # 0 /\ r.end > committing THEN next ELSE stable
        /\ j' = [j EXCEPT !.seq = r.seq]
    /\ inflight' = <<>>
    /\ role' = [b \in Blocks |-> stable'[b][1]]
    /\ data' = [b \in Blocks |-> [val |-> fs'[b], st |-> "clean"]]
    /\ buf' = [b \in Blocks |-> CleanBuf(fs'[b])]
    /\ next' = stable'
    /\ running' = 0 /\ committing' = 0 /\ phase' = "none" /\ clogstart' = 0
    /\ outstanding' = 0 /\ coutstanding' = 0 /\ hs' = [h \in Handles |-> NoHandle]
    /\ datalist' = {} /\ cdatalist' = {} /\ freed' = {} /\ cfreed' = {}
    /\ revoke' = {} /\ cpl' = <<>>
    /\ crashes' = crashes + 1
    /\ UNCHANGED sb

\* A block that recovery has copied gets written.
ReplayWrite(b) ==
    /\ ~Up /\ todo[b] # None
    /\ fs' = [fs EXCEPT ![b] = todo[b]]
    /\ todo' = [todo EXCEPT ![b] = None]
    /\ UNCHANGED <<logVars, buf, data, fsVars, txVars, hs, revoke, cpl, j, stable, next, crashes>>

\* fsync_no_super has returned.
Replayed == \A b \in Blocks : todo[b] = None

\* journal_reset: the log starts afresh, with a sequence number that is not in it.
Mounted ==
    /\ ~Up /\ Replayed
    /\ todo' = None
    /\ j' = [head |-> 1, tail |-> 1, free |-> LogLen, tailseq |-> j.seq, seq |-> j.seq, flushed |-> FALSE]
    /\ sb' = [start |-> 1, seq |-> j.seq]
    /\ buf' = [b \in Blocks |-> CleanBuf(fs[b])]
    /\ data' = [b \in Blocks |-> [val |-> fs[b], st |-> "clean"]]
    /\ UNCHANGED <<fs, log, inflight, fsVars, txVars, hs, revoke, cpl, stable, next, crashes>>

-----------------------------------------------------------------------------
HandleStep(h) ==
    \/ StartStalls(h) \/ Start(h) \/ Stop(h)
    \/ \E b \in Blocks :
        \/ GetWriteAccess(h, b) \/ DirtyMetadata(h, b) \/ CreateAccess(h, b)
        \/ Revoke(h, b) \/ RevokeRestarts(h, b) \/ FreeBlock(h, b)
        \/ AllocData(h, b) \/ FreeData(h, b)

Commit ==
    \/ CommitLock \/ CommitFlush \/ CommitData \/ CommitBatch \/ CommitCtl \/ CommitRecord \/ CommitDone
    \/ \E b \in Blocks : CommitIobuf(b)

WriteBacks ==
    \E b \in Blocks : WriteBack(b) \/ WriteBackDone(b) \/ WriteData(b) \/ WriteDataDone(b)
                        \/ CleanCheckpoint(b) \/ Evict(b)

Next ==
    \/ \E h \in Handles : HandleStep(h)
    \/ Commit \/ WriteBacks \/ CleanTail \/ Flush
    \/ Crash \/ Mounted \/ \E b \in Blocks : ReplayWrite(b)

Spec == Init /\ [][Next]_vars

\* A handle does a finite number of things, kjournald's timer expires, log_wait_for_space
\* (or bdflush) writes what is dirty, and disks answer.
Fairness ==
    /\ \A h \in Handles : []<>~In(h)
    /\ WF_vars(Commit) /\ WF_vars(CleanTail)
    /\ \A b \in Blocks : /\ WF_vars(WriteBack(b)) /\ WF_vars(WriteBackDone(b)) /\ WF_vars(CleanCheckpoint(b))
                         /\ WF_vars(WriteData(b)) /\ WF_vars(WriteDataDone(b))

FairSpec == Spec /\ Fairness

-----------------------------------------------------------------------------
\* Every variable has its type.
TypeOK ==
    /\ DOMAIN fs = Blocks /\ DOMAIN log = 1 .. LogLen /\ DOMAIN inflight \subseteq 1 .. LogLen
    /\ \A b \in Blocks : buf[b].list \in {"None", "Reserved", "Metadata", "Shadow", "Forget"}
    /\ role \in [Blocks -> {"meta", "going", "data", "free"}]
    /\ running \in Nat /\ committing \in Nat
    /\ phase \in {"none", "locked", "flush", "meta", "ctl", "record"}
    /\ j.head \in 1 .. LogLen /\ j.tail \in 1 .. LogLen /\ j.free \in 0 .. LogLen
    /\ sb.start \in 0 .. LogLen
    /\ outstanding \in 0 .. MaxBuffers

\* What is on the disk after recovery, if the writes bs get there.
AfterCrash(r, bs) ==
    LET home == HomeAfter(bs) IN [b \in Blocks |-> IF r.writes[b] = None THEN home[b] ELSE r.writes[b]]

\* The disk holds the file system s.
Shows(disk, s) == \A b \in Blocks : s[b][1] = "free" \/ disk[b] = s[b][2]

\* "It is atomic": whenever the power fails, and whichever of the outstanding writes
\* have reached the disk, recovery leaves the file system as it was at the end
\* of the last transaction whose commit has ended, or of the one that is being
\* committed; also if it fails again during recovery.
Recoverable ==
    \A ps \in SUBSET DOMAIN inflight :
        LET r == Recover(WithLanded(ps), sb)
            expected == IF committing # 0 /\ r.end > committing THEN next ELSE stable
        IN \A bs \in SUBSET HomeWrites : Shows(AfterCrash(r, bs), expected)

\* The log never fills up during a commit, which could not wait for a checkpoint:
\* "the commit code assumes that it can get enough log space".
LogNotFull == j.free >= 1

\* log_wait_for_space gets what it waits for: commits, write-back and checkpoints do
\* not wait for each other, and none of them waits for a handle that is stalled.
SpaceReturns == SpaceLeft < Needed ~> SpaceLeft >= Needed

\* Assertions of the code: in journal_revoke, in journal_dirty_metadata and
\* journal_forget, and in the last phase of the commit.
Assertions ==
    \A b \in Blocks :
        /\ role[b] = "meta" => buf[b].rv # "yes"
        /\ running # 0 /\ buf[b].trans = running => buf[b].frozen = None
        /\ buf[b].trans = committing /\ buf[b].list = "Forget" /\ buf[b].nxt # 0 => buf[b].jdirty
=============================================================================
