# Formal models of the Linux 2.4.37 core (tinycc tree)

TLA+ specifications, TLC configurations and TLAPS proofs for the core of the
kernel in `linux-2.4.37/`: the 2.4.37 kernel with the O(1) scheduler and the
futex backport, patched so that tinycc compiles it. All paths below are relative
to `src/linux-2.4.37/` unless they name a file of this directory.

The tree has 12 868 files, most of them drivers, architectures, file systems and
protocols. What everything else stands on, and what is hardest to test, is small:
the code with which tasks, interrupts and CPUs wait for each other, hand things
to each other and survive a crash. It relies on lock-free counters, on structures
on other tasks' stacks, on the order in which a state is set and a condition is
read, on lists that are cut and merged while others sleep behind them, and on the
order of writes to a disk. That is what the project models.

## 1. Inventory

| Component | State | Operations | Interacts with |
|---|---|---|---|
| Read/write semaphores (`lib/rwsem.c`, `include/asm-i386/rwsem.h`) | `count` with an active and a waiting half, `wait_lock`, `wait_list` of waiters on their tasks' stacks | `down_read`, `down_write`, the two trylocks, `up_read`, `up_write` | task state, `wake_up_process`, reference count of the task structure |
| Counting semaphores (`arch/i386/kernel/semaphore.c`) | `count`, `sleepers`, the global `semaphore_lock`, a wait queue | `down`, `down_interruptible`, `down_trylock`, `up` | wait queues, signals |
| Wait queues (`include/linux/wait.h`, `__wake_up_common` in `kernel/sched.c`) | list of entries with a flag, a lock; the state of every task | add, remove, wake up one / all | scheduler; used by everything that sleeps |
| Softirqs, tasklets, bottom halves (`kernel/softirq.c`) | per CPU: pending mask, two lists, nesting counts, `ksoftirqd`; per tasklet: SCHED, RUN, disable count; `global_bh_lock` | raise, `do_softirq`, schedule, disable, enable, kill, `mark_bh`, `remove_bh` | `do_IRQ`, `local_bh_enable`, scheduler |
| Futexes and vcache (`kernel/futex.c`, `mm/vcache.c`) | queues of waiters by (page, offset), callbacks by (mm, address), pinned pages | FUTEX_WAIT, FUTEX_WAKE, the copy-on-write callback | page tables, faults, timers, signals |
| O(1) scheduler (`kernel/sched.c`) | run queues, `curr`, locks, counters, migration requests | `schedule`, `try_to_wake_up`, `load_balance`, `scheduler_tick`, `setscheduler`, `set_cpus_allowed` | all of the others |
| Completions (`kernel/sched.c`) | `done`, a wait queue | `complete`, `complete_all`, `wait_for_completion` | wait queues, stacks of waiters |
| Timers (`kernel/timer.c`) | five vectors of lists, `timer_jiffies`, the running timer | add, mod, del, del sync, run, `schedule_timeout` | bottom halves, scheduler |
| Task queues, keventd (`kernel/context.c`, `include/linux/tqueue.h`) | lists of `tq_struct`, the bit `sync` | queue, run, schedule, flush | bottom halves, page allocator |
| Fork, exit, wait (`kernel/fork.c`, `kernel/exit.c`, `fs/exec.c`, `kernel/ptrace.c`) | task list, thread groups, parents, real parents, tracers | fork, exit, group exit, exec, reparent, wait4, attach | signals, scheduler |
| Signals (`kernel/signal.c`) | pending sets per thread and group | send, dequeue, stop, notify the parent | every interruptible sleep |
| Pipes and FIFOs (`fs/pipe.c`, `fs/fifo.c`) | a ring of one page, counts of readers, writers and waiters | open, read, write, poll, close | semaphores, wait queues, user memory |
| System V IPC (`ipc/msg.c`, `ipc/sem.c`) | queues, sets, undo lists, slots that are reused | send, receive, semop, control, remove, exit | scheduler, signals |
| File locks (`fs/locks.c`) | one list of POSIX locks, flocks and leases of an inode, the sleepers behind each | lock, unlock, test for deadlock, break a lease, close | the big kernel lock, open, read, write |
| ext3 journal (`fs/jbd`) | transactions, buffers, the log, its superblock, revoke table | start, access, dirty, forget, stop, commit, checkpoint, recover | ext3, disk |
| Page allocator (`mm/page_alloc.c`) | free lists and bitmaps of a zone | allocate, split, free, merge, local pages | keventd, reclaim |
| VM, VFS, networking, i386 SMP, printk, drivers | | | see section 8 |

What is hard in each, and what makes it correct:

* *rwsem*: the fast paths never take the lock that protects the queue, so a grant
  is decided from a value of `count` that is already history. Writers exclude,
  `count` is the exact sum of what everyone put into it, nobody follows a waiter
  or a task that is gone, the front of the queue is not forgotten.
* *semaphore*: `count` is changed by lock-free attempts and corrected by three
  slow paths; one exclusive wakeup has to reach somebody who can use it.
* *softirq*: two bits and a counter per tasklet are shared by CPUs, interrupts and
  owners. A tasklet is on one list, runs once, never on two CPUs, never after
  `tasklet_disable` or `tasklet_kill` has returned; a pending softirq has
  somebody who will run it.
* *futex*: the waiter is found by a physical page, and the mapping changes under it.
* *scheduler*: two run queue locks are taken in address order and one is dropped
  meanwhile; what was read before is stale. A task runs once, is on the queue
  where it says it is, and for its callers all of this is one atomic step.
* *completions, timers, keventd*: what is on a stack must not be touched after its
  owner has returned; wrapping counters; a bit that stands for a place on a list.
* *exit*: father, leader, tracer and child die in any order, `wait4` drops the lock
  while it reports. Nobody is reaped twice, left behind, or waited for in vain.
* *pipes, IPC, file locks*: one side sleeps while the object is cut, removed or
  made again by the other.
* *journal*: the power fails with any part of the writes on disk.
* *buddy*: one toggling bit for two blocks.

The hazards, each at its line and with the properties that catch it, are listed
in `PROJECT.json`.

## 2. Modules

| Module | Models | Kind |
|---|---|---|
| `RwLock` | what a read/write semaphore promises: a first come, first served lock | abstract |
| `RwSem` | `lib/rwsem.c` and the fast paths | implements `RwLock` |
| `TaskSched` | what sleeping code sees of the scheduler: a state, and on a queue or not | abstract |
| `RunQueue` | run queues, locks, wakeups, balancing, migration (`kernel/sched.c`) | implements `TaskSched` |
| `LoadBalance` | the arithmetic of `find_busiest_queue` and `load_balance` | detailed |
| `WaitQueue` | wait queues on top of the steps of `TaskSched` | operators for its users |
| `Semaphore`, `Completion` | counting semaphores; completions | extend `WaitQueue` |
| `TaskletPromise` | the comment on tasklets in `include/linux/interrupt.h` | abstract |
| `Softirq` | `kernel/softirq.c`, the inline functions, the end of `do_IRQ` | implements `TaskletPromise` |
| `Timer` | `kernel/timer.c`: vectors, `del_timer_sync`, `schedule_timeout` | detailed |
| `Keventd` | task queues and `kernel/context.c` | detailed |
| `Futex` | `kernel/futex.c`, `mm/vcache.c`, the faults that move a page | detailed |
| `ExitWait` | fork, exit, exec, wait4, the linking of ptrace | detailed |
| `Buddy` | `mm/page_alloc.c` for one zone | detailed |
| `Pipe` | `fs/pipe.c`, `fs/fifo.c` | detailed |
| `MsgQueue`, `SysvSem` | `ipc/msg.c`; `ipc/sem.c` | detailed |
| `ByteLocks` | what POSIX locks promise, byte by byte | abstract |
| `PosixLock` | the list of ranges of `fs/locks.c` | implements `ByteLocks` |
| `FlockLease` | flocks and leases of `fs/locks.c` | detailed |
| `Journal` | `fs/jbd`, with the crash and the recovery | detailed |
| `ListFacts` | facts about lists that the proofs share | proofs |
| `RwSemProofs`, `SemaphoreProofs`, `SoftirqProofs`, `RunQueueProofs`, `FutexProofs`, `MsgQueueProofs`, `PosixLockProofs` | the theorems about these modules, section 5 | proofs |
| `MC...` | the above for TLC, see section 3 | models |

`PROJECT.json` maps every definition to the lines it stands for.

### Granularity

One action is one step that another CPU can observe: one atomic access to a
lock-free variable, one critical section of a spin lock, or one write that a
sleeping task or a waker reads without a lock. A critical section is split
when something inside it is visible to those that do not take the lock; then
the lock is a variable that names its holder. Under the big kernel lock
(`PosixLock`, `FlockLease`) what lies between two sleeps is one action, and under
`ipc_lock` and `sem_lock` one section. A variable `pc` says where every task or
CPU is. Code without such accesses is part of the neighbouring step.

### RwSem

`count` is an integer with the real biases (1 and -65536); the 16-bit active
half is `count % 65536`. `DownRead`, `DownWrite`, the trylocks, `UpRead`
and `UpWrite` are the inline assembler: one atomic add and the conditional jump
on the old or new value. `SetTaskState`, `Enqueue`, `Check` and `Schedule` are
`rwsem_down_failed_common`; `RwsemWake`, `DoWake`, `Undo`, `GrantWrite`,
`GrantRead`, `Tell`, `Wake` and `Unlock` are `rwsem_wake` and
`__rwsem_do_wake`. `waiter->task` is `waiting[t]`, the waker's local pointer is
`tsk`, and `usage` is the reference count of the task structure. `Exit` and
`Fork` let a task that does not use the semaphore disappear and its
structure be used again, which is what makes a stale pointer matter. The
assumption of fewer than 32768 tasks is the range of the halves of `count`; the
default limit of process numbers keeps to it (`include/linux/threads.h:22`).

### WaitQueue, Semaphore, Completion

`WaitQueue` keeps apart the *state* of a task and whether it is *on a run queue*
(`p->array`), because `try_to_wake_up` succeeds, and uses up an exclusive
wakeup, only for a task that was off it. The scan of `__wake_up_common` is one
step per entry under `q_lock`. `Semaphore` puts these operators into the slow
paths; `__down` and `__down_interruptible` differ in the sleeping state, the
signal test and the order of their last two steps, and both orders are there.
`Completion` keeps `done` as an unsigned integer of limited width, and the memory
of a completion on a stack goes away when its `Owner` returns. `posted`, `served` and
`alls` count the calls of `complete`, the waits that returned and the calls of
`complete_all`, of which there may be several.

### RunQueue, TaskSched, LoadBalance

`RunQueue` has per CPU `curr`, the queue and its length, and per task the state,
the CPU, the mask and `p->array`. `Schedule`, `PickNext`, `PickIdle` are
`schedule()`; `TryToWakeUp` is the loop of `try_to_wake_up`, whose synchronous
variant (`WakeUpSync`) moves a sleeper and drops the lock; `DoubleLockBalance`,
`LockBusiest`, `Relock` and `Pull` are `load_balance`, one action per lock;
`SetCpusAllowed` and `Mt...` are the migration threads. Any queued task may be
picked, except that a migration thread is first: this covers every priority.
`TaskSched` is what `WaitQueue` assumes; that `RunQueue` implements it justifies
the single-step scheduler of every other module. `LoadBalance` keeps the numbers
that `RunQueue` leaves out: in `double_lock_balance` the length that was found
stays in use when the trylock succeeds, and is taken again only after `Drop`, when
this queue's lock had to be given up.

### Softirq, Timer, Keventd

In `Softirq` a CPU is in a hard interrupt (`irq`), in `do_softirq` (`pc`), in a
BH-disabled section (`bh`), in `ksoftirqd` (`kpc`) or in another task. Each access
to the bits and the count of a tasklet is one action; `tasklet_schedule` is split
between setting SCHED and putting the tasklet on the list (`pushing`). The owner
of a tasklet disables, enables and kills it, and afterwards initialises it again;
a killed tasklet is not scheduled until then, which is the duty of its owner.
`hardirq_trylock` in `bh_action` may fail at any time.

`Timer` has the vectors with their real indexing, with fewer bits; `jiffies` and
`expires` wrap at exactly the bits the vectors cover. `run_timer_list` keeps the
lock over `Cascade` and gives it up around each function. In `Keventd` a user
leaves an item where the routine finds it and calls `schedule_task`, which sets
`sync` and takes the lock in two steps; `flush_scheduled_tasks` queues the one
shared `Dummy` twice.

### Futex

One word at one private user address. `pte`, `present` and `cow` describe its
mapping in every address space, `word` the contents of the page frames. The waker
stores 1, which may take a copy-on-write fault (`WpReuse`, `WpCopy`,
`InvalidateVcache`, `EstablishPte`, `WpRace`), and calls `futex_wake`.
`futex_lock` is always taken under `vcache_lock`, so one variable stands for both.
`Swapping` and `Unmapping` are the address spaces from which `mm/` may take the
page away. The callbacks of one invalidation move all its waiters behind the new
page's others; the hash chain gives them in any order.
A page that somebody has pinned is never freed.

### ExitWait

What `tasklist_lock` protects is one step. Between the steps are the places
where the code has let go of it: `wait4` while it reports a child (`report`,
`release`), `do_exit` before the task is off its CPU, `de_thread` while the others
die, `ptrace_attach` between its two locks. `bug` records failed assertions; the
system stops then. `wait4` waits for any child, with `__WALL`. `Fork` is the part of
`copy_process` under the lock; with CLONE_PTRACE (`inherit`) the child is linked to
the parent of the caller. The flag is copied earlier, with the task structure
(`kernel/fork.c:687`); the model reads it under the lock.

### Pipe, MsgQueue, SysvSem

`Pipe` holds `i_sem` over the copies to and from user space, which are steps
of their own since each may fail. Bytes are numbered by writer and write, so that
the stream can be compared. `MsgQueue` and `SysvSem` have a slot whose queue or
set may be removed and made again (`seq`) under a sleeper; `MsgQueue` splits the
hand-over of a message (`snd_pipe`, `snd_wake`), and `SysvSem` keeps `semadj` as a
wrapping short. `base`, `applied` and `honest` are history. In `MsgQueue` a search
of a list is a set of positions (`Matches`, `Found`) of which the code takes the
first, and `list_del` is `Unlinked`; `id` is the identifier with which a call
started and `target` the receiver that `pipelined_send` has found.

### PosixLock, ByteLocks, FlockLease

`PosixLock` translates the loop of `posix_lock_file` that cuts and merges ranges,
the deadlock search, the sleeps, the race of `fcntl` with `close`, and
`locks_mandatory_area`. The search of `posix_locks_deadlock` is stated as what it
finds: p is met if it is in every set of processes that has the owner of the lock
and, with a process, the one that process is blocked by. Each process has one thread that locks and possibly
another one that closes the file, opens another one in its place, or puts the first
one back with `dup2`. `l_type` is the caller's copy of the type, `flock.l_type`, which
the undo in `Recheck` leaves alone, so that it is repeated for as long as the
descriptor does not refer to the file. Seen byte by byte (`Held`) it implements
`ByteLocks`. `FlockLease` has flocks and leases in the same list, the `yield` in
`locks_wake_up_blocks`, lease breaking with its timeout, and files that tasks
share after fork. Leases are not asked for while an open waits, which the code
has a FIXME for (`fs/locks.c:1285`), unless `Renews` says so.

### Journal

Handles modify, free and reuse blocks; `Commit...` are the phases of
`journal_commit_transaction`; checkpoint and write-back run meanwhile. A write is
submitted by one action and waited for in another. `Crash` lets any subset of
the writes that nobody has waited for reach the disk, and recovery, which may
crash as well, replays the log. `OwnerFirst` is an assumption on ext3: a handle
touches a block that comes and goes only after the block that refers to it.

### Buddy

A block is an order and a number. One step is one turn of the loops of
`__free_pages_ok` and `expand` under `zone->lock`. `deferred` and `drain` are the
pages that interrupts free through keventd, `local` the block that a process
keeps for itself while it shrinks the caches.

## 3. Runs

A module whose name begins with `MC` may hold several *setups*: instances of
one or more specifications with their constants, over variables of their own. The
variable `setup` is chosen in the initial state and never changes; only the
specification it names takes steps, the others rest in their initial
state. The state space is the sum of the setups, not the product, and an
invariant says for each setup what has to hold. The comment at the head of the
module lists the setups.

| Run | Setups and sizes | Shows |
|---|---|---|
| `rwsem` | 4 tasks | `MutualExclusion`, `CountAccounting`, `WakeTargetAlive`, `NoUseAfterReturn`, `ImplementsRwLock` |
| `rwsem_lost_wakeup` | 3 tasks | **violation** of `NoLostWakeup`, section 4 |
| `semaphore` | 3 tasks, 1 permit, signals, fair | `AtMostPermits`, `CountBalance`, `NoLostWakeup`, `WaitersServed` |
| `softirq` | 2 CPUs; two bottom halves / a high and a normal tasklet / one tasklet with all operations of its owner | `OnePlace`, `RunsAsPromised` (nothing runs after it was disabled, bottom halves one at a time), `NoStrandedSoftirq`, `ImplementsPromise` |
| `futex` | 3 threads in 2 address spaces that share a page / 2 threads in one whose pages are swapped and unmapped; 3 frames | `WakeupsKept`, `NoUseAfterReturn`, `NoLostWakeupInCore` |
| `futex_swap` | the first with swap | **violation** of `NoLostWakeup`, section 4 |
| `scheduling` | 2 CPUs, 2 tasks, migration threads; completion static / on a stack; timer with 3 vectors / with a sleeper; keventd with one / two users | `RunsOnce`, `QueuesExact`, `NoLockCycle`, `ImplementsTaskSched`; `CompletionSound`; `TimersSound`, `NeverEarly`; `KeventdSound` |
| `progress` | one bottom half / 2 CPUs with up to 4 tasks / 2 openers and leases / 3 threads and init; fair | `ScheduledRuns`, `WorkSpreads`, `OpensEnd`, `ExecEnds` |
| `journal` | 3 transactions in a log of 12 / 2 handles, a crash in a log of 14 / restarted handles | `Recoverable`, `LogSuffices` |
| `ipc` | 3 tasks and 2 messages / one semaphore with undo / two semaphores / pipe / failing copies / FIFO opens | `OnePlace`, `SleepersSafe`; `SemsSound`; `PipeSound` |
| `files` | 2 processes, 3 bytes / with close / 3 processes in rings / mandatory locks / flock / after fork / leases | `ImplementsByteLocks`, `NoDeadlock`, `FileLocksSound` |
| `exit` | tracers / 5 tasks in families / exec / ignored SIGCHLD; a zone of 13 pages / 2 processes | `FamiliesLive`, `ChildrenReaped`; `BuddySound` |

Every property has a mutant in `PROJECT.json`: a plausible bug, defined next to
the definition it replaces, that makes TLC report the property.

### Bounds, and why they are enough

* Four tasks on a read/write semaphore allow a holder, a waker, a queued reader
  and a queued writer at the same time, and two readers granted together in front
  of a writer. Three on a mutex: one inside, one asleep, one that interferes.
* Two CPUs: every race of softirqs, run queues and balancing is between two CPUs
  or a CPU and its own interrupts. `MaxLoad` bounds `nr_uninterruptible`, which
  grows without bound (section 4). A tasklet's disable count goes to 1.
* Timers have 2 + 2 + 2 or 1 + 1 + 1 bits and lag by at most `MaxLag` ticks, so
  that all counters wrap within a run and both levels of cascading happen. The
  delays are at and beside every boundary of the vectors.
* `UINT_MAX` is 63 with up to `MaxPosts` = 5 calls: two `complete_all` with three
  `complete`, four with one, and the waits in between, so that `done` wraps and
  comes to 0 again (*completion_wrap* in section 4).
* `Journal`: three transactions let the log wrap and a checkpoint free
  space; `Reserved` = 6 is exactly what the estimate needs at this size (with 5
  the log overflows), as 32 is for real ones. `MaxCrashes` counts crashes during
  recovery beyond the one at which `Recoverable` looks in every state.
* `MaxSeq` = 2 lets a queue or set be removed and made again once. A queue of 2
  bytes is full with one message of size 2; the second message is in the
  hands of a sleeper. Messages of size 0 make the other limit matter.
* `PIPE_SIZE` = 2 with reads and writes of up to 3 bytes: the ring wraps, a write
  is longer than the page, and atomic ones have to wait for room. `MaxOpens` = 3.
* `OFFSET_MAX` = 3 gives all relations of two ranges that occur with three bytes,
  including a cut in the middle; the last byte is left out because of `posix_eof`
  (section 4). Three processes are needed for a ring through others.
* Five tasks: init, a waiter and three that form any family among them.
* `MAX_ORDER` = 4 and 13 pages: the zone ends within blocks of every order.
* Symmetry is used on tasks, pages or processes in safety runs, where all setups
  treat them alike, and never with liveness.
* `CHECK_DEADLOCK FALSE` stands where everybody may have exited or everything
  may be asleep: `ipc`, `exit`, and `scheduling`, where also the disagreement
  `runqueue_idle` of section 4 leaves a small machine without anything to do.

### Fairness

`semaphore` assumes that a task inside an operation takes its next step, that a
holder calls `up()`, and that new attempts stop at some time: the i386 spin locks
are not fair, and a task that calls `down_trylock` for ever can keep another from
`semaphore_lock`. In `progress`: a CPU goes on with what it has begun, `ksoftirqd`
is scheduled, and the owner of a tasklet continues, but no interrupt is assumed to
arrive, so a softirq that only the next interrupt would notice counts as lost;
each CPU keeps balancing, with strong fairness of the step that needs the other
lock, since spin locks are fought for again and again; the timer of a lease
expires, tasks that are awake run, and `OpensEnd` is about the case that new
leases are no longer asked for; threads that have been killed exit.

## 4. Disagreements between code and comments

Two have a run of their own, which ends in the trace.

**A lost wakeup in the undo path of rwsem** (`lib/rwsem.c:114`, run
`rwsem_lost_wakeup`). `__rwsem_do_wake` increments the active part of `count`; if
somebody was active it takes the increment back and should "check for a transition
1->0" (line 112). The code compares all of `count` with 0, but somebody is queued
whenever this code runs, so the retry never happens. If the last `up_write` comes
between the two updates, each side leaves the waking to the other.

**A lost wakeup of futexes under memory pressure** (`kernel/futex.c:201`, run
`futex_swap`). The copy-on-write callback moves a waiter to the new page, which
it has not pinned. The page can be swapped out and come back in another frame,
and nobody calls back, although `mm/vcache.c:4-7` promises a callback whenever the
mapping is invalidated. The next FUTEX_WAKE finds nobody.

The following were found with the same modules; the constants with which TLC
reproduces each are given, starting from a setup of section 3. The runs keep clear
of them by the choice of constants, or do not list the property for that setup,
so that everything else is checked.

* *runqueue_affinity* (`kernel/sched.c:2051`, `OnAllowedCpu`; `RunQueue`,
  `Movers` = {t1, t2}). migration_thread reads the destination from
  p->cpus_allowed without a lock, before it takes the two run queue locks, and
  does not look again; a set_cpus_allowed by another task in between finds the
  task on a CPU that its own new mask allows and returns, and then the task is
  moved to the CPU of the older mask. set_cpus_allowed says "Migrate the thread
  to a proper CPU and schedule it away if the CPU it's executing on is removed
  from the allowed bitmask" (kernel/sched.c:1953).
* *runqueue_idle* (`kernel/sched.c:425`, `NoIdleWithWork`; `RunQueue` as in
  `scheduling`). A synchronous wakeup activates the task without resched_task.
  That is meant for a task on the waker's own CPU, but the lock is dropped
  between the fast migration and the activation, and set_cpus_allowed may have
  moved the sleeper to an idle CPU, which is then not told. Documentation says
  "no CPU should stay idle if there is work to do"
  (Documentation/sched-design.txt:30).
* *runqueue_load* (`kernel/sched.c:1455`, `UninterruptibleCount`; `RunQueue`,
  `Movers` and `Syncers` empty). setscheduler takes a queued task off with
  deactivate_task, which increments nr_uninterruptible if the task has just set
  TASK_UNINTERRUPTIBLE, and puts it back with __activate_task, which does not
  decrement it. The comment says "current number of uninterruptible-sleeping
  threads" (kernel/sched.c:561); the load average stays one too high.
* *load_balance_half* (`kernel/sched.c:854`, `HalfTheImbalance`; `LoadBalance`,
  `Sticky`, `MaxArrivals` = 5). With an imbalance of 1 the line "*imbalance /=
  2" gives 0, and "!idle && --imbalance" in load_balance goes on from -1 until
  no task is left that may be moved. The comment says "We only want to steal a
  number of tasks equal to 1/2 the imbalance, otherwise we'll just shift the
  imbalance to the new queue" (kernel/sched.c:749).
* *completion_wrap* (`kernel/sched.c:1176`; `static`, with `alls # 0 => done # 0` as
  an invariant). complete_all adds UINT_MAX/2, which a second one brings to
  UINT_MAX - 1 only: two complete() more, before or after, and done is 0, and the
  next wait_for_completion sleeps on a completion that was to be open for good.
  `AllForGood` says that this is the only case: an even number of complete_all, and
  as many complete() that no wait has used. The one caller, fs/exec.c:1389, calls it
  once.
* *timer_fifo* (`kernel/timer.c:163`, `Fifo`; `vectors` with two timers and
  `Delays` = {1, 3, 4}). Of two timers with the same expires the one added later
  may run first: the earlier one is in a higher vector and is appended behind
  the later one when it is cascaded. The comment at the insertion says "Timers
  are FIFO!" (kernel/timer.c:163).
* *timer_edge* (`kernel/timer.c:149`, `NeverEarly`; `vectors` with a delay of
  `Wrap \div 2 - 2`). expires is computed from jiffies, but its distance is
  measured from timer_jiffies. With MAX_SCHEDULE_TIMEOUT - 1 and a bottom half
  two ticks behind, idx is 2^31 and more, taken for negative, and the timer runs
  at once. The comment of schedule_timeout says "at least @timeout jiffies are
  guaranteed to pass before the routine returns" (kernel/timer.c:819).
* *journal_escape* (`fs/jbd/recovery.c:487`, `Recoverable`; `long` with `Magic`
  = v2). do_one_pass puts the magic number back into bh, the descriptor block,
  instead of nbh, the block that is restored; so an escaped block gets 0 as its
  first word. The comment of journal_write_metadata_buffer says "The missing
  word can then be restored when the block is read during recovery."
  (fs/jbd/journal.c:360).
* *journal_restart* (`fs/ext3/inode.c:1792`, `Recoverable`; `restart` with three
  transactions in a log of 16). ext3_free_branches calls ext3_forget before
  try_to_extend_transaction; if the handle is restarted then, the revoke record
  commits with the old transaction and the block is freed by the new one. After
  a crash in between the file still refers to the block, and its contents are
  neither replayed nor at home. The comment says "We want the freeing of this
  indirect block to be atomic in the journal with the updating of the bitmap
  block which owns it", and that otherwise "recovery will merely complain about
  releasing a free block" (fs/ext3/inode.c:1798, 1806).
* *sysvsem_barrier* (`ipc/sem.c:336`, `NoLostWakeup`; `both` with the calls
  <<(1, 0), (2, +1)>>, <<(2, -1)>>, <<(1, -1)>>, SETVAL to 1). update_queue is
  to "Go through the pending queue for the indicated semaphore looking for tasks
  that can be completed" (ipc/sem.c:310). An operation that waits for zero on
  one semaphore and increases another one has q->alter = 0 (queue.alter =
  decrease, line 938), so update_queue performs it at once, takes it off the
  queue and goes on with q->next. What it increased may be what an operation
  earlier in the queue waits for, but the scan never goes back, and the sleeper
  returns at line 987 without another update_queue.
* *sysvsem_undo* (`ipc/sem.c:270`, `Conserved`; `undo` with the call <<(1, -1,
  undo), (1, -1, undo)>>, and `SEMVMX` = 3). "Exceeding the undo range is an
  error" (ipc/sem.c:268), but every operation of a call is compared alone with
  un->semadj as it was before the call (line 266), and line 284 then subtracts
  all of them from the short. Two decrements of one semaphore in a call, each
  within the range, make semadj wrap round; when the process exits the semaphore
  gets a wrong value.
* *sysvsem_range* (`ipc/sem.c:1066`, `ValuesInRange`; `undo` as it is). SEMVMX
  is documented as "semaphore maximum value" (include/linux/sem.h:70) and semop,
  SETVAL and SETALL all refuse to pass it, but sem_exit adds semadj without a
  test of the upper bound (only values below 0 are corrected). A process takes a
  unit with SEM_UNDO, others fill the semaphore up to SEMVMX, the process exits:
  semval is SEMVMX + 1.
* *pipe_fault* (`fs/pipe.c:98`, `NoLostWakeup`; `fault` with three tasks and
  three opens). pipe_read and pipe_write copy in at most two chunks because the
  ring may wrap. If copy_to_user (line 97) or copy_from_user (line 197) fails
  for the second chunk, the first one has already changed PIPE_LEN, but `goto
  out` skips the wakeup that the other exits have: "Signal writers
  asynchronously that there is more room" (fs/pipe.c:123) and "Signal readers
  asynchronously that there is more data" (fs/pipe.c:230). The call returns the
  bytes that it moved, and a writer (or reader) keeps sleeping although there is
  room (or data).
* *posix_eof* (`fs/locks.c:932`, `SortedAndMerged`; `ranges` with requests up to
  `OFFSET_MAX`). posix_lock_file compares fl->fl_start > caller->fl_end + 1. For
  a lock to the end of the file fl_end is OFFSET_MAX (line 287), the largest
  loff_t, and the sum wraps to a negative number, so the loop breaks at the
  first lock of the same type that does not lie before the new one and the new
  lock is inserted beside it. The list then has two overlapping locks of one
  owner and type, against "We merge adjacent locks whenever possible. POSIX
  locks are sorted by owner task, then by starting address" (fs/locks.c:851). An
  unlock of the inner range later removes it from one of the two only.
* *posix_mandatory* (`fs/locks.c:741`, `MandatoryLocksHold`; `mandatory` with
  three processes). locks_mandatory_area ends its scan at the first POSIX lock
  that starts behind the area, as if the list were sorted by start; it is
  "sorted by owner task, then by starting address" (fs/locks.c:851). A lock of
  one process behind the area hides the lock of the next process on the area
  itself, and the read or write goes on, against "If a process has locked a
  region of a file with a mandatory write lock, all attempts to read or write to
  that region block until the lock is released"
  (Documentation/mandatory.txt:110).
* *posix_nomemory* (`fs/locks.c:1567`, `NoStuckLock`; `close` with `NoMemory`).
  fcntl_setlk promises "lost race with close, kill stuck lock if close didn't
  get it" (fs/locks.c:1566). The call of posix_lock_file that undoes it, with
  F_UNLCK, allocates two locks like every other one (lines 877-881) and returns
  -ENOLCK when there is no memory; its error ends the loop at line 1567 and the
  lock stays in the list of a file that its owner has closed.
* *posix_close_loop* (`fs/locks.c:1567`; `close` with fairness of the steps of
  fcntl_setlk, and `pc[p] = "check" ~> pc[p] = "idle"`). "kill stuck lock" sets
  file_lock->fl_type to F_UNLCK and goes back to do_it, but the test is on
  flock.l_type, the caller's copy, which stays what it was: fcntl unlocks again
  and again, without a sleep and without a look at its signals, until the
  descriptor refers to the file once more. If dup2 of another thread sees to that,
  fcntl returns 0 and the process does not have the lock. fcntl_setlk64 (line 1710)
  is the same.
* *flock_shared* (`fs/locks.c:832`, `OneFlockPerFile`; `fork` as it is). After
  locks_block_on flock_lock_file goes back to repeat, which looks for
  conflicting locks of other files only, and not to search, which looks for a
  lock of the same file. Two processes that share the file after fork and sleep
  behind the same lock both insert theirs, possibly one shared and one
  exclusive; "an existing lock is always removed before upgrading from shared to
  exclusive (or vice versa)" (fs/locks.c:47) does not hold, and one LOCK_UN
  leaves the other lock in place.
* *flock_under_lease* (`fs/locks.c:822`, `FlockExclusive`; `flock` with `Leases`
  = {RDLCK, UNLCK}). flock_lock_file stops both of its scans at the first entry
  that is not an FL_FLOCK, knowing that "We always insert new FLOCK locks at the
  head of the list, but that's secret knowledge known only to flock_lock_file
  and posix_lock_file." (fs/locks.c:769). fcntl_setlease inserts leases at the
  head too (lines 1301-1344): a lease in front of a flock hides it, and another
  open file gets an exclusive flock beside it.
* *lease_renewed* (`fs/locks.c:1321`, `LeasesRevoked`; `lease` with `Renews`).
  fcntl_setlease refuses a read lease while a writer is opening the file only if
  it is the lease of another file that is being revoked (wrlease_count, line
  1312). The holder of that lease itself gets to lease_modify, which clears
  F_INPROGRESS and wakes the writer; the writer finds no lease in progress and
  returns 0 with the lease still there, against "If we want write access, we
  have to revoke any lease." (fs/locks.c:1131).
* *keventd_flush* (`kernel/context.c:146`, `FlushIsDone`; `shared` as it is).
  queue_task sets sync before it takes tqueue_lock and links the task, so a
  second caller can be told "already residing on a task queue" (context.c:55)
  while the task is on none; both rounds of its flush_scheduled_tasks can then
  pass before the first caller links the task, and the flush returns although
  the work has not run. context.c:116 says: "flush_scheduled_tasks - ensure that
  any scheduled tasks have run to completion."
* *exit_two_waiters* (`kernel/exit.c:1010`, `NoLostWait`; `Waiters` = {a, b}, no
  tracers). sys_wait4 counts a child in state TASK_DEAD, which another thread of
  the caller's group is reaping, as a child to wait for (flag = 1, line 1010),
  and sleeps. release_task of that child tells nobody, so when it was the only
  child the second waiter sleeps for ever instead of returning ECHILD. The code
  knows the case for children that reap themselves: "we still call
  __wake_up_parent in this case, because a blocked sys_wait4 might now return
  -ECHILD" (kernel/signal.c:1245).
* *exit_leader* (`kernel/exit.c:706`, `LeaderLast`; `ignore` with "thread" in
  `Modes`). exit_notify of a thread group leader calls do_notify_parent at once
  (line 644), whether or not the group has other threads. When the parent
  ignores SIGCHLD this sets exit_signal to -1 and do_exit releases the leader
  (line 706) while its threads still run, although the rest relies on "the
  thread group leader hanging around" (fs/exec.c:552) and on "Do not consider
  thread group leaders that are in a non-empty thread group"
  (kernel/exit.c:824): release_task, forget_original_parent and de_thread of the
  other threads then read p->group_leader of a freed task.
* *exit_group* (`kernel/exit.c:521`, `StayInGroup`; no tracers, no waiters). The
  comment says "Try to give them to another thread in our thread group, and if
  no such member exists, give it to the global child reaper process"
  (kernel/exit.c:512). The code tries one member only, the leader: when the
  leader itself exits, or has exited before, its children go to init although
  other threads of the group live and may be waiting for them.
* *exit_exec_init* (`fs/exec.c:619`, `ReapedOnce`; `exec` with `Waiters` =
  {init}). de_thread makes the former leader, a zombie with exit_signal SIGCHLD
  and now alone in its group, a child of init, lets go of tasklist_lock (line
  635) and calls release_task on it. init may find it in between with sys_wait4,
  claim it and call release_task too. The claim is to prevent this: "Now we are
  sure this task is interesting, and no other thread can reap it because we set
  its state to TASK_DEAD" (kernel/exit.c:860).
* *exit_fault* (`kernel/exit.c:874`, `NoLostWait`; `trace` with `Tracers` = {}).
  While wait_task_zombie reports a child its state is TASK_DEAD. If the child's
  parent is another thread of the group, the leader, and exits now,
  reparent_thread passes the child to init but tells init only about a TASK_ZOMBIE (line 489); when put_user
  fails the state becomes TASK_ZOMBIE again (line 874) and nobody is told. init
  sleeps in wait4 with the zombie at hand, against "If we'd notified the old parent
  about this child's death, also notify the new parent" (kernel/exit.c:486).
* *exit_attach* (`kernel/ptrace.c:110`, `NoBug`; `trace` as it is). ptrace_attach
  sets PT_PTRACED under task_lock and links the task after it has let go of it
  and got tasklist_lock; it does not look again. What comes in between breaks
  assertions: the task has exited and been released (REMOVE_LINKS,
  include/linux/sched.h:1022, "link"); its real parent has exited and
  reparent_thread has cleared ptrace, so that the task is linked but not traced,
  which fails in __ptrace_unlink (kernel/ptrace.c:47, "unlink"), in release_task
  (kernel/exit.c:62, "tracees") or, when the tracer exits first, in exit_notify
  (line 594, "children"); the task has made a child with CLONE_PTRACE, which is
  linked to the real parent of the task and not to the tracer, and the task's exit
  then fails in choose_new_parent (line 456, "reparent") if that is init. The
  comment of __ptrace_link says "make the debugger its new parent and move it to
  the ptrace list" (kernel/ptrace.c:21). `trace` therefore demands that no task is
  released twice, and the other setups that no assertion fails.
* *exit_reparent* (`kernel/exit.c:456`, `NoReparentBug`; `trace` with `Tracers`
  = {a, b}). choose_new_parent asserts "if (p->parent == p->real_parent) BUG();"
  (kernel/exit.c:456). For a child on the ptrace_children list p->parent is the
  tracer, and the new real parent is the leader of the dying thread's group.
  When that leader is the tracer the assertion fails, although reparent_thread
  is ready for the case ("if (p->parent != p->real_parent)", kernel/exit.c:475).
* *exit_trace_ignore* (`kernel/exit.c:540`, `AutoReaped`; `trace` with
  `Ignorers` = {b}). When a tracer exits, or has waited for its tracee, the
  zombie goes back to its real parent and do_notify_parent is called again
  (lines 541 and 883). If the real parent ignores SIGCHLD this sets exit_signal
  to -1 "to tell do_exit that we can be cleaned up without becoming a zombie"
  (kernel/signal.c:1243), but the task has left do_exit long ago and wait4 no
  longer considers it (line 812): "we should be reaped automatically and not
  left for our parent's wait4 call" (kernel/signal.c:1240) fails, and the zombie
  stays for ever, for init would not find it either.

## 5. Proofs

Proved by TLAPS for every value of the constants. A theorem in the second column
that is not a property of a run is the inductive invariant that the others of its
row come from; TLC checked each of these on the instances of section 3 before it was
proved.

| Module | Theorems | Assumptions |
|---|---|---|
| `RwSemProofs` | `ListInvariant`, `Invariant`; `TypeCorrect`, `CountIsExact` (`CountAccounting`), `WritersExclude` (`MutualExclusion`), `WakeTargetsAlive` (`WakeTargetAlive`), `WaitersExist` (`NoUseAfterReturn`), `SemaphoreImplementsLock` (`ImplementsRwLock`) | finitely many tasks, fewer than 32768 |
| `SemaphoreProofs` | `PermitInvariant`, `WakeInvariant`; `CountAlwaysBalances` (`CountBalance`), `PermitsRespected` (`AtMostPermits`), `WakeupsNeverLost` (`NoLostWakeup`); `CompletionInvariant`, `CompletionsKept` (`CompletionSound`) | finitely many tasks, `Permits` natural; for a completion on a stack that only its `Owner` waits, and that calls and tasks are far fewer than `UINT_MAX` |
| `SoftirqProofs` | `TaskletInvariant`; `ScheduledOnce` (`OnePlace`), `NothingRunsUnpromised` (`RunsAsPromised`), `SoftirqsNeverStranded` (`NoStrandedSoftirq`), `TaskletsKeepPromise` (`ImplementsPromise`); `TaskQueueInvariant`, `KeventdKeepsWork` (`KeventdSound`) | finitely many CPUs and tasklets, `Bhs` among `Hi`; `dummy_task` is nobody's work |
| `RunQueueProofs` | `SchedInvariant`; `TasksRunOnce` (`RunsOnce`), `QueuesStayExact` (`QueuesExact`), `LocksNeverCycle` (`NoLockCycle`), `SchedulerImplementsTaskSched` (`ImplementsTaskSched`) | at least one CPU, finitely many tasks, none of them a kernel thread |
| `FutexProofs` | `WaitInvariant`, `CoreInvariant`; `WokenWaitersReturnZero` (`WakeupsKept`), `FutexQsStayValid` (`NoUseAfterReturn`), `CoreWakeupsNeverLost` (`NoLostWakeupInCore`) | finitely many threads; for `CoreInvariant` and `CoreWakeupsNeverLost` also `Num >= Cardinality(Threads)` |
| `MsgQueueProofs` | `MsgInvariant`; `MessagesInOnePlace` (`OnePlace`), `SleepersAreSafe` (`SleepersSafe`), `LeastTypeTaken` (`TakesLeast`); `PipeInvariant`, `PipesAreSound` (`PipeSound`) | types of messages positive, sizes and limits natural; calls and settings have their types; for pipes finitely many tasks and `1 <= PIPE_BUF <= PIPE_SIZE` |
| `PosixLockProofs` | `SleepInvariant`; `SleepersNeverDeadlock` (`NoDeadlock`), `LockWakeupsNeverLost` (`NoLostWakeup`); `ListInvariant`, `ListStaysSorted` (`SortedAndMerged`), `LocksImplementByteLocks` (`ImplementsByteLocks`); `CloseInvariant`, `NoLockIsStuck` (`NoStuckLock`); `FlocksWake` (`FlockLease!NoLostWakeup`), `FlocksExclude` (`FlockExclusive`, `OneFlockPerFile`), `LeasesAreRevoked` (`LeasesRevoked`) | `OFFSET_MAX` natural, requests and accesses are ranges up to it; from `ListInvariant` to `NoLockIsStuck` also `LastByteFree`: no lock, only unlocks, reach `OFFSET_MAX`; for `CloseInvariant` and `NoLockIsStuck` also `~NoMemory`; the last three are about `FlockLease`, any tasks and open files: `FlocksExclude` without leases, and for one flock per file without shared files (`Unshared`); `LeasesAreRevoked` without flocks, without `Renews`, and for finitely many tasks and files |

The assumptions stand in the modules as `...Assumption`, so TLC evaluates them for
every instance; besides the above they say that the null values (`None`, `NoTask`)
are no task, CPU, page or message.

**RwSem.** Mutual exclusion does not follow from itself: a grant is right because
the active part of `count` was 0, which says something about the holders only if
`count` is known to be their sum. And the sum is only preserved by a waker if
the lists are what they should be. The invariant is therefore built in two
layers. `ListInv` says who holds `wait_lock` at which place (`LockInv`), that
the list and the readers being granted are disjoint, without repetition, and are
exactly the tasks that still wait (`QueueInv`), and that a reference count is the
task's own reference plus the waiter's, which the waker inherits (`UsageInv`). It
is inductive by itself, and yields type correctness, `WakeTargetAlive` and
`NoUseAfterReturn`. On top of it `Inv` adds `CountAccounting` and `OwnerInv`:
owners exclude each other, and while a grant is under way there are none. The
proof of `CountAccounting` compares the cardinalities of three sets before and
after a step; `ListFacts` has the lemmas on sequences (the range of a
tail, of an appended and of a cut injective sequence) that this takes. The bound
on the number of tasks enters where the active part is read off `count`: the
sum of the active biases must be below 65536. The refinement maps the owners, the
queue with those that are being granted, and the kind of each to the variables of
`RwLock`; a task that takes the semaphore directly found `count` without waiters,
which by `CountAccounting` means an empty queue.

**Semaphore.** `PermitInv` is `CountBalance` and `AtMostPermits` with the types
and `RetvalInv` (only a slow path that took a permit returns to "hold"). One
arithmetic lemma, `Balance`, carries all steps: a step of one task moves units
between `count`, `sleepers`, the permits and the unsettled attempts, and takes a
permit only where it leaves `count` at 0 or more. Each action's lemma shows what
the action moves. Neither the wait queue nor `semaphore_lock`'s holder is
needed, because every section under `semaphore_lock` accesses `count` once.

`NoLostWakeup` speaks of states in which nobody is in the middle of something,
which is not inductive. `WakeInv` says for every state who owes a stuck task
a wakeup: some task is at a place from which it calls `wake_up` or looks at `count`
itself (`WillWake`), or `sleepers` is 1 and every permit is in use, so that by
`CountBalance` `count` is negative and the next `up()` takes the slow path. It
needs that a waiter is on the wait queue from before it looks at `count`
(`WaitersQueued`) and that only tasks in `schedule()` are off their run queue.

**Completion.** It stands in `SemaphoreProofs` because it is the other client of
`WaitQueue`. `done` is exactly the calls of `complete` minus the returns, plus what
`complete_all` adds, modulo `UINT_MAX` + 1 (`CountInv`): two calls of `complete_all`
take 2 from it (lemma `Parity` splits by their number), so after an odd number of them
`done` is near the middle of its range, where it cannot come to 0, and after an even
number near one of the ends. That it stays near needs a bound on how many still return, and whoever slept at `complete_all` returns beyond the bound on calls, whence twice
the number of tasks. `NoLostWakeup` of a completion compares numbers: as many waiters are
awake as `done` lets through. In the middle of a scan one may be missing, the one that the
scan is still to wake (`WakeInv`); that it finds one is `ScanInv`, that every waiter which
sleeps is still ahead of the scan until `nr` is used up. A waiter that takes its unit leaves
both sides smaller by one, and one that goes to sleep has seen `done` = 0 under the lock. For
`NoUseAfterReturn` the owner of a completion on its stack must be the only waiter, as in all
of the code; otherwise the owner's return would leave the others in freed memory.

**Softirq.** `TaskletInv` says where a tasklet is: on the list of a CPU, on the
list that a CPU has taken, in the hands of a CPU, or between the test of SCHED and
the list (`Places`); the SCHED bit is set exactly if it is in one of these or its
owner kills it (`PlaceInv`), no list has it twice (`NoRepeats`), the RUN bit belongs
to one CPU (`RunBitInv`), and what an owner may conclude after `tasklet_disable`
and `tasklet_kill` (`OwnerInv`). The lists of different CPUs are only related
through SCHED, so neither `OnePlace` nor the RUN bit is inductive alone. The
refinement maps a tasklet to what `TaskletPromise` counts: asked for, and running.

**Keventd.** It stands in `SoftirqProofs` because `__run_task_queue` is in `softirq.c`.
`PlaceInv` is the analogue of `OnePlace`: `sync` is set exactly if the `tq_struct` is on the
queue, on the list that is being run, or about to be linked by the one process that set it.
`NoLostWork` and `NoLostWakeup` follow with `RunInv`, that keventd is on its wait queue before
it looks at the queue. `FlushIsDone` says that `flush_scheduled_tasks` returns when the items
that were queued before it have run. The code waits for two calls of `wake_up`, because the
first may belong to a list that was taken before. `FlushInv` says where the awaited items are
at each of the three stages: on some list; after the first wakeup on the list that the next
one is behind; nowhere after the second. The process need not have noticed a wakeup, so the
stages count the wakeup in its `state` as well as in `count`. This part assumes `OwnWork`,
that no two processes schedule the same `tq_struct`; without it it is false (section 4,
*keventd_flush*), and the other three parts do not need it.

**RunQueue.** The parts of `SchedInv`: what runs on a CPU belongs to it (`CurrInv`),
`p->array` agrees with `task_cpu` and with the state (`QueueInv`), `nr_running` is the
number of queued tasks (`CountInv`), a CPU in the middle of `schedule()` has not
yet given up its task (`SwitchInv`), what each CPU does and which locks that takes
(`BusyInv`, `LockInv`), and that a request to a migration thread is in one place, its
caller waiting (`RequestInv`). `RunsOnce` depends on the locks, since a task that is
being moved is between two queues; hence all of them are one induction. For
`NoLockCycle` a group of CPUs that all wait for each other has a least and a greatest
lock; every CPU takes its second lock above its first, or lets go of the first
before it waits. This gives groups of any size, where TLC has two CPUs.

**Futex.** `WaitInv` has the holder of the locks (`LockInv`), the agreement of the
queue with the vcache chain (`QueueInv`), what a waiter off the queue will return
(`ToldInv`) and why it may sleep (`SleepInv`); it is inductive together with `PageInv`,
which says that a page that can be written is mapped once and that an unfinished copy
belongs to one thread. For `NoLostWakeupInCore` there is also `CoreInv`: a waiter in an
address space that keeps its pages is queued on the page that its word is in, except
while the thread that copies the page is about to call back, and if the word has
changed, a waker that will find it is on its way. A `FUTEX_WAKE` for fewer
than all may by design leave a waiter behind, whence the hypothesis on `Num`; swap
breaks the property (section 4), whence its restriction to such address spaces.

**MsgQueue.** `MsgInv` says for each task whether it holds the lock, which call it is
in, on which list it is and which message is in its hands (`TaskInv`), that the lists
have nobody twice (`QueueInv`), that the receiver about to be woken is still in its
call (`TargetInv`), why a task sleeps (`SleepInv`), that no message waits for somebody
on the list (`NoneWaitsForTaker`) and that the places of messages are disjoint and
contain all that are allocated (`PlaceInv`). The last needs the first, because a
message that is handed over changes its place in steps of different tasks, without
the lock on the receiver's side. `LeastTypeTaken` is about the loop of `msgrcv` with a
negative type: the positions that it stops at form a nonempty set of numbers, and
the theorem on well-founded relations of the library gives the least one.

**Pipe.** It stands in `MsgQueueProofs`, with the other queue between processes.
`UseInv` is about who uses the pipe: where a task is says whether it has `i_sem`, is on
the wait queue or may sleep (`CallInv`), and readers, writers and waiters are counted
exactly (`UsersCounted`, the cardinalities of sets of tasks, whence the finite `Tasks`).
With `RingIsStream` it is inductive whether copies fail or not. The ring needs that the
slots of different bytes differ (`SlotsApart`) and that one chunk does not wrap (`WrapsAt`).
`AtomicWrites` and `NoLostWakeup` hold only without failing copies (section 4, *pipe_fault*),
whence `~Faults` in `PipeSound`. Neither is inductive. A short write that has been given
room keeps it while it has `i_sem`, so it never gets to the wait for a full ring
(`RoomInv`), and what it has put into the ring so far ends the stream (`PieceInv`). A
sleeper keeps its reason because a task with `i_sem` tells everybody before it
gives `i_sem` up if it has moved a byte, and the steps without `i_sem` change no count.
For `select`, which looks at `len` and `writers` in two steps without `i_sem`, this must
hold from the look at `len` on (`PollInv`); for an open that was woken and sleeps
again, from the first look at the counter (`PartnerInv`: who has the same
number as when it came is still alone). `ClosedSleep` is why an interrupted `fifo_open`
need not tell anybody unless it was the last of its kind.

**PosixLock.** `posix_locks_deadlock` looks at who waits for whom once, when a process
goes to sleep; afterwards locks are merged, cut, replaced, deleted and closed under the
sleepers. `SleepInv` has `NoDeadlock` and `NoLostWakeup` together, with the calls that
sleepers are in. When p goes to sleep, a set that has the owner of the lock, not p, and
is closed under "is blocked by" refutes the search's result; if a ring of sleepers were
now closed through p, its intersection with this set would have been a ring before.
All other steps follow from one lemma (`SleepersKept`): who stays asleep is still behind
a lock of the same owner, of the same type, with at least the same range. That the loop
of `posix_lock_file` keeps to this is an induction over the loop (`LoopTracks`): a round
wakes the waiters of the lock it looks at, or keeps that lock, or makes it larger
(`Passes`), for which `caller` must have the range of the lock that it points to (`Good`).
The existence of the recursive functions of the model and the inductions rest on `Rounds`
and `Induction`, which are about sets of numbers and follow from `LeastNumber`. This part
does not depend on the order of the list, so it also covers requests up to
`OFFSET_MAX`, for which `SortedAndMerged` fails (section 4).

What the locks mean does depend on the order. `ListInv` adds to `SortedAndMerged` that no
lock, and no lock that is asked for, reaches `OFFSET_MAX`: there `fl_end + 1` overflows, the
comparisons go the wrong way, and the theorems are false, whence the hypothesis
`LastByteFree`. The loop's invariant (`Fits`) relates the list to the one that the call
started with: the locks before the place looked at end before `caller` begins, with a gap
if they have its type; the locks from there on are as they were; and the bytes of the two
parts and of `caller` are the bytes of the old list with the request applied to those
already passed. Each branch of a round is a lemma of its own about these three parts: a
lock of the same type that is merged into `caller`, one of another type that is passed,
cut at its left, replaced or deleted. `LoopGrants` concludes that the bytes set are those
asked for and that no other process's byte changed; the insertion and the cut at the
right that follow the loop keep the order (`Tidy`). The refinement then maps the list
to the type that each process holds on each byte (`HeldBytes`) and a process in `fcntl_setlk`
to the range it asks for (`AskedFor`). A call that undoes its own grant because the file
was closed meanwhile (`Recheck`) makes a further request each time, and `ByteLocks` sees it so.

`NoStuckLock` is about those further requests: no lock is left when the call has returned,
nor whenever it has unlocked and looks at the descriptor again. It is not inductive: while a call is under way
on a file that another thread has closed, there may be a lock to undo. `CloseInv` says when:
after the other thread is through with `locks_remove_posix`, or has seen an empty list, the
process holds a byte only between the grant and the look at the descriptor, or while the
unlock is on its way, and only bytes within the range that will be unlocked. The range is
that of `fl`, which the loop may have changed in merging; it has not, because the process
had no lock left to merge with (`NothingToMerge`). That the unlock is not given up halfway
needs that nobody sleeps in it and so no signal ends it (`SleepInv`), and that there is
memory (section 4); that it is begun at all, that who got a lock has asked for one, so
that `l_type` is not F_UNLCK (`AskedInv`). With the refinement at hand all this is about bytes, not lists.

**FlockLease.** A flock is taken off the list before its waiters are woken one by one with
`yield` in between, and a lease is broken, granted, timed out and given back while others
sleep behind it. `QueueInv` has the types, what belongs to each place in a call (`CallInv`),
and `NoLostWakeup`, which with these is inductive for any mix of flocks and leases, with
`Renews` too. What the steps have in common is stated once, as `Carry`: between two lists nobody
but those that are woken loses the lock that it is behind, and that lock is of the same
kind, still broken if it was broken. `time_out_leases`, `lease_modify`, `list_del`, the
insertion of a lock and the break of all leases each carry the sleepers in this sense, and
the steps are made of these. Mutual exclusion of flocks (`FlockInv`) is about what a list
has in common with the one before (`Within`): its locks are locks of the old list, of the
same type. A new flock went through the search for locks in its way, and between the
giving up of the old one and the search, however long the `yield`, nothing is claimed. The
search begins after the leases at the head of the list (`Run`) and the flock that a
file has is looked for there as well, so a lease that has come to the head while the task
slept can change what is found: `FlocksExclude` says nothing about lists with leases. A
file that is shared after fork may get two flocks; hence `Unshared`.

`LeaseInv` is about lists with leases only. An open file has at most one lease; an
exclusive one is alone, and the file is open once, as `fcntl_setlease` read in `d_count` and
`i_count` (which are counts, whence the finite sets); and who waits in `__get_lease` has
asked every holder to give the lease back. So when the last one has answered or timed out,
nothing is left that the open conflicts with. That no lease is granted meanwhile is the
hypothesis `~Renews`; the code does not forbid it (`fs/locks.c:1285`), and the loop at
the end of `__get_lease`, which looks for leases that are being broken, passes over a new one.

**Only model-checked.** Liveness, since it depends on fairness and `ENABLED`. `MsgQueue!Accounted` and `WithinLimit`,
which are about sums over a queue. `ExitWait!ParentsLive`, which TLC checks with one
tracer: it does not hold for every set of tracers, since `ptrace_attach` looks at
the parents before it takes the lock for writing. The properties of the modules
that have no proofs (`Timer`, `LoadBalance`, `SysvSem`, `Journal`, `Buddy`).

## 6. Running

    tlc -workers 2 -config RwSem.cfg MCRwSem        # likewise the other runs
    tlapm RwSemProofs.tla                           # likewise the other ...Proofs

The longest runs (`ipc`, `journal`, `exit`, `files`, `scheduling`) take about two
minutes each; the two violation runs end with a trace within seconds. Some MC
modules have a constant `Setups`, with which one setup can be run alone. The proofs
take between one and several minutes for a module.

The modules also define properties that no configuration here lists, because the
runs are kept short; each holds with the constants of the setup named, under the
`FairSpec` of its module where it is a liveness property: `Timer!TimeoutsEnd`
(`sleeper`), `Keventd!FlushEnds` and `Keventd!WorkEnds` (`shared`),
`Journal!SpaceReturns` (`restart`), `ExitWait!InitReaps` (init waits, four tasks),
`FlockLease!LeasesRevoked` (`lease`; also proved), `MsgQueue!Accounted`, `WithinLimit`
and `TakesLeast` (`messages`; the last is also proved), `LoadBalance!RunningStays`,
and the type invariants.

## 7. Plan

The models cover the planned core, and the modules that the rest of the kernel
depends on most have their proofs. Next:

1. `MsgQueue`: `Accounted` and `WithinLimit`, with a lemma on sums over a queue.
2. `Buddy`: that the bit map tells of each pair of buddies whether one is free.
3. `ExitWait`: `ParentsLive` for one tracer.

Candidates for further modules: `cli()` and the global interrupt lock of
`arch/i386/kernel/irq.c`, the inode life cycle of `fs/inode.c`, `console_sem` in
`kernel/printk.c`, signal queues and group stops.

## 8. Not modelled

The implementation has five million lines, of which the modules model several
thousand: the greater part is hardware code, protocol stacks and tables, in
10 000 files of which each would need a model of its own. The models are of the
core that all of these rely on. The components with status `not_modelled` in
`PROJECT.json` have their reasons there. Within the modelled ones:

* memory ordering: every atomic access is one step of one sequence, as the
  locked instructions and barriers of i386 make it; plain accesses that other
  CPUs read (task state, `waiter->task`, the bits of a tasklet) are steps in
  program order;
* debugging code, the assembler stubs' register saving, the rwlock fallbacks in
  `semaphore.c`, argument checks that return before anything is changed;
* priorities, time slices and `sleep_avg` in the scheduler; non-exclusive entries
  and `sleep_on` in `WaitQueue` (in other modules they are sets of sleepers);
* interval timers, the clock and NTP; the SIGCHLD of keventd's children;
* wakeups that find a futex waiter after it has been queued and come from somebody
  else than futex_wake, a signal or the timeout (`kernel/futex.c:283`);
* stopped tasks, PTRACE_TRACEME and detach, WNOHANG, process groups;
* `ioctl` and `fasync` of pipes; shared memory, keys and permissions of IPC;
  F_GETLK, LOCK_MAND, lockd's hooks and several locking threads of a process;
* journalled data, the creation of a journal, I/O errors; ext3 itself, which is
  the environment of `Journal`;
* zone lists, watermarks, reclaim and the slab;
* other architectures' versions, and the spin-lock version of rwsem
  (`lib/rwsem-spinlock.c`).
