------------------------------ MODULE ExitWait ------------------------------
(***************************************************************************)
(* The life of tasks: copy_process (kernel/fork.c), do_exit, release_task  *)
(* and sys_wait4 (kernel/exit.c), do_notify_parent (kernel/signal.c),      *)
(* de_thread of exec (fs/exec.c) and the linking of ptrace                 *)
(* (kernel/ptrace.c), with thread groups.                                  *)
(*                                                                         *)
(* What tasklist_lock protects is one step.  Between the steps stand the   *)
(* places where the code has let go of it: wait4 while it reports a child, *)
(* do_exit before it is off its CPU, de_thread while the others die, and   *)
(* ptrace_attach between its two locks.  wait4 waits for any child, with   *)
(* __WALL; a signal other than SIGCHLD is reduced to SIGKILL.              *)
(***************************************************************************)
EXTENDS Naturals, FiniteSets

CONSTANTS
    Tasks,
    Reaper,     \* child_reaper: init
    NoTask,
    Modes,      \* what fork may make: "child", "sibling" (CLONE_PARENT), "thread"
    Waiters,    \* the tasks that call wait4
    Ignorers,   \* the tasks that set SIGCHLD to SIG_IGN
    Execs,      \* the tasks that call exec
    Tracers,    \* the tasks that attach to others
    Faults      \* put_user may fail in wait4

ASSUME ExitWaitAssumption ==
    /\ Reaper \in Tasks /\ NoTask \notin Tasks
    /\ Modes \subseteq {"child", "sibling", "thread"}
    /\ Waiters \subseteq Tasks /\ Ignorers \subseteq Tasks \ {Reaper}
    /\ Execs \subseteq Tasks \ {Reaper} /\ Tracers \subseteq Tasks \ {Reaper}
    /\ Faults \in BOOLEAN

VARIABLES
    st,        \* task -> "none", "run", "sleep", "zombie", "dead" or "gone"
    group,     \* task -> group_leader
    parent,    \* task -> parent, the tracer if it has one
    real,      \* task -> real_parent
    traced,    \* task -> ptrace
    plist,     \* task -> the task on whose ptrace_children list it is, or NoTask
    esig,      \* task -> exit_signal: "SIGCHLD" or "none" for -1
    ign,       \* task -> SIGCHLD is SIG_IGN; one sighand for a group
    kill,      \* the tasks with SIGKILL pending
    gexit,     \* group leader -> signal->group_exit
    pc,
    target,    \* the task that a task reaps, attaches to or replaces
    restore,   \* wait4 will set SIGCHLD back to SIG_IGN
    bug        \* the assertions that have failed

familyVars == <<group, parent, real, traced, plist>>
sigVars    == <<esig, ign, kill, gexit>>
vars       == <<st, familyVars, sigVars, pc, target, restore, bug>>

(***************************************************************************)
(* Where a task can be.                                                    *)
(*   none        does not exist                                            *)
(*   user        outside                                                   *)
(*   exiting     in do_exit, without an mm, before exit_notify             *)
(*   exit        after exit_notify, on its CPU                             *)
(*   off         off its CPU for good                                      *)
(*   prepare     in wait4, at repeat                                       *)
(*   scan        its state is set; before the walk through the children    *)
(*   sched       in schedule(), or about to look at its signals            *)
(*   report      in wait_task_zombie, with the child in state TASK_DEAD    *)
(*   release     about to call release_task                                *)
(*   end         at end_wait4                                              *)
(*   attach      in ptrace_attach between task_unlock and tasklist_lock    *)
(*   execcount   in de_thread, before it looks at the count                *)
(*   execsleep   in its schedule()                                         *)
(*   execlead    waiting for the leader to be a zombie                     *)
(*   execfree    about to release the former leader                        *)
(*   execdone    at no_thread_group                                        *)
(***************************************************************************)
PCs == {"none", "user", "exiting", "exit", "off", "prepare", "scan", "sched", "report",
        "release", "end", "attach", "execcount", "execsleep", "execlead", "execfree",
        "execdone"}

Goto(t, l) == pc' = [pc EXCEPT ![t] = l]

\* A failed assertion stops the system.
At(t, l) == pc[t] = l /\ bug = {}

Exists(t) == st[t] \notin {"none", "gone"}

\* The members of a thread group that have not been released.
Members(g) == {t \in Tasks : group[t] = g /\ Exists(t)}

\* thread_group_empty
Alone(t) == Members(group[t]) = {t}

Init ==
    /\ st = [t \in Tasks |-> IF t = Reaper THEN "run" ELSE "none"]
    /\ group = [t \in Tasks |-> t]
    /\ parent = [t \in Tasks |-> Reaper] /\ real = [t \in Tasks |-> Reaper]
    /\ traced = [t \in Tasks |-> FALSE] /\ plist = [t \in Tasks |-> NoTask]
    /\ esig = [t \in Tasks |-> "SIGCHLD"] /\ ign = [t \in Tasks |-> FALSE]
    /\ kill = {} /\ gexit = [t \in Tasks |-> FALSE]
    /\ pc = [t \in Tasks |-> IF t = Reaper THEN "user" ELSE "none"]
    /\ target = [t \in Tasks |-> NoTask]
    /\ restore = [t \in Tasks |-> FALSE]
    /\ bug = {}

-----------------------------------------------------------------------------
(***************************************************************************)
(* copy_process, under tasklist_lock.  A thread is CLONE_THREAD with       *)
(* CLONE_SIGHAND and CLONE_DETACHED, which it must have.  With             *)
(* CLONE_PTRACE the child inherits ptrace and is linked to the parent of   *)
(* the caller, which traces it, or is about to be replaced by its tracer.  *)
(***************************************************************************)
Fork(t, c, mode, inherit) ==
    /\ At(t, "user") /\ t \notin kill /\ st[c] = "none"
    /\ mode = "child" \/ t # Reaper
    /\ mode = "thread" => ~gexit[group[t]]
    /\ st' = [st EXCEPT ![c] = "run"]
    /\ pc' = [pc EXCEPT ![c] = "user"]
    /\ inherit => traced[t]
    /\ traced' = [traced EXCEPT ![c] = inherit]
    /\ LET p == IF mode = "sibling" THEN real[t] ELSE t
           linked == inherit /\ parent[t] # p
       IN  /\ real' = [real EXCEPT ![c] = p]
           /\ parent' = [parent EXCEPT ![c] = IF linked THEN parent[t] ELSE p]
           /\ plist' = [plist EXCEPT ![c] = IF linked THEN p ELSE NoTask]
    /\ group' = [group EXCEPT ![c] = IF mode = "thread" THEN group[t] ELSE c]
    /\ esig' = [esig EXCEPT ![c] = IF mode = "thread" THEN "none" ELSE "SIGCHLD"]
    /\ ign' = [ign EXCEPT ![c] = ign[t]]
    /\ UNCHANGED <<kill, gexit, target, restore, bug>>

\* sigaction of SIGCHLD.
Sigaction(t, ignore) ==
    /\ At(t, "user") /\ t \in Ignorers /\ t \notin kill /\ ign[t] # ignore
    /\ ign' = [u \in Tasks |-> IF group[u] = group[t] THEN ignore ELSE ign[u]]
    /\ UNCHANGED <<st, familyVars, esig, kill, gexit, pc, target, restore, bug>>

-----------------------------------------------------------------------------
(***************************************************************************)
(* do_notify_parent for a set of tasks: whose parent ignores SIGCHLD is to *)
(* be reaped by itself; __wake_up_parent wakes all threads of the parent.  *)
(* The parent of a task with an exit signal is never of its own group.     *)
(* par are the parents, s and e the states and exit signals so far.        *)
(***************************************************************************)
Notified(ps, par, e) ==
    [t \in Tasks |-> IF t \in ps /\ ign[par[t]] THEN "none" ELSE e[t]]

Woken(ps, par, s) ==
    [t \in Tasks |-> IF s[t] = "sleep" /\ \E p \in ps : group[t] = group[par[p]]
                     THEN "run" ELSE s[t]]

\* release_task: the last but the leader has gone, and the leader is a zombie.
TellsLeader(p) ==
    /\ group[p] # p /\ Members(group[p]) \ {p} = {group[p]}
    /\ st[group[p]] = "zombie" /\ esig[group[p]] # "none"

\* ptrace_unlink does nothing unless ptrace is set; where it leaves p otherwise.
Unlinked(p) == IF traced[p] THEN NoTask ELSE plist[p]

\* release_task of p by t, which goes to l: off the lists of ptrace, __exit_signal with
\* the wakeup of a waiting de_thread, __unhash_process, and the word to the parent of
\* the leader.
Release(t, p, l) ==
    LET rest == Members(group[p]) \ {p}
        told == IF TellsLeader(p) THEN {group[p]} ELSE {}
    IN  /\ st' = Woken(told, parent, [st EXCEPT ![p] = "gone"])
        /\ esig' = Notified(told, parent, esig)
        /\ traced' = [traced EXCEPT ![p] = FALSE]
        /\ plist' = [plist EXCEPT ![p] = Unlinked(p)]
        /\ parent' = [parent EXCEPT ![p] = IF plist[p] # Unlinked(p) THEN real[p] ELSE @]
        /\ pc' = [u \in Tasks |->
                    IF u = t THEN l
                    ELSE IF /\ At(u, "execsleep") /\ group[u] = group[p]
                            /\ Cardinality(rest) <= 2 THEN "execcount" ELSE pc[u]]
        /\ bug' = bug \cup (IF st[p] \notin {"zombie", "dead"} THEN {"twice"} ELSE {})
                      \cup (IF Unlinked(p) # NoTask \/ \E c \in Tasks : plist[c] = p
                             THEN {"tracees"} ELSE {})

-----------------------------------------------------------------------------
(***************************************************************************)
(* do_exit.                                                                *)
(***************************************************************************)
\* sys_exit, or a task with SIGKILL: __exit_mm and all that before exit_notify.
Exit(t) ==
    /\ At(t, "user") /\ t # Reaper
    /\ Goto(t, "exiting")
    /\ UNCHANGED <<st, familyVars, sigVars, target, restore, bug>>

\* do_group_exit: the others get SIGKILL (zap_other_threads), unless another thread
\* was first.
GroupExit(t) ==
    /\ At(t, "user") /\ t # Reaper /\ ~Alone(t) /\ ~gexit[group[t]]
    /\ gexit' = [gexit EXCEPT ![group[t]] = TRUE]
    /\ kill' = kill \cup (Members(group[t]) \ {t})
    /\ Goto(t, "exiting")
    /\ UNCHANGED <<st, familyVars, esig, ign, target, restore, bug>>

\* Mutant: nobody looks whether the leader is dying.
NewParentDying(father, p) == IF group[father] = father THEN Reaper ELSE group[father]

\* choose_new_parent: the leader, unless that is dying itself.
NewParent(father, p) ==
    IF group[father] \in {father, p} \/ st[group[father]] \in {"zombie", "dead", "gone"}
    THEN Reaper ELSE group[father]

\* forget_original_parent: children get a new parent, tracees go back to theirs, and
\* the children that somebody else traces get a new real parent.  It is a bug for
\* that to be the tracer, and for a tracee to stay because its ptrace is not set.
Forget(father) ==
    LET mine    == {p \in Tasks : Exists(p) /\ parent[p] = father}
        others  == {p \in Tasks : Exists(p) /\ plist[p] = father}
        orphans == {p \in mine : real[p] = father} \cup others
    IN  /\ real' = [p \in Tasks |-> IF p \in orphans THEN NewParent(father, p)
                                    ELSE real[p]]
        /\ parent' = [p \in Tasks |-> IF p \in mine THEN real'[p] ELSE parent[p]]
        /\ traced' = [p \in Tasks |-> traced[p] /\ p \notin mine]
        /\ plist' = [p \in Tasks |->
                       IF p \in mine \/ (p \in others /\ parent[p] = real'[p]) THEN NoTask
                       ELSE IF p \in others THEN real'[p] ELSE plist[p]]
        /\ bug' = bug \cup (IF \E p \in others : parent[p] = real'[p] THEN {"reparent"} ELSE {})
                      \cup (IF \E p \in mine \ orphans : ~traced[p] THEN {"children"} ELSE {})

\* Whose parent is told when t exits: its own, and the new one of its zombies.
Reports(t) == {p \in Tasks : /\ p = t \/ (st[p] = "zombie" /\ parent[p] = t)
                             /\ esig[p] # "none"}

\* exit_notify: the family is settled, the zombies among those who changed parents are
\* reported again, the parent is told, and the task is a zombie.
ExitNotify(t) ==
    /\ At(t, "exiting")
    /\ Forget(t)
    /\ esig' = Notified(Reports(t), parent', esig)
    /\ st' = Woken(Reports(t), parent', [st EXCEPT ![t] = "zombie"])
    /\ Goto(t, "exit")
    /\ UNCHANGED <<group, ign, kill, gexit, target, restore>>

\* The end of do_exit: a task nobody waits for releases itself.
Leave(t) ==
    /\ At(t, "exit")
    /\ \/ /\ esig[t] = "none"
          /\ Release(t, t, "off")
       \/ /\ esig[t] # "none"
          /\ Goto(t, "off")
          /\ UNCHANGED <<st, parent, traced, plist, esig, bug>>
    /\ UNCHANGED <<group, real, ign, kill, gexit, target, restore>>

-----------------------------------------------------------------------------
(***************************************************************************)
(* sys_wait4.                                                              *)
(***************************************************************************)
\* The call.  Who ignores SIGCHLD and waits all the same gets SIG_DFL meanwhile.
Wait(w) ==
    /\ At(w, "user") /\ w \in Waiters /\ w \notin kill
    /\ restore' = [restore EXCEPT ![w] = ign[w]]
    /\ ign' = [u \in Tasks |-> IF group[u] = group[w] THEN FALSE ELSE ign[u]]
    /\ Goto(w, "prepare")
    /\ UNCHANGED <<st, familyVars, esig, kill, gexit, target, bug>>

\* current->state = TASK_INTERRUPTIBLE
Prepare(w) ==
    /\ At(w, "prepare")
    /\ st' = [st EXCEPT ![w] = "sleep"]
    /\ Goto(w, "scan")
    /\ UNCHANGED <<familyVars, sigVars, target, restore, bug>>

\* eligible_child
Eligible(p) == Exists(p) /\ (esig[p] # "none" \/ traced[p])

\* delay_group_leader, for another group
Delayed(w, p) == group[w] # group[p] /\ group[p] = p /\ ~Alone(p)

\* The children of all threads, and those that others trace.
Children(w) == {p \in Tasks : Eligible(p) /\ group[parent[p]] = group[w]}
Away(w)     == {p \in Tasks : Eligible(p) /\ plist[p] # NoTask
                              /\ group[plist[p]] = group[w]}

\* The zombies that can be reaped.
Ripe(w) == {p \in Children(w) : st[p] = "zombie" /\ ~Delayed(w, p)}

\* Mutant: the state of the child is not claimed.
ClaimNot(w, p, skipped) ==
    st' = [t \in Tasks |-> IF t \in skipped THEN "dead" ELSE IF t = w THEN "run" ELSE st[t]]

\* xchg(&p->state, TASK_DEAD) of the child that is reaped, and of those before it on
\* the list that turn out to release themselves.
Claim(w, p, skipped) ==
    st' = [t \in Tasks |-> IF t \in skipped \cup {p} THEN "dead"
                           ELSE IF t = w THEN "run" ELSE st[t]]

\* The walk through the children under read_lock(&tasklist_lock).
Scan(w) ==
    /\ At(w, "scan")
    /\ LET loose == {p \in Ripe(w) : esig[p] = "none"}
       IN  \/ \E p \in Ripe(w) \ loose : \E skipped \in SUBSET loose :
                /\ Claim(w, p, skipped)
                /\ target' = [target EXCEPT ![w] = p]
                /\ Goto(w, "report")
           \/ /\ Ripe(w) = loose
              /\ st' = [t \in Tasks |-> IF t \in loose THEN "dead" ELSE st[t]]
              /\ Goto(w, IF Children(w) \cup Away(w) # {} THEN "sched" ELSE "end")
              /\ UNCHANGED target
    /\ UNCHANGED <<familyVars, sigVars, restore, bug>>

\* A signal ends the call, a wakeup repeats it.
Schedule(w) ==
    /\ At(w, "sched")
    /\ \/ w \in kill /\ Goto(w, "end")
       \/ w \notin kill /\ st[w] = "run" /\ Goto(w, "prepare")
    /\ UNCHANGED <<st, familyVars, sigVars, target, restore, bug>>

\* wait_task_zombie without the lock: the fault that makes the child a zombie again;
\* the child of another, which is given back and reported there; or on to
\* release_task.
Report(w) ==
    /\ At(w, "report")
    /\ LET p == target[w] IN
       \/ /\ Faults
          /\ st' = [st EXCEPT ![p] = "zombie"]
          /\ Goto(w, "end")
          /\ UNCHANGED <<parent, traced, plist, esig, bug>>
       \/ /\ real[p] # parent[p]
          /\ bug' = IF traced[p] THEN bug ELSE bug \cup {"unlink"}
          /\ parent' = [parent EXCEPT ![p] = real[p]]
          /\ traced' = [traced EXCEPT ![p] = FALSE]
          /\ plist' = [plist EXCEPT ![p] = NoTask]
          /\ esig' = Notified({p}, real, esig)
          /\ st' = Woken({p}, real, [st EXCEPT ![p] = "zombie"])
          /\ Goto(w, "end")
       \/ /\ real[p] = parent[p]
          /\ Goto(w, "release")
          /\ UNCHANGED <<st, parent, traced, plist, esig, bug>>
    /\ UNCHANGED <<group, real, ign, kill, gexit, target, restore>>

\* release_task, after wait_task_inactive.
Reap(w) ==
    /\ At(w, "release") /\ pc[target[w]] = "off"
    /\ Release(w, target[w], "end")
    /\ UNCHANGED <<group, real, ign, kill, gexit, target, restore>>

\* end_wait4
End(w) ==
    /\ At(w, "end")
    /\ st' = [st EXCEPT ![w] = "run"]
    /\ ign' = [u \in Tasks |-> IF restore[w] /\ group[u] = group[w] THEN TRUE ELSE ign[u]]
    /\ restore' = [restore EXCEPT ![w] = FALSE]
    /\ target' = [target EXCEPT ![w] = NoTask]
    /\ Goto(w, "user")
    /\ UNCHANGED <<familyVars, esig, kill, gexit, bug>>

-----------------------------------------------------------------------------
(***************************************************************************)
(* de_thread.                                                              *)
(***************************************************************************)
Exec(t) ==
    /\ At(t, "user") /\ t \in Execs /\ t \notin kill
    /\ ~Alone(t) /\ ~gexit[group[t]]
    /\ gexit' = [gexit EXCEPT ![group[t]] = TRUE]
    /\ kill' = kill \cup (Members(group[t]) \ {t})
    /\ Goto(t, "execcount")
    /\ UNCHANGED <<st, familyVars, esig, ign, target, restore, bug>>

\* Mutant: the leader is not accounted for.
CountLeaderOut(t) == 1

\* "Account for the thread group leader hanging around"
Hanging(t) == IF group[t] = t THEN 1 ELSE 2

\* It sleeps while there are more, and __exit_signal wakes it.
ExecCount(t) ==
    /\ At(t, "execcount")
    /\ Goto(t, IF Cardinality(Members(group[t])) > Hanging(t) THEN "execsleep"
               ELSE IF group[t] = t THEN "execdone" ELSE "execlead")
    /\ UNCHANGED <<st, familyVars, sigVars, target, restore, bug>>

\* The leader is a zombie: its PID, its parents and its tracer are taken over, and it
\* becomes a child of init.
ExecSwitch(t) ==
    /\ At(t, "execlead") /\ st[group[t]] = "zombie"
    /\ LET l == group[t]
           tracer == IF traced[l] /\ parent[l] # t THEN parent[l] ELSE NoTask
       IN  /\ group' = [group EXCEPT ![t] = t]
           /\ real' = [real EXCEPT ![t] = real[l], ![l] = Reaper]
           /\ parent' = [parent EXCEPT ![t] = IF tracer # NoTask THEN tracer ELSE real[l],
                                       ![l] = Reaper]
           /\ traced' = [traced EXCEPT ![t] = tracer # NoTask, ![l] = FALSE]
           /\ plist' = [plist EXCEPT ![t] = IF tracer \in {NoTask, real[l]} THEN Unlinked(t)
                                            ELSE real[l],
                                     ![l] = Unlinked(l)]
           /\ bug' = IF tracer # NoTask /\ Unlinked(t) # NoTask THEN bug \cup {"link"} ELSE bug
           /\ target' = [target EXCEPT ![t] = l]
    /\ esig' = [esig EXCEPT ![t] = "SIGCHLD"]
    /\ Goto(t, "execfree")
    /\ UNCHANGED <<st, ign, kill, gexit, restore>>

ExecFree(t) ==
    /\ At(t, "execfree") /\ pc[target[t]] = "off"
    /\ Release(t, target[t], "execdone")
    /\ UNCHANGED <<group, real, ign, kill, gexit, target, restore>>

\* A signal structure of its own; it must be alone now.
ExecDone(t) ==
    /\ At(t, "execdone")
    /\ gexit' = [gexit EXCEPT ![t] = FALSE]
    /\ kill' = kill \ {t}
    /\ target' = [target EXCEPT ![t] = NoTask]
    /\ bug' = IF Alone(t) /\ group[t] = t THEN bug ELSE bug \cup {"exec"}
    /\ Goto(t, "user")
    /\ UNCHANGED <<st, familyVars, esig, ign, restore>>

-----------------------------------------------------------------------------
(***************************************************************************)
(* ptrace_attach.  Tracers let go by exiting.                              *)
(***************************************************************************)
\* The checks and the flag, under task_lock.
Attach(w, p) ==
    /\ At(w, "user") /\ w \in Tracers /\ w \notin kill
    /\ Exists(p) /\ p # Reaper /\ group[p] # group[w] /\ ~traced[p]
    /\ pc[p] \notin {"exiting", "exit", "off"}
    /\ traced' = [traced EXCEPT ![p] = TRUE]
    /\ target' = [target EXCEPT ![w] = p]
    /\ Goto(w, "attach")
    /\ UNCHANGED <<st, group, parent, real, plist, sigVars, restore, bug>>

\* __ptrace_link, under tasklist_lock.  REMOVE_LINKS asserts that the task is still on
\* the list of tasks (sched.h:1022).
AttachLink(w) ==
    /\ At(w, "attach")
    /\ LET p == target[w] IN
       /\ bug' = IF plist[p] = NoTask /\ (Exists(p) \/ parent[p] = w) THEN bug
                 ELSE bug \cup {"link"}
       /\ plist' = [plist EXCEPT ![p] = IF parent[p] = w THEN @ ELSE parent[p]]
       /\ parent' = [parent EXCEPT ![p] = w]
    /\ target' = [target EXCEPT ![w] = NoTask]
    /\ Goto(w, "user")
    /\ UNCHANGED <<st, group, real, traced, sigVars, restore>>

-----------------------------------------------------------------------------
\* What a task does in the kernel once it has begun.
Step(t) ==
    \/ ExitNotify(t) \/ Leave(t)
    \/ Prepare(t) \/ Scan(t) \/ Schedule(t) \/ Report(t) \/ Reap(t) \/ End(t)
    \/ ExecCount(t) \/ ExecSwitch(t) \/ ExecFree(t) \/ ExecDone(t)
    \/ AttachLink(t)

\* What it may begin.
Begin(t) ==
    \/ \E c \in Tasks, mode \in Modes, inherit \in BOOLEAN : Fork(t, c, mode, inherit)
    \/ \E ignore \in BOOLEAN : Sigaction(t, ignore)
    \/ Exit(t) \/ GroupExit(t) \/ Wait(t) \/ Exec(t)
    \/ \E p \in Tasks : Attach(t, p)

Next == \E t \in Tasks : Step(t) \/ Begin(t)

Spec == Init /\ [][Next]_vars

\* A task goes on with what it has begun, init keeps waiting, and SIGKILL kills.
Fairness ==
    /\ \A t \in Tasks : WF_vars(Step(t))
    /\ WF_vars(Wait(Reaper))
    /\ \A t \in Tasks : WF_vars(t \in kill /\ Exit(t))

FairSpec == Spec /\ Fairness

-----------------------------------------------------------------------------
\* The variables have their types, and what does not exist does nothing.
TypeOK ==
    /\ st \in [Tasks -> {"none", "run", "sleep", "zombie", "dead", "gone"}]
    /\ group \in [Tasks -> Tasks] /\ parent \in [Tasks -> Tasks]
    /\ real \in [Tasks -> Tasks] /\ plist \in [Tasks -> Tasks \cup {NoTask}]
    /\ traced \in [Tasks -> BOOLEAN] /\ esig \in [Tasks -> {"SIGCHLD", "none"}]
    /\ ign \in [Tasks -> BOOLEAN] /\ kill \subseteq Tasks
    /\ gexit \in [Tasks -> BOOLEAN] /\ pc \in [Tasks -> PCs]
    /\ target \in [Tasks -> Tasks \cup {NoTask}] /\ restore \in [Tasks -> BOOLEAN]
    /\ bug \subseteq {"twice", "tracees", "reparent", "children", "unlink", "exec",
                      "link"}
    /\ \A t \in Tasks : st[t] \in {"zombie", "dead", "gone"} => pc[t] \in {"exit", "off"}

\* Nobody is left with a parent that has died: whatever the order in which the members
\* of a family exit, each child is passed on to a task that can still wait for it
\* (exit.c:516-549).
ParentsLive ==
    \A t \in Tasks : Exists(t) =>
        /\ st[parent[t]] \in {"run", "sleep"} /\ st[real[t]] \in {"run", "sleep"}
        /\ plist[t] # NoTask => plist[t] = real[t]

\* The leader is the last of its group to be released, for its task_struct stands for
\* the group in release_task, forget_original_parent and de_thread (exit.c:67-75).
LeaderLast == \A t \in Tasks : Exists(t) => st[group[t]] # "gone"

\* "no other thread can reap it because we set its state to TASK_DEAD" (exit.c:860):
\* a task is released once.
ReapedOnce == "twice" \notin bug

\* Without tracers none of the assertions fails: besides ReapedOnce, a task that is
\* released is on nobody's list and has no tracees (exit.c:62), the dead leave no
\* children behind (exit.c:594), and after de_thread the caller is alone and the
\* leader (exec.c:666-669).
NoBug == bug = {}

\* choose_new_parent does not make the tracer the real parent (exit.c:456).
NoReparentBug == "reparent" \notin bug

\* wait4 sleeps only for a child that is still to die: not with a zombie at hand, and
\* not when no child is left, in which case it must return ECHILD (signal.c:1244-1246).
\* The children of a group whose leader is a zombie have gone to init.
NoLostWait ==
    \A w \in Tasks :
        pc[w] = "sched" /\ st[w] = "sleep" /\ w \notin kill /\ st[group[w]] # "zombie" =>
        /\ Ripe(w) = {}
        /\ \E p \in Children(w) \cup Away(w) : st[p] # "dead"

\* "Try to give them to another thread in our thread group, and if no such member
\* exists, give it to the global child reaper process" (exit.c:510-515).
StayInGroup ==
    [][\A t \in Tasks : st[t] # "zombie" /\ st'[t] = "zombie" =>
         LET live == {u \in Members(group[t]) : st'[u] \in {"run", "sleep"}}
             kids == {p \in Tasks : Exists(p) /\ real[p] = t /\ group[p] # group[t]}
         IN  live # {} => \A p \in kids : real'[p] \in live]_vars

\* Who need not be waited for does not stay a zombie: "we should be reaped automatically
\* and not left for our parent's wait4 call" (signal.c:1240).
AutoReaped ==
    \A t \in Tasks : ~(st[t] = "zombie" /\ esig[t] = "none" /\ pc[t] = "off")

\* init reaps what falls to it.
InitReaps ==
    \A t \in Tasks : (st[t] = "zombie" /\ parent[t] = Reaper /\ Alone(t)) ~> st[t] = "gone"

\* exec gets through once the others have been killed.
ExecEnds == \A t \in Tasks : pc[t] = "execcount" ~> pc[t] = "user"
=============================================================================
