-------------------------- MODULE PosixLockProofs --------------------------
(***************************************************************************)
(* PosixLock, for any number of processes, requests and locks.             *)
(*                                                                         *)
(* First the sleepers: SleepInv is an invariant.  The steps that only add  *)
(* or remove a waiter are short; the work is in what the loop of           *)
(* posix_lock_file does to the waiters of the locks that it merges, cuts   *)
(* and deletes.                                                            *)
(*                                                                         *)
(* Then the list: as long as no lock is asked for on the last byte, behind *)
(* which fl_end + 1 overflows, ListInv is an invariant and PosixLock       *)
(* implements ByteLocks.  Fits is the invariant of the loop: the locks     *)
(* that it has seen are before caller, behind it, or cut by it, and the    *)
(* bytes outside of caller are locked as before.                           *)
(*                                                                         *)
(* Then the race of fcntl_setlk with close, in terms of the bytes locked.  *)
(*                                                                         *)
(* Last the flocks and leases of FlockLease, for any tasks and open files: *)
(* who sleeps has somebody to wake it, flocks of different files do not    *)
(* conflict, and an open finds no lease that it conflicts with.            *)
(***************************************************************************)
EXTENDS PosixLock, ListFacts

-----------------------------------------------------------------------------
(* Numbers, and functions that are defined by recursion.                   *)

\* Induction, for a set of numbers.
LEMMA Induction ==
    ASSUME NEW T, 0 \in T, \A k \in Nat : k \in T => k + 1 \in T
    PROVE  Nat \subseteq T
<1> SUFFICES ASSUME Nat \ T # {} PROVE FALSE
  OBVIOUS
<1>1. PICK x \in Nat \ T : \A y \in Nat \ T : x <= y
  BY LeastNumber
<1>2. x # 0 /\ x - 1 \in Nat /\ (x - 1) + 1 = x /\ ~(x <= x - 1)
  OBVIOUS
<1>3. x - 1 \in T
  BY <1>1, <1>2
<1> QED
  BY <1>2, <1>3

\* A loop of n rounds over the states S has a run.
IsRun(g, n, S, start, step) ==
    /\ g \in [0 .. n -> S] /\ g[0] = start
    /\ \A i \in 1 .. n : g[i] = step[<<g[i - 1], i>>]

Steps(S, n) == [S \X (1 .. n) -> S]

LEMMA Rounds ==
    ASSUME NEW S, NEW start \in S, NEW n \in Nat, NEW step \in Steps(S, n)
    PROVE  \E g : IsRun(g, n, S, start, step)
<1> USE DEF IsRun, Steps
<1> DEFINE Run(g, k) == IsRun(g, k, S, start, step)
           T == {k \in Nat : k <= n => \E g \in [0 .. k -> S] : Run(g, k)}
<1>1. 0 \in T
  <2>1. Run([i \in 0 .. 0 |-> start], 0)
    OBVIOUS
  <2> QED
    BY <2>1
<1>2. ASSUME NEW k \in Nat, k \in T PROVE k + 1 \in T
  <2> SUFFICES ASSUME k + 1 <= n PROVE \E g \in [0 .. k + 1 -> S] : Run(g, k + 1)
    OBVIOUS
  <2>1. PICK g \in [0 .. k -> S] : Run(g, k)
    BY <1>2
  <2>2. PICK x \in S : x = step[<<g[k], k + 1>>]
    <3>1. g[k] \in S /\ k + 1 \in 1 .. n
      BY <2>1
    <3> QED
      BY <3>1
  <2>3. PICK h \in [0 .. k + 1 -> S] : h = [i \in 0 .. k + 1 |-> IF i = k + 1 THEN x ELSE g[i]]
    <3>1. \A i \in 0 .. k + 1 : i # k + 1 => i \in 0 .. k
      OBVIOUS
    <3> QED
      BY <3>1
  <2>4. \A i \in 0 .. k : h[i] = g[i]
    BY <2>3
  <2>5. h[0] = start
    BY <2>1, <2>4
  <2>6. ASSUME NEW i \in 1 .. k + 1 PROVE h[i] = step[<<h[i - 1], i>>]
    <3>1. CASE i = k + 1
      <4>1. i - 1 = k /\ k \in 0 .. k /\ k + 1 \in 0 .. k + 1
        BY <3>1
      <4>2. h[k + 1] = x /\ h[k] = g[k]
        BY <4>1, <2>3, <2>4
      <4> QED
        BY <3>1, <4>1, <4>2, <2>2
    <3>2. CASE i # k + 1
      <4>1. i \in 1 .. k /\ i - 1 \in 0 .. k /\ i \in 0 .. k
        BY <3>2
      <4> QED
        BY <4>1, <2>1, <2>4
    <3> QED
      BY <3>1, <3>2
  <2> QED
    BY <2>3, <2>5, <2>6
<1>3. n \in T
  <2> HIDE DEF T
  <2> QED
    BY <1>1, <1>2, Induction
<1> QED
  BY <1>3

LEMMA MinOf ==
    ASSUME NEW T, T \subseteq Nat, T # {}
    PROVE  Min(T) \in T /\ \A y \in T : Min(T) <= y
BY LeastNumber DEF Min

LEMMA MaxOf ==
    ASSUME NEW n \in Nat, NEW T, T \subseteq 0 .. n, T # {}
    PROVE  Max(T) \in T /\ \A y \in T : Max(T) >= y
<1> DEFINE U == {k \in 0 .. n : n - k \in T}
<1>1. U \subseteq Nat /\ U # {}
  <2>1. PICK y \in T : TRUE
    OBVIOUS
  <2>2. PICK k \in Int : k = n - y
    OBVIOUS
  <2>3. k \in 0 .. n /\ n - k = y
    BY <2>2
  <2>4. k \in U
    BY <2>1, <2>3
  <2>5. U \subseteq Nat
    OBVIOUS
  <2> HIDE DEF U
  <2> QED
    BY <2>4, <2>5
<1>2. PICK x \in U : \A y \in U : x <= y
  BY <1>1, LeastNumber
<1>3. n - x \in T /\ x \in 0 .. n
  OBVIOUS
<1>4. ASSUME NEW y \in T PROVE n - x >= y
  <2>1. n - y \in U
    <3>1. n - y \in 0 .. n /\ n - (n - y) = y
      OBVIOUS
    <3> QED
      BY <3>1
  <2>2. x <= n - y /\ y \in 0 .. n
    BY <2>1, <1>2
  <2> QED
    BY <2>2, <1>3
<1>5. \E z \in T : \A y \in T : z >= y
  BY <1>3, <1>4
<1> QED
  BY <1>5 DEF Max

-----------------------------------------------------------------------------
(* One round of the loop.  Every waiter of the lock that it looks at is    *)
(* woken, or stays behind a lock that covers the one it was behind.        *)

LoopStates ==
    [done : Seq(Locks), rest : Seq(Locks), caller : Ranges, file : Ranges, at : Nat,
     added : BOOLEAN, left : Nat, right : BOOLEAN, woken : SUBSET Procs]

Kept(s) == Range(s.done) \cup Range(s.rest)

\* lock has the type and the range of r.
Agrees(lock, r) == lock.type = r.type /\ lock.start = r.start /\ lock.end = r.end

\* What the loop keeps for p: caller points to done[at] if that is one of the locks.
Good(p) ==
    {s \in LoopStates :
        /\ s.at \in 0 .. Len(s.done)
        /\ s.at # 0 => Agrees(s.done[s.at], s.caller)
        /\ s.right => s.rest # <<>>
        /\ \A l \in Kept(s) : l.owner = p}

Covers(m, l) == m.type = l.type /\ m.start <= l.start /\ m.end >= l.end

\* Nobody is lost between the locks of s with one more, lock, and those of t.
Passes(s, lock, t) ==
    /\ s.woken \subseteq t.woken
    /\ \A l \in Kept(s) \cup {lock} : \A q \in l.block :
           q \in t.woken \/ \E m \in Kept(t) : q \in m.block /\ Covers(m, l)

LEMMA LockParts ==
    ASSUME NEW l \in Locks
    PROVE  /\ l.owner \in Procs /\ l.type \in {"RDLCK", "WRLCK"} /\ l.start \in Int /\ l.end \in Int
           /\ l.block \subseteq Procs /\ Covers(l, l)
BY DEF Locks, Covers

LEMMA StateParts ==
    ASSUME NEW s \in LoopStates
    PROVE  /\ s.done \in Seq(Locks) /\ s.rest \in Seq(Locks) /\ s.caller \in Ranges /\ s.file \in Ranges
           /\ s.at \in Nat /\ s.added \in BOOLEAN /\ s.left \in Nat /\ s.right \in BOOLEAN
           /\ s.woken \subseteq Procs /\ Kept(s) \subseteq Locks
<1>1. /\ s.done \in Seq(Locks) /\ s.rest \in Seq(Locks) /\ s.caller \in Ranges /\ s.file \in Ranges
      /\ s.at \in Nat /\ s.added \in BOOLEAN /\ s.left \in Nat /\ s.right \in BOOLEAN
      /\ s.woken \subseteq Procs
  BY DEF LoopStates
<1>2. Kept(s) \subseteq Locks
  BY <1>1 DEF Kept, Range
<1> QED
  BY <1>1, <1>2

\* next_lock
LEMMA KeepRound ==
    ASSUME NEW p, NEW s \in Good(p), NEW lock \in Locks, lock.owner = p,
           NEW t \in LoopStates, t.done = Append(s.done, lock), t.rest = s.rest,
           t.caller = s.caller, t.at = s.at, t.woken = s.woken, t.right = s.right
    PROVE  t \in Good(p) /\ Passes(s, lock, t)
<1>1. s \in LoopStates
  BY DEF Good
<1>2. Kept(t) = Kept(s) \cup {lock} /\ Kept(s) \subseteq Locks
  BY <1>1, StateParts, AppendElements DEF Kept
<1>3. t.at \in 0 .. Len(t.done) /\ (t.at # 0 => t.done[t.at] = s.done[s.at])
  BY <1>1, StateParts DEF Good
<1>4. t \in Good(p)
  BY <1>2, <1>3 DEF Good
<1>5. Passes(s, lock, t)
  BY <1>2, LockParts DEF Passes
<1> QED
  BY <1>4, <1>5

\* break, and the locks after it
LEMMA StopRound ==
    ASSUME NEW p, NEW s \in Good(p), NEW lock \in Locks, lock.owner = p,
           NEW t \in LoopStates, t.done = s.done, t.rest = Append(s.rest, lock),
           t.caller = s.caller, t.at = s.at, t.woken = s.woken
    PROVE  t \in Good(p) /\ Passes(s, lock, t)
<1>1. s \in LoopStates
  BY DEF Good
<1>2. Kept(t) = Kept(s) \cup {lock} /\ Kept(s) \subseteq Locks /\ t.rest # <<>>
  BY <1>1, StateParts, AppendElements DEF Kept
<1>4. t \in Good(p)
  BY <1>2 DEF Good
<1>5. Passes(s, lock, t)
  BY <1>2, LockParts DEF Passes
<1> QED
  BY <1>4, <1>5

\* locks_delete_lock
LEMMA DeleteRound ==
    ASSUME NEW p, NEW s \in Good(p), NEW lock \in Locks, lock.owner = p,
           NEW t \in LoopStates, t.done = s.done, t.rest = s.rest,
           t.caller = s.caller, t.at = s.at, t.woken = s.woken \cup lock.block, t.right = s.right
    PROVE  t \in Good(p) /\ Passes(s, lock, t)
<1>1. s \in LoopStates
  BY DEF Good
<1>2. Kept(t) = Kept(s) /\ Kept(s) \subseteq Locks
  BY <1>1, StateParts DEF Kept
<1>4. t \in Good(p)
  BY <1>2 DEF Good
<1>5. Passes(s, lock, t)
  BY <1>2, LockParts DEF Passes
<1> QED
  BY <1>4, <1>5

\* A lock of the same type is merged into the one that caller is.
LEMMA MergeRound ==
    ASSUME NEW p, NEW s \in Good(p), NEW lock \in Locks, lock.owner = p,
           NEW t \in LoopStates, NEW r \in Ranges, Covers(r, s.caller),
           t.done = (IF s.at = 0 THEN s.done ELSE [s.done EXCEPT ![s.at] = With(s.done[s.at], r)]),
           t.rest = s.rest, t.caller = r, t.at = s.at,
           t.woken = s.woken \cup lock.block, t.right = s.right
    PROVE  t \in Good(p) /\ Passes(s, lock, t)
<1>1. s \in LoopStates
  BY DEF Good
<1>2. s.done \in Seq(Locks) /\ t.done \in Seq(Locks) /\ Kept(s) \subseteq Locks /\ Len(s.done) \in Nat
  <2>1. s.done \in Seq(Locks) /\ Kept(s) \subseteq Locks
    BY <1>1, StateParts
  <2>2. t.done \in Seq(Locks)
    BY ONLY t \in LoopStates DEF LoopStates
  <2> QED
    BY <2>1, <2>2
<1>3. CASE s.at = 0
  <2>1. Kept(t) = Kept(s)
    BY <1>3 DEF Kept
  <2>2. t \in Good(p)
    BY <1>3, <2>1 DEF Good
  <2>3. Passes(s, lock, t)
    BY <1>2, <2>1, LockParts DEF Passes
  <2> QED
    BY <2>2, <2>3
<1>4. CASE s.at # 0
  <2>1. PICK a \in 1 .. Len(s.done) : a = s.at
    BY <1>2, <1>4 DEF Good
  <2>2. PICK l \in Locks, m \in Locks :
            l = s.done[a] /\ m = With(l, r) /\ t.done = [s.done EXCEPT ![a] = m]
    <3>1. s.done[a] \in Locks
      BY <1>2
    <3>2. s.done[a].type = s.caller.type
      BY <1>4, <2>1 DEF Good, Agrees
    <3>3. r.type = s.caller.type /\ r.type \in Types /\ r.start \in Int /\ r.end \in Int
      BY DEF Covers, Ranges
    <3>4. With(s.done[a], r) \in Locks
      BY <3>1, <3>2, <3>3 DEF With, Locks
    <3> QED
      BY <1>4, <2>1, <3>1, <3>4
  <2>3. m.owner = l.owner /\ m.block = l.block /\ Agrees(m, r) /\ Covers(m, l)
    <3>1. Agrees(l, s.caller)
      BY <1>4, <2>1, <2>2 DEF Good
    <3> QED
      BY <2>2, <3>1 DEF With, Locks, Agrees, Covers
  <2>4. /\ t.done[a] = m /\ Len(t.done) = Len(s.done)
        /\ \A i \in 1 .. Len(s.done) : i # a => t.done[i] = s.done[i]
        /\ DOMAIN t.done = 1 .. Len(s.done) /\ DOMAIN s.done = 1 .. Len(s.done)
    BY <1>2, <2>1, <2>2
  <2>5. m \in Kept(t) /\ l \in Kept(s)
    BY <2>1, <2>2, <2>4 DEF Kept, Range
  <2>6. \A x \in Kept(t) : x = m \/ x \in Kept(s)
    BY <2>4 DEF Kept, Range
  <2>7. \A x \in Kept(s) : x = l \/ x \in Kept(t)
    BY <2>2, <2>4 DEF Kept, Range
  <2>8. t \in Good(p)
    <3>1. t.at \in 0 .. Len(t.done) /\ Agrees(t.done[t.at], t.caller)
      BY <2>1, <2>3, <2>4
    <3>2. \A x \in Kept(t) : x.owner = p
      BY <2>3, <2>5, <2>6 DEF Good
    <3>3. t.right => t.rest # <<>>
      BY DEF Good
    <3> QED
      BY <3>1, <3>2, <3>3 DEF Good
  <2>9. Passes(s, lock, t)
    <3>1. ASSUME NEW x \in Kept(s) \cup {lock}, NEW q \in x.block
          PROVE  q \in t.woken \/ \E y \in Kept(t) : q \in y.block /\ Covers(y, x)
      BY <3>1, <1>2, <2>3, <2>5, <2>7, LockParts
    <3> QED
      BY <3>1 DEF Passes
  <2> QED
    BY <2>8, <2>9
<1> QED
  BY <1>3, <1>4

\* A lock takes the place of the new one, with its waiters or without.
LEMMA AbsorbRound ==
    ASSUME NEW p, NEW s \in Good(p), NEW lock \in Locks, lock.owner = p,
           NEW t \in LoopStates, NEW x \in Locks, x.owner = p, Agrees(x, t.caller),
           t.done = Append(s.done, x), t.rest = s.rest, t.at = Len(s.done) + 1, t.right = s.right,
           \/ x.block = lock.block /\ Covers(x, lock) /\ t.woken = s.woken
           \/ x.block = {} /\ t.woken = s.woken \cup lock.block
    PROVE  t \in Good(p) /\ Passes(s, lock, t)
<1>1. s \in LoopStates
  BY DEF Good
<1>2. Kept(t) = Kept(s) \cup {x} /\ Kept(s) \subseteq Locks
  BY <1>1, StateParts, AppendElements DEF Kept
<1>3. t.at \in 0 .. Len(t.done) /\ t.done[t.at] = x
  BY <1>1, StateParts
<1>4. t \in Good(p)
  BY <1>2, <1>3 DEF Good
<1>5. Passes(s, lock, t)
  <2>1. ASSUME NEW l \in Kept(s) \cup {lock}, NEW q \in l.block
        PROVE  q \in t.woken \/ \E y \in Kept(t) : q \in y.block /\ Covers(y, l)
    BY <2>1, <1>2, LockParts
  <2>2. s.woken \subseteq t.woken
    OBVIOUS
  <2> QED
    BY <2>1, <2>2 DEF Passes
<1> QED
  BY <1>4, <1>5

Round(p, s, lock, t) == t \in Good(p) /\ Passes(s, lock, t)

\* The fields of a state of the loop after an assignment.
LEMMA SetKept ==
    ASSUME NEW s \in LoopStates, NEW lock \in Locks
    PROVE  LET t == Keep(s, lock)
           IN  /\ t \in LoopStates /\ t.done = Append(s.done, lock)
               /\ t.added = s.added /\ t.left = s.left /\ t.rest = s.rest /\ t.caller = s.caller
               /\ t.file = s.file /\ t.at = s.at /\ t.right = s.right /\ t.woken = s.woken
<1>1. PICK d \in Seq(Locks) : d = Append(s.done, lock)
  BY StateParts, AppendElements
<1>2. Keep(s, lock) = [s EXCEPT !.done = d]
  BY <1>1 DEF Keep, LoopStates
<1>3. LET t == [s EXCEPT !.done = d]
      IN  /\ t \in LoopStates /\ t.done = d
          /\ t.added = s.added /\ t.left = s.left /\ t.rest = s.rest /\ t.caller = s.caller
          /\ t.file = s.file /\ t.at = s.at /\ t.right = s.right /\ t.woken = s.woken
  BY DEF LoopStates
<1> QED
  BY <1>1, <1>2, <1>3

LEMMA SetStopped ==
    ASSUME NEW s \in LoopStates, NEW lock \in Locks
    PROVE  LET t == Stop(s, lock)
           IN  /\ t \in LoopStates /\ t.rest = Append(s.rest, lock)
               /\ t.added = s.added /\ t.left = s.left /\ t.done = s.done /\ t.caller = s.caller
               /\ t.file = s.file /\ t.at = s.at /\ t.right = s.right /\ t.woken = s.woken
<1>1. PICK d \in Seq(Locks) : d = Append(s.rest, lock)
  BY StateParts, AppendElements
<1>2. Stop(s, lock) = [s EXCEPT !.rest = d]
  BY <1>1 DEF Stop, LoopStates
<1>3. LET t == [s EXCEPT !.rest = d]
      IN  /\ t \in LoopStates /\ t.rest = d
          /\ t.added = s.added /\ t.left = s.left /\ t.done = s.done /\ t.caller = s.caller
          /\ t.file = s.file /\ t.at = s.at /\ t.right = s.right /\ t.woken = s.woken
  BY DEF LoopStates
<1> QED
  BY <1>1, <1>2, <1>3

LEMMA SetRight ==
    ASSUME NEW s \in LoopStates
    PROVE  LET t == [s EXCEPT !.right = TRUE]
           IN  /\ t \in LoopStates /\ t.right
               /\ t.added = s.added /\ t.left = s.left /\ t.done = s.done /\ t.rest = s.rest
               /\ t.caller = s.caller /\ t.file = s.file /\ t.at = s.at /\ t.woken = s.woken
BY DEF LoopStates

LEMMA SetDeleted ==
    ASSUME NEW s \in LoopStates, NEW lock \in Locks
    PROVE  LET t == Delete(s, lock)
           IN  /\ t \in LoopStates /\ t.woken = s.woken \cup lock.block
               /\ t.added = s.added /\ t.left = s.left /\ t.done = s.done /\ t.rest = s.rest
               /\ t.caller = s.caller /\ t.file = s.file /\ t.at = s.at /\ t.right = s.right
<1>1. PICK w \in SUBSET Procs : w = s.woken \cup lock.block
  BY StateParts, LockParts
<1>2. Delete(s, lock) = [s EXCEPT !.woken = w]
  BY <1>1 DEF Delete, LoopStates
<1>3. LET t == [s EXCEPT !.woken = w]
      IN  /\ t \in LoopStates /\ t.woken = w
          /\ t.added = s.added /\ t.left = s.left /\ t.done = s.done /\ t.rest = s.rest
          /\ t.caller = s.caller /\ t.file = s.file /\ t.at = s.at /\ t.right = s.right
  BY DEF LoopStates
<1> QED
  BY <1>1, <1>2, <1>3

LEMMA SetFile ==
    ASSUME NEW s \in LoopStates, NEW r \in Ranges
    PROVE  LET t == [s EXCEPT !.file = r]
           IN  /\ t \in LoopStates /\ t.file = r
               /\ t.added = s.added /\ t.left = s.left /\ t.done = s.done /\ t.rest = s.rest
               /\ t.caller = s.caller /\ t.at = s.at /\ t.right = s.right /\ t.woken = s.woken
BY DEF LoopStates

\* caller becomes range, with the lock that it is, if any
LEMMA SetCaller ==
    ASSUME NEW s \in LoopStates, NEW r \in Ranges, NEW d \in Seq(Locks),
           d = IF s.at = 0 THEN s.done ELSE [s.done EXCEPT ![s.at] = With(s.done[s.at], r)]
    PROVE  LET t == Becomes(s, r)
           IN  /\ t \in LoopStates /\ t.caller = r /\ t.done = d
               /\ t.added = s.added /\ t.left = s.left /\ t.rest = s.rest
               /\ t.file = s.file /\ t.at = s.at /\ t.right = s.right /\ t.woken = s.woken
<1>1. Becomes(s, r) = [s EXCEPT !.caller = r, !.done = d]
  <2>1. CASE s.at = 0
    <3>1. [s EXCEPT !.caller = r] = [s EXCEPT !.caller = r, !.done = s.done]
      BY DEF LoopStates
    <3> QED
      BY <2>1, <3>1 DEF Becomes
  <2>2. CASE s.at # 0
    <3>1. Becomes(s, r) = [s EXCEPT !.caller = r, !.done[s.at] = With(@, r)]
      BY <2>2 DEF Becomes
    <3>2. d = [s.done EXCEPT ![s.at] = With(s.done[s.at], r)]
      BY <2>2
    <3>3. [s EXCEPT !.caller = r, !.done[s.at] = With(@, r)] = [s EXCEPT !.caller = r, !.done = d]
      BY <3>2 DEF LoopStates
    <3> QED
      BY <3>1, <3>3
  <2> QED
    BY <2>1, <2>2
<1>2. LET t == [s EXCEPT !.caller = r, !.done = d]
      IN  /\ t \in LoopStates /\ t.caller = r /\ t.done = d
          /\ t.added = s.added /\ t.left = s.left /\ t.rest = s.rest
          /\ t.file = s.file /\ t.at = s.at /\ t.right = s.right /\ t.woken = s.woken
  BY DEF LoopStates
<1> QED
  BY <1>1, <1>2

\* caller becomes a lock of the list
LEMMA SetAbsorbed ==
    ASSUME NEW s \in LoopStates, NEW lock, NEW r \in Ranges, NEW x \in Locks, x = With(lock, r), ~s.added
    PROVE  LET t == Absorb(s, lock, r)
           IN  /\ t \in LoopStates /\ t.caller = r /\ t.done = Append(s.done, x)
               /\ t.at = Len(s.done) + 1 /\ t.added
               /\ t.left = s.left /\ t.rest = s.rest /\ t.file = s.file /\ t.right = s.right /\ t.woken = s.woken
<1>1. PICK d \in Seq(Locks), n \in Nat : d = Append(s.done, x) /\ n = Len(s.done) + 1
  <2>1. s.done \in Seq(Locks)
    BY StateParts
  <2>2. Append(s.done, x) \in Seq(Locks) /\ Len(s.done) + 1 \in Nat
    BY <2>1
  <2> QED
    BY <2>2
<1>2. Absorb(s, lock, r) = [s EXCEPT !.done = d, !.caller = r, !.at = n, !.added = TRUE]
  <2>1. Absorb(s, lock, r) =
          [s EXCEPT !.done = Append(@, With(lock, r)), !.caller = r, !.at = Len(s.done) + 1, !.added = TRUE]
    BY DEF Absorb
  <2>2. [s EXCEPT !.done = Append(@, With(lock, r)), !.caller = r, !.at = Len(s.done) + 1, !.added = TRUE]
          = [s EXCEPT !.done = d, !.caller = r, !.at = n, !.added = TRUE]
    BY <1>1 DEF LoopStates
  <2> QED
    BY <2>1, <2>2
<1>3. LET t == [s EXCEPT !.done = d, !.caller = r, !.at = n, !.added = TRUE]
      IN  /\ t \in LoopStates /\ t.caller = r /\ t.done = d /\ t.at = n /\ t.added
          /\ t.left = s.left /\ t.rest = s.rest /\ t.file = s.file /\ t.right = s.right /\ t.woken = s.woken
  BY DEF LoopStates
<1> QED
  BY <1>1, <1>2, <1>3

\* Keep, Stop and Delete, also after left, right and added have been set.
LEMMA SimpleRounds ==
    ASSUME NEW p, NEW s \in Good(p), NEW lock \in Locks, lock.owner = p,
           NEW u \in LoopStates, u.done = s.done, u.rest = s.rest, u.caller = s.caller, u.at = s.at,
           u.woken = s.woken, u.right = s.right
    PROVE  /\ Round(p, s, lock, Keep(u, lock))
           /\ Round(p, s, lock, Stop(u, lock))
           /\ Round(p, s, lock, [Stop(u, lock) EXCEPT !.right = TRUE])
           /\ Round(p, s, lock, Delete(u, lock))
<1>1. Round(p, s, lock, Keep(u, lock))
  <2>1. PICK t : t = Keep(u, lock)
    OBVIOUS
  <2>2. /\ t \in LoopStates /\ t.done = Append(s.done, lock) /\ t.rest = s.rest /\ t.caller = s.caller
        /\ t.at = s.at /\ t.woken = s.woken /\ t.right = s.right
    BY <2>1, SetKept
  <2>3. t \in Good(p) /\ Passes(s, lock, t)
    BY <2>2, KeepRound
  <2> QED
    BY <2>1, <2>3 DEF Round
<1>2. PICK v : v = Stop(u, lock)
  OBVIOUS
<1>3. /\ v \in LoopStates /\ v.done = s.done /\ v.rest = Append(s.rest, lock) /\ v.caller = s.caller
      /\ v.at = s.at /\ v.woken = s.woken
  BY <1>2, SetStopped
<1>4. Round(p, s, lock, v)
  BY <1>3, StopRound DEF Round
<1>5. Round(p, s, lock, [v EXCEPT !.right = TRUE])
  <2>1. PICK t : t = [v EXCEPT !.right = TRUE]
    OBVIOUS
  <2>2. /\ t \in LoopStates /\ t.done = s.done /\ t.rest = Append(s.rest, lock) /\ t.caller = s.caller
        /\ t.at = s.at /\ t.woken = s.woken
    BY <1>3, <2>1, SetRight
  <2>3. Round(p, s, lock, t)
    BY <2>2, StopRound DEF Round
  <2> QED
    BY <2>1, <2>3
<1>6. Round(p, s, lock, Delete(u, lock))
  <2>1. PICK t : t = Delete(u, lock)
    OBVIOUS
  <2>2. /\ t \in LoopStates /\ t.done = s.done /\ t.rest = s.rest /\ t.caller = s.caller
        /\ t.at = s.at /\ t.woken = s.woken \cup lock.block /\ t.right = s.right
    BY <2>1, SetDeleted
  <2>3. Round(p, s, lock, t)
    BY <2>2, DeleteRound DEF Round
  <2> QED
    BY <2>1, <2>3
<1> QED
  BY <1>1, <1>2, <1>4, <1>5, <1>6

LEMMA SameTypeRound ==
    ASSUME NEW p, NEW s \in Good(p), NEW lock \in Locks, lock.owner = p, s.caller.type = lock.type
    PROVE  Round(p, s, lock, SameType(s, lock))
<1>1. s \in LoopStates
  BY DEF Good
<1>2. PICK r : r = Merged(s.caller, lock)
  OBVIOUS
<1>3. /\ r \in Ranges /\ Covers(r, s.caller)
      /\ r.type = lock.type /\ r.start <= lock.start /\ r.end >= lock.end
  <2>1. PICK c \in Ranges : c = s.caller /\ c.type = lock.type
    BY <1>1, StateParts
  <2>2. PICK a \in Int, b \in Int :
            /\ a = Min2(c.start, lock.start) /\ b = Max2(c.end, lock.end)
            /\ a <= c.start /\ a <= lock.start /\ b >= c.end /\ b >= lock.end
    BY DEF Min2, Max2, Ranges, Locks
  <2>3. r = [c EXCEPT !.start = a, !.end = b]
    BY <1>2, <2>1, <2>2 DEF Merged, Ranges
  <2>4. r \in Ranges /\ r.type = c.type /\ r.start = a /\ r.end = b
    BY <2>3 DEF Ranges
  <2> QED
    BY <2>1, <2>2, <2>4 DEF Covers
<1>4. PICK f \in Ranges : f = IF s.at = 0 THEN r ELSE s.file
  BY <1>1, <1>3, StateParts
<1>5. PICK u : u = [s EXCEPT !.file = f]
  OBVIOUS
<1>6. /\ u.done = s.done /\ u.rest = s.rest /\ u.caller = s.caller /\ u.at = s.at /\ u.added = s.added
      /\ u.woken = s.woken /\ u.right = s.right /\ u.left = s.left /\ u \in LoopStates
  BY <1>1, <1>5, SetFile
<1>7. Round(p, s, lock, Absorb(u, lock, r))
  <2>1. CASE s.added
    <3>1. Absorb(u, lock, r) = Delete(Becomes(u, r), lock)
      BY <1>6, <2>1 DEF Absorb
    <3>2. PICK d : d = IF s.at = 0 THEN s.done ELSE [s.done EXCEPT ![s.at] = With(s.done[s.at], r)]
      OBVIOUS
    <3>3. d \in Seq(Locks)
      <4>1. s.done \in Seq(Locks)
        BY <1>1, StateParts
      <4>2. CASE s.at = 0
        BY <3>2, <4>1, <4>2
      <4>3. CASE s.at # 0
        <5>1. s.at \in 1 .. Len(s.done)
          BY <4>1, <4>3 DEF Good
        <5>2. s.done[s.at] \in Locks
          BY <4>1, <5>1
        <5>3. s.done[s.at].type = r.type
          BY <1>3, <4>3 DEF Good, Agrees, Covers
        <5>4. PICK x \in Locks : x = With(s.done[s.at], r)
          <6>1. PICK l \in Locks : l = s.done[s.at] /\ l.type = r.type
            BY <5>2, <5>3
          <6>2. With(l, r) \in Locks
            BY <1>3, <6>1 DEF With, Locks, Ranges
          <6> QED
            BY <6>1, <6>2
        <5>5. [s.done EXCEPT ![s.at] = x] \in Seq(Locks)
          BY <4>1, <5>1
        <5> QED
          BY <3>2, <4>3, <5>4, <5>5
      <4> QED
        BY <4>2, <4>3
    <3>4. PICK v : v = Becomes(u, r)
      OBVIOUS
    <3>5. /\ v \in LoopStates /\ v.done = d /\ v.rest = s.rest /\ v.caller = r /\ v.at = s.at
          /\ v.woken = s.woken /\ v.right = s.right
      BY <1>3, <1>6, <3>2, <3>3, <3>4, SetCaller
    <3>6. PICK t : t = Delete(v, lock)
      OBVIOUS
    <3>7. /\ t \in LoopStates /\ t.done = d /\ t.rest = s.rest /\ t.caller = r /\ t.at = s.at
          /\ t.woken = s.woken \cup lock.block /\ t.right = s.right
      BY <3>5, <3>6, SetDeleted
    <3>8. Round(p, s, lock, t)
      BY <1>3, <3>2, <3>7, MergeRound DEF Round
    <3> QED
      BY <3>1, <3>4, <3>6, <3>8
  <2>2. CASE ~s.added
    <3>1. PICK x : x = With(lock, r)
      OBVIOUS
    <3>2. /\ x \in Locks /\ x.owner = p /\ Agrees(x, r)
          /\ x.block = lock.block /\ Covers(x, lock)
      BY <1>3, <3>1 DEF With, Locks, Ranges, Agrees, Covers
    <3>3. PICK t : t = Absorb(u, lock, r)
      OBVIOUS
    <3>4. /\ t \in LoopStates /\ t.done = Append(s.done, x) /\ t.rest = s.rest /\ t.at = Len(s.done) + 1
          /\ t.right = s.right /\ t.woken = s.woken /\ t.caller = r
      BY <1>3, <1>6, <2>2, <3>1, <3>2, <3>3, SetAbsorbed
    <3>5. Round(p, s, lock, t)
      BY <3>2, <3>4, AbsorbRound DEF Round
    <3> QED
      BY <3>3, <3>5
  <2> QED
    BY <2>1, <2>2
<1>8. \/ SameType(s, lock) = Keep(s, lock) \/ SameType(s, lock) = Stop(s, lock)
      \/ SameType(s, lock) = Absorb(u, lock, r)
  BY <1>2, <1>4, <1>5 DEF SameType
<1> QED
  BY <1>1, <1>7, <1>8, SimpleRounds, ZenonT(30)

LEMMA OtherTypeRound ==
    ASSUME NEW p, NEW s \in Good(p), NEW lock \in Locks, lock.owner = p, s.caller.type # lock.type
    PROVE  Round(p, s, lock, OtherType(s, lock))
<1>1. s \in LoopStates
  BY DEF Good
<1>2. PICK add \in BOOLEAN, le \in Nat :
          /\ add = (s.added \/ s.caller.type = "UNLCK")
          /\ le = IF lock.start < s.caller.start THEN Len(s.done) + 1 ELSE s.left
  <2>1. s.done \in Seq(Locks) /\ s.left \in Nat
    BY <1>1, StateParts
  <2>2. Len(s.done) + 1 \in Nat
    BY <2>1
  <2> QED
    BY <2>1, <2>2
<1>3. PICK u : u = [s EXCEPT !.added = add, !.left = le]
  OBVIOUS
<1>4. [s EXCEPT !.added = @ \/ s.caller.type = "UNLCK",
                !.left = IF lock.start < s.caller.start THEN Len(s.done) + 1 ELSE @] = u
  <2>1. [s EXCEPT !.added = @ \/ s.caller.type = "UNLCK",
                  !.left = IF lock.start < s.caller.start THEN Len(s.done) + 1 ELSE @]
          = [s EXCEPT !.added = s.added \/ s.caller.type = "UNLCK",
                      !.left = IF lock.start < s.caller.start THEN Len(s.done) + 1 ELSE s.left]
    BY <1>1, Zenon DEF LoopStates
  <2> QED
    BY <1>2, <1>3, <2>1, Zenon
<1>5. /\ u.done = s.done /\ u.rest = s.rest /\ u.caller = s.caller /\ u.at = s.at /\ (u.added <=> add)
      /\ u.woken = s.woken /\ u.right = s.right /\ u \in LoopStates
  BY <1>1, <1>3 DEF LoopStates
<1>6. ASSUME ~add PROVE Round(p, s, lock, Absorb(Delete(u, lock), [lock EXCEPT !.block = {}], s.caller))
  <2>0. PICK l : l = [lock EXCEPT !.block = {}]
    OBVIOUS
  <2>1. PICK c \in Ranges : c = s.caller /\ c.type # "UNLCK"
    BY <1>1, <1>2, <1>6, StateParts
  <2>2. PICK x : x = With(l, c)
    OBVIOUS
  <2>3. x \in Locks /\ x.owner = p /\ Agrees(x, c) /\ x.block = {}
    <3>2. l \in Locks /\ l.owner = p /\ l.block = {}
      BY <2>0 DEF Locks
    <3>3. c.type \in {"RDLCK", "WRLCK"} /\ c.start \in Int /\ c.end \in Int
      BY <2>1 DEF Ranges, Types
    <3> QED
      BY <2>2, <3>2, <3>3 DEF With, Locks, Agrees
  <2>4. PICK v : v = Delete(u, lock)
    OBVIOUS
  <2>5. /\ v \in LoopStates /\ v.woken = s.woken \cup lock.block /\ v.done = s.done /\ v.rest = s.rest
        /\ ~v.added /\ v.right = s.right
    BY <1>5, <1>6, <2>4, SetDeleted
  <2>6. PICK t : t = Absorb(v, l, c)
    OBVIOUS
  <2>7. /\ t \in LoopStates /\ t.done = Append(s.done, x) /\ t.rest = s.rest /\ t.at = Len(s.done) + 1
        /\ t.right = s.right /\ t.woken = s.woken \cup lock.block /\ t.caller = c
    BY <2>2, <2>3, <2>5, <2>6, SetAbsorbed
  <2>8. Round(p, s, lock, t)
    BY <2>3, <2>7, AbsorbRound DEF Round
  <2> QED
    BY <2>0, <2>1, <2>4, <2>6, <2>8
<1>7. \/ OtherType(s, lock) = Keep(s, lock) \/ OtherType(s, lock) = Stop(s, lock)
      \/ OtherType(s, lock) = [Stop(u, lock) EXCEPT !.right = TRUE]
      \/ OtherType(s, lock) = Keep(u, lock)
      \/ OtherType(s, lock) = Delete(u, lock)
      \/ ~u.added /\ OtherType(s, lock) = Absorb(Delete(u, lock), [lock EXCEPT !.block = {}], s.caller)
  <2>1. OtherType(s, lock) =
          IF lock.end < s.caller.start THEN Keep(s, lock)
          ELSE IF lock.start > s.caller.end THEN Stop(s, lock)
          ELSE IF lock.end > s.caller.end THEN [Stop(u, lock) EXCEPT !.right = TRUE]
          ELSE IF lock.start < s.caller.start THEN Keep(u, lock)
          ELSE IF u.added THEN Delete(u, lock)
          ELSE Absorb(Delete(u, lock), [lock EXCEPT !.block = {}], s.caller)
    BY <1>4, Zenon DEF OtherType
  <2> QED
    BY <2>1, Zenon
<1>8. Round(p, s, lock, Keep(s, lock)) /\ Round(p, s, lock, Stop(s, lock))
  BY <1>1, SimpleRounds
<1>9. /\ Round(p, s, lock, [Stop(u, lock) EXCEPT !.right = TRUE])
      /\ Round(p, s, lock, Keep(u, lock)) /\ Round(p, s, lock, Delete(u, lock))
  BY <1>5, SimpleRounds
<1>10. ~u.added => ~add
  BY <1>5
<1> QED
  BY <1>6, <1>7, <1>8, <1>9, <1>10, Zenon

LEMMA ProcessRound ==
    ASSUME NEW p, NEW s \in Good(p), NEW lock \in Locks, lock.owner = p
    PROVE  Round(p, s, lock, Process(s, lock))
<1>1. s \in LoopStates
  BY DEF Good
<1> QED
  BY <1>1, SimpleRounds, SameTypeRound, OtherTypeRound DEF Process

-----------------------------------------------------------------------------
(* The whole loop.                                                         *)

\* The locks of p that the loop looks at are i_flock[FirstOwn(p)] to i_flock[EndOwn(p)].
LEMMA OwnPart ==
    ASSUME i_flock \in Seq(Locks), NEW p
    PROVE  /\ FirstOwn(p) \in 1 .. Len(i_flock) + 1
           /\ EndOwn(p) \in FirstOwn(p) - 1 .. Len(i_flock)
           /\ \A j \in FirstOwn(p) .. EndOwn(p) : i_flock[j].owner = p
<1>0. Len(i_flock) \in Nat /\ DOMAIN i_flock = 1 .. Len(i_flock)
  OBVIOUS
<1>1. FirstOwn(p) \in 1 .. Len(i_flock) + 1
  <2> DEFINE own == {i \in DOMAIN i_flock : i_flock[i].owner = p}
  <2>1. CASE own = {}
    BY <1>0, <2>1 DEF FirstOwn
  <2>2. CASE own # {}
    <3>1. own \subseteq Nat /\ own \subseteq 1 .. Len(i_flock)
      BY <1>0
    <3>2. FirstOwn(p) = Min(own)
      BY <2>2 DEF FirstOwn
    <3> HIDE DEF own
    <3>3. FirstOwn(p) \in own
      BY <2>2, <3>1, <3>2, MinOf
    <3>4. FirstOwn(p) \in 1 .. Len(i_flock)
      BY <3>1, <3>3
    <3> QED
      BY <1>0, <3>4
  <2> QED
    BY <2>1, <2>2
<1>2. PICK f \in Nat : f = FirstOwn(p) /\ f >= 1 /\ f <= Len(i_flock) + 1
  BY <1>0, <1>1
<1> DEFINE T == {i \in f - 1 .. Len(i_flock) : \A j \in f .. i : i_flock[j].owner = p}
<1>3. T \subseteq 0 .. Len(i_flock) /\ f - 1 \in T
  <2>1. f - 1 \in f - 1 .. Len(i_flock) /\ \A j \in f .. f - 1 : FALSE
    BY <1>0, <1>2
  <2>2. f - 1 \in T
    BY <2>1
  <2> QED
    BY <1>0, <1>2, <2>2
<1>4. EndOwn(p) = Max(T)
  BY <1>2 DEF EndOwn
<1>5. Max(T) \in T
  <2> HIDE DEF T
  <2> QED
    BY <1>0, <1>3, MaxOf
<1> QED
  BY <1>1, <1>2, <1>4, <1>5

Start(p) == [done |-> <<>>, rest |-> <<>>, caller |-> fl[p], file |-> fl[p], at |-> 0,
             added |-> FALSE, left |-> 0, right |-> FALSE, woken |-> {}]

LEMMA StartGood ==
    ASSUME NEW p \in Procs, fl \in [Procs -> Ranges]
    PROVE  Start(p) \in Good(p) /\ Kept(Start(p)) = {} /\ Start(p).woken = {}
<1>1. fl[p] \in Ranges /\ <<>> \in Seq(Locks)
  OBVIOUS
<1>2. /\ Start(p) \in LoopStates /\ Start(p).done = <<>> /\ Start(p).rest = <<>>
      /\ Start(p).at = 0 /\ ~Start(p).right /\ Start(p).woken = {}
  BY <1>1 DEF Start, LoopStates
<1>3. Kept(Start(p)) = {}
  BY <1>2 DEF Kept, Range
<1> QED
  BY <1>2, <1>3 DEF Good

\* Looped(p) is where the rounds over these locks lead from the start.
LEMMA LoopRuns ==
    ASSUME i_flock \in Seq(Locks), NEW p \in Procs, fl \in [Procs -> Ranges]
    PROVE  \E u : /\ u[FirstOwn(p) - 1] = Start(p)
                  /\ \A i \in FirstOwn(p) .. EndOwn(p) : u[i] = Process(u[i - 1], i_flock[i])
                  /\ Looped(p) = u[EndOwn(p)]
<1>1. PICK f, e \in Int : /\ f = FirstOwn(p) /\ e = EndOwn(p) /\ f >= 1 /\ e >= f - 1 /\ e <= Len(i_flock)
                          /\ \A j \in f .. e : i_flock[j].owner = p
  BY OwnPart
<1>0. PICK S : S = Good(p)
  OBVIOUS
<1>2. PICK n \in Nat, s0 \in S : n = e - (f - 1) /\ s0 = Start(p)
  BY <1>0, <1>1, StartGood
<1>3. PICK step \in [S \X (1 .. n) -> S] :
          \A s \in S, i \in 1 .. n : step[<<s, i>>] = Process(s, i_flock[(f - 1) + i])
  <2> DEFINE step == [x \in S \X (1 .. n) |-> Process(x[1], i_flock[(f - 1) + x[2]])]
  <2>1. ASSUME NEW s \in S, NEW i \in 1 .. n PROVE Process(s, i_flock[(f - 1) + i]) \in S
    <3>1. (f - 1) + i \in f .. e /\ (f - 1) + i \in 1 .. Len(i_flock)
      BY <1>1, <1>2
    <3>2. i_flock[(f - 1) + i] \in Locks /\ i_flock[(f - 1) + i].owner = p
      BY <1>1, <3>1
    <3> QED
      BY <1>0, <3>2, ProcessRound DEF Round
  <2>2. step \in [S \X (1 .. n) -> S]
    BY <2>1
  <2>3. \A s \in S, i \in 1 .. n : step[<<s, i>>] = Process(s, i_flock[(f - 1) + i])
    OBVIOUS
  <2> HIDE DEF step
  <2> QED
    BY <2>2, <2>3
<1>4. PICK g \in [0 .. n -> S] : g[0] = s0 /\ \A i \in 1 .. n : g[i] = step[<<g[i - 1], i>>]
  <2>1. step \in Steps(S, n)
    BY <1>3 DEF Steps
  <2>2. PICK g : IsRun(g, n, S, s0, step)
    BY <2>1, Rounds
  <2> QED
    BY <2>2 DEF IsRun
<1>5. ASSUME NEW i \in 1 .. n PROVE g[i] = Process(g[i - 1], i_flock[(f - 1) + i])
  <2>1. g[i - 1] \in S
    BY <1>4
  <2> QED
    BY <1>3, <1>4, <2>1
<1> DEFINE Eq(u) == u = [i \in f - 1 .. e |-> IF i < f THEN Start(p) ELSE Process(u[i - 1], i_flock[i])]
<1>6. \E u : Eq(u)
  <2>1. PICK h : h = [i \in f - 1 .. e |-> g[i - (f - 1)]]
    OBVIOUS
  <2>2. ASSUME NEW i \in f - 1 .. e
        PROVE  h[i] = IF i < f THEN Start(p) ELSE Process(h[i - 1], i_flock[i])
    <3>1. CASE i < f
      <4>1. i - (f - 1) = 0
        BY <1>1, <3>1
      <4> QED
        BY <1>2, <1>4, <2>1, <3>1, <4>1
    <3>2. CASE ~(i < f)
      <4>1. PICK k \in 1 .. n : k = i - (f - 1)
        BY <1>1, <1>2, <3>2
      <4>2. i - 1 \in f - 1 .. e /\ (i - 1) - (f - 1) = k - 1 /\ (f - 1) + k = i
        BY ONLY f \in Int, e \in Int, n \in Nat, k \in 1 .. n, i \in f - 1 .. e, <3>2, <4>1
      <4>3. h[i] = g[k]
        BY <2>1, <4>1
      <4>5. h[i - 1] = g[(i - 1) - (f - 1)]
        BY <2>1, <4>2
      <4>4. g[k] = Process(g[k - 1], i_flock[i])
        BY <1>5, <4>2
      <4> QED
        BY <3>2, <4>2, <4>3, <4>4, <4>5
    <3> QED
      BY <3>1, <3>2
  <2>3. Eq(h)
    BY <2>1, <2>2
  <2> QED
    BY <2>3
<1>7. PICK u : u = CHOOSE v : Eq(v)
  OBVIOUS
<1>8. Eq(u)
  BY <1>6, <1>7
<1>9. Looped(p) = u[e]
  BY <1>1, <1>7 DEF Looped, Start
<1>10. u[f - 1] = Start(p) /\ \A i \in f .. e : u[i] = Process(u[i - 1], i_flock[i])
  BY <1>1, <1>8
<1> QED
  BY <1>1, <1>9, <1>10

\* The waiters of the locks from f to i are woken, or behind locks that cover theirs.
Tracks(f, i, s) ==
    \A j \in f .. i : \A q \in i_flock[j].block :
        q \in s.woken \/ \E m \in Kept(s) : q \in m.block /\ Covers(m, i_flock[j])

LEMMA TracksRound ==
    ASSUME i_flock \in Seq(Locks), NEW p, NEW f \in Nat, NEW i \in f .. Len(i_flock), f >= 1,
           NEW s \in Good(p), NEW t, Tracks(f, i - 1, s), Round(p, s, i_flock[i], t)
    PROVE  Tracks(f, i, t)
<1>0. PICK lock \in Locks : lock = i_flock[i]
  OBVIOUS
<1>1. /\ \A j \in f .. i : j = i \/ j \in f .. i - 1
      /\ \A j \in f .. i - 1 : j \in f .. i /\ i_flock[j] \in Locks
      /\ i \in f .. i
  OBVIOUS
<1>2. Passes(s, lock, t) /\ Kept(s) \subseteq Locks /\ Kept(t) \subseteq Locks
  <2>1. s \in LoopStates /\ t \in LoopStates
    BY DEF Good, Round
  <2> QED
    BY <1>0, <2>1, StateParts DEF Round
<1>3. \A a, b, c \in Locks : Covers(a, b) /\ Covers(b, c) => Covers(a, c)
  BY DEF Covers, Locks
<1>4. ASSUME NEW j \in f .. i, NEW q \in i_flock[j].block
      PROVE  q \in t.woken \/ \E m \in Kept(t) : q \in m.block /\ Covers(m, i_flock[j])
  <2>1. CASE j = i
    BY <1>0, <1>2, <1>4, <2>1 DEF Passes
  <2>2. CASE j # i
    <3>1. j \in f .. i - 1 /\ i_flock[j] \in Locks
      BY <1>1, <2>2
    <3>2. CASE q \in s.woken
      BY <1>2, <3>2 DEF Passes
    <3>3. CASE \E m \in Kept(s) : q \in m.block /\ Covers(m, i_flock[j])
      <4>1. PICK m \in Kept(s) : q \in m.block /\ Covers(m, i_flock[j])
        BY <3>3
      <4>2. q \in t.woken \/ \E x \in Kept(t) : q \in x.block /\ Covers(x, m)
        BY <1>2, <4>1 DEF Passes
      <4> QED
        BY <1>2, <1>3, <3>1, <4>1, <4>2
    <3> QED
      BY <1>4, <3>1, <3>2, <3>3 DEF Tracks
  <2> QED
    BY <2>1, <2>2
<1> QED
  BY <1>4 DEF Tracks

LEMMA LoopTracks ==
    ASSUME i_flock \in Seq(Locks), NEW p \in Procs, fl \in [Procs -> Ranges]
    PROVE  Looped(p) \in Good(p) /\ Tracks(FirstOwn(p), EndOwn(p), Looped(p))
<1>1. PICK f \in Nat, e \in Int :
          /\ f = FirstOwn(p) /\ e = EndOwn(p) /\ f >= 1 /\ e >= f - 1 /\ e <= Len(i_flock)
          /\ \A j \in f .. e : i_flock[j].owner = p
  BY OwnPart
<1>2. PICK u : /\ u[f - 1] = Start(p)
               /\ \A i \in f .. e : u[i] = Process(u[i - 1], i_flock[i])
               /\ Looped(p) = u[e]
  BY <1>1, LoopRuns
<1> DEFINE T == {k \in Nat : (f - 1) + k <= e => u[(f - 1) + k] \in Good(p) /\ Tracks(f, (f - 1) + k, u[(f - 1) + k])}
<1>3. 0 \in T
  <2>1. (f - 1) + 0 = f - 1 /\ \A j \in f .. f - 1 : FALSE
    OBVIOUS
  <2>2. Start(p) \in Good(p) /\ Tracks(f, f - 1, Start(p))
    BY <2>1, StartGood DEF Tracks
  <2> QED
    BY <1>2, <2>1, <2>2
<1>4. ASSUME NEW k \in Nat, k \in T PROVE k + 1 \in T
  <2> SUFFICES ASSUME (f - 1) + (k + 1) <= e
               PROVE  u[(f - 1) + (k + 1)] \in Good(p) /\ Tracks(f, (f - 1) + (k + 1), u[(f - 1) + (k + 1)])
    OBVIOUS
  <2>1. PICK i \in f .. e : i = (f - 1) + (k + 1) /\ i - 1 = (f - 1) + k /\ i - 1 <= e /\ i \in f .. Len(i_flock)
    <3>1. PICK i \in Int : i = (f - 1) + (k + 1)
      OBVIOUS
    <3>2. Len(i_flock) \in Nat /\ i \in f .. e /\ i - 1 = (f - 1) + k /\ i - 1 <= e /\ i \in f .. Len(i_flock)
      <4>1. PICK n \in Nat : n = Len(i_flock)
        OBVIOUS
      <4>2. e <= n
        BY <1>1, <4>1
      <4>3. i \in f .. e /\ i - 1 = (f - 1) + k /\ i - 1 <= e /\ i \in f .. n
        BY ONLY f \in Nat, e \in Int, k \in Nat, i \in Int, n \in Nat, <3>1, <4>2, (f - 1) + (k + 1) <= e
      <4> QED
        BY <4>1, <4>3
    <3> QED
      BY <3>1, <3>2
  <2>2. PICK s \in Good(p) : s = u[i - 1] /\ Tracks(f, i - 1, s)
    BY <1>4, <2>1
  <2>3. i_flock[i] \in Locks /\ i_flock[i].owner = p
    <3>1. i \in 1 .. Len(i_flock)
      BY ONLY <1>1, <2>1
    <3>2. i_flock[i] \in Locks
      BY ONLY i_flock \in Seq(Locks), <3>1
    <3>3. i_flock[i].owner = p
      BY <1>1, <2>1, Zenon
    <3> QED
      BY <3>2, <3>3
  <2>4. PICK t : t = Process(s, i_flock[i]) /\ t = u[i]
    BY <1>2, <2>2
  <2>5. Round(p, s, i_flock[i], t)
    BY <2>3, <2>4, ProcessRound
  <2>6. t \in Good(p) /\ Tracks(f, i, t)
    BY <1>1, <2>1, <2>2, <2>5, TracksRound DEF Round
  <2> QED
    BY <2>1, <2>4, <2>6
<1>5. PICK k \in Nat : k = e - (f - 1) /\ (f - 1) + k = e
  BY <1>1
<1>6. k \in T
  <2> HIDE DEF T
  <2> QED
    BY <1>3, <1>4, Induction
<1>7. u[(f - 1) + k] \in Good(p) /\ Tracks(f, (f - 1) + k, u[(f - 1) + k])
  BY <1>1, <1>5, <1>6
<1>8. u[e] \in Good(p) /\ Tracks(f, e, u[e])
  BY <1>5, <1>7
<1> HIDE DEF T
<1> QED
  BY <1>1, <1>2, <1>8

-----------------------------------------------------------------------------
(* What comes after the loop.                                              *)

LEMMA JoinedRange ==
    ASSUME NEW S, NEW a \in Seq(S), NEW b \in Seq(S)
    PROVE  a \o b \in Seq(S) /\ Range(a \o b) = Range(a) \cup Range(b)
<1>1. PICK c : c = a \o b
  OBVIOUS
<1>2. /\ c \in Seq(S) /\ Len(c) = Len(a) + Len(b)
      /\ \A i \in 1 .. Len(a) : c[i] = a[i]
      /\ \A i \in 1 .. Len(b) : c[Len(a) + i] = b[i]
  BY <1>1, JoinedElements
<1>3. PICK m, n \in Nat : m = Len(a) /\ n = Len(b)
  OBVIOUS
<1>4. DOMAIN a = 1 .. m /\ DOMAIN b = 1 .. n /\ DOMAIN c = 1 .. m + n
  BY <1>2, <1>3
<1>5. ASSUME NEW i \in 1 .. m + n PROVE c[i] \in Range(a) \cup Range(b)
  <2>1. CASE i <= m
    <3>1. i \in 1 .. m /\ c[i] = a[i]
      BY <1>2, <1>3, <2>1
    <3> QED
      BY <1>4, <3>1 DEF Range
  <2>2. CASE ~(i <= m)
    <3>1. PICK k \in 1 .. n : i = m + k
      <4>1. i - m \in 1 .. n /\ i = m + (i - m)
        BY <2>2
      <4> QED
        BY <4>1
    <3>2. c[i] = b[k]
      BY <1>2, <1>3, <3>1
    <3> QED
      BY <1>4, <3>2 DEF Range
  <2> QED
    BY <2>1, <2>2
<1>6. ASSUME NEW i \in 1 .. m PROVE a[i] \in Range(c)
  <2>1. i \in 1 .. m + n /\ c[i] = a[i]
    BY <1>2, <1>3
  <2> QED
    BY <1>4, <2>1 DEF Range
<1>7. ASSUME NEW i \in 1 .. n PROVE b[i] \in Range(c)
  <2>1. m + i \in 1 .. m + n /\ c[m + i] = b[i]
    BY <1>2, <1>3
  <2> QED
    BY <1>4, <2>1 DEF Range
<1>8. Range(c) = Range(a) \cup Range(b)
  BY <1>4, <1>5, <1>6, <1>7 DEF Range
<1> QED
  BY <1>1, <1>2, <1>8

\* What is left of a lock on the left or on the right of the new one is a lock.
LEMMA PieceParts ==
    ASSUME NEW l \in Locks, NEW c \in Ranges, OFFSET_MAX \in Nat
    PROVE  LeftPiece(l, c) \in Locks /\ RightPiece(l, c) \in Locks
<1>1. PICK a \in Int, b \in Int : a = c.start - 1 /\ b = Succ(c.end)
  BY DEF Ranges, Succ
<1>2. LeftPiece(l, c) = [l EXCEPT !.end = a, !.block = {}]
  BY <1>1 DEF LeftPiece
<1>3. RightPiece(l, c) = [l EXCEPT !.start = b, !.block = {}]
  BY <1>1 DEF RightPiece
<1>4. [l EXCEPT !.end = a, !.block = {}] \in Locks /\ [l EXCEPT !.start = b, !.block = {}] \in Locks
  BY DEF Locks
<1> QED
  BY <1>2, <1>3, <1>4

\* The parts of the list that After joins.
DonePart(s) == [i \in DOMAIN s.done |-> IF i = s.left THEN LeftPiece(s.done[i], s.caller) ELSE s.done[i]]
RestPart(s) == [i \in DOMAIN s.rest |-> IF i = 1 /\ s.right THEN RightPiece(s.rest[i], s.caller) ELSE s.rest[i]]
CutPart(s)  == IF s.right /\ s.left = Len(s.done) + 1 THEN <<LeftPiece(s.rest[1], s.caller)>> ELSE <<>>
NewPart(p, s) ==
    IF s.added \/ s.caller.type = "UNLCK" THEN <<>>
    ELSE <<[owner |-> p, type |-> s.caller.type, start |-> s.caller.start, end |-> s.caller.end, block |-> {}]>>

LEMMA AfterParts ==
    ASSUME NEW p, NEW s
    PROVE  After(p, s) = SubSeq(i_flock, 1, FirstOwn(p) - 1) \o DonePart(s) \o CutPart(s) \o NewPart(p, s)
                            \o RestPart(s) \o SubSeq(i_flock, EndOwn(p) + 1, Len(i_flock))
BY Zenon DEF After, DonePart, RestPart, CutPart, NewPart

\* The loop's locks are in these parts, except those that are cut, whose waiters are woken.
LEMMA PartsKept ==
    ASSUME NEW p \in Procs, NEW s \in Good(p), OFFSET_MAX \in Nat
    PROVE  /\ DonePart(s) \in Seq(Locks) /\ RestPart(s) \in Seq(Locks)
           /\ CutPart(s) \in Seq(Locks) /\ NewPart(p, s) \in Seq(Locks)
           /\ \A m \in Kept(s) : \A q \in m.block :
                  q \in Woken(s) \/ m \in Range(DonePart(s)) \cup Range(RestPart(s))
<1>0. PICK d, r \in Seq(Locks), c \in Ranges : d = s.done /\ r = s.rest /\ c = s.caller
  <2>1. s \in LoopStates
    BY DEF Good
  <2> QED
    BY <2>1, StateParts
<1>1. /\ DOMAIN d = 1 .. Len(d) /\ Len(d) \in Nat /\ DOMAIN r = 1 .. Len(r) /\ Len(r) \in Nat
      /\ \A i \in DOMAIN d : d[i] \in Locks
      /\ \A i \in DOMAIN r : r[i] \in Locks
      /\ Kept(s) = Range(d) \cup Range(r)
  BY <1>0 DEF Kept
<1>2. PICK x : x = DonePart(s)
  OBVIOUS
<1>3. /\ x \in Seq(Locks) /\ DOMAIN x = DOMAIN d
      /\ \A i \in DOMAIN d : i # s.left => x[i] = d[i]
  <2>1. x = [i \in 1 .. Len(d) |-> IF i = s.left THEN LeftPiece(d[i], c) ELSE d[i]]
    BY <1>0, <1>1, <1>2 DEF DonePart
  <2>2. \A i \in 1 .. Len(d) : LeftPiece(d[i], c) \in Locks
    BY <1>1, PieceParts
  <2>3. x \in [1 .. Len(d) -> Locks]
    BY <1>1, <2>1, <2>2
  <2> QED
    BY <1>1, <2>1, <2>2, <2>3
<1>4. PICK y : y = RestPart(s)
  OBVIOUS
<1>5. /\ y \in Seq(Locks) /\ DOMAIN y = DOMAIN r
      /\ \A i \in DOMAIN r : ~(i = 1 /\ s.right) => y[i] = r[i]
  <2>1. y = [i \in 1 .. Len(r) |-> IF i = 1 /\ s.right THEN RightPiece(r[i], c) ELSE r[i]]
    BY <1>0, <1>1, <1>4 DEF RestPart
  <2>2. \A i \in 1 .. Len(r) : RightPiece(r[i], c) \in Locks
    BY <1>1, PieceParts
  <2>3. y \in [1 .. Len(r) -> Locks]
    BY <1>1, <2>1, <2>2
  <2> QED
    BY <1>1, <2>1, <2>2, <2>3
<1>7. ASSUME NEW m \in Kept(s), NEW q \in m.block
      PROVE  q \in Woken(s) \/ m \in Range(x) \cup Range(y)
  <2>1. CASE m \in Range(d)
    <3>1. PICK i \in DOMAIN d : m = d[i]
      BY <2>1 DEF Range
    <3>2. CASE i = s.left
      BY <1>0, <1>7, <3>1, <3>2 DEF Woken
    <3>3. CASE i # s.left
      BY <1>3, <3>1, <3>3 DEF Range
    <3> QED
      BY <3>2, <3>3
  <2>2. CASE m \in Range(r)
    <3>1. PICK k \in DOMAIN r : m = r[k]
      BY <2>2 DEF Range
    <3>2. CASE k = 1 /\ s.right
      <4>1. 1 \in {i \in DOMAIN s.rest : s.right /\ i = 1} /\ q \in s.rest[1].block
        BY <1>0, <1>7, <3>1, <3>2, Zenon
      <4>2. q \in UNION {s.rest[i].block : i \in {i \in DOMAIN s.rest : s.right /\ i = 1}}
        BY <4>1, Zenon
      <4> QED
        BY <4>2, Zenon DEF Woken
    <3>3. CASE ~(k = 1 /\ s.right)
      BY <1>5, <3>1, <3>3 DEF Range
    <3> QED
      BY <3>2, <3>3
  <2> QED
    BY <1>1, <2>1, <2>2
<1>8. CutPart(s) \in Seq(Locks)
  <2>1. CASE s.right /\ s.left = Len(s.done) + 1
    <3>1. 1 \in DOMAIN r
      <4>1. r # <<>>
        BY <1>0, <2>1 DEF Good
      <4> QED
        BY <1>1, <4>1
    <3>2. PICK z \in Locks : z = LeftPiece(s.rest[1], s.caller)
      <4>1. PICK l \in Locks : l = s.rest[1]
        BY <1>0, <1>1, <3>1
      <4>2. LeftPiece(l, c) \in Locks
        BY PieceParts
      <4> QED
        BY <1>0, <4>1, <4>2
    <3>3. CutPart(s) = <<z>>
      BY <2>1, <3>2 DEF CutPart
    <3> QED
      BY <3>2, <3>3
  <2>2. CASE ~(s.right /\ s.left = Len(s.done) + 1)
    BY <2>2 DEF CutPart
  <2> QED
    BY <2>1, <2>2
<1>9. NewPart(p, s) \in Seq(Locks)
  <2>1. CASE s.added \/ s.caller.type = "UNLCK"
    BY <2>1 DEF NewPart
  <2>2. CASE ~(s.added \/ s.caller.type = "UNLCK")
    <3>1. PICK z : z = [owner |-> p, type |-> c.type, start |-> c.start, end |-> c.end, block |-> {}]
      OBVIOUS
    <3>2. z \in Locks
      BY <1>0, <2>2, <3>1 DEF Locks, Ranges, Types
    <3>3. NewPart(p, s) = <<z>>
      BY <1>0, <2>2, <3>1 DEF NewPart
    <3> QED
      BY <3>2, <3>3
  <2> QED
    BY <2>1, <2>2
<1> QED
  BY <1>2, <1>3, <1>4, <1>5, <1>7, <1>8, <1>9

\* A part of a list and what it holds.
LEMMA PartRange ==
    ASSUME NEW S, NEW l \in Seq(S), NEW a \in Nat, NEW b \in Nat, a >= 1, b <= Len(l)
    PROVE  SubSeq(l, a, b) \in Seq(S) /\ Range(SubSeq(l, a, b)) = {l[i] : i \in a .. b}
<1>1. PICK c : c = SubSeq(l, a, b)
  OBVIOUS
<1>2. CASE a <= b
  <2>1. PICK n \in Nat : n = b - a + 1
    BY <1>2
  <2>2. /\ c \in Seq(S) /\ Len(c) = n /\ DOMAIN c = 1 .. n
        /\ \A i \in 1 .. n : c[i] = l[(a + i) - 1]
    BY <1>1, <1>2, <2>1
  <2>3. ASSUME NEW i \in 1 .. n PROVE c[i] \in {l[k] : k \in a .. b}
    <3>1. (a + i) - 1 \in a .. b
      BY ONLY a \in Nat, b \in Nat, n \in Nat, <2>1, i \in 1 .. n
    <3> QED
      BY <2>2, <3>1
  <2>4. ASSUME NEW k \in a .. b PROVE l[k] \in Range(c)
    <3>1. PICK i \in 1 .. n : (a + i) - 1 = k
      <4>1. (k - a) + 1 \in 1 .. n /\ (a + ((k - a) + 1)) - 1 = k
        BY ONLY a \in Nat, b \in Nat, n \in Nat, <2>1, k \in a .. b
      <4> QED
        BY <4>1
    <3>2. c[i] = l[k]
      BY <2>2, <3>1
    <3> QED
      BY <2>2, <3>2 DEF Range
  <2>5. Range(c) = {l[k] : k \in a .. b}
    BY <2>2, <2>3, <2>4 DEF Range
  <2> QED
    BY <1>1, <2>2, <2>5
<1>3. CASE ~(a <= b)
  <2>1. c = <<>> /\ a .. b = {}
    BY <1>1, <1>3
  <2>2. Range(c) = {} /\ {l[k] : k \in a .. b} = {} /\ c \in Seq(S)
    BY <2>1 DEF Range
  <2> QED
    BY <1>1, <2>2
<1> QED
  BY <1>2, <1>3

\* The list after the loop: who was behind a lock and is not woken is behind one that covers it.
LEMMA AfterLoop ==
    ASSUME i_flock \in Seq(Locks), NEW p \in Procs, fl \in [Procs -> Ranges]
    PROVE  /\ After(p, Looped(p)) \in Seq(Locks) /\ Looped(p).file \in Ranges
           /\ \A l \in Range(i_flock) : \A q \in l.block :
                  \/ q \in Woken(Looped(p))
                  \/ \E m \in Range(After(p, Looped(p))) : q \in m.block /\ m.owner = l.owner /\ Covers(m, l)
<1>0. OFFSET_MAX \in Nat
  BY PosixAssumption
<1>1. PICK f \in Nat, e \in Nat, n \in Nat :
          /\ f = FirstOwn(p) /\ e = EndOwn(p) /\ n = Len(i_flock) /\ f >= 1 /\ f <= n + 1 /\ e >= f - 1 /\ e <= n
          /\ \A j \in f .. e : i_flock[j].owner = p
  <2>1. PICK n \in Nat : n = Len(i_flock)
    OBVIOUS
  <2>2. PICK f, e : f = FirstOwn(p) /\ e = EndOwn(p)
    OBVIOUS
  <2>3. f \in 1 .. n + 1 /\ e \in f - 1 .. n /\ \A j \in f .. e : i_flock[j].owner = p
    BY <2>1, <2>2, OwnPart
  <2>4. f \in Nat /\ e \in Nat /\ f >= 1 /\ f <= n + 1 /\ e >= f - 1 /\ e <= n
    BY ONLY n \in Nat, <2>3
  <2> QED
    BY <2>1, <2>2, <2>3, <2>4
<1>2. PICK s \in Good(p) : s = Looped(p) /\ Tracks(f, e, s)
  BY <1>1, LoopTracks
<1>3. PICK a, b : a = SubSeq(i_flock, 1, f - 1) /\ b = SubSeq(i_flock, e + 1, n)
  OBVIOUS
<1>4. /\ a \in Seq(Locks) /\ Range(a) = {i_flock[i] : i \in 1 .. f - 1}
      /\ b \in Seq(Locks) /\ Range(b) = {i_flock[i] : i \in e + 1 .. n}
  <2>1. f - 1 \in Nat /\ f - 1 <= Len(i_flock) /\ e + 1 \in Nat /\ e + 1 >= 1 /\ 1 \in Nat /\ n <= Len(i_flock)
    BY <1>1
  <2>2. PICK g \in Nat, h \in Nat : g = f - 1 /\ h = e + 1
    BY <2>1
  <2>3. SubSeq(i_flock, 1, g) \in Seq(Locks) /\ Range(SubSeq(i_flock, 1, g)) = {i_flock[i] : i \in 1 .. g}
    BY <2>1, <2>2, PartRange
  <2>4. SubSeq(i_flock, h, n) \in Seq(Locks) /\ Range(SubSeq(i_flock, h, n)) = {i_flock[i] : i \in h .. n}
    BY <2>1, <2>2, PartRange
  <2> QED
    BY <1>3, <2>2, <2>3, <2>4
<1>5. PICK d, c, w, r : d = DonePart(s) /\ c = CutPart(s) /\ w = NewPart(p, s) /\ r = RestPart(s)
  OBVIOUS
<1>6. /\ d \in Seq(Locks) /\ c \in Seq(Locks) /\ w \in Seq(Locks) /\ r \in Seq(Locks)
      /\ \A m \in Kept(s) : \A q \in m.block : q \in Woken(s) \/ m \in Range(d) \cup Range(r)
  BY <1>0, <1>5, PartsKept
<1>7. PICK L : L = After(p, s)
  OBVIOUS
<1>8. L = a \o d \o c \o w \o r \o b
  BY <1>1, <1>3, <1>5, <1>7, AfterParts
<1>9. L \in Seq(Locks) /\ Range(L) = Range(a) \cup Range(d) \cup Range(c) \cup Range(w) \cup Range(r) \cup Range(b)
  <2>1. PICK x1 : x1 = a \o d
    OBVIOUS
  <2>2. x1 \in Seq(Locks) /\ Range(x1) = Range(a) \cup Range(d)
    BY <1>4, <1>6, <2>1, JoinedRange
  <2>3. PICK x2 : x2 = x1 \o c
    OBVIOUS
  <2>4. x2 \in Seq(Locks) /\ Range(x2) = Range(x1) \cup Range(c)
    BY <1>6, <2>2, <2>3, JoinedRange
  <2>5. PICK x3 : x3 = x2 \o w
    OBVIOUS
  <2>6. x3 \in Seq(Locks) /\ Range(x3) = Range(x2) \cup Range(w)
    BY <1>6, <2>4, <2>5, JoinedRange
  <2>7. PICK x4 : x4 = x3 \o r
    OBVIOUS
  <2>8. x4 \in Seq(Locks) /\ Range(x4) = Range(x3) \cup Range(r)
    BY <1>6, <2>6, <2>7, JoinedRange
  <2>9. L = x4 \o b
    BY <1>8, <2>1, <2>3, <2>5, <2>7
  <2>10. L \in Seq(Locks) /\ Range(L) = Range(x4) \cup Range(b)
    BY <1>4, <2>8, <2>9, JoinedRange
  <2> QED
    BY <2>2, <2>4, <2>6, <2>8, <2>10
<1>10. s.file \in Ranges /\ \A m \in Kept(s) : m.owner = p
  <2>1. s \in LoopStates /\ \A m \in Kept(s) : m.owner = p
    BY DEF Good
  <2> QED
    BY <2>1, StateParts
<1>11. ASSUME NEW l \in Range(i_flock), NEW q \in l.block
       PROVE  q \in Woken(s) \/ \E m \in Range(L) : q \in m.block /\ m.owner = l.owner /\ Covers(m, l)
  <2>1. PICK i \in 1 .. n : l = i_flock[i]
    BY <1>1 DEF Range
  <2>2. l \in Locks /\ Covers(l, l)
    BY <1>1, <2>1, LockParts
  <2>3. CASE i \in f .. e
    <3>1. l.owner = p
      BY <1>1, <2>1, <2>3
    <3>2. q \in s.woken \/ \E m \in Kept(s) : q \in m.block /\ Covers(m, l)
      BY <1>2, <1>11, <2>1, <2>3 DEF Tracks
    <3>3. CASE q \in s.woken
      BY <3>3 DEF Woken
    <3>4. CASE \E m \in Kept(s) : q \in m.block /\ Covers(m, l)
      BY <1>6, <1>9, <1>10, <3>1, <3>4
    <3> QED
      BY <3>2, <3>3, <3>4
  <2>4. CASE i \notin f .. e
    <3>1. i \in 1 .. f - 1 \/ i \in e + 1 .. n
      BY ONLY f \in Nat, e \in Nat, n \in Nat, i \in 1 .. n, <2>4
    <3>2. l \in Range(L)
      BY <1>4, <1>9, <2>1, <3>1
    <3> QED
      BY <1>11, <2>2, <3>2
  <2> QED
    BY <2>3, <2>4
<1> QED
  BY <1>2, <1>7, <1>9, <1>10, <1>11

-----------------------------------------------------------------------------
(* The list without the locks of one process.                              *)

OthersUpTo(p, l, i) == {l[j] : j \in {j \in 1 .. i : l[j].owner # p}}

\* u is taken from the first k elements of l, in their order.
Picked(u, l, k) ==
    \E h \in [1 .. Len(u) -> 1 .. k] :
        /\ \A i \in 1 .. Len(u) : u[i] = l[h[i]]
        /\ \A i, j \in 1 .. Len(u) : i < j => h[i] < h[j]

LEMMA PickedMore ==
    ASSUME NEW S, NEW u \in Seq(S), NEW l, NEW k \in Nat, Picked(u, l, k), NEW x \in S, x = l[k + 1]
    PROVE  Picked(u, l, k + 1) /\ Picked(Append(u, x), l, k + 1)
<1>1. PICK h \in [1 .. Len(u) -> 1 .. k] :
          /\ \A i \in 1 .. Len(u) : u[i] = l[h[i]]
          /\ \A i, j \in 1 .. Len(u) : i < j => h[i] < h[j]
  BY DEF Picked
<1>2. PICK m, v : m = Len(u) /\ v = Append(u, x)
  OBVIOUS
<1>3. /\ m \in Nat /\ Len(v) = m + 1 /\ v[m + 1] = x
      /\ \A i \in 1 .. m : v[i] = u[i]
  BY <1>2
<1>4. Picked(u, l, k + 1)
  <2>1. 1 .. k \subseteq 1 .. k + 1
    OBVIOUS
  <2>2. h \in [1 .. Len(u) -> 1 .. k + 1]
    BY <2>1
  <2> QED
    BY <1>1, <2>2 DEF Picked
<1>5. Picked(v, l, k + 1)
  <2> DEFINE g == [i \in 1 .. m + 1 |-> IF i = m + 1 THEN k + 1 ELSE h[i]]
  <2>1. \A i \in 1 .. m + 1 : i = m + 1 \/ (i \in 1 .. m /\ i # m + 1)
    BY <1>3
  <2>2. \A i \in 1 .. m : h[i] \in 1 .. k /\ h[i] \in 1 .. k + 1 /\ h[i] < k + 1
    BY <1>2, <1>3
  <2>3. g \in [1 .. m + 1 -> 1 .. k + 1]
    BY <1>3, <2>1, <2>2
  <2>4. g[m + 1] = k + 1 /\ \A i \in 1 .. m : g[i] = h[i]
    BY <1>3
  <2> HIDE DEF g
  <2>5. \A i \in 1 .. m + 1 : v[i] = l[g[i]]
    BY <1>1, <1>2, <1>3, <2>1, <2>4
  <2>6. ASSUME NEW i \in 1 .. m + 1, NEW j \in 1 .. m + 1, i < j PROVE g[i] < g[j]
    <3>1. i \in 1 .. m
      BY <1>3, <2>6
    <3>2. CASE j = m + 1
      BY <2>2, <2>4, <3>1, <3>2
    <3>3. CASE j \in 1 .. m
      BY <1>1, <1>2, <2>4, <2>6, <3>1, <3>3
    <3> QED
      BY <2>1, <3>2, <3>3
  <2> QED
    BY <1>3, <2>3, <2>5, <2>6 DEF Picked
<1> QED
  BY <1>2, <1>4, <1>5

LEMMA OthersLeft ==
    ASSUME i_flock \in Seq(Locks), NEW p
    PROVE  /\ Others(p) \in Seq(Locks) /\ Range(Others(p)) = {l \in Range(i_flock) : l.owner # p}
           /\ Picked(Others(p), i_flock, Len(i_flock))
<1>0. PICK S : S = Seq(Locks)
  OBVIOUS
<1>1. PICK n \in Nat, s0 \in S : n = Len(i_flock) /\ s0 = <<>>
  <2>1. Len(i_flock) \in Nat /\ <<>> \in Seq(Locks)
    OBVIOUS
  <2> QED
    BY <1>0, <2>1
<1>2. \A i \in 1 .. n : i_flock[i] \in Locks
  BY <1>1
<1> DEFINE One(s, i) == IF i_flock[i].owner = p THEN s ELSE Append(s, i_flock[i])
<1>3. \A s \in S, i \in 1 .. n : One(s, i) \in S
  BY <1>0, <1>2
<1>4. PICK step \in [S \X (1 .. n) -> S] : \A s \in S, i \in 1 .. n : step[<<s, i>>] = One(s, i)
  <2> HIDE DEF One
  <2> DEFINE step == [x \in S \X (1 .. n) |-> One(x[1], x[2])]
  <2>1. step \in [S \X (1 .. n) -> S]
    BY <1>3
  <2>2. \A s \in S, i \in 1 .. n : step[<<s, i>>] = One(s, i)
    OBVIOUS
  <2> HIDE DEF step
  <2> QED
    BY <2>1, <2>2
<1> HIDE DEF One
<1>5. PICK g \in [0 .. n -> S] : g[0] = s0 /\ \A i \in 1 .. n : g[i] = step[<<g[i - 1], i>>]
  <2>1. step \in Steps(S, n)
    BY <1>4 DEF Steps
  <2>2. PICK g : IsRun(g, n, S, s0, step)
    BY <2>1, Rounds
  <2> QED
    BY <2>2 DEF IsRun
<1>6. ASSUME NEW i \in 1 .. n PROVE g[i] = One(g[i - 1], i)
  <2>1. g[i - 1] \in S
    BY <1>5
  <2> QED
    BY <1>4, <1>5, <2>1
<1> DEFINE Eq(u) == u = [i \in 0 .. n |-> IF i = 0 THEN <<>>
                                          ELSE IF i_flock[i].owner = p THEN u[i - 1]
                                          ELSE Append(u[i - 1], i_flock[i])]
<1>7. Eq(g)
  <2>1. ASSUME NEW i \in 0 .. n
        PROVE  g[i] = IF i = 0 THEN <<>>
                      ELSE IF i_flock[i].owner = p THEN g[i - 1]
                      ELSE Append(g[i - 1], i_flock[i])
    <3>1. CASE i = 0
      BY <1>1, <1>5, <3>1
    <3>2. CASE i # 0
      <4>1. i \in 1 .. n
        BY <3>2
      <4> QED
        BY <1>6, <3>2, <4>1 DEF One
    <3> QED
      BY <3>1, <3>2
  <2> QED
    BY <2>1
<1>8. PICK u : u = CHOOSE v : Eq(v)
  OBVIOUS
<1>9. Eq(u)
  BY <1>7, <1>8
<1>10. Others(p) = u[n]
  BY <1>1, <1>8 DEF Others
<1> DEFINE T == {k \in Nat : k <= n => /\ u[k] \in Seq(Locks) /\ Range(u[k]) = OthersUpTo(p, i_flock, k)
                                      /\ Picked(u[k], i_flock, k)}
<1>11. 0 \in T
  <2>1. u[0] = <<>>
    BY <1>9
  <2>2. Range(<<>>) = {} /\ OthersUpTo(p, i_flock, 0) = {} /\ <<>> \in Seq(Locks)
    BY DEF Range, OthersUpTo
  <2>3. Picked(<<>>, i_flock, 0)
    <3>1. Len(<<>>) = 0 /\ <<>> \in [1 .. 0 -> 1 .. 0] /\ 1 .. 0 = {}
      OBVIOUS
    <3> QED
      BY <3>1 DEF Picked
  <2> QED
    BY <2>1, <2>2, <2>3
<1>12. ASSUME NEW k \in Nat, k \in T PROVE k + 1 \in T
  <2> SUFFICES ASSUME k + 1 <= n
               PROVE  /\ u[k + 1] \in Seq(Locks) /\ Range(u[k + 1]) = OthersUpTo(p, i_flock, k + 1)
                      /\ Picked(u[k + 1], i_flock, k + 1)
    OBVIOUS
  <2>1. k + 1 \in 1 .. n /\ k + 1 \in 0 .. n /\ k + 1 # 0 /\ (k + 1) - 1 = k /\ k <= n
    OBVIOUS
  <2>2. PICK s \in Seq(Locks) : s = u[k] /\ Range(s) = OthersUpTo(p, i_flock, k) /\ Picked(s, i_flock, k)
    BY <1>12, <2>1
  <2>3. PICK l \in Locks : l = i_flock[k + 1]
    BY <1>2, <2>1
  <2>4. u[k + 1] = IF l.owner = p THEN s ELSE Append(s, l)
    BY <1>9, <2>1, <2>2, <2>3
  <2>5. \A j \in 1 .. k + 1 : j = k + 1 \/ j \in 1 .. k
    OBVIOUS
  <2>6. \A j \in 1 .. k : j \in 1 .. k + 1
    OBVIOUS
  <2>7. Picked(s, i_flock, k + 1) /\ Picked(Append(s, l), i_flock, k + 1)
    <3>1. PICK L : L = i_flock
      OBVIOUS
    <3>2. Picked(s, L, k) /\ l = L[k + 1]
      BY <2>2, <2>3, <3>1
    <3>3. Picked(s, L, k + 1) /\ Picked(Append(s, l), L, k + 1)
      BY <3>2, PickedMore
    <3> QED
      BY <3>1, <3>3
  <2>8. CASE l.owner = p
    <3>1. OthersUpTo(p, i_flock, k + 1) = OthersUpTo(p, i_flock, k)
      BY <2>3, <2>5, <2>6, <2>8 DEF OthersUpTo
    <3> QED
      BY <2>2, <2>4, <2>8, <2>7, <3>1
  <2>9. CASE l.owner # p
    <3>1. OthersUpTo(p, i_flock, k + 1) = OthersUpTo(p, i_flock, k) \cup {l}
      BY <2>1, <2>3, <2>5, <2>6, <2>9 DEF OthersUpTo
    <3>2. Append(s, l) \in Seq(Locks) /\ Range(Append(s, l)) = Range(s) \cup {l}
      BY AppendElements
    <3> QED
      BY <2>2, <2>4, <2>9, <2>7, <3>1, <3>2
  <2> QED
    BY <2>8, <2>9
<1>13. u[n] \in Seq(Locks) /\ Range(u[n]) = OthersUpTo(p, i_flock, n) /\ Picked(u[n], i_flock, n)
  <2>1. n \in T
    <3> HIDE DEF T
    <3> QED
      BY <1>11, <1>12, Induction
  <2> QED
    BY <2>1
<1>14. OthersUpTo(p, i_flock, n) = {l \in Range(i_flock) : l.owner # p}
  <2>1. DOMAIN i_flock = 1 .. n
    BY <1>1
  <2> QED
    BY <2>1 DEF OthersUpTo, Range
<1> QED
  BY <1>1, <1>10, <1>13, <1>14

-----------------------------------------------------------------------------
(* The steps.                                                              *)

\* Who stays asleep stays behind a lock of the same owner that covers the one it was behind.
StaysBehind(q) ==
    \A l \in Range(i_flock) : q \in l.block =>
        \E m \in Range(i_flock') : q \in m.block /\ m.owner = l.owner /\ Covers(m, l)

LEMMA BlockedByRange ==
    ASSUME NEW q
    PROVE  BlockedBy(q) = {l.owner : l \in {l \in Range(i_flock) : q \in l.block}}
BY DEF BlockedBy, Range

LEMMA CoversConflicts ==
    ASSUME NEW q \in Procs, NEW r \in Ranges, NEW l \in Locks, NEW m \in Locks,
           Covers(m, l), m.owner = l.owner, posix_locks_conflict(q, r, l)
    PROVE  posix_locks_conflict(q, r, m)
<1>1. /\ r.start \in Int /\ r.end \in Int /\ l.start \in Int /\ l.end \in Int
      /\ m.start \in Int /\ m.end \in Int
  BY DEF Ranges, Locks
<1>2. r.end >= l.start /\ l.end >= r.start
  BY DEF posix_locks_conflict, locks_overlap
<1>3. m.type = l.type /\ m.start <= l.start /\ m.end >= l.end
  BY DEF Covers
<1>4. locks_overlap(r, m)
  BY <1>1, <1>2, <1>3 DEF locks_overlap
<1> QED
  BY <1>3, <1>4 DEF posix_locks_conflict

\* If nobody falls asleep and who stays asleep stays behind a lock, no wakeup is lost and no
\* ring of sleepers is closed.
LEMMA SleepersKept ==
    ASSUME SleepInv, i_flock' \in Seq(Locks), asleep' \subseteq asleep,
           \A q \in asleep' : StaysBehind(q) /\ fl'[q] = fl[q]
    PROVE  NoLostWakeup' /\ NoDeadlock'
<1>1. NoLostWakeup'
  <2> SUFFICES ASSUME NEW q \in asleep'
               PROVE  \E j \in DOMAIN i_flock' : q \in i_flock'[j].block /\ posix_locks_conflict(q, fl'[q], i_flock'[j])
    BY DEF NoLostWakeup, posix_locks_conflict, locks_overlap
  <2>1. PICK i \in DOMAIN i_flock : q \in i_flock[i].block /\ posix_locks_conflict(q, fl[q], i_flock[i])
    BY DEF SleepInv, NoLostWakeup
  <2>2. PICK l \in Locks : l = i_flock[i] /\ l \in Range(i_flock) /\ q \in l.block /\ posix_locks_conflict(q, fl[q], l)
    <3>1. i_flock[i] \in Locks
      BY DEF SleepInv
    <3> QED
      BY <2>1, <3>1 DEF Range
  <2>3. PICK m \in Range(i_flock') : q \in m.block /\ m.owner = l.owner /\ Covers(m, l)
    BY <2>2 DEF StaysBehind
  <2>4. PICK j \in DOMAIN i_flock' : m = i_flock'[j]
    BY <2>3 DEF Range
  <2>5. m \in Locks /\ q \in Procs /\ fl[q] \in Ranges
    <3>1. m \in Locks
      BY <2>4
    <3> QED
      BY <3>1 DEF SleepInv
  <2>6. posix_locks_conflict(q, fl[q], m)
    BY <2>2, <2>3, <2>5, CoversConflicts
  <2> QED
    BY <2>3, <2>4, <2>6
<1>2. NoDeadlock'
  <2> SUFFICES ASSUME NEW set \in SUBSET asleep', set # {}, \A q \in set : BlockedBy(q)' \subseteq set
               PROVE  FALSE
    BY DEF NoDeadlock
  <2>1. PICK q \in set : ~(BlockedBy(q) \subseteq set)
    BY DEF SleepInv, NoDeadlock
  <2>2. PICK l \in Range(i_flock) : q \in l.block /\ l.owner \notin set
    BY <2>1, BlockedByRange
  <2>3. PICK m \in Range(i_flock') : q \in m.block /\ m.owner = l.owner
    BY <2>2 DEF StaysBehind
  <2>4. PICK j \in DOMAIN i_flock' : m = i_flock'[j]
    BY <2>3 DEF Range
  <2>5. l.owner \in BlockedBy(q)'
    BY <2>3, <2>4 DEF BlockedBy
  <2> QED
    BY <2>2, <2>5
<1> QED
  BY <1>1, <1>2

LEMMA SameList ==
    ASSUME i_flock \in Seq(Locks), i_flock' = i_flock, NEW q
    PROVE  StaysBehind(q)
<1>1. \A l \in Range(i_flock) : Covers(l, l)
  BY LockParts DEF Range
<1> QED
  BY <1>1 DEF StaysBehind

\* The rest of SleepInv.
Rest(L, f, a, c) ==
    /\ L \in Seq(Locks) /\ f \in [Procs -> Ranges] /\ a \subseteq Procs
    /\ c \in [Procs -> {"idle", "lock", "check", "io", "io_again", "access"}]
    /\ \A p \in a : c[p] \in {"lock", "io_again"} /\ f[p].type # "UNLCK"
    /\ \A p \in Procs : c[p] \in {"io", "io_again"} => f[p].type # "UNLCK"

LEMMA InvParts ==
    /\ SleepInv <=> Rest(i_flock, fl, asleep, pc) /\ NoLostWakeup /\ NoDeadlock
    /\ SleepInv' <=> Rest(i_flock', fl', asleep', pc') /\ NoLostWakeup' /\ NoDeadlock'
BY DEF SleepInv, Rest

\* locks_block_on: nobody reaches the sleeper from the owner of the lock it sleeps behind.
LEMMA BlockKeeps ==
    ASSUME SleepInv, NEW p \in Procs \ asleep, NEW k \in DOMAIN i_flock, NEW again \in {"lock", "io_again"},
           fl[p].type # "UNLCK", posix_locks_conflict(p, fl[p], i_flock[k]),
           ~posix_locks_deadlock(p, i_flock[k]),
           i_flock' = [i_flock EXCEPT ![k].block = @ \cup {p}],
           asleep' = asleep \cup {p}, pc' = [pc EXCEPT ![p] = again], fl' = fl
    PROVE  SleepInv'
<1>1. Rest(i_flock, fl, asleep, pc) /\ NoLostWakeup /\ NoDeadlock
  BY InvParts
<1>2. PICK l \in Locks : l = i_flock[k]
  BY <1>1 DEF Rest
<1>3. PICK m \in Locks : m = [l EXCEPT !.block = l.block \cup {p}]
  BY DEF Locks
<1>4. m.owner = l.owner /\ Covers(m, l) /\ m.block = l.block \cup {p}
  BY <1>3 DEF Locks, Covers
<1>5. i_flock' = [i_flock EXCEPT ![k] = m]
  BY <1>2, <1>3
<1>6. /\ i_flock' \in Seq(Locks) /\ DOMAIN i_flock' = DOMAIN i_flock /\ i_flock'[k] = m
      /\ \A i \in DOMAIN i_flock : i # k => i_flock'[i] = i_flock[i]
  <2>1. i_flock \in Seq(Locks)
    BY <1>1 DEF Rest
  <2>2. PICK L \in Seq(Locks) : L = i_flock
    BY <2>1
  <2>3. k \in 1 .. Len(L) /\ Len(L) \in Nat /\ DOMAIN L = 1 .. Len(L) /\ L \in [1 .. Len(L) -> Locks]
    BY <2>2
  <2>4. PICK M \in [1 .. Len(L) -> Locks] : M = [L EXCEPT ![k] = m]
    BY <2>3
  <2>5. /\ M \in Seq(Locks) /\ DOMAIN M = DOMAIN L /\ M[k] = m
        /\ \A i \in DOMAIN L : i # k => M[i] = L[i]
    BY <2>3, <2>4
  <2> QED
    BY <1>5, <2>2, <2>4, <2>5
<1>7. Rest(i_flock', fl', asleep', pc')
  BY <1>1, <1>6 DEF Rest
<1>8. \A i \in DOMAIN i_flock : i_flock[i] \in Locks /\ i_flock'[i] \in Locks /\ Covers(i_flock'[i], i_flock[i])
                                 /\ i_flock'[i].owner = i_flock[i].owner
                                 /\ i_flock'[i].block \in {i_flock[i].block, i_flock[i].block \cup {p}}
  <2>1. \A i \in DOMAIN i_flock : i_flock[i] \in Locks /\ Covers(i_flock[i], i_flock[i])
    BY <1>1, LockParts DEF Rest
  <2> QED
    BY <1>2, <1>4, <1>6, <2>1
<1>9. NoLostWakeup'
  <2> SUFFICES ASSUME NEW q \in asleep'
               PROVE  \E j \in DOMAIN i_flock' : q \in i_flock'[j].block /\ posix_locks_conflict(q, fl[q], i_flock'[j])
    BY DEF NoLostWakeup, posix_locks_conflict, locks_overlap
  <2>1. q \in Procs /\ fl[q] \in Ranges
    BY <1>1 DEF Rest
  <2>2. PICK i \in DOMAIN i_flock : q \in i_flock'[i].block /\ posix_locks_conflict(q, fl[q], i_flock[i])
    <3>1. CASE q = p
      BY <1>2, <1>4, <1>6, <3>1
    <3>2. CASE q # p
      <4>1. PICK i \in DOMAIN i_flock : q \in i_flock[i].block /\ posix_locks_conflict(q, fl[q], i_flock[i])
        BY <1>1, <3>2 DEF NoLostWakeup
      <4> QED
        BY <1>8, <4>1
    <3> QED
      BY <3>1, <3>2
  <2>3. posix_locks_conflict(q, fl[q], i_flock'[i])
    <3>1. PICK x \in Locks, y \in Locks : x = i_flock[i] /\ y = i_flock'[i] /\ Covers(y, x) /\ y.owner = x.owner
      BY <1>8
    <3>2. posix_locks_conflict(q, fl[q], y)
      BY <2>1, <2>2, <3>1, CoversConflicts
    <3> QED
      BY <3>1, <3>2
  <2> QED
    BY <1>6, <2>2, <2>3
<1>10. NoDeadlock'
  <2> SUFFICES ASSUME NEW set \in SUBSET asleep', set # {}, \A q \in set : BlockedBy(q)' \subseteq set
               PROVE  FALSE
    BY DEF NoDeadlock
  <2>1. \A q : BlockedBy(q) \subseteq BlockedBy(q)'
    BY <1>6, <1>8 DEF BlockedBy
  <2>2. CASE p \notin set
    <3>1. set \in SUBSET asleep
      BY <2>2
    <3> QED
      BY <1>1, <2>1, <3>1 DEF NoDeadlock
  <2>3. CASE p \in set
    <3>1. l.owner \in BlockedBy(p)'
      BY <1>4, <1>6 DEF BlockedBy
    <3>2. PICK met \in SUBSET Procs : /\ l.owner \in met /\ p \notin met
                                      /\ \A q \in met : BlockedBy(q) \subseteq met
      BY <1>2 DEF posix_locks_deadlock
    <3>3. set \cap met \in SUBSET asleep /\ l.owner \in set \cap met
      BY <2>3, <3>1, <3>2
    <3>4. \A q \in set \cap met : BlockedBy(q) \subseteq set \cap met
      BY <2>1, <3>2
    <3> QED
      BY <1>1, <3>3, <3>4 DEF NoDeadlock
  <2> QED
    BY <2>2, <2>3
<1> QED
  BY <1>7, <1>9, <1>10, InvParts

\* Unqueued only takes p away from the waiters of every lock.
LEMMA UnqueuedParts ==
    ASSUME i_flock \in Seq(Locks), NEW p
    PROVE  /\ Unqueued(p) \in Seq(Locks) /\ DOMAIN Unqueued(p) = DOMAIN i_flock
           /\ \A i \in DOMAIN i_flock :
                  /\ Unqueued(p)[i].owner = i_flock[i].owner /\ Covers(Unqueued(p)[i], i_flock[i])
                  /\ Unqueued(p)[i].block = i_flock[i].block \ {p} /\ Agrees(Unqueued(p)[i], i_flock[i])
<1>1. PICK L \in Seq(Locks) : L = i_flock
  OBVIOUS
<1>2. DOMAIN L = 1 .. Len(L) /\ Len(L) \in Nat /\ \A i \in DOMAIN L : L[i] \in Locks
  OBVIOUS
<1>3. PICK U : U = Unqueued(p)
  OBVIOUS
<1>4. U = [i \in DOMAIN L |-> [L[i] EXCEPT !.block = L[i].block \ {p}]]
  BY <1>1, <1>3 DEF Unqueued
<1>5. ASSUME NEW l \in Locks
      PROVE  /\ [l EXCEPT !.block = l.block \ {p}] \in Locks /\ Covers([l EXCEPT !.block = l.block \ {p}], l)
             /\ [l EXCEPT !.block = l.block \ {p}].owner = l.owner
             /\ [l EXCEPT !.block = l.block \ {p}].block = l.block \ {p}
             /\ Agrees([l EXCEPT !.block = l.block \ {p}], l)
  <2>1. PICK B : B = l.block \ {p} /\ B \subseteq Procs
    BY DEF Locks
  <2>2. PICK m \in Locks : m = [l EXCEPT !.block = B]
    BY <2>1 DEF Locks
  <2>3. m.owner = l.owner /\ m.type = l.type /\ m.start = l.start /\ m.end = l.end /\ m.block = B
    BY <2>2 DEF Locks
  <2>4. Covers(m, l) /\ Agrees(m, l)
    BY <2>3 DEF Covers, Agrees, Locks
  <2> QED
    BY <2>1, <2>2, <2>3, <2>4
<1>6. DOMAIN U = DOMAIN L /\ \A i \in DOMAIN L : U[i] = [L[i] EXCEPT !.block = L[i].block \ {p}]
  BY <1>4
<1>7. \A i \in DOMAIN L : U[i] \in Locks /\ U[i].owner = L[i].owner /\ Covers(U[i], L[i]) /\ U[i].block = L[i].block \ {p}
                           /\ Agrees(U[i], L[i])
  BY <1>2, <1>5, <1>6
<1>8. U \in Seq(Locks)
  <2>1. U = [i \in 1 .. Len(L) |-> U[i]]
    BY <1>2, <1>4, <1>6
  <2>2. U \in [1 .. Len(L) -> Locks]
    BY <1>2, <1>7, <2>1
  <2> QED
    BY <1>2, <2>2
<1> QED
  BY <1>1, <1>3, <1>6, <1>7, <1>8

LEMMA NoLockInRanges ==
    NoLock \in Ranges
BY DEF NoLock, Ranges, Types

\* The end of a call of a process that is awake.
LEMMA ReturnKeeps ==
    ASSUME SleepInv, NEW p \in Procs \ asleep, Return(p), i_flock' \in Seq(Locks),
           \A q \in asleep : StaysBehind(q)
    PROVE  SleepInv'
<1>1. Rest(i_flock, fl, asleep, pc)
  BY InvParts
<1>2. /\ pc' = [pc EXCEPT ![p] = "idle"] /\ fl' = [fl EXCEPT ![p] = NoLock] /\ asleep' = asleep
  BY DEF Return
<1>3. Rest(i_flock', fl', asleep', pc')
  BY <1>1, <1>2, NoLockInRanges DEF Rest
<1>4. \A q \in asleep' : StaysBehind(q) /\ fl'[q] = fl[q]
  BY <1>1, <1>2 DEF Rest
<1>5. NoLostWakeup' /\ NoDeadlock'
  BY <1>2, <1>4, SleepersKept
<1> QED
  BY <1>3, <1>5, InvParts

\* A lock in the way: EAGAIN, EDEADLK, or a sleep.
LEMMA BlockedKeeps ==
    ASSUME SleepInv, NEW p \in Procs \ asleep, NEW k \in DOMAIN i_flock, NEW again \in {"lock", "io_again"},
           fl[p].type # "UNLCK", posix_locks_conflict(p, fl[p], i_flock[k]), Blocked(p, k, again)
    PROVE  SleepInv'
<1>0. i_flock \in Seq(Locks)
  BY DEF SleepInv
<1>1. CASE ~wait[p] \/ posix_locks_deadlock(p, i_flock[k])
  <2>1. Return(p) /\ i_flock' = i_flock
    BY <1>1 DEF Blocked
  <2> QED
    BY <1>0, <2>1, SameList, ReturnKeeps
<1>2. CASE ~(~wait[p] \/ posix_locks_deadlock(p, i_flock[k]))
  <2>1. /\ i_flock' = [i_flock EXCEPT ![k].block = @ \cup {p}]
        /\ asleep' = asleep \cup {p} /\ pc' = [pc EXCEPT ![p] = again] /\ fl' = fl
    BY <1>2 DEF Blocked
  <2> QED
    BY <1>2, <2>1, BlockKeeps
<1> QED
  BY <1>1, <1>2

\* A step that leaves the list and the sleepers alone, with the call of p, who is awake.
LEMMA CallKeeps ==
    ASSUME SleepInv, NEW p \in Procs \ asleep, NEW f \in Ranges,
           NEW c \in {"idle", "lock", "check", "io", "io_again", "access"},
           c \in {"io", "io_again"} => f.type # "UNLCK",
           i_flock' = i_flock, asleep' = asleep, fl' = [fl EXCEPT ![p] = f], pc' = [pc EXCEPT ![p] = c]
    PROVE  SleepInv'
<1>1. Rest(i_flock, fl, asleep, pc)
  BY InvParts
<1>2. Rest(i_flock', fl', asleep', pc')
  BY <1>1 DEF Rest
<1>3. i_flock \in Seq(Locks)
  BY <1>1 DEF Rest
<1>4. \A q \in asleep' : StaysBehind(q) /\ fl'[q] = fl[q]
  BY <1>1, <1>3, SameList DEF Rest
<1>5. NoLostWakeup' /\ NoDeadlock'
  BY <1>3, <1>4, SleepersKept
<1> QED
  BY <1>2, <1>5, InvParts

\* A step that leaves the calls and the list alone, after which perhaps fewer sleep.
LEMMA OtherKeeps ==
    ASSUME SleepInv, i_flock' = i_flock, asleep' \subseteq asleep, fl' = fl, pc' = pc
    PROVE  SleepInv'
<1>1. Rest(i_flock, fl, asleep, pc)
  BY InvParts
<1>2. Rest(i_flock', fl', asleep', pc')
  BY <1>1 DEF Rest
<1>3. i_flock \in Seq(Locks)
  BY <1>1 DEF Rest
<1>4. \A q \in asleep' : StaysBehind(q) /\ fl'[q] = fl[q]
  BY <1>3, SameList
<1>5. NoLostWakeup' /\ NoDeadlock'
  BY <1>3, <1>4, SleepersKept
<1> QED
  BY <1>2, <1>5, InvParts

\* posix_lock_file grants the request, or blocks.
LEMMA LockKeeps ==
    ASSUME SleepInv, NEW p \in Procs, posix_lock_file(p)
    PROVE  SleepInv'
<1>1. Rest(i_flock, fl, asleep, pc) /\ p \in Procs \ asleep
  BY InvParts DEF posix_lock_file
<1>2. i_flock \in Seq(Locks) /\ fl \in [Procs -> Ranges]
  BY <1>1 DEF Rest
<1> DEFINE inTheWay == {i \in DOMAIN i_flock : posix_locks_conflict(p, fl[p], i_flock[i])}
<1>3. CASE fl[p].type # "UNLCK" /\ inTheWay # {}
  <2>1. PICK k \in inTheWay : k = Min(inTheWay)
    <3>1. inTheWay \subseteq Nat
      BY <1>2
    <3> HIDE DEF inTheWay
    <3> QED
      BY <1>3, <3>1, MinOf
  <2>2. Blocked(p, k, "lock")
    BY <1>3, <2>1 DEF posix_lock_file
  <2> QED
    BY <1>1, <1>3, <2>2, BlockedKeeps
<1>4. CASE ~(fl[p].type # "UNLCK" /\ inTheWay # {})
  <2>1. PICK s, L : s = Looped(p) /\ L = After(p, s)
    OBVIOUS
  <2>2. /\ i_flock' = L /\ asleep' = asleep \ Woken(s)
        /\ fl' = [fl EXCEPT ![p] = s.file] /\ pc' = [pc EXCEPT ![p] = "check"]
    BY <1>4, <2>1 DEF posix_lock_file
  <2>3. /\ L \in Seq(Locks) /\ s.file \in Ranges
        /\ \A l \in Range(i_flock) : \A q \in l.block :
               q \in Woken(s) \/ \E m \in Range(L) : q \in m.block /\ m.owner = l.owner /\ Covers(m, l)
    BY <1>2, <2>1, AfterLoop
  <2>4. Rest(i_flock', fl', asleep', pc')
    BY <1>1, <2>2, <2>3 DEF Rest
  <2>5. \A q \in asleep' : StaysBehind(q) /\ fl'[q] = fl[q]
    BY <1>1, <2>2, <2>3 DEF StaysBehind, Rest
  <2>6. NoLostWakeup' /\ NoDeadlock'
    BY <2>2, <2>3, <2>5, SleepersKept
  <2> QED
    BY <2>4, <2>6, InvParts
<1> QED
  BY <1>3, <1>4

\* locks_mandatory_area
LEMMA MandatoryKeeps ==
    ASSUME SleepInv, NEW p \in Procs, locks_mandatory_area(p)
    PROVE  SleepInv'
<1>1. Rest(i_flock, fl, asleep, pc) /\ p \in Procs \ asleep /\ pc[p] \in {"io", "io_again"}
  BY InvParts DEF locks_mandatory_area
<1>2. i_flock \in Seq(Locks) /\ fl[p].type # "UNLCK" /\ fl[p] \in Ranges
  BY <1>1 DEF Rest
<1> DEFINE ends == {i \in DOMAIN i_flock : \/ i_flock[i].start > fl[p].end
                                           \/ posix_locks_conflict(p, fl[p], i_flock[i])}
           blocks == /\ pc[p] = "io" \/ mandatory
                     /\ ends # {} /\ ~(i_flock[Min(ends)].start > fl[p].end)
<1>3. CASE blocks
  <2>1. PICK k \in ends : k = Min(ends)
    <3>1. ends \subseteq Nat /\ ends # {}
      BY <1>2, <1>3
    <3> HIDE DEF ends
    <3> QED
      BY <3>1, MinOf
  <2>2. Blocked(p, k, "io_again")
    BY <1>3, <2>1 DEF locks_mandatory_area
  <2>3. k \in DOMAIN i_flock /\ posix_locks_conflict(p, fl[p], i_flock[k])
    BY <1>3, <2>1
  <2> QED
    BY <1>1, <1>2, <2>2, <2>3, BlockedKeeps
<1>4. CASE ~blocks
  <2>1. /\ pc' = [pc EXCEPT ![p] = "access"] /\ i_flock' = i_flock /\ fl' = fl /\ asleep' = asleep
    BY <1>4 DEF locks_mandatory_area
  <2>2. fl' = [fl EXCEPT ![p] = fl[p]]
    BY <1>1, <2>1 DEF Rest
  <2> QED
    BY <1>1, <1>2, <2>1, <2>2, CallKeeps
<1> QED
  BY <1>3, <1>4

\* -ERESTARTSYS
LEMMA InterruptedKeeps ==
    ASSUME SleepInv, NEW p \in Procs, Interrupted(p)
    PROVE  SleepInv'
<1>1. i_flock \in Seq(Locks) /\ p \in Procs \ asleep /\ i_flock' = Unqueued(p) /\ Return(p)
  BY DEF SleepInv, Interrupted
<1>2. /\ i_flock' \in Seq(Locks) /\ DOMAIN i_flock' = DOMAIN i_flock
      /\ \A i \in DOMAIN i_flock : /\ i_flock'[i].owner = i_flock[i].owner /\ Covers(i_flock'[i], i_flock[i])
                                   /\ i_flock'[i].block = i_flock[i].block \ {p}
  BY <1>1, UnqueuedParts
<1>3. \A q \in asleep : StaysBehind(q)
  BY <1>1, <1>2 DEF StaysBehind, Range
<1> QED
  BY <1>1, <1>2, <1>3, ReturnKeeps

\* close
LEMMA RemoveKeeps ==
    ASSUME SleepInv, NEW p \in Procs, locks_remove_posix(p)
    PROVE  SleepInv'
<1>1. Rest(i_flock, fl, asleep, pc) /\ i_flock \in Seq(Locks)
  BY InvParts DEF Rest
<1>2. /\ i_flock' = Others(p) /\ fl' = fl /\ pc' = pc
      /\ asleep' = asleep \ UNION {i_flock[i].block : i \in {i \in DOMAIN i_flock : i_flock[i].owner = p}}
  BY DEF locks_remove_posix, callVars
<1>3. i_flock' \in Seq(Locks) /\ Range(i_flock') = {l \in Range(i_flock) : l.owner # p}
  BY <1>1, <1>2, OthersLeft
<1>4. Rest(i_flock', fl', asleep', pc')
  BY <1>1, <1>2, <1>3 DEF Rest
<1>5. ASSUME NEW q \in asleep' PROVE StaysBehind(q)
  <2>1. \A l \in Range(i_flock) : q \in l.block => l.owner # p
    BY <1>2 DEF Range
  <2>2. \A l \in Range(i_flock) : Covers(l, l)
    BY <1>1, LockParts DEF Range
  <2> QED
    BY <1>3, <2>1, <2>2 DEF StaysBehind
<1>6. NoLostWakeup' /\ NoDeadlock'
  BY <1>2, <1>3, <1>5, SleepersKept
<1> QED
  BY <1>4, <1>6, InvParts

-----------------------------------------------------------------------------
LEMMA InitSleep ==
    ASSUME Init PROVE SleepInv
<1>1. i_flock = <<>> /\ fl = [p \in Procs |-> NoLock] /\ pc = [p \in Procs |-> "idle"] /\ asleep = {}
  BY DEF Init
<1>2. Rest(i_flock, fl, asleep, pc)
  BY <1>1, NoLockInRanges DEF Rest
<1>3. NoLostWakeup /\ NoDeadlock
  BY <1>1 DEF NoLostWakeup, NoDeadlock
<1> QED
  BY <1>2, <1>3, InvParts

\* A request is a range, and one of Accesses is a read or a write.
LEMMA RequestRange ==
    ASSUME NEW r \in Requests \cup Accesses
    PROVE  /\ [type |-> r.type, start |-> r.start, end |-> r.end] \in Ranges
           /\ r \in Accesses => r.type # "UNLCK"
BY PosixAssumption DEF Ranges, Types

LEMMA NextSleep ==
    ASSUME SleepInv, [Next]_vars PROVE SleepInv'
<1>0. i_flock \in Seq(Locks) /\ \A p \in asleep : pc[p] \in {"lock", "io_again"} /\ fl[p].type # "UNLCK"
  BY DEF SleepInv
<1>1. ASSUME NEW p \in Procs, NEW op \in {"lock", "io"}, NEW requests \in SUBSET (Requests \cup Accesses),
             op = "io" => requests \subseteq Accesses, Call(p, op, requests)
      PROVE  SleepInv'
  <2>1. PICK r \in requests : fl' = [fl EXCEPT ![p] = [type |-> r.type, start |-> r.start, end |-> r.end]]
    BY <1>1 DEF Call
  <2>2. PICK f \in Ranges : /\ f = [type |-> r.type, start |-> r.start, end |-> r.end]
                            /\ r \in Accesses => f.type # "UNLCK"
    BY <1>1, <2>1, RequestRange
  <2>3. p \in Procs \ asleep /\ i_flock' = i_flock /\ asleep' = asleep /\ pc' = [pc EXCEPT ![p] = op]
    BY <1>0, <1>1 DEF Call
  <2> QED
    BY <1>1, <2>1, <2>2, <2>3, CallKeeps
<1>2. ASSUME NEW p \in Procs, fcntl_setlk(p) PROVE SleepInv'
  BY <1>1, <1>2 DEF fcntl_setlk
<1>3. ASSUME NEW p \in Procs, ReadWrite(p) PROVE SleepInv'
  BY <1>1, <1>3 DEF ReadWrite
<1>4. ASSUME NEW p \in Procs, Recheck(p) PROVE SleepInv'
  <2>1. p \in Procs \ asleep /\ i_flock' = i_flock
    BY <1>0, <1>4 DEF Recheck
  <2>2. CASE Return(p)
    BY <1>0, <2>1, <2>2, SameList, ReturnKeeps
  <2>3. CASE ~Return(p)
    <3>1. /\ fl' = [fl EXCEPT ![p].type = "UNLCK"] /\ pc' = [pc EXCEPT ![p] = "lock"] /\ asleep' = asleep
      BY <1>4, <2>3 DEF Recheck
    <3>2. PICK f \in Ranges : f = [fl[p] EXCEPT !.type = "UNLCK"]
      BY DEF SleepInv, Ranges, Types
    <3>3. fl' = [fl EXCEPT ![p] = f]
      BY <3>1, <3>2
    <3> QED
      BY <2>1, <3>1, <3>3, CallKeeps
  <2> QED
    BY <2>2, <2>3
<1>5. ASSUME NEW p \in Procs, Access(p) \/ OutOfMemory(p) PROVE SleepInv'
  <2>1. p \in Procs \ asleep /\ i_flock' = i_flock /\ Return(p)
    BY <1>0, <1>5 DEF Access, OutOfMemory
  <2> QED
    BY <1>0, <2>1, SameList, ReturnKeeps
<1>6. ASSUME NEW p \in Procs, Signal(p) \/ Close(p) \/ Look(p) \/ Open(p) PROVE SleepInv'
  <2>1. i_flock' = i_flock /\ asleep' \subseteq asleep /\ fl' = fl /\ pc' = pc
    BY <1>6 DEF Signal, Close, Look, Open, callVars
  <2> QED
    BY <2>1, OtherKeeps
<1>7. CASE ChangeMode \/ UNCHANGED vars
  <2>1. i_flock' = i_flock /\ asleep' \subseteq asleep /\ fl' = fl /\ pc' = pc
    BY <1>7 DEF ChangeMode, vars
  <2> QED
    BY <2>1, OtherKeeps
<1> QED
  BY <1>2, <1>3, <1>4, <1>5, <1>6, <1>7, LockKeeps, MandatoryKeeps, InterruptedKeeps, RemoveKeeps DEF Next

\* Whoever sleeps in locks_block_on is in a call that waits, behind a lock that is in its way,
\* and the sleepers do not wait for one another in a ring, however the list is merged and cut.
THEOREM SleepInvariant == Spec => []SleepInv
<1>1. Init => SleepInv
  BY InitSleep
<1>2. SleepInv /\ [Next]_vars => SleepInv'
  BY NextSleep
<1> QED
  BY <1>1, <1>2, PTL DEF Spec

\* Of a ring of processes that wait for one another, one has got EDEADLK from
\* posix_locks_deadlock, also after locks have changed hands, been merged, cut and closed.
THEOREM SleepersNeverDeadlock == Spec => []NoDeadlock
<1>1. SleepInv => NoDeadlock
  BY DEF SleepInv
<1> QED
  BY <1>1, SleepInvariant, PTL

\* posix_lock_file and locks_remove_posix wake everybody whose lock they take away.
THEOREM LockWakeupsNeverLost == Spec => []NoLostWakeup
<1>1. SleepInv => NoLostWakeup
  BY DEF SleepInv
<1> QED
  BY <1>1, SleepInvariant, PTL

-----------------------------------------------------------------------------
(* The order of the list and the bytes that it locks, as long as nothing   *)
(* but an unlock reaches the last byte.                                    *)

On(l, b) == l.start <= b /\ b <= l.end
Has(S, b, t) == \E l \in S : On(l, b) /\ l.type = t

\* b is behind a, and is not one lock with it
Before(a, b) == a.end < b.start /\ (a.type = b.type => a.end + 1 < b.start)

\* caller after it has grown from the request r
Grown(r, c) ==
    /\ c.type = r.type /\ c.start <= r.start /\ r.end <= c.end /\ WithinFile(c)
    /\ r.type = "UNLCK" => c.start = r.start /\ c.end = r.end

\* Where the locks Q that the loop has seen are now: d before caller, e behind it.  The lock
\* at left and the first one of e, if cut is 1, reach into caller from the left and the right.
Kinds(d, e, at, Q) ==
    /\ \A i \in 1 .. Len(d) : i # at => d[i] \in Q
    /\ \A j \in 1 .. Len(e) : e[j] \in Q
    /\ \A i, j \in 1 .. Len(d) : i < j /\ i # at /\ j # at => Before(d[i], d[j])
    /\ \A i, j \in 1 .. Len(e) : i < j => Before(e[i], e[j])
    /\ \A i \in 1 .. Len(d), j \in 1 .. Len(e) : i # at => Before(d[i], e[j])

LeftOf(d, e, c, at, left, cut) ==
    /\ \A i \in 1 .. Len(d) : i # at /\ i # left => Before(d[i], c)
    /\ left \in 1 .. Len(d) => /\ left # at /\ d[left].type # c.type /\ d[left].start < c.start
                               /\ c.start <= d[left].end /\ d[left].end <= c.end
    /\ left > Len(d) => left = Len(d) + 1 /\ at = 0 /\ cut = 1 /\ e[1].start < c.start

RightOf(d, e, c, left, cut) ==
    /\ \A j \in 1 .. Len(e) : j # cut => Before(c, e[j])
    /\ cut = 1 => /\ Len(e) >= 1 /\ e[1].type # c.type /\ e[1].start <= c.end /\ c.end < e[1].end
                  /\ left # Len(d) + 1 => c.start <= e[1].start

Placed(d, e, c, at, left, cut, Q) ==
    /\ Kinds(d, e, at, Q) /\ LeftOf(d, e, c, at, left, cut) /\ RightOf(d, e, c, left, cut)
    /\ at \in {0, Len(d)} /\ (at # 0 => \E l \in Q : l.end + 1 >= c.start)

\* The bytes outside of caller are held as before, those that it has grown by with its type.
SameBytes(Q, K, r, c) ==
    \A b \in Int, t \in {"RDLCK", "WRLCK"} :
        /\ ~On(c, b) => (Has(Q, b, t) <=> Has(K, b, t))
        /\ On(c, b) /\ ~On(r, b) => (Has(Q, b, t) <=> t = r.type)

CutOf(s) == IF s.right THEN 1 ELSE 0

Fits(s, r, Q) ==
    /\ Grown(r, s.caller) /\ WithinFile(s.file) /\ s.file.type = r.type
    /\ Placed(s.done, s.rest, s.caller, s.at, s.left, CutOf(s), Q)
    /\ IF r.type = "UNLCK" THEN s.at = 0 ELSE s.added <=> s.at # 0
    /\ SameBytes(Q, Kept(s), r, s.caller)

LEMMA LockWithin ==
    ASSUME NEW l \in Locks
    PROVE  /\ l.start \in Int /\ l.end \in Int /\ l.type # "UNLCK"
           /\ WithinFile(l) <=> 0 <= l.start /\ l.start <= l.end /\ l.end < OFFSET_MAX
<1>1. l.start \in Int /\ l.end \in Int /\ l.type # "UNLCK"
  BY DEF Locks
<1> QED
  BY <1>1, PosixAssumption DEF WithinFile

\* An ordered pair, with a lock between them or not.
LEMMA BeforeTrans ==
    ASSUME NEW a, a.end \in Int, NEW l \in Locks, WithinFile(l), NEW b, b.start \in Int,
           Before(a, l), Before(l, b)
    PROVE  Before(a, b)
BY LockWithin DEF Before

\* The lock x is next after the locks of Q.
Follows(Q, x) ==
    /\ Q \subseteq Locks /\ x \in Locks /\ WithinFile(x)
    /\ \A l \in Q : WithinFile(l) /\ Before(l, x)

\* A lock that the loop comes to after caller has absorbed one, or after one was cut on its
\* left, does not start before caller.
LEMMA NothingLeft ==
    ASSUME NEW d \in Seq(Locks), NEW c \in Ranges, NEW at \in Nat, NEW left \in Nat, NEW Q, NEW x,
           Placed(d, <<>>, c, at, left, 0, Q), Follows(Q, x), x.start < c.start
    PROVE  at = 0 /\ left = 0
<1>1. x.start \in Int /\ c.start \in Int /\ Len(d) \in Nat
  BY LockWithin DEF Follows, Ranges
<1>2. \A l \in Q : l.end \in Int /\ l.end < x.start
  BY LockWithin DEF Follows, Before
<1>3. at = 0
  BY <1>1, <1>2 DEF Placed
<1>4. ~(left > Len(d))
  BY DEF Placed, LeftOf
<1>5. left \notin 1 .. Len(d)
  <2> SUFFICES ASSUME left \in 1 .. Len(d) PROVE FALSE
    OBVIOUS
  <2>1. d[left] \in Q /\ c.start <= d[left].end
    BY <1>3 DEF Placed, LeftOf, Kinds
  <2> QED
    BY <1>1, <1>2, <2>1
<1> QED
  BY <1>1, <1>3, <1>4, <1>5

\* The elements of a list with one more.
LEMMA OneMore ==
    ASSUME NEW S, NEW l \in Seq(S), NEW x \in S
    PROVE  /\ Append(l, x) \in Seq(S) /\ Len(Append(l, x)) = Len(l) + 1 /\ Len(l) \in Nat
           /\ \A i \in 1 .. Len(l) : Append(l, x)[i] = l[i]
           /\ Append(l, x)[Len(l) + 1] = x
OBVIOUS

\* next_lock
LEMMA KeepPlaced ==
    ASSUME NEW d \in Seq(Locks), NEW c \in Ranges, NEW at \in Nat, NEW left \in Nat, NEW Q, NEW x,
           Placed(d, <<>>, c, at, left, 0, Q), Follows(Q, x), Before(x, c), WithinFile(c)
    PROVE  Placed(Append(d, x), <<>>, c, at, left, 0, Q \cup {x})
<1>0. x \in Locks /\ x.start < c.start
  <2>1. x \in Locks /\ x.start \in Int /\ x.end \in Int /\ x.start <= x.end /\ c.start \in Int /\ x.end < c.start
    BY LockWithin DEF Follows, Ranges, Before
  <2> QED
    BY <2>1
<1>1. at = 0 /\ left = 0
  BY <1>0, NothingLeft
<1>2. PICK n, m : n = Len(d) /\ m = Append(d, x)
  OBVIOUS
<1>3. n \in Nat /\ Len(m) = n + 1 /\ m[n + 1] = x /\ \A i \in 1 .. n : m[i] = d[i]
  BY <1>0, <1>2, OneMore
<1>4. \A i \in 1 .. n + 1 : i \in 1 .. n \/ i = n + 1
  BY <1>3
<1>5. Kinds(m, <<>>, 0, Q \cup {x})
  <2>1. \A i \in 1 .. n : m[i] \in Q /\ Before(m[i], x)
    BY <1>1, <1>2, <1>3 DEF Placed, Kinds, Follows
  <2>2. \A i, j \in 1 .. n : i < j => Before(m[i], m[j])
    BY <1>1, <1>2, <1>3 DEF Placed, Kinds
  <2>3. ASSUME NEW i \in 1 .. n + 1, NEW j \in 1 .. n + 1, i < j PROVE i \in 1 .. n /\ Before(m[i], m[j])
    <3>1. i \in 1 .. n
      BY <1>3, <2>3
    <3>2. CASE j \in 1 .. n
      BY <2>2, <2>3, <3>1, <3>2
    <3>3. CASE j = n + 1
      BY <1>3, <2>1, <3>1, <3>3
    <3> QED
      BY <1>4, <3>1, <3>2, <3>3
  <2>4. \A i \in 1 .. n + 1 : m[i] \in Q \cup {x}
    BY <1>3, <1>4, <2>1
  <2> QED
    BY <1>3, <2>3, <2>4 DEF Kinds
<1>6. LeftOf(m, <<>>, c, 0, 0, 0)
  <2>1. \A i \in 1 .. n : Before(m[i], c)
    BY <1>1, <1>2, <1>3 DEF Placed, LeftOf
  <2>2. \A i \in 1 .. n + 1 : Before(m[i], c)
    BY <1>3, <1>4, <2>1
  <2> QED
    BY <1>3, <2>2 DEF LeftOf
<1>7. RightOf(m, <<>>, c, 0, 0)
  BY DEF RightOf
<1> QED
  BY <1>1, <1>2, <1>5, <1>6, <1>7 DEF Placed

\* More locks have been seen, of which none is kept.
LEMMA PlacedMore ==
    ASSUME NEW d, NEW e, NEW c, NEW at, NEW left, NEW cut, NEW Q, NEW R, Q \subseteq R,
           Placed(d, e, c, at, left, cut, Q)
    PROVE  Placed(d, e, c, at, left, cut, R)
BY DEF Placed, Kinds

\* break, and the locks after it
LEMMA StopPlaced ==
    ASSUME NEW d \in Seq(Locks), NEW e \in Seq(Locks), NEW c \in Ranges, NEW at \in Nat, NEW left \in Nat,
           NEW cut \in {0, 1}, NEW Q, NEW x,
           Placed(d, e, c, at, left, cut, Q), Follows(Q, x), e = <<>> => Before(c, x)
    PROVE  Placed(d, Append(e, x), c, at, left, cut, Q \cup {x})
<1>0. x \in Locks /\ Q \subseteq Locks
  BY DEF Follows
<1>1. PICK n, m, k : n = Len(e) /\ m = Append(e, x) /\ k = Len(d)
  OBVIOUS
<1>2. n \in Nat /\ k \in Nat /\ Len(m) = n + 1 /\ m[n + 1] = x /\ \A i \in 1 .. n : m[i] = e[i]
  BY <1>0, <1>1, OneMore
<1>3. \A i \in 1 .. n + 1 : i \in 1 .. n \/ i = n + 1
  BY <1>2
<1>4. Before(c, x)
  <2>1. CASE e = <<>>
    BY <2>1
  <2>2. CASE e # <<>>
    <3>1. 1 \in 1 .. n /\ e[1] \in Locks /\ e[1] \in Q
      <4>1. 1 \in 1 .. n
        BY <1>1, <1>2, <2>2
      <4> QED
        BY <1>0, <1>1, <4>1 DEF Placed, Kinds
    <3>2. Before(e[1], x) /\ WithinFile(e[1])
      BY <3>1 DEF Follows
    <3>3. c.end \in Int /\ x.start \in Int
      BY <1>0, LockWithin DEF Ranges
    <3>4. CASE cut = 0
      <4>1. Before(c, e[1])
        BY <1>1, <3>1, <3>4 DEF Placed, RightOf
      <4> QED
        BY <3>1, <3>2, <3>3, <4>1, BeforeTrans
    <3>5. CASE cut = 1
      <4>1. c.end < e[1].end /\ e[1].end \in Int
        BY <3>1, <3>5, LockWithin DEF Placed, RightOf
      <4> QED
        BY <3>2, <3>3, <4>1 DEF Before
    <3> QED
      BY <3>4, <3>5
  <2> QED
    BY <2>1, <2>2
<1>5. Kinds(d, m, at, Q \cup {x})
  <2>1. /\ \A i \in 1 .. k : i # at => d[i] \in Q /\ Before(d[i], x)
        /\ \A j \in 1 .. n : m[j] \in Q /\ Before(m[j], x)
    BY <1>1, <1>2 DEF Placed, Kinds, Follows
  <2>2. /\ \A i, j \in 1 .. k : i < j /\ i # at /\ j # at => Before(d[i], d[j])
        /\ \A i, j \in 1 .. n : i < j => Before(m[i], m[j])
        /\ \A i \in 1 .. k, j \in 1 .. n : i # at => Before(d[i], m[j])
    BY <1>1, <1>2 DEF Placed, Kinds
  <2>3. ASSUME NEW i \in 1 .. n + 1, NEW j \in 1 .. n + 1, i < j PROVE Before(m[i], m[j])
    <3>1. i \in 1 .. n
      BY <1>2, <2>3
    <3>2. CASE j = n + 1
      BY <1>2, <2>1, <3>1, <3>2
    <3>3. CASE j \in 1 .. n
      BY <2>2, <2>3, <3>1, <3>3
    <3> QED
      BY <1>3, <3>2, <3>3
  <2>4. \A i \in 1 .. k, j \in 1 .. n + 1 : i # at => Before(d[i], m[j])
    BY <1>2, <1>3, <2>1, <2>2
  <2>5. \A j \in 1 .. n + 1 : m[j] \in Q \cup {x}
    BY <1>2, <1>3, <2>1
  <2> QED
    BY <1>1, <1>2, <2>1, <2>2, <2>3, <2>4, <2>5 DEF Kinds
<1>6. cut = 1 => m[1] = e[1] /\ n >= 1
  BY <1>1, <1>2 DEF Placed, RightOf
<1>7. LeftOf(d, m, c, at, left, cut)
  <2>1. left > Len(d) => cut = 1 /\ e[1].start < c.start
    BY DEF Placed, LeftOf
  <2> QED
    BY <1>6, <2>1 DEF Placed, LeftOf
<1>8. RightOf(d, m, c, left, cut)
  <2>1. \A j \in 1 .. n : j # cut => Before(c, m[j])
    BY <1>1, <1>2 DEF Placed, RightOf
  <2>2. \A j \in 1 .. n + 1 : j # cut => Before(c, m[j])
    BY <1>2, <1>3, <1>4, <2>1
  <2>3. cut = 1 => /\ e[1].type # c.type /\ e[1].start <= c.end /\ c.end < e[1].end
                   /\ left # Len(d) + 1 => c.start <= e[1].start
    BY DEF Placed, RightOf
  <2> QED
    BY <1>2, <1>6, <2>2, <2>3 DEF RightOf
<1> QED
  BY <1>1, <1>5, <1>7, <1>8 DEF Placed

\* A lock that goes on behind caller: it is the last one, and may have begun before caller.
LEMMA RightPlaced ==
    ASSUME NEW d \in Seq(Locks), NEW c \in Ranges, NEW at \in Nat, NEW left \in Nat, NEW new \in Nat,
           NEW Q, NEW x, Placed(d, <<>>, c, at, left, 0, Q), Follows(Q, x),
           x.type # c.type, x.start <= c.end, c.end < x.end,
           new = IF x.start < c.start THEN Len(d) + 1 ELSE left
    PROVE  Placed(d, <<x>>, c, at, new, 1, Q \cup {x})
<1>0. x \in Locks /\ Q \subseteq Locks /\ x.start \in Int /\ c.start \in Int
  BY LockWithin DEF Follows, Ranges
<1>1. PICK e, k : e = <<x>> /\ k = Len(d)
  OBVIOUS
<1>2. k \in Nat /\ e \in Seq(Locks) /\ Len(e) = 1 /\ e[1] = x /\ \A j \in 1 .. 1 : j = 1
  BY <1>0, <1>1
<1>3. Kinds(d, e, at, Q \cup {x})
  <2>1. /\ \A i \in 1 .. k : i # at => d[i] \in Q /\ Before(d[i], x)
        /\ \A i, j \in 1 .. k : i < j /\ i # at /\ j # at => Before(d[i], d[j])
    BY <1>1 DEF Placed, Kinds, Follows
  <2>2. \A i, j \in 1 .. 1 : ~(i < j)
    OBVIOUS
  <2> QED
    BY <1>1, <1>2, <2>1, <2>2 DEF Kinds
<1>4. CASE x.start < c.start
  <2>1. at = 0 /\ left = 0 /\ new = k + 1
    BY <1>1, <1>4, NothingLeft
  <2>2. \A i \in 1 .. k : Before(d[i], c) /\ i # new
    BY <1>1, <1>2, <2>1 DEF Placed, LeftOf
  <2>3. LeftOf(d, e, c, at, new, 1)
    BY <1>1, <1>2, <1>4, <2>1, <2>2 DEF LeftOf
  <2>4. RightOf(d, e, c, new, 1)
    BY <1>1, <1>2, <2>1 DEF RightOf
  <2> QED
    BY <1>1, <1>3, <2>1, <2>3, <2>4 DEF Placed
<1>5. CASE ~(x.start < c.start)
  <2>1. new = left /\ c.start <= x.start
    BY <1>0, <1>5
  <2>2. LeftOf(d, e, c, at, left, 1)
    BY DEF Placed, LeftOf
  <2>3. RightOf(d, e, c, left, 1)
    BY <1>2, <2>1 DEF RightOf
  <2> QED
    BY <1>1, <1>3, <2>1, <2>2, <2>3 DEF Placed
<1> QED
  BY <1>4, <1>5

\* A lock that begins before caller and ends in it
LEMMA LeftPlaced ==
    ASSUME NEW d \in Seq(Locks), NEW c \in Ranges, NEW at \in Nat, NEW left \in Nat, NEW Q, NEW x,
           Placed(d, <<>>, c, at, left, 0, Q), Follows(Q, x),
           x.type # c.type, x.start < c.start, c.start <= x.end, x.end <= c.end
    PROVE  Placed(Append(d, x), <<>>, c, at, Len(d) + 1, 0, Q \cup {x})
<1>0. x \in Locks
  BY DEF Follows
<1>1. at = 0 /\ left = 0
  BY NothingLeft
<1>2. PICK n, m : n = Len(d) /\ m = Append(d, x)
  OBVIOUS
<1>3. n \in Nat /\ Len(m) = n + 1 /\ m[n + 1] = x /\ \A i \in 1 .. n : m[i] = d[i]
  BY <1>0, <1>2, OneMore
<1>4. \A i \in 1 .. n + 1 : i \in 1 .. n \/ i = n + 1
  BY <1>3
<1>5. Kinds(m, <<>>, 0, Q \cup {x})
  <2>1. \A i \in 1 .. n : m[i] \in Q /\ Before(m[i], x)
    BY <1>1, <1>2, <1>3 DEF Placed, Kinds, Follows
  <2>2. \A i, j \in 1 .. n : i < j => Before(m[i], m[j])
    BY <1>1, <1>2, <1>3 DEF Placed, Kinds
  <2>3. ASSUME NEW i \in 1 .. n + 1, NEW j \in 1 .. n + 1, i < j PROVE i \in 1 .. n /\ Before(m[i], m[j])
    <3>1. i \in 1 .. n
      BY <1>3, <2>3
    <3>2. CASE j \in 1 .. n
      BY <2>2, <2>3, <3>1, <3>2
    <3>3. CASE j = n + 1
      BY <1>3, <2>1, <3>1, <3>3
    <3> QED
      BY <1>4, <3>1, <3>2, <3>3
  <2>4. \A i \in 1 .. n + 1 : m[i] \in Q \cup {x}
    BY <1>3, <1>4, <2>1
  <2> QED
    BY <1>3, <2>3, <2>4 DEF Kinds
<1>6. LeftOf(m, <<>>, c, 0, n + 1, 0)
  <2>1. \A i \in 1 .. n : Before(m[i], c)
    BY <1>1, <1>2, <1>3 DEF Placed, LeftOf
  <2> QED
    BY <1>3, <1>4, <2>1 DEF LeftOf
<1>7. RightOf(m, <<>>, c, n + 1, 0)
  BY DEF RightOf
<1> QED
  BY <1>1, <1>2, <1>5, <1>6, <1>7 DEF Placed

\* caller absorbs x, or deletes it, and grows by its range.
Wider(c, x, w) ==
    /\ w.type = c.type
    /\ w.start \in {c.start, x.start} /\ w.start <= c.start /\ w.start <= x.start
    /\ w.end \in {c.end, x.end} /\ w.end >= c.end /\ w.end >= x.end

\* What was before caller is before the wider one.
LEMMA WiderLeft ==
    ASSUME NEW d \in Seq(Locks), NEW c \in Ranges, NEW at \in Nat, NEW left \in Nat, NEW Q, NEW x,
           Placed(d, <<>>, c, at, left, 0, Q), Follows(Q, x), NEW w \in Ranges, Wider(c, x, w),
           x.type # c.type => c.start <= x.start
    PROVE  LeftOf(d, <<>>, w, at, left, 0)
<1>1. /\ x \in Locks /\ x.start \in Int /\ x.end \in Int /\ c.start \in Int /\ c.end \in Int
      /\ w.start \in Int /\ w.end \in Int /\ Len(d) \in Nat
      /\ \A l \in Q : l.start \in Int /\ l.end \in Int
  BY LockWithin DEF Follows, Ranges
<1>2. \A l \in Q : Before(l, x)
  BY DEF Follows
<1>3. /\ w.type = c.type /\ w.start \in {c.start, x.start} /\ w.start <= c.start /\ w.start <= x.start
      /\ w.end >= c.end
  BY DEF Wider
<1>4. ASSUME NEW i \in 1 .. Len(d), i # at, i # left PROVE Before(d[i], w)
  <2>1. d[i] \in Q /\ Before(d[i], c) /\ Before(d[i], x)
    BY <1>2, <1>4 DEF Placed, Kinds, LeftOf
  <2>2. CASE w.start = c.start
    BY <1>1, <1>3, <2>1, <2>2 DEF Before
  <2>3. CASE w.start # c.start
    <3>1. w.start = x.start /\ x.type = c.type
      BY <1>1, <1>3, <2>3
    <3> QED
      BY <1>1, <1>3, <2>1, <3>1 DEF Before
  <2> QED
    BY <2>2, <2>3
<1>5. ASSUME left \in 1 .. Len(d)
      PROVE  /\ left # at /\ d[left].type # w.type /\ d[left].start < w.start
             /\ w.start <= d[left].end /\ d[left].end <= w.end
  <2>1. /\ left # at /\ d[left].type # c.type /\ d[left].start < c.start
        /\ c.start <= d[left].end /\ d[left].end <= c.end
    BY <1>5 DEF Placed, LeftOf
  <2>2. d[left] \in Q /\ d[left].end < x.start
    BY <1>2, <1>5, <2>1 DEF Placed, Kinds, Before
  <2>3. w.start = c.start
    BY <1>1, <1>3, <2>1, <2>2
  <2> QED
    BY <1>1, <1>3, <2>1, <2>2, <2>3
<1>6. ~(left > Len(d))
  BY DEF Placed, LeftOf
<1> QED
  BY <1>4, <1>5, <1>6 DEF LeftOf

\* A lock of the same type is merged into the one that caller is.
LEMMA MergePlaced ==
    ASSUME NEW d \in Seq(Locks), NEW c \in Ranges, NEW at \in Nat, NEW left \in Nat, NEW Q, NEW x,
           Placed(d, <<>>, c, at, left, 0, Q), Follows(Q, x), at # 0, NEW w \in Ranges, Wider(c, x, w),
           x.type = c.type, NEW m \in Seq(Locks), Len(m) = Len(d), \A i \in 1 .. Len(d) : i # at => m[i] = d[i]
    PROVE  Placed(m, <<>>, w, at, left, 0, Q \cup {x})
<1>1. LeftOf(d, <<>>, w, at, left, 0) /\ Len(d) \in Nat
  BY WiderLeft
<1>2. LeftOf(m, <<>>, w, at, left, 0)
  <2>1. left \in 1 .. Len(d) => m[left] = d[left]
    BY <1>1 DEF LeftOf
  <2> QED
    BY <1>1, <2>1 DEF LeftOf
<1>3. Kinds(m, <<>>, at, Q \cup {x})
  <2>1. Kinds(d, <<>>, at, Q)
    BY DEF Placed
  <2>2. \A i, j \in 1 .. Len(d) : i < j /\ i # at /\ j # at => Before(m[i], m[j])
    BY <2>1 DEF Kinds
  <2> QED
    BY <2>1, <2>2 DEF Kinds
<1>4. RightOf(m, <<>>, w, left, 0)
  BY DEF RightOf
<1>5. \E l \in Q : l.end + 1 >= w.start
  <2>1. PICK l \in Q : l.end + 1 >= c.start
    BY DEF Placed
  <2>2. l.end \in Int /\ c.start \in Int /\ w.start \in Int /\ w.start <= c.start
    BY LockWithin DEF Follows, Ranges, Wider
  <2> QED
    BY <2>1, <2>2
<1> QED
  BY <1>2, <1>3, <1>4, <1>5 DEF Placed

\* A lock takes the place of the new one.
LEMMA AbsorbPlaced ==
    ASSUME NEW d \in Seq(Locks), NEW c \in Ranges, NEW left \in Nat, NEW Q, NEW x,
           Placed(d, <<>>, c, 0, left, 0, Q), Follows(Q, x), NEW w \in Ranges, Wider(c, x, w),
           x.type # c.type => c.start <= x.start, c.start <= x.end + 1, NEW y \in Locks
    PROVE  Placed(Append(d, y), <<>>, w, Len(d) + 1, left, 0, Q \cup {x})
<1>1. LeftOf(d, <<>>, w, 0, left, 0)
  BY WiderLeft
<1>2. PICK n, m : n = Len(d) /\ m = Append(d, y)
  OBVIOUS
<1>3. n \in Nat /\ Len(m) = n + 1 /\ \A i \in 1 .. n : m[i] = d[i]
  BY <1>2, OneMore
<1>4. \A i \in 1 .. n + 1 : i # n + 1 => i \in 1 .. n
  BY <1>3
<1>5. LeftOf(m, <<>>, w, n + 1, left, 0)
  <2>1. left <= n
    BY <1>1, <1>2, <1>3 DEF LeftOf
  <2>2. \A i \in 1 .. n + 1 : i # n + 1 /\ i # left => Before(m[i], w)
    BY <1>1, <1>2, <1>3, <1>4 DEF LeftOf
  <2>3. left \in 1 .. n => /\ m[left].type # w.type /\ m[left].start < w.start
                           /\ w.start <= m[left].end /\ m[left].end <= w.end
    BY <1>1, <1>2, <1>3 DEF LeftOf
  <2>4. left \in 1 .. n + 1 => left \in 1 .. n /\ left # n + 1
    BY <1>3, <2>1
  <2>5. ~(left > n + 1)
    BY <1>3, <2>1
  <2> QED
    BY <1>3, <2>2, <2>3, <2>4, <2>5 DEF LeftOf
<1>6. Kinds(m, <<>>, n + 1, Q \cup {x})
  <2>1. \A i \in 1 .. n : m[i] \in Q
    BY <1>2, <1>3 DEF Placed, Kinds
  <2>2. \A i, j \in 1 .. n : i < j => Before(m[i], m[j])
    BY <1>2, <1>3 DEF Placed, Kinds
  <2> QED
    BY <1>3, <1>4, <2>1, <2>2 DEF Kinds
<1>7. RightOf(m, <<>>, w, left, 0)
  BY DEF RightOf
<1>8. \E l \in Q \cup {x} : l.end + 1 >= w.start
  <2>1. x.end \in Int /\ c.start \in Int /\ w.start \in Int /\ w.start <= c.start
    BY LockWithin DEF Follows, Ranges, Wider
  <2>2. x.end + 1 >= w.start
    BY <2>1
  <2> QED
    BY <2>2
<1> QED
  BY <1>2, <1>3, <1>5, <1>6, <1>7, <1>8 DEF Placed

\* Where caller has grown it is on locks that the loop has seen, which x is not.
LEMMA GrownFree ==
    ASSUME NEW Q, NEW K, NEW r \in Ranges, NEW c \in Ranges, NEW x, Grown(r, c), SameBytes(Q, K, r, c),
           Follows(Q, x), NEW b \in Int, On(c, b), ~On(r, b)
    PROVE  ~On(x, b)
<1>1. r.type \in {"RDLCK", "WRLCK"}
  BY DEF Grown, On, Ranges, Types
<1>2. PICK l \in Q : On(l, b)
  BY <1>1 DEF SameBytes, Has
<1>3. l.end \in Int /\ x.start \in Int /\ l.end < x.start /\ b <= l.end
  BY <1>2, LockWithin DEF Follows, Before, On
<1> QED
  BY <1>3 DEF On

LEMMA HasMore ==
    ASSUME NEW S, NEW x, NEW b, NEW t
    PROVE  Has(S \cup {x}, b, t) <=> Has(S, b, t) \/ (On(x, b) /\ x.type = t)
BY DEF Has

\* x is kept.
LEMMA KeepBytes ==
    ASSUME NEW Q, NEW K, NEW r \in Ranges, NEW c \in Ranges, NEW x, Grown(r, c), SameBytes(Q, K, r, c),
           Follows(Q, x)
    PROVE  SameBytes(Q \cup {x}, K \cup {x}, r, c)
<1>1. ASSUME NEW b \in Int, NEW t \in {"RDLCK", "WRLCK"}
      PROVE  /\ ~On(c, b) => (Has(Q \cup {x}, b, t) <=> Has(K \cup {x}, b, t))
             /\ On(c, b) /\ ~On(r, b) => (Has(Q \cup {x}, b, t) <=> t = r.type)
  <2>1. /\ ~On(c, b) => (Has(Q, b, t) <=> Has(K, b, t))
        /\ On(c, b) /\ ~On(r, b) => (Has(Q, b, t) <=> t = r.type)
    BY DEF SameBytes
  <2>2. On(c, b) /\ ~On(r, b) => ~On(x, b)
    BY GrownFree
  <2> QED
    BY <2>1, <2>2, HasMore
<1> QED
  BY <1>1 DEF SameBytes

\* The locks K become N: these differ only on caller.
Differ(K, N, c, w) ==
    /\ \A l \in K : l \in N \/ Agrees(l, c)
    /\ \A l \in N : l \in K \/ Agrees(l, w)

\* x is of another type, in caller, and deleted.
LEMMA DropBytes ==
    ASSUME NEW Q, NEW K, NEW N, NEW r \in Ranges, NEW c \in Ranges, NEW x, Grown(r, c), SameBytes(Q, K, r, c),
           Follows(Q, x), c.start <= x.start, x.end <= c.end, Differ(K, N, c, c)
    PROVE  SameBytes(Q \cup {x}, N, r, c)
<1>0. x.start \in Int /\ x.end \in Int /\ c.start \in Int /\ c.end \in Int
  BY LockWithin DEF Follows, Ranges
<1>1. ASSUME NEW b \in Int, NEW t \in {"RDLCK", "WRLCK"}
      PROVE  /\ ~On(c, b) => (Has(Q \cup {x}, b, t) <=> Has(N, b, t))
             /\ On(c, b) /\ ~On(r, b) => (Has(Q \cup {x}, b, t) <=> t = r.type)
  <2>1. /\ ~On(c, b) => (Has(Q, b, t) <=> Has(K, b, t))
        /\ On(c, b) /\ ~On(r, b) => (Has(Q, b, t) <=> t = r.type)
    BY DEF SameBytes
  <2>2. On(c, b) /\ ~On(r, b) => ~On(x, b)
    BY GrownFree
  <2>3. On(x, b) => On(c, b)
    BY <1>0 DEF On
  <2>4. ~On(c, b) => (Has(K, b, t) <=> Has(N, b, t))
    BY DEF Differ, Has, On, Agrees
  <2> QED
    BY <2>1, <2>2, <2>3, <2>4, HasMore
<1> QED
  BY <1>1 DEF SameBytes

\* x is of the type of caller and becomes a part of it.
LEMMA WiderBytes ==
    ASSUME NEW Q, NEW K, NEW N, NEW r \in Ranges, NEW c \in Ranges, NEW w \in Ranges, NEW x, Grown(r, c),
           SameBytes(Q, K, r, c), Follows(Q, x), x.type = c.type, Wider(c, x, w), Differ(K, N, c, w),
           x.start <= c.end + 1, c.start <= x.end + 1
    PROVE  SameBytes(Q \cup {x}, N, r, w)
<1>0. /\ x.start \in Int /\ x.end \in Int /\ c.start \in Int /\ c.end \in Int /\ x.start <= x.end
      /\ w.start \in Int /\ w.end \in Int /\ \A l \in Q : l.end \in Int /\ l.end < x.start
  BY LockWithin DEF Follows, Ranges, Before
<1>2. x.type = r.type
  BY DEF Grown
<1>1. ASSUME NEW b \in Int, NEW t \in {"RDLCK", "WRLCK"}
      PROVE  /\ ~On(w, b) => (Has(Q \cup {x}, b, t) <=> Has(N, b, t))
             /\ On(w, b) /\ ~On(r, b) => (Has(Q \cup {x}, b, t) <=> t = r.type)
  <2>1. /\ ~On(c, b) => (Has(Q, b, t) <=> Has(K, b, t))
        /\ On(c, b) /\ ~On(r, b) => (Has(Q, b, t) <=> t = r.type)
    BY DEF SameBytes
  <2>3. On(w, b) <=> On(c, b) \/ On(x, b)
    BY <1>0 DEF On, Wider
  <2>4. ~On(w, b) => (Has(K, b, t) <=> Has(N, b, t))
    <3>1. ~On(w, b) => ~On(c, b)
      BY <2>3
    <3> QED
      BY <3>1 DEF Differ, Has, On, Agrees
  <2>5. On(x, b) => ~Has(Q, b, t)
    BY <1>0 DEF Has, On
  <2> QED
    BY <1>2, <2>1, <2>3, <2>4, <2>5, HasMore
<1> QED
  BY <1>1 DEF SameBytes

-----------------------------------------------------------------------------
(* A round of the loop keeps Fits.                                         *)

\* The parts of Fits, which a round is about.
LEMMA FitsParts ==
    ASSUME NEW p, NEW s \in Good(p), NEW r \in Ranges, NEW Q, Fits(s, r, Q)
    PROVE  /\ s \in LoopStates /\ s.done \in Seq(Locks) /\ s.rest \in Seq(Locks) /\ s.caller \in Ranges
           /\ s.at \in Nat /\ s.left \in Nat /\ Kept(s) \subseteq Locks
           /\ CutOf(s) \in {0, 1} /\ (s.rest = <<>> => CutOf(s) = 0)
           /\ Grown(r, s.caller) /\ WithinFile(s.caller) /\ WithinFile(s.file) /\ s.file.type = r.type
           /\ Placed(s.done, s.rest, s.caller, s.at, s.left, CutOf(s), Q)
           /\ SameBytes(Q, Kept(s), r, s.caller)
<1>1. s \in LoopStates /\ (s.right => s.rest # <<>>)
  BY DEF Good
<1>2. CutOf(s) \in {0, 1} /\ (s.rest = <<>> => CutOf(s) = 0)
  BY <1>1, Zenon DEF CutOf
<1> QED
  BY <1>1, <1>2, StateParts DEF Fits, Grown

LEMMA FitsAdded ==
    ASSUME NEW s, NEW t, NEW r, NEW Q, Fits(s, r, Q), t.at = s.at,
           r.type # "UNLCK" => (t.added <=> s.added)
    PROVE  IF r.type = "UNLCK" THEN t.at = 0 ELSE t.added <=> t.at # 0
BY DEF Fits

\* next_lock
LEMMA KeepFits ==
    ASSUME NEW p, NEW s \in Good(p), NEW r \in Ranges, NEW Q, Fits(s, r, Q), NEW x, Follows(Q, x), s.rest = <<>>,
           NEW t \in LoopStates, t.done = Append(s.done, x), t.rest = s.rest, t.caller = s.caller,
           t.file = s.file, t.at = s.at, t.right = s.right,
           r.type # "UNLCK" => (t.added <=> s.added),
           \/ t.left = s.left /\ Before(x, s.caller)
           \/ /\ t.left = Len(s.done) + 1 /\ x.type # s.caller.type /\ x.start < s.caller.start
              /\ s.caller.start <= x.end /\ x.end <= s.caller.end
    PROVE  Fits(t, r, Q \cup {x})
<1>1. /\ s \in LoopStates /\ s.done \in Seq(Locks) /\ s.rest \in Seq(Locks) /\ s.caller \in Ranges
      /\ s.at \in Nat /\ s.left \in Nat /\ CutOf(s) = 0 /\ CutOf(t) = CutOf(s)
      /\ Grown(r, s.caller) /\ WithinFile(s.caller) /\ WithinFile(s.file) /\ s.file.type = r.type
      /\ Placed(s.done, <<>>, s.caller, s.at, s.left, 0, Q)
      /\ SameBytes(Q, Kept(s), r, s.caller)
  <2>1. CutOf(t) = CutOf(s)
    BY Zenon DEF CutOf
  <2> QED
    BY <2>1, FitsParts
<1>2. Placed(t.done, <<>>, s.caller, s.at, t.left, 0, Q \cup {x})
  <2>1. CASE t.left = s.left /\ Before(x, s.caller)
    BY <1>1, <2>1, KeepPlaced
  <2>2. CASE /\ t.left = Len(s.done) + 1 /\ x.type # s.caller.type /\ x.start < s.caller.start
             /\ s.caller.start <= x.end /\ x.end <= s.caller.end
    BY <1>1, <2>2, LeftPlaced
  <2> QED
    BY <2>1, <2>2
<1>3. Kept(t) = Kept(s) \cup {x}
  <2>1. x \in Locks
    BY DEF Follows
  <2> QED
    BY <1>1, <2>1, AppendElements DEF Kept
<1>4. SameBytes(Q \cup {x}, Kept(t), r, s.caller)
  BY <1>1, <1>3, KeepBytes
<1>5. IF r.type = "UNLCK" THEN t.at = 0 ELSE t.added <=> t.at # 0
  BY FitsAdded
<1> QED
  BY <1>1, <1>2, <1>4, <1>5 DEF Fits

\* break, and the locks after it
LEMMA StopFits ==
    ASSUME NEW p, NEW s \in Good(p), NEW r \in Ranges, NEW Q, Fits(s, r, Q), NEW x, Follows(Q, x),
           NEW t \in LoopStates, t.done = s.done, t.rest = Append(s.rest, x), t.caller = s.caller,
           t.file = s.file, t.at = s.at, r.type # "UNLCK" => (t.added <=> s.added),
           \/ t.left = s.left /\ t.right = s.right /\ (s.rest = <<>> => Before(s.caller, x))
           \/ /\ t.right /\ s.rest = <<>> /\ x.type # s.caller.type
              /\ x.start <= s.caller.end /\ s.caller.end < x.end
              /\ t.left = IF x.start < s.caller.start THEN Len(s.done) + 1 ELSE s.left
    PROVE  Fits(t, r, Q \cup {x})
<1>1. /\ s \in LoopStates /\ s.done \in Seq(Locks) /\ s.rest \in Seq(Locks) /\ s.caller \in Ranges
      /\ s.at \in Nat /\ s.left \in Nat /\ CutOf(s) \in {0, 1} /\ (s.rest = <<>> => CutOf(s) = 0)
      /\ Grown(r, s.caller) /\ WithinFile(s.caller) /\ WithinFile(s.file) /\ s.file.type = r.type
      /\ Placed(s.done, s.rest, s.caller, s.at, s.left, CutOf(s), Q)
      /\ SameBytes(Q, Kept(s), r, s.caller)
  BY FitsParts
<1>2. Placed(s.done, t.rest, s.caller, s.at, t.left, CutOf(t), Q \cup {x})
  <2>1. CASE t.left = s.left /\ t.right = s.right /\ (s.rest = <<>> => Before(s.caller, x))
    <3>1. CutOf(t) = CutOf(s)
      BY <2>1, Zenon DEF CutOf
    <3> QED
      BY <1>1, <2>1, <3>1, StopPlaced, SMTT(30)
  <2>2. CASE /\ t.right /\ s.rest = <<>> /\ x.type # s.caller.type
             /\ x.start <= s.caller.end /\ s.caller.end < x.end
             /\ t.left = IF x.start < s.caller.start THEN Len(s.done) + 1 ELSE s.left
    <3>1. CutOf(t) = 1
      BY <2>2, Zenon DEF CutOf
    <3>2. t.rest = <<x>>
      BY <2>2
    <3>3. t.left \in Nat
      BY StateParts
    <3>4. Placed(s.done, <<>>, s.caller, s.at, s.left, 0, Q)
      BY <1>1, <2>2
    <3>5. Placed(s.done, <<x>>, s.caller, s.at, t.left, 1, Q \cup {x})
      BY <1>1, <2>2, <3>3, <3>4, RightPlaced
    <3> QED
      BY <3>1, <3>2, <3>5
  <2> QED
    BY <2>1, <2>2
<1>3. Kept(t) = Kept(s) \cup {x}
  <2>1. x \in Locks
    BY DEF Follows
  <2> QED
    BY <1>1, <2>1, AppendElements DEF Kept
<1>4. SameBytes(Q \cup {x}, Kept(t), r, s.caller)
  BY <1>1, <1>3, KeepBytes
<1>5. IF r.type = "UNLCK" THEN t.at = 0 ELSE t.added <=> t.at # 0
  BY FitsAdded
<1> QED
  BY <1>1, <1>2, <1>4, <1>5 DEF Fits

\* locks_delete_lock of a lock of another type
LEMMA DeleteFits ==
    ASSUME NEW p, NEW s \in Good(p), NEW r \in Ranges, NEW Q, Fits(s, r, Q), NEW x, Follows(Q, x),
           s.caller.start <= x.start, x.end <= s.caller.end,
           NEW t \in LoopStates, t.done = s.done, t.rest = s.rest, t.caller = s.caller,
           t.file = s.file, t.at = s.at, t.right = s.right, t.left = s.left,
           r.type # "UNLCK" => (t.added <=> s.added)
    PROVE  Fits(t, r, Q \cup {x})
<1>1. /\ s.caller \in Ranges /\ CutOf(t) = CutOf(s)
      /\ Grown(r, s.caller) /\ WithinFile(s.caller) /\ WithinFile(s.file) /\ s.file.type = r.type
      /\ Placed(s.done, s.rest, s.caller, s.at, s.left, CutOf(s), Q)
      /\ SameBytes(Q, Kept(s), r, s.caller)
  <2>1. CutOf(t) = CutOf(s)
    BY Zenon DEF CutOf
  <2> QED
    BY <2>1, FitsParts
<1>2. Placed(s.done, s.rest, s.caller, s.at, s.left, CutOf(s), Q \cup {x})
  BY <1>1, PlacedMore
<1>3. Kept(t) = Kept(s) /\ Differ(Kept(s), Kept(s), s.caller, s.caller)
  BY DEF Kept, Differ
<1>4. SameBytes(Q \cup {x}, Kept(t), r, s.caller)
  BY <1>1, <1>3, DropBytes
<1>5. IF r.type = "UNLCK" THEN t.at = 0 ELSE t.added <=> t.at # 0
  BY FitsAdded
<1> QED
  BY <1>1, <1>2, <1>4, <1>5 DEF Fits

LEMMA WiderGrown ==
    ASSUME NEW r \in Ranges, NEW c \in Ranges, NEW w \in Ranges, NEW Q, NEW x, Grown(r, c), Follows(Q, x),
           Wider(c, x, w), r.type # "UNLCK" \/ w = c
    PROVE  Grown(r, w) /\ WithinFile(w)
<1>1. /\ x.start \in Int /\ x.end \in Int /\ 0 <= x.start /\ x.start <= x.end /\ x.end < OFFSET_MAX
      /\ c.start \in Int /\ c.end \in Int /\ w.start \in Int /\ w.end \in Int /\ r.start \in Int /\ r.end \in Int
      /\ OFFSET_MAX \in Nat
  BY LockWithin, PosixAssumption DEF Follows, Ranges
<1>2. CASE w = c
  BY <1>2 DEF Grown
<1>3. CASE r.type # "UNLCK"
  <2>1. /\ c.type = r.type /\ w.type = r.type /\ c.start <= r.start /\ r.end <= c.end
        /\ 0 <= c.start /\ c.start <= c.end /\ c.end < OFFSET_MAX
        /\ w.start \in {c.start, x.start} /\ w.start <= c.start /\ w.start <= x.start
        /\ w.end \in {c.end, x.end} /\ w.end >= c.end /\ w.end >= x.end
    BY <1>3 DEF Grown, WithinFile, Wider
  <2>2. w.start <= r.start /\ r.end <= w.end /\ 0 <= w.start /\ w.start <= w.end /\ w.end < OFFSET_MAX
    BY ONLY <1>1, <2>1
  <2> QED
    BY <1>1, <1>3, <2>1, <2>2 DEF Grown, WithinFile
<1> QED
  BY <1>2, <1>3

\* A lock of the same type is merged into the one that caller is.
LEMMA MergeFits ==
    ASSUME NEW p, NEW s \in Good(p), NEW r \in Ranges, NEW Q, Fits(s, r, Q), NEW x, Follows(Q, x), s.rest = <<>>,
           x.type = s.caller.type, x.start <= s.caller.end + 1, s.caller.start <= x.end + 1,
           NEW w \in Ranges, Wider(s.caller, x, w), s.at # 0,
           NEW t \in LoopStates, t.done = [s.done EXCEPT ![s.at] = With(s.done[s.at], w)], t.rest = s.rest,
           t.caller = w, WithinFile(t.file), t.file.type = r.type, t.at = s.at, t.right = s.right,
           t.left = s.left, t.added = s.added, Agrees(t.done[s.at], w)
    PROVE  Fits(t, r, Q \cup {x})
<1>1. /\ s \in LoopStates /\ s.done \in Seq(Locks) /\ s.rest \in Seq(Locks) /\ s.caller \in Ranges
      /\ s.at \in Nat /\ s.left \in Nat /\ CutOf(s) = 0 /\ CutOf(t) = 0
      /\ Grown(r, s.caller) /\ WithinFile(s.caller) /\ Kept(s) \subseteq Locks
      /\ Placed(s.done, <<>>, s.caller, s.at, s.left, 0, Q)
      /\ SameBytes(Q, Kept(s), r, s.caller)
  <2>1. CutOf(t) = CutOf(s)
    BY Zenon DEF CutOf
  <2> QED
    BY <2>1, FitsParts
<1>2. PICK d, m \in Seq(Locks) : d = s.done /\ m = t.done
  BY <1>1, StateParts
<1>3. Len(m) = Len(d) /\ Len(d) \in Nat /\ \A i \in 1 .. Len(d) : i # s.at => m[i] = d[i]
  BY <1>2
<1>4. Placed(m, <<>>, w, s.at, s.left, 0, Q \cup {x})
  BY <1>1, <1>2, <1>3, MergePlaced, SMTT(30)
<1>5. Differ(Kept(s), Kept(t), s.caller, w)
  <2>1. Kept(s) = {d[i] : i \in 1 .. Len(d)} /\ Kept(t) = {m[i] : i \in 1 .. Len(d)}
    BY <1>2, <1>3 DEF Kept, Range
  <2>2. Agrees(d[s.at], s.caller) /\ Agrees(m[s.at], w)
    BY <1>2 DEF Good
  <2> QED
    BY <1>3, <2>1, <2>2 DEF Differ
<1>6. SameBytes(Q \cup {x}, Kept(t), r, w)
  BY <1>1, <1>5, WiderBytes
<1>7. r.type # "UNLCK" /\ (t.added <=> t.at # 0)
  <2>1. r.type # "UNLCK"
    BY <1>1, LockWithin DEF Follows, Grown
  <2> QED
    BY <2>1 DEF Fits
<1>8. Grown(r, w)
  BY <1>1, <1>7, WiderGrown
<1> QED
  BY <1>1, <1>2, <1>4, <1>6, <1>7, <1>8 DEF Fits

\* A lock takes the place of the new one: of the same type, or in it.
LEMMA AbsorbFits ==
    ASSUME NEW p, NEW s \in Good(p), NEW r \in Ranges, NEW Q, Fits(s, r, Q), NEW x, Follows(Q, x), s.rest = <<>>,
           NEW w \in Ranges, Wider(s.caller, x, w), ~s.added, r.type # "UNLCK",
           x.start <= s.caller.end + 1, s.caller.start <= x.end + 1,
           x.type # s.caller.type => w = s.caller /\ s.caller.start <= x.start /\ x.end <= s.caller.end,
           NEW y \in Locks, Agrees(y, w),
           NEW t \in LoopStates, t.done = Append(s.done, y), t.rest = s.rest,
           t.caller = w, WithinFile(t.file), t.file.type = r.type, t.at = Len(s.done) + 1, t.right = s.right,
           t.left = s.left, t.added
    PROVE  Fits(t, r, Q \cup {x})
<1>1. /\ s \in LoopStates /\ s.done \in Seq(Locks) /\ s.rest \in Seq(Locks) /\ s.caller \in Ranges
      /\ s.at = 0 /\ s.left \in Nat /\ CutOf(s) = 0 /\ CutOf(t) = 0
      /\ Grown(r, s.caller) /\ WithinFile(s.caller) /\ Kept(s) \subseteq Locks
      /\ Placed(s.done, <<>>, s.caller, 0, s.left, 0, Q)
      /\ SameBytes(Q, Kept(s), r, s.caller)
  <2>1. CutOf(t) = CutOf(s)
    BY Zenon DEF CutOf
  <2>2. s.at = 0
    BY DEF Fits
  <2> QED
    BY <2>1, <2>2, FitsParts
<1>2. Placed(t.done, <<>>, w, Len(s.done) + 1, s.left, 0, Q \cup {x})
  BY <1>1, AbsorbPlaced
<1>3. Kept(t) = Kept(s) \cup {y}
  BY <1>1, AppendElements DEF Kept
<1>4. Differ(Kept(s), Kept(t), s.caller, w)
  BY <1>3 DEF Differ
<1>5. SameBytes(Q \cup {x}, Kept(t), r, w)
  <2>1. CASE x.type = s.caller.type
    BY <1>1, <1>4, <2>1, WiderBytes
  <2>2. CASE x.type # s.caller.type
    BY <1>1, <1>4, <2>2, DropBytes
  <2> QED
    BY <2>1, <2>2
<1>6. Grown(r, w)
  BY <1>1, WiderGrown
<1>7. Len(s.done) + 1 # 0
  BY <1>1
<1> QED
  BY <1>1, <1>2, <1>5, <1>6, <1>7 DEF Fits

LEMMA SameTypeFits ==
    ASSUME NEW p, NEW s \in Good(p), NEW r \in Ranges, NEW Q, Fits(s, r, Q), NEW lock, Follows(Q, lock),
           s.rest = <<>>, s.caller.type = lock.type
    PROVE  Fits(SameType(s, lock), r, Q \cup {lock})
<1>1. /\ s \in LoopStates /\ s.done \in Seq(Locks) /\ s.caller \in Ranges /\ s.at \in Nat
      /\ Grown(r, s.caller) /\ WithinFile(s.caller) /\ WithinFile(s.file) /\ s.file.type = r.type
  BY FitsParts
<1>2. /\ lock \in Locks /\ lock.start \in Int /\ lock.end \in Int
      /\ lock.type \in {"RDLCK", "WRLCK"} /\ lock.start <= lock.end
  BY LockWithin DEF Follows, Locks
<1>3. PICK c \in Ranges : c = s.caller /\ c.type = lock.type /\ c.start \in Int /\ c.end \in Int
  BY <1>1 DEF Ranges
<1>4. r.type # "UNLCK" /\ (s.added <=> s.at # 0) /\ r.type = c.type
  <2>1. r.type # "UNLCK" /\ r.type = c.type
    BY <1>1, <1>2, <1>3 DEF Grown
  <2> QED
    BY <2>1 DEF Fits
<1>5. Succ(c.end) = c.end + 1
  <2>1. c.end < OFFSET_MAX /\ OFFSET_MAX \in Nat
    BY <1>1, <1>3, <1>4, PosixAssumption DEF WithinFile
  <2> QED
    BY <1>3, <2>1 DEF Succ
<1>6. PICK w : w = Merged(s.caller, lock)
  OBVIOUS
<1>7. w \in Ranges /\ Wider(c, lock, w)
  <2>1. PICK a \in Int, b \in Int :
            /\ a = Min2(c.start, lock.start) /\ b = Max2(c.end, lock.end)
            /\ a <= c.start /\ a <= lock.start /\ b >= c.end /\ b >= lock.end
            /\ a \in {c.start, lock.start} /\ b \in {c.end, lock.end}
    BY <1>2, <1>3 DEF Min2, Max2
  <2>2. w = [c EXCEPT !.start = a, !.end = b]
    BY <1>3, <1>6, <2>1 DEF Merged, Ranges
  <2>3. w \in Ranges /\ w.type = c.type /\ w.start = a /\ w.end = b
    BY <2>2 DEF Ranges
  <2> QED
    BY <2>1, <2>3 DEF Wider
<1>8. Grown(r, w) /\ WithinFile(w) /\ w.type = r.type
  <2>1. Grown(r, w) /\ WithinFile(w)
    BY <1>1, <1>3, <1>4, <1>7, WiderGrown
  <2> QED
    BY <2>1 DEF Grown
<1>9. PICK f \in Ranges : f = (IF s.at = 0 THEN w ELSE s.file) /\ WithinFile(f) /\ f.type = r.type
  BY <1>1, <1>7, <1>8, StateParts
<1>10. PICK u : u = [s EXCEPT !.file = f]
  OBVIOUS
<1>11. /\ u.done = s.done /\ u.rest = s.rest /\ u.caller = s.caller /\ u.at = s.at /\ u.added = s.added
       /\ u.right = s.right /\ u.left = s.left /\ u.file = f /\ u \in LoopStates
  BY <1>1, <1>10, SetFile
<1>12. ASSUME lock.start <= c.end + 1, c.start <= lock.end + 1
       PROVE  Fits(Absorb(u, lock, w), r, Q \cup {lock})
  <2>1. CASE s.added
    <3>1. Absorb(u, lock, w) = Delete(Becomes(u, w), lock)
      BY <1>11, <2>1 DEF Absorb
    <3>2. s.at # 0
      BY <1>4, <2>1
    <3>3. s.at \in 1 .. Len(s.done) /\ s.done[s.at] \in Locks /\ Agrees(s.done[s.at], s.caller)
      <4>1. s.at \in 1 .. Len(s.done) /\ Agrees(s.done[s.at], s.caller)
        BY <1>1, <3>2 DEF Good
      <4> QED
        BY <1>1, <4>1
    <3>4. PICK y \in Locks : y = With(s.done[s.at], w) /\ Agrees(y, w)
      <4>1. PICK l \in Locks : l = s.done[s.at]
        BY <3>3
      <4>2. w.type = lock.type
        BY <1>3, <1>4, <1>8
      <4>3. With(l, w) \in Locks /\ Agrees(With(l, w), w)
        BY <1>2, <1>7, <4>2 DEF With, Locks, Ranges, Agrees
      <4> QED
        BY <4>1, <4>3
    <3>5. PICK d : d = [s.done EXCEPT ![s.at] = y]
      OBVIOUS
    <3>6. d \in Seq(Locks) /\ d[s.at] = y
      BY <1>1, <3>3, <3>5
    <3>7. PICK v : v = Becomes(u, w)
      OBVIOUS
    <3>8. d = IF u.at = 0 THEN u.done ELSE [u.done EXCEPT ![u.at] = With(u.done[u.at], w)]
      BY <1>11, <3>2, <3>4, <3>5
    <3>9. /\ v \in LoopStates /\ v.done = d /\ v.rest = s.rest /\ v.caller = w /\ v.at = s.at
          /\ v.right = s.right /\ v.left = s.left /\ v.added = s.added /\ v.file = f
      BY <1>7, <1>11, <3>6, <3>7, <3>8, SetCaller, SMTT(30)
    <3>10. PICK t : t = Delete(v, lock)
      OBVIOUS
    <3>11. /\ t \in LoopStates /\ t.done = d /\ t.rest = s.rest /\ t.caller = w /\ t.at = s.at
           /\ t.right = s.right /\ t.left = s.left /\ t.added = s.added /\ t.file = f
      BY <1>2, <3>9, <3>10, SetDeleted
    <3>12. t.done = [s.done EXCEPT ![s.at] = With(s.done[s.at], w)] /\ Agrees(t.done[s.at], w)
      BY <3>4, <3>5, <3>6, <3>11
    <3>13. Fits(t, r, Q \cup {lock})
      BY <1>3, <1>7, <1>9, <1>12, <3>2, <3>11, <3>12, MergeFits
    <3> QED
      BY <3>1, <3>7, <3>10, <3>13
  <2>2. CASE ~s.added
    <3>1. PICK y : y = With(lock, w)
      OBVIOUS
    <3>2. y \in Locks /\ Agrees(y, w)
      <4>1. w.type = lock.type
        BY <1>3, <1>4, <1>8
      <4> QED
        BY <1>2, <1>7, <3>1, <4>1 DEF With, Locks, Ranges, Agrees
    <3>3. PICK t : t = Absorb(u, lock, w)
      OBVIOUS
    <3>4. /\ t \in LoopStates /\ t.done = Append(s.done, y) /\ t.rest = s.rest /\ t.at = Len(s.done) + 1
          /\ t.right = s.right /\ t.caller = w /\ t.added /\ t.left = s.left /\ t.file = f
      BY <1>7, <1>11, <2>2, <3>1, <3>2, <3>3, SetAbsorbed
    <3>5. Fits(t, r, Q \cup {lock})
      BY <1>3, <1>4, <1>7, <1>9, <1>12, <2>2, <3>2, <3>4, AbsorbFits
    <3> QED
      BY <3>3, <3>5
  <2> QED
    BY <2>1, <2>2
<1>13. SameType(s, lock) =
         IF lock.end < c.start - 1 THEN Keep(s, lock)
         ELSE IF ~Touches(c, lock) THEN Stop(s, lock)
         ELSE Absorb(u, lock, w)
  BY <1>3, <1>6, <1>9, <1>10 DEF SameType
<1>14. CASE lock.end < c.start - 1
  <2>1. PICK t : t = Keep(s, lock)
    OBVIOUS
  <2>2. Before(lock, c)
    BY <1>2, <1>3, <1>14 DEF Before
  <2>3. Fits(t, r, Q \cup {lock})
    <3>1. /\ t \in LoopStates /\ t.done = Append(s.done, lock) /\ t.rest = s.rest /\ t.caller = s.caller
          /\ t.file = s.file /\ t.at = s.at /\ t.right = s.right /\ t.added = s.added /\ t.left = s.left
      BY <1>1, <1>2, <2>1, SetKept
    <3> QED
      BY <1>3, <1>4, <2>2, <3>1, KeepFits
  <2> QED
    BY <1>13, <1>14, <2>1, <2>3
<1>15. CASE ~(lock.end < c.start - 1) /\ lock.start > c.end + 1
  <2>1. PICK t : t = Stop(s, lock)
    OBVIOUS
  <2>2. Before(c, lock) /\ ~Touches(c, lock)
    BY <1>2, <1>3, <1>5, <1>15 DEF Before, Touches
  <2>3. Fits(t, r, Q \cup {lock})
    <3>1. /\ t \in LoopStates /\ t.rest = Append(s.rest, lock) /\ t.done = s.done /\ t.caller = s.caller
          /\ t.file = s.file /\ t.at = s.at /\ t.right = s.right /\ t.added = s.added /\ t.left = s.left
      BY <1>1, <1>2, <2>1, SetStopped
    <3> QED
      BY <1>3, <1>4, <2>2, <3>1, StopFits
  <2> QED
    BY <1>13, <1>15, <2>1, <2>2, <2>3
<1>16. CASE ~(lock.end < c.start - 1) /\ ~(lock.start > c.end + 1)
  <2>1. lock.start <= c.end + 1 /\ c.start <= lock.end + 1
    BY <1>2, <1>3, <1>16
  <2>2. Touches(c, lock)
    BY <1>5, <1>16 DEF Touches
  <2> QED
    BY <1>12, <1>13, <1>16, <2>1, <2>2
<1> QED
  BY <1>14, <1>15, <1>16

LEMMA OtherTypeFits ==
    ASSUME NEW p, NEW s \in Good(p), NEW r \in Ranges, NEW Q, Fits(s, r, Q), NEW lock, Follows(Q, lock),
           s.rest = <<>>, s.caller.type # lock.type
    PROVE  Fits(OtherType(s, lock), r, Q \cup {lock})
<1>1. /\ s \in LoopStates /\ s.done \in Seq(Locks) /\ s.caller \in Ranges /\ s.left \in Nat
      /\ Grown(r, s.caller) /\ WithinFile(s.caller) /\ WithinFile(s.file) /\ s.file.type = r.type
      /\ Len(s.done) + 1 \in Nat
  <2>1. s.done \in Seq(Locks)
    BY FitsParts
  <2>2. Len(s.done) + 1 \in Nat
    BY <2>1
  <2> QED
    BY <2>2, FitsParts
<1>2. lock \in Locks /\ lock.start \in Int /\ lock.end \in Int /\ lock.start <= lock.end
  BY LockWithin DEF Follows
<1>3. PICK c \in Ranges : c = s.caller /\ c.start \in Int /\ c.end \in Int /\ c.type = r.type /\ c.type # lock.type
  BY <1>1 DEF Ranges, Grown
<1>4. PICK add \in BOOLEAN, le \in Nat :
          /\ add = (s.added \/ s.caller.type = "UNLCK")
          /\ le = IF lock.start < s.caller.start THEN Len(s.done) + 1 ELSE s.left
  BY <1>1
<1>5. PICK u : u = [s EXCEPT !.added = add, !.left = le]
  OBVIOUS
<1>6. [s EXCEPT !.added = @ \/ s.caller.type = "UNLCK",
                !.left = IF lock.start < s.caller.start THEN Len(s.done) + 1 ELSE @] = u
  <2>1. [s EXCEPT !.added = @ \/ s.caller.type = "UNLCK",
                  !.left = IF lock.start < s.caller.start THEN Len(s.done) + 1 ELSE @]
          = [s EXCEPT !.added = s.added \/ s.caller.type = "UNLCK",
                      !.left = IF lock.start < s.caller.start THEN Len(s.done) + 1 ELSE s.left]
    BY <1>1, Zenon DEF LoopStates
  <2> QED
    BY <1>4, <1>5, <2>1, Zenon
<1>7. /\ u.done = s.done /\ u.rest = s.rest /\ u.caller = s.caller /\ u.at = s.at /\ (u.added <=> add)
      /\ u.left = le /\ u.file = s.file /\ u.right = s.right /\ u \in LoopStates
  BY <1>1, <1>5 DEF LoopStates
<1>8. (add <=> s.added \/ r.type = "UNLCK") /\ (u.added <=> s.added \/ r.type = "UNLCK")
  BY <1>3, <1>4, <1>7
<1>9. OtherType(s, lock) =
          IF lock.end < s.caller.start THEN Keep(s, lock)
          ELSE IF lock.start > s.caller.end THEN Stop(s, lock)
          ELSE IF lock.end > s.caller.end THEN [Stop(u, lock) EXCEPT !.right = TRUE]
          ELSE IF lock.start < s.caller.start THEN Keep(u, lock)
          ELSE IF u.added THEN Delete(u, lock)
          ELSE Absorb(Delete(u, lock), [lock EXCEPT !.block = {}], s.caller)
  BY <1>6, Zenon DEF OtherType
<1>10. CASE lock.end < c.start
  <2>1. PICK t : t = Keep(s, lock)
    OBVIOUS
  <2>2. Before(lock, c)
    BY <1>3, <1>10 DEF Before
  <2>3. /\ t \in LoopStates /\ t.done = Append(s.done, lock) /\ t.rest = s.rest /\ t.caller = s.caller
        /\ t.file = s.file /\ t.at = s.at /\ t.right = s.right /\ t.added = s.added /\ t.left = s.left
    BY <1>1, <1>2, <2>1, SetKept
  <2>4. Fits(t, r, Q \cup {lock})
    BY <1>3, <2>2, <2>3, KeepFits
  <2> QED
    BY <1>3, <1>9, <1>10, <2>1, <2>4
<1>11. CASE ~(lock.end < c.start) /\ lock.start > c.end
  <2>1. PICK t : t = Stop(s, lock)
    OBVIOUS
  <2>2. Before(c, lock)
    BY <1>2, <1>3, <1>11 DEF Before
  <2>3. /\ t \in LoopStates /\ t.rest = Append(s.rest, lock) /\ t.done = s.done /\ t.caller = s.caller
        /\ t.file = s.file /\ t.at = s.at /\ t.right = s.right /\ t.added = s.added /\ t.left = s.left
    BY <1>1, <1>2, <2>1, SetStopped
  <2>4. Fits(t, r, Q \cup {lock})
    BY <1>3, <2>2, <2>3, StopFits
  <2> QED
    BY <1>3, <1>9, <1>11, <2>1, <2>4
<1>12. CASE ~(lock.end < c.start) /\ ~(lock.start > c.end) /\ lock.end > c.end
  <2>1. PICK v : v = Stop(u, lock)
    OBVIOUS
  <2>2. /\ v \in LoopStates /\ v.rest = Append(s.rest, lock) /\ v.done = s.done /\ v.caller = s.caller
        /\ v.file = s.file /\ v.at = s.at /\ v.added = u.added /\ v.left = le
    BY <1>2, <1>7, <2>1, SetStopped
  <2>3. PICK t : t = [v EXCEPT !.right = TRUE]
    OBVIOUS
  <2>4. /\ t \in LoopStates /\ t.rest = Append(s.rest, lock) /\ t.done = s.done /\ t.caller = s.caller
        /\ t.file = s.file /\ t.at = s.at /\ t.added = u.added /\ t.left = le /\ t.right
    BY <2>2, <2>3, SetRight
  <2>5. lock.start <= c.end /\ c.end < lock.end
    BY <1>2, <1>3, <1>12
  <2>6. r.type # "UNLCK" => (t.added <=> s.added)
    BY <1>8, <2>4
  <2>7. Fits(t, r, Q \cup {lock})
    BY <1>3, <1>4, <2>4, <2>5, <2>6, StopFits
  <2> QED
    BY <1>3, <1>9, <1>12, <2>1, <2>3, <2>7
<1>13. CASE ~(lock.end < c.start) /\ ~(lock.end > c.end) /\ lock.start < c.start
  <2>1. PICK t : t = Keep(u, lock)
    OBVIOUS
  <2>2. /\ t \in LoopStates /\ t.done = Append(s.done, lock) /\ t.rest = s.rest /\ t.caller = s.caller
        /\ t.file = s.file /\ t.at = s.at /\ t.right = s.right /\ t.added = u.added /\ t.left = le
    BY <1>2, <1>7, <2>1, SetKept
  <2>3. c.start <= lock.end /\ lock.end <= c.end /\ le = Len(s.done) + 1 /\ ~(lock.start > c.end)
    BY <1>2, <1>3, <1>4, <1>13
  <2>4. r.type # "UNLCK" => (t.added <=> s.added)
    BY <1>8, <2>2
  <2>5. Fits(t, r, Q \cup {lock})
    BY <1>3, <1>13, <2>2, <2>3, <2>4, KeepFits
  <2> QED
    BY <1>3, <1>9, <1>13, <2>1, <2>3, <2>5
<1>14. CASE ~(lock.end < c.start) /\ ~(lock.end > c.end) /\ ~(lock.start < c.start)
  <2>1. c.start <= lock.start /\ lock.end <= c.end /\ le = s.left /\ ~(lock.start > c.end)
    BY <1>2, <1>3, <1>4, <1>14
  <2>2. PICK v : v = Delete(u, lock)
    OBVIOUS
  <2>3. /\ v \in LoopStates /\ v.done = s.done /\ v.rest = s.rest /\ v.caller = s.caller
        /\ v.file = s.file /\ v.at = s.at /\ v.right = s.right /\ v.added = u.added /\ v.left = s.left
    BY <1>2, <1>7, <2>1, <2>2, SetDeleted
  <2>4. CASE u.added
    <3>1. r.type # "UNLCK" => (v.added <=> s.added)
      BY <1>8, <2>3
    <3>2. Fits(v, r, Q \cup {lock})
      BY <1>3, <2>1, <2>3, <3>1, DeleteFits
    <3> QED
      BY <1>3, <1>9, <1>14, <2>1, <2>2, <2>4, <3>2
  <2>5. CASE ~u.added
    <3>1. ~s.added /\ r.type # "UNLCK" /\ ~v.added
      BY <1>8, <2>3, <2>5
    <3>2. PICK l : l = [lock EXCEPT !.block = {}]
      OBVIOUS
    <3>3. PICK y : y = With(l, c)
      OBVIOUS
    <3>4. y \in Locks /\ Agrees(y, c)
      <4>1. l \in Locks
        BY <1>2, <3>2 DEF Locks
      <4>2. c.type \in {"RDLCK", "WRLCK"}
        BY <1>3, <3>1 DEF Ranges, Types
      <4> QED
        BY <1>3, <3>3, <4>1, <4>2 DEF With, Locks, Agrees
    <3>5. PICK t : t = Absorb(v, l, c)
      OBVIOUS
    <3>6. /\ t \in LoopStates /\ t.done = Append(s.done, y) /\ t.rest = s.rest /\ t.at = Len(s.done) + 1
          /\ t.right = s.right /\ t.caller = c /\ t.added /\ t.left = s.left /\ t.file = s.file
      BY <2>3, <3>1, <3>3, <3>4, <3>5, SetAbsorbed
    <3>7. Wider(s.caller, lock, c)
      BY <1>2, <1>3, <2>1 DEF Wider
    <3>8. lock.start <= s.caller.end + 1 /\ s.caller.start <= lock.end + 1
      BY <1>2, <1>3, <2>1
    <3>9. Fits(t, r, Q \cup {lock})
      BY <1>1, <1>3, <2>1, <3>1, <3>4, <3>6, <3>7, <3>8, AbsorbFits
    <3> QED
      BY <1>3, <1>9, <1>14, <2>1, <2>2, <2>5, <3>2, <3>5, <3>9
  <2> QED
    BY <2>4, <2>5
<1> QED
  BY <1>2, <1>3, <1>10, <1>11, <1>12, <1>13, <1>14

LEMMA ProcessFits ==
    ASSUME NEW p, NEW s \in Good(p), NEW r \in Ranges, NEW Q, Fits(s, r, Q), NEW lock, Follows(Q, lock)
    PROVE  Fits(Process(s, lock), r, Q \cup {lock})
<1>1. CASE s.rest # <<>>
  <2>1. PICK t : t = Stop(s, lock)
    OBVIOUS
  <2>2. s \in LoopStates /\ lock \in Locks
    BY DEF Good, Follows
  <2>3. /\ t \in LoopStates /\ t.rest = Append(s.rest, lock) /\ t.done = s.done /\ t.caller = s.caller
        /\ t.file = s.file /\ t.at = s.at /\ t.right = s.right /\ t.added = s.added /\ t.left = s.left
    BY <2>1, <2>2, SetStopped
  <2>4. Fits(t, r, Q \cup {lock})
    BY <1>1, <2>3, StopFits
  <2> QED
    BY <1>1, <2>1, <2>4 DEF Process
<1>2. CASE s.rest = <<>>
  BY <1>2, SameTypeFits, OtherTypeFits DEF Process
<1> QED
  BY <1>1, <1>2

-----------------------------------------------------------------------------
(* The whole loop.                                                         *)

\* The locks of the list from f to i.
Between(f, i) == {i_flock[j] : j \in f .. i}

LEMMA StartFits ==
    ASSUME NEW p \in Procs, fl \in [Procs -> Ranges], WithinFile(fl[p])
    PROVE  Fits(Start(p), fl[p], {})
<1>0. PICK s : s = Start(p)
  OBVIOUS
<1>1. PICK r \in Ranges : s = Start(p) /\ r = fl[p]
  BY <1>0
<1>2. /\ s.done = <<>> /\ s.rest = <<>> /\ s.caller = r /\ s.file = r /\ s.at = 0
      /\ ~s.added /\ s.left = 0 /\ ~s.right
  BY <1>1 DEF Start
<1>3. CutOf(s) = 0
  BY <1>2, Zenon DEF CutOf
<1>4. r.start \in Int /\ r.end \in Int /\ WithinFile(r)
  BY <1>1 DEF Ranges
<1>5. Grown(r, r)
  BY <1>4 DEF Grown
<1>6. Placed(<<>>, <<>>, r, 0, 0, 0, {})
  BY DEF Placed, Kinds, LeftOf, RightOf
<1>7. SameBytes({}, Kept(s), r, r)
  BY <1>2 DEF SameBytes, Kept, Range, Has
<1> QED
  BY <1>1, <1>2, <1>3, <1>4, <1>5, <1>6, <1>7 DEF Fits

\* The parts of ListInv that the loop needs.
Tidy(L) ==
    /\ L \in Seq(Locks)
    /\ \A i \in 1 .. Len(L) : WithinFile(L[i])
    /\ \A i, j \in 1 .. Len(L) : i < j /\ L[i].owner = L[j].owner =>
           Before(L[i], L[j]) /\ \A k \in i .. j : L[k].owner = L[i].owner

LEMMA TidyList ==
    /\ ListInv => Tidy(i_flock)
    /\ Tidy(i_flock) <=> /\ i_flock \in Seq(Locks) /\ SortedAndMerged
                         /\ \A i \in DOMAIN i_flock : WithinFile(i_flock[i])
<1>1. i_flock \in Seq(Locks) => DOMAIN i_flock = 1 .. Len(i_flock)
  OBVIOUS
<1> QED
  BY <1>1 DEF ListInv, Tidy, SortedAndMerged, Before

LEMMA LoopFits ==
    ASSUME Tidy(i_flock), NEW p \in Procs, fl \in [Procs -> Ranges], WithinFile(fl[p])
    PROVE  Looped(p) \in Good(p) /\ Fits(Looped(p), fl[p], Between(FirstOwn(p), EndOwn(p)))
<1>0. PICK n \in Nat, r \in Ranges : n = Len(i_flock) /\ r = fl[p] /\ i_flock \in Seq(Locks)
  BY DEF Tidy
<1>1. PICK f \in Nat, e \in Int :
          /\ f = FirstOwn(p) /\ e = EndOwn(p) /\ f >= 1 /\ e >= f - 1 /\ e <= n
          /\ \A j \in f .. e : i_flock[j].owner = p
  BY <1>0, OwnPart
<1>2. PICK u : /\ u[f - 1] = Start(p)
               /\ \A i \in f .. e : u[i] = Process(u[i - 1], i_flock[i])
               /\ Looped(p) = u[e]
  BY <1>0, <1>1, LoopRuns
<1> DEFINE T == {k \in Nat : (f - 1) + k <= e =>
                     u[(f - 1) + k] \in Good(p) /\ Fits(u[(f - 1) + k], r, Between(f, (f - 1) + k))}
<1>3. 0 \in T
  <2>1. (f - 1) + 0 = f - 1 /\ f .. f - 1 = {}
    OBVIOUS
  <2>2. Start(p) \in Good(p) /\ Fits(Start(p), r, {})
    BY <1>0, StartGood, StartFits
  <2>3. Between(f, f - 1) = {}
    BY <2>1 DEF Between
  <2> QED
    BY <1>2, <2>1, <2>2, <2>3
<1>4. ASSUME NEW k \in Nat, k \in T PROVE k + 1 \in T
  <2> SUFFICES ASSUME (f - 1) + (k + 1) <= e
               PROVE  /\ u[(f - 1) + (k + 1)] \in Good(p)
                      /\ Fits(u[(f - 1) + (k + 1)], r, Between(f, (f - 1) + (k + 1)))
    OBVIOUS
  <2>1. PICK i \in f .. e : i = (f - 1) + (k + 1) /\ i - 1 = (f - 1) + k /\ i - 1 <= e /\ i \in 1 .. n
    <3>1. PICK i \in Int : i = (f - 1) + (k + 1)
      OBVIOUS
    <3>2. i \in f .. e /\ i - 1 = (f - 1) + k /\ i - 1 <= e /\ i \in 1 .. n
      BY ONLY f \in Nat, e \in Int, k \in Nat, i \in Int, n \in Nat, <1>1, <3>1, (f - 1) + (k + 1) <= e
    <3> QED
      BY <3>1, <3>2
  <2>2. PICK s \in Good(p) : s = u[i - 1] /\ Fits(s, r, Between(f, i - 1))
    BY <1>4, <2>1
  <2>3. i_flock[i] \in Locks /\ i_flock[i].owner = p
    BY <1>0, <1>1, <2>1
  <2>4. PICK t : t = Process(s, i_flock[i]) /\ t = u[i]
    BY <1>2, <2>2
  <2>5. t \in Good(p)
    BY <2>3, <2>4, ProcessRound DEF Round
  <2>6. \A j \in f .. i - 1 : j \in 1 .. n /\ j < i /\ j \in f .. e
    BY <1>1, <2>1
  <2>7. Follows(Between(f, i - 1), i_flock[i])
    <3>1. \A j \in 1 .. n : WithinFile(i_flock[j]) /\ i_flock[j] \in Locks
      BY <1>0 DEF Tidy
    <3>2. \A j \in f .. i - 1 : Before(i_flock[j], i_flock[i])
      BY <1>0, <1>1, <2>1, <2>3, <2>6 DEF Tidy
    <3> QED
      BY <2>1, <2>6, <3>1, <3>2 DEF Follows, Between
  <2>8. Between(f, i) = Between(f, i - 1) \cup {i_flock[i]}
    <3>1. /\ \A j \in f .. i : j = i \/ j \in f .. i - 1
          /\ \A j \in f .. i - 1 : j \in f .. i
          /\ i \in f .. i
      BY <2>1
    <3> QED
      BY <3>1 DEF Between
  <2>9. PICK Q, x : Q = Between(f, i - 1) /\ x = i_flock[i]
    OBVIOUS
  <2>10. Fits(t, r, Q \cup {x})
    <3>1. Fits(s, r, Q) /\ Follows(Q, x) /\ t = Process(s, x)
      BY <2>2, <2>4, <2>7, <2>9
    <3>2. Fits(Process(s, x), r, Q \cup {x})
      BY <3>1, ProcessFits
    <3> QED
      BY <3>1, <3>2
  <2> QED
    BY <2>1, <2>4, <2>5, <2>8, <2>9, <2>10
<1>5. PICK k \in Nat : k = e - (f - 1) /\ (f - 1) + k = e
  BY <1>1
<1>6. k \in T
  <2> HIDE DEF T
  <2> QED
    BY <1>3, <1>4, Induction
<1>7. u[(f - 1) + k] \in Good(p) /\ Fits(u[(f - 1) + k], r, Between(f, (f - 1) + k))
  BY <1>1, <1>5, <1>6
<1>8. u[e] \in Good(p) /\ Fits(u[e], r, Between(f, e))
  BY <1>5, <1>7
<1> HIDE DEF T
<1> QED
  BY <1>0, <1>1, <1>2, <1>8

-----------------------------------------------------------------------------
(* The locks of the caller after the loop.                                 *)

Line(l) == \A i, j \in 1 .. Len(l) : i < j => Before(l[i], l[j])
InFile(Q) == Q \subseteq Locks /\ \A l \in Q : WithinFile(l)

\* z is what is left of the lock l before and behind c.
IsLeft(z, l, c)  == z.type = l.type /\ z.start = l.start /\ z.end = c.start - 1
IsRight(z, l, c) == z.type = l.type /\ z.start = c.end + 1 /\ z.end = l.end

\* x is what is left of the locks d before c, and y of the locks e behind it.
DoneOf(x, d, c, left) ==
    Len(x) = Len(d) /\ \A i \in 1 .. Len(d) : IF i = left THEN IsLeft(x[i], d[i], c) ELSE x[i] = d[i]
RestOf(y, e, c, cut) ==
    Len(y) = Len(e) /\ \A j \in 1 .. Len(e) : IF j = cut THEN IsRight(y[j], e[j], c) ELSE y[j] = e[j]

LEMMA RangeParts ==
    ASSUME NEW c \in Ranges, WithinFile(c)
    PROVE  /\ c.start \in Int /\ c.end \in Int /\ 0 <= c.start /\ c.start <= c.end /\ c.end <= OFFSET_MAX
           /\ c.type # "UNLCK" => c.end < OFFSET_MAX
           /\ OFFSET_MAX \in Nat
BY PosixAssumption DEF Ranges, WithinFile

\* What is before caller and what is behind it are in order.
LEMMA AcrossCaller ==
    ASSUME NEW c \in Ranges, WithinFile(c), NEW a \in Locks, NEW b \in Locks,
           Before(a, c) \/ Agrees(a, c), Before(c, b) \/ Agrees(b, c), ~(Agrees(a, c) /\ Agrees(b, c))
    PROVE  Before(a, b)
<1>1. /\ a.start \in Int /\ a.end \in Int /\ b.start \in Int /\ b.end \in Int
      /\ c.start \in Int /\ c.end \in Int /\ c.start <= c.end
  BY LockWithin, RangeParts
<1>2. CASE Before(a, c) /\ Before(c, b)
  <2>1. a.end < c.start /\ c.end < b.start
    BY <1>2 DEF Before
  <2>2. a.end + 1 < b.start /\ a.end < b.start
    BY <1>1, <2>1
  <2> QED
    BY <2>2 DEF Before
<1>3. CASE Agrees(a, c)
  BY <1>3 DEF Before, Agrees
<1>4. CASE Agrees(b, c)
  BY <1>4 DEF Before, Agrees
<1> QED
  BY <1>2, <1>3, <1>4

\* The part before caller, with the lock at left cut, and caller if it is one of the locks.
LEMMA DoneLine ==
    ASSUME NEW d \in Seq(Locks), NEW e, NEW c \in Ranges, NEW at \in Nat, NEW left \in Nat, NEW cut, NEW Q,
           Placed(d, e, c, at, left, cut, Q), InFile(Q), WithinFile(c), at # 0 => Agrees(d[at], c),
           NEW x \in Seq(Locks), DoneOf(x, d, c, left)
    PROVE  /\ Line(x)
           /\ \A i \in 1 .. Len(x) : WithinFile(x[i]) /\ (IF i = at THEN Agrees(x[i], c) ELSE Before(x[i], c))
<1> USE DEF DoneOf
<1>1. /\ c.start \in Int /\ c.end \in Int /\ 0 <= c.start /\ c.start <= c.end /\ c.end <= OFFSET_MAX
      /\ OFFSET_MAX \in Nat /\ Len(d) \in Nat /\ (c.type # "UNLCK" => c.end < OFFSET_MAX)
  BY RangeParts
<1>2. \A i \in 1 .. Len(d) : x[i] \in Locks /\ d[i] \in Locks
  OBVIOUS
<1>3. ASSUME NEW i \in 1 .. Len(d), i = at PROVE WithinFile(x[i]) /\ Agrees(x[i], c)
  <2>1. i # left
    BY <1>3 DEF Placed, LeftOf
  <2>2. Agrees(x[i], c) /\ x[i] \in Locks
    BY <1>2, <1>3, <2>1
  <2>3. c.type # "UNLCK"
    BY <2>2, LockWithin DEF Agrees
  <2> QED
    BY <1>1, <2>2, <2>3 DEF WithinFile, Agrees
<1>4. ASSUME NEW i \in 1 .. Len(d), i # at PROVE WithinFile(x[i]) /\ Before(x[i], c)
  <2>1. d[i] \in Q /\ d[i].start \in Int /\ d[i].end \in Int /\ WithinFile(d[i])
    BY <1>2, <1>4, LockWithin DEF Placed, Kinds, InFile
  <2>2. CASE i # left
    BY <1>4, <2>1, <2>2 DEF Placed, LeftOf
  <2>3. CASE i = left
    <3>1. d[i].type # c.type /\ d[i].start < c.start /\ d[i].end <= c.end
      BY <2>3 DEF Placed, LeftOf
    <3>2. x[i].type = d[i].type /\ x[i].start = d[i].start /\ x[i].end = c.start - 1 /\ 0 <= d[i].start
      BY <2>1, <2>3 DEF IsLeft, WithinFile
    <3>3. x[i].end < OFFSET_MAX /\ x[i].start <= x[i].end /\ x[i].end <= OFFSET_MAX
      BY <1>1, <2>1, <3>1, <3>2
    <3>4. WithinFile(x[i])
      BY <3>2, <3>3 DEF WithinFile
    <3>5. x[i].end < c.start /\ x[i].type # c.type
      BY <1>1, <3>1, <3>2
    <3> QED
      BY <3>4, <3>5 DEF Before
  <2> QED
    BY <2>2, <2>3
<1>5. ASSUME NEW i \in 1 .. Len(d), NEW j \in 1 .. Len(d), i < j PROVE Before(x[i], x[j])
  <2>1. i # at
    BY <1>1, <1>5 DEF Placed
  <2>2. CASE j = at
    BY <1>2, <1>3, <1>4, <2>1, <2>2 DEF Before, Agrees
  <2>3. CASE j # at
    <3>1. Before(d[i], d[j]) /\ d[j] \in Q
      BY <1>5, <2>1, <2>3 DEF Placed, Kinds
    <3>2. i # left
      <4> SUFFICES ASSUME i = left PROVE FALSE
        OBVIOUS
      <4>1. c.start <= d[i].end /\ d[i].end < d[j].start
        BY <3>1 DEF Placed, LeftOf, Before
      <4>2. j # left /\ d[j].end < c.start
        <5>1. j # left
          BY <1>5
        <5>2. Before(d[j], c)
          BY <2>3, <5>1 DEF Placed, LeftOf
        <5> QED
          BY <5>1, <5>2 DEF Before
      <4>3. d[j].start <= d[j].end /\ d[j].start \in Int /\ d[j].end \in Int /\ d[i].end \in Int
        BY <1>2, <3>1, LockWithin DEF InFile, WithinFile
      <4> QED
        BY <1>1, <4>1, <4>2, <4>3
    <3>3. x[i] = d[i] /\ x[j].start = d[j].start /\ x[j].type = d[j].type
      BY <3>2 DEF IsLeft
    <3> QED
      BY <3>1, <3>3 DEF Before
  <2> QED
    BY <2>2, <2>3
<1> QED
  BY <1>3, <1>4, <1>5 DEF Line

\* The part behind caller, whose first lock may be cut.
LEMMA RestLine ==
    ASSUME NEW d \in Seq(Locks), NEW e \in Seq(Locks), NEW c \in Ranges, NEW at, NEW left, NEW cut \in {0, 1}, NEW Q,
           Placed(d, e, c, at, left, cut, Q), InFile(Q), WithinFile(c),
           NEW y \in Seq(Locks), RestOf(y, e, c, cut)
    PROVE  /\ Line(y)
           /\ \A j \in 1 .. Len(y) : WithinFile(y[j]) /\ Before(c, y[j])
<1> USE DEF RestOf
<1>1. /\ c.start \in Int /\ c.end \in Int /\ 0 <= c.start /\ c.start <= c.end /\ c.end <= OFFSET_MAX
      /\ OFFSET_MAX \in Nat /\ Len(e) \in Nat
  BY RangeParts
<1>2. \A j \in 1 .. Len(e) : y[j] \in Locks /\ e[j] \in Locks /\ WithinFile(e[j])
  BY DEF Placed, Kinds, InFile
<1>3. ASSUME NEW j \in 1 .. Len(e) PROVE WithinFile(y[j]) /\ Before(c, y[j])
  <2>2. CASE j # cut
    BY <1>2, <2>2 DEF Placed, RightOf
  <2>3. CASE j = cut
    <3>1. e[j].type # c.type /\ c.end < e[j].end /\ e[j].end < OFFSET_MAX /\ e[j].end \in Int /\ e[j].type # "UNLCK"
      <4>1. j = 1
        BY <2>3
      <4> QED
        BY <1>2, <2>3, <4>1, LockWithin DEF Placed, RightOf
    <3>2. y[j].type = e[j].type /\ y[j].start = c.end + 1 /\ y[j].end = e[j].end
      BY <2>3 DEF IsRight
    <3>3. 0 <= y[j].start /\ y[j].start <= y[j].end /\ y[j].end < OFFSET_MAX /\ y[j].end <= OFFSET_MAX /\ c.end < y[j].start
      BY <1>1, <3>1, <3>2
    <3> QED
      BY <3>1, <3>2, <3>3 DEF WithinFile, Before
  <2> QED
    BY <2>2, <2>3
<1>4. ASSUME NEW i \in 1 .. Len(e), NEW j \in 1 .. Len(e), i < j PROVE Before(y[i], y[j])
  <2>1. j # cut /\ y[j] = e[j]
    BY <1>4
  <2>2. Before(e[i], e[j])
    BY <1>4 DEF Placed, Kinds
  <2>3. y[i].type = e[i].type /\ y[i].end = e[i].end
    BY DEF IsRight
  <2> QED
    BY <2>1, <2>2, <2>3 DEF Before
<1> QED
  BY <1>3, <1>4 DEF Line

\* The piece before caller of a lock that goes on behind it.
LEMMA CutLine ==
    ASSUME NEW d \in Seq(Locks), NEW e \in Seq(Locks), NEW c \in Ranges, NEW at \in Nat, NEW left, NEW cut \in {0, 1}, NEW Q,
           Placed(d, e, c, at, left, cut, Q), InFile(Q), WithinFile(c),
           cut = 1, left = Len(d) + 1, NEW z \in Locks, IsLeft(z, e[1], c)
    PROVE  at = 0 /\ WithinFile(z) /\ Before(z, c) /\ \A i \in 1 .. Len(d) : Before(d[i], z)
<1>1. /\ c.start \in Int /\ c.end \in Int /\ 0 <= c.start /\ c.start <= c.end /\ c.end <= OFFSET_MAX
      /\ OFFSET_MAX \in Nat /\ Len(e) \in Nat /\ Len(d) \in Nat
  BY RangeParts
<1>2. 1 \in 1 .. Len(e) /\ at = 0 /\ e[1].start < c.start /\ e[1].type # c.type
  BY <1>1 DEF Placed, LeftOf, RightOf
<1>3. e[1] \in Locks /\ WithinFile(e[1]) /\ e[1].start \in Int /\ 0 <= e[1].start
  BY <1>2, LockWithin DEF Placed, Kinds, InFile
<1>4. z.type = e[1].type /\ z.start = e[1].start /\ z.end = c.start - 1
  BY DEF IsLeft
<1>5. z.start <= z.end /\ z.end < c.start /\ z.end < OFFSET_MAX /\ z.end <= OFFSET_MAX
  BY <1>1, <1>2, <1>3, <1>4
<1>6. WithinFile(z) /\ Before(z, c)
  BY <1>2, <1>3, <1>4, <1>5 DEF WithinFile, Before
<1>7. \A i \in 1 .. Len(d) : Before(d[i], z)
  <2>1. \A i \in 1 .. Len(d) : Before(d[i], e[1])
    BY <1>1, <1>2 DEF Placed, Kinds
  <2> QED
    BY <1>4, <2>1 DEF Before
<1> QED
  BY <1>2, <1>6, <1>7

\* b is held with type t afterwards: the request r is done, and nothing else.
BytesSet(Q, N, r) ==
    \A b \in Int, t \in {"RDLCK", "WRLCK"} :
        Has(N, b, t) <=> IF On(r, b) THEN t = r.type ELSE Has(Q, b, t)

\* x and y are what is left before and behind c, Z is the piece of CutLine, if there is one,
\* and W the new lock.
Pieces(d, e, c, at, left, cut, Q, x, Z, W, y) ==
    /\ d \in Seq(Locks) /\ e \in Seq(Locks) /\ c \in Ranges /\ at \in Nat /\ left \in Nat /\ cut \in {0, 1}
    /\ Placed(d, e, c, at, left, cut, Q) /\ InFile(Q) /\ WithinFile(c) /\ (at # 0 => Agrees(d[at], c))
    /\ x \in Seq(Locks) /\ DoneOf(x, d, c, left) /\ y \in Seq(Locks) /\ RestOf(y, e, c, cut)
    /\ Z \subseteq Locks /\ (\A z \in Z : IsLeft(z, e[1], c)) /\ (Z # {} <=> cut = 1 /\ left = Len(d) + 1)
    /\ W \subseteq Locks /\ (\A w \in W : Agrees(w, c)) /\ (c.type # "UNLCK" /\ at = 0 => W # {})

\* The locks on the bytes outside of caller are what is left of those that the loop kept,
\* those on its bytes are caller.
LEMMA PartBytes ==
    ASSUME NEW d, NEW e, NEW c, NEW at, NEW left, NEW cut, NEW Q, NEW x, NEW Z, NEW W, NEW y,
           Pieces(d, e, c, at, left, cut, Q, x, Z, W, y),
           NEW K, K = Range(d) \cup Range(e), NEW N, N = Range(x) \cup Z \cup W \cup Range(y)
    PROVE  BytesSet(K, N, c)
<1> SUFFICES ASSUME
        NEW b \in Int, NEW t \in {"RDLCK", "WRLCK"}, d \in Seq(Locks), e \in Seq(Locks), c \in Ranges, at \in Nat, left \in Nat, cut \in {0, 1},
        Placed(d, e, c, at, left, cut, Q), InFile(Q), WithinFile(c), at # 0 => Agrees(d[at], c),
        x \in Seq(Locks), DoneOf(x, d, c, left), y \in Seq(Locks), RestOf(y, e, c, cut),
        Z \subseteq Locks, \A z \in Z : IsLeft(z, e[1], c), Z # {} <=> cut = 1 /\ left = Len(d) + 1,
        W \subseteq Locks, \A w \in W : Agrees(w, c), c.type # "UNLCK" /\ at = 0 => W # {}
    PROVE Has(Range(x) \cup Z \cup W \cup Range(y), b, t) <=>
              IF On(c, b) THEN t = c.type ELSE Has(Range(d) \cup Range(e), b, t)
  BY Zenon DEF Pieces, BytesSet
<1>0. DoneOf(x, d, c, left) /\ RestOf(y, e, c, cut)
  OBVIOUS
<1>1. /\ c.start \in Int /\ c.end \in Int /\ c.start <= c.end /\ OFFSET_MAX \in Nat
      /\ Len(d) \in Nat /\ Len(e) \in Nat
      /\ Range(x) = {x[i] : i \in 1 .. Len(d)} /\ Range(d) = {d[i] : i \in 1 .. Len(d)}
      /\ Range(y) = {y[j] : j \in 1 .. Len(e)} /\ Range(e) = {e[j] : j \in 1 .. Len(e)}
  <2>1. Len(x) = Len(d) /\ Len(y) = Len(e)
    BY DEF DoneOf, RestOf
  <2>2. /\ DOMAIN x = 1 .. Len(d) /\ DOMAIN d = 1 .. Len(d) /\ DOMAIN y = 1 .. Len(e) /\ DOMAIN e = 1 .. Len(e)
        /\ Len(d) \in Nat /\ Len(e) \in Nat
    BY <2>1
  <2>3. c.start \in Int /\ c.end \in Int /\ c.start <= c.end /\ OFFSET_MAX \in Nat
    BY RangeParts
  <2> QED
    BY <2>2, <2>3 DEF Range
<1>2. /\ \A i \in 1 .. Len(d) : d[i].start \in Int /\ d[i].end \in Int /\ x[i] \in Locks
      /\ \A j \in 1 .. Len(e) : e[j].start \in Int /\ e[j].end \in Int /\ y[j] \in Locks
  BY LockWithin DEF DoneOf, RestOf
<1>3. \A i \in 1 .. Len(d) : IF i = at THEN Agrees(x[i], c) ELSE Before(x[i], c)
  <2>1. \A i \in 1 .. Len(x) : WithinFile(x[i]) /\ (IF i = at THEN Agrees(x[i], c) ELSE Before(x[i], c))
    BY DoneLine
  <2> QED
    BY <2>1 DEF DoneOf
<1>4. \A j \in 1 .. Len(e) : Before(c, y[j])
  <2>1. \A j \in 1 .. Len(y) : WithinFile(y[j]) /\ Before(c, y[j])
    BY RestLine
  <2> QED
    BY <2>1 DEF RestOf
<1>5. \A z \in Z : Before(z, c)
  <2> SUFFICES ASSUME NEW z \in Z PROVE Before(z, c)
    OBVIOUS
  <2>1. cut = 1 /\ left = Len(d) + 1 /\ IsLeft(z, e[1], c) /\ z \in Locks
    OBVIOUS
  <2> QED
    BY <2>1, CutLine
<1> USE DEF DoneOf, RestOf
<1>6. CASE On(c, b)
  <2>1. ASSUME NEW z \in Locks, Before(z, c) \/ Before(c, z) PROVE ~On(z, b)
    BY <1>1, <1>6, <2>1, LockWithin DEF On, Before
  <2>2. \A z : Agrees(z, c) => On(z, b) /\ z.type = c.type
    BY <1>6 DEF On, Agrees
  <2>3. ASSUME Has(Range(x) \cup Z \cup W \cup Range(y), b, t) PROVE t = c.type
    <3>1. PICK z \in Range(x) \cup Z \cup W \cup Range(y) : On(z, b) /\ z.type = t
      BY <2>3 DEF Has
    <3>2. Agrees(z, c)
      <4>1. CASE z \in Range(x)
        BY <1>1, <1>2, <1>3, <2>1, <3>1, <4>1
      <4>2. CASE z \in Z
        BY <1>5, <2>1, <3>1, <4>2
      <4>3. CASE z \in W
        BY <4>3
      <4>4. CASE z \in Range(y)
        BY <1>1, <1>2, <1>4, <2>1, <3>1, <4>4
      <4> QED
        BY <4>1, <4>2, <4>3, <4>4
    <3> QED
      BY <3>1, <3>2 DEF Agrees
  <2>4. ASSUME t = c.type PROVE Has(Range(x) \cup Z \cup W \cup Range(y), b, t)
    <3>1. c.type # "UNLCK"
      BY <2>4
    <3>2. CASE at = 0
      <4>1. PICK w \in W : Agrees(w, c)
        BY <3>1, <3>2
      <4> QED
        BY <2>2, <2>4, <4>1 DEF Has
    <3>3. CASE at # 0
      <4>1. at \in 1 .. Len(d)
        BY <1>1, <3>3 DEF Placed
      <4>2. x[at] \in Range(x) /\ Agrees(x[at], c)
        BY <1>1, <1>3, <4>1
      <4> QED
        BY <2>2, <2>4, <4>2 DEF Has
    <3> QED
      BY <3>2, <3>3
  <2> QED
    BY <1>6, <2>3, <2>4
<1>7. CASE ~On(c, b)
  <2>1. ASSUME Has(Range(x) \cup Z \cup W \cup Range(y), b, t) PROVE Has(Range(d) \cup Range(e), b, t)
    <3>1. PICK z \in Range(x) \cup Z \cup W \cup Range(y) : On(z, b) /\ z.type = t
      BY <2>1 DEF Has
    <3>2. CASE z \in Range(x)
      <4>1. PICK i \in 1 .. Len(d) : z = x[i]
        BY <1>1, <3>2
      <4>2. CASE i = left
        <5>1. IsLeft(z, d[i], c) /\ d[i].end >= c.start
          BY <4>1, <4>2 DEF Placed, LeftOf
        <5>2. On(d[i], b) /\ d[i].type = t
          BY <1>1, <1>2, <3>1, <5>1 DEF On, IsLeft
        <5> QED
          BY <1>1, <5>2 DEF Has
      <4>3. CASE i # left
        <5>1. z = d[i]
          BY <4>1, <4>3
        <5> QED
          BY <1>1, <3>1, <5>1 DEF Has
      <4> QED
        BY <4>2, <4>3
    <3>3. CASE z \in Z
      <4>1. IsLeft(z, e[1], c) /\ 1 \in 1 .. Len(e) /\ c.end < e[1].end
        BY <1>1, <3>3 DEF Placed, RightOf
      <4>2. On(e[1], b) /\ e[1].type = t
        BY <1>1, <1>2, <3>1, <4>1 DEF On, IsLeft
      <4> QED
        BY <1>1, <4>1, <4>2 DEF Has
    <3>4. CASE z \in W
      BY <1>7, <3>1, <3>4 DEF On, Agrees
    <3>5. CASE z \in Range(y)
      <4>1. PICK j \in 1 .. Len(e) : z = y[j]
        BY <1>1, <3>5
      <4>2. CASE j = cut
        <5>0. j = 1
          BY <4>2
        <5>1. IsRight(z, e[j], c) /\ e[j].start <= c.end
          BY <4>1, <4>2, <5>0 DEF Placed, RightOf
        <5>2. On(e[j], b) /\ e[j].type = t
          BY <1>1, <1>2, <3>1, <5>1 DEF On, IsRight
        <5> QED
          BY <1>1, <5>2 DEF Has
      <4>3. CASE j # cut
        <5>1. z = e[j]
          BY <4>1, <4>3
        <5> QED
          BY <1>1, <3>1, <5>1 DEF Has
      <4> QED
        BY <4>2, <4>3
    <3> QED
      BY <3>2, <3>3, <3>4, <3>5
  <2>2. ASSUME Has(Range(d) \cup Range(e), b, t) PROVE Has(Range(x) \cup Z \cup W \cup Range(y), b, t)
    <3>1. PICK l \in Range(d) \cup Range(e) : On(l, b) /\ l.type = t
      BY <2>2 DEF Has
    <3>2. CASE l \in Range(d)
      <4>1. PICK i \in 1 .. Len(d) : l = d[i]
        BY <1>1, <3>2
      <4>2. CASE i = left
        <5>1. IsLeft(x[i], l, c) /\ l.end <= c.end
          BY <4>1, <4>2 DEF Placed, LeftOf
        <5>2. On(x[i], b) /\ x[i].type = t
          BY <1>1, <1>2, <1>7, <3>1, <4>1, <5>1 DEF On, IsLeft
        <5> QED
          BY <1>1, <5>2 DEF Has
      <4>3. CASE i # left
        <5>1. l = x[i]
          BY <4>1, <4>3
        <5> QED
          BY <1>1, <3>1, <5>1 DEF Has
      <4> QED
        BY <4>2, <4>3
    <3>3. CASE l \in Range(e)
      <4>1. PICK j \in 1 .. Len(e) : l = e[j]
        BY <1>1, <3>3
      <4>2. CASE j = cut /\ b > c.end
        <5>1. IsRight(y[j], l, c)
          BY <4>1, <4>2
        <5>2. On(y[j], b) /\ y[j].type = t
          BY <1>1, <1>2, <3>1, <4>1, <4>2, <5>1 DEF On, IsRight
        <5> QED
          BY <1>1, <5>2 DEF Has
      <4>3. CASE j = cut /\ ~(b > c.end)
        <5>0. j = 1 /\ cut = 1
          BY <4>3
        <5>1. b < c.start /\ l.start <= b
          BY <1>1, <1>7, <3>1, <4>3 DEF On
        <5>2. left = Len(d) + 1
          <6>1. left # Len(d) + 1 => c.start <= l.start
            BY <4>1, <5>0 DEF Placed, RightOf
          <6> QED
            BY <1>1, <1>2, <4>1, <5>1, <6>1
        <5>3. PICK z \in Z : IsLeft(z, e[1], c)
          BY <5>0, <5>2
        <5>4. On(z, b) /\ z.type = t
          BY <1>1, <3>1, <4>1, <5>0, <5>1, <5>3 DEF On, IsLeft
        <5> QED
          BY <5>4 DEF Has
      <4>4. CASE j # cut
        <5>1. l = y[j]
          BY <4>1, <4>4
        <5> QED
          BY <1>1, <3>1, <5>1 DEF Has
      <4> QED
        BY <4>2, <4>3, <4>4
    <3> QED
      BY <3>2, <3>3
  <2> QED
    BY <1>7, <2>1, <2>2
<1> QED
  BY <1>6, <1>7

\* Two lines one of which is before the other are a line.
LEMMA JoinedLine ==
    ASSUME NEW S, NEW a \in Seq(S), NEW b \in Seq(S), Line(a), Line(b),
           \A x \in Range(a), y \in Range(b) : Before(x, y)
    PROVE  Line(a \o b)
<1>1. PICK c, m, n : c = a \o b /\ m = Len(a) /\ n = Len(b)
  OBVIOUS
<1>2. /\ m \in Nat /\ n \in Nat /\ Len(c) = m + n
      /\ \A i \in 1 .. m : c[i] = a[i] /\ a[i] \in Range(a)
      /\ \A i \in 1 .. n : c[m + i] = b[i] /\ b[i] \in Range(b)
  <2>1. /\ Len(c) = m + n /\ \A i \in 1 .. m : c[i] = a[i]
        /\ \A i \in 1 .. n : c[m + i] = b[i]
    BY <1>1, JoinedElements
  <2>2. m \in Nat /\ n \in Nat /\ DOMAIN a = 1 .. m /\ DOMAIN b = 1 .. n
    BY <1>1
  <2> QED
    BY <2>1, <2>2 DEF Range
<1>3. ASSUME NEW i \in 1 .. m + n, ~(i <= m) PROVE \E k \in 1 .. n : i = m + k
  <2>1. i - m \in 1 .. n /\ i = m + (i - m)
    BY <1>2, <1>3
  <2> QED
    BY <2>1
<1>4. ASSUME NEW i \in 1 .. m + n, NEW j \in 1 .. m + n, i < j PROVE Before(c[i], c[j])
  <2>1. CASE j <= m
    <3>1. i \in 1 .. m /\ j \in 1 .. m
      BY <1>2, <1>4, <2>1
    <3> QED
      BY <1>1, <1>2, <1>4, <3>1 DEF Line
  <2>2. CASE i <= m /\ ~(j <= m)
    <3>1. PICK k \in 1 .. n : j = m + k
      BY <1>3, <2>2
    <3>2. i \in 1 .. m
      BY <1>2, <2>2
    <3> QED
      BY <1>2, <3>1, <3>2
  <2>3. CASE ~(i <= m) /\ ~(j <= m)
    <3>1. PICK k \in 1 .. n : j = m + k
      BY <1>3, <2>3
    <3>2. PICK h \in 1 .. n : i = m + h
      BY <1>3, <2>3
    <3>3. h < k
      BY <1>2, <1>4, <3>1, <3>2
    <3>4. Before(b[h], b[k])
      BY <1>1, <3>3 DEF Line
    <3> QED
      BY <1>2, <3>1, <3>2, <3>4
  <2> QED
    BY <1>2, <1>4, <2>1, <2>2, <2>3
<1> QED
  BY <1>1, <1>2, <1>4 DEF Line

OwnAfter(p, s) == DonePart(s) \o CutPart(s) \o NewPart(p, s) \o RestPart(s)

LEMMA LeftPieceParts ==
    ASSUME NEW l \in Locks, NEW c \in Ranges
    PROVE  LET z == LeftPiece(l, c) IN z \in Locks /\ z.owner = l.owner /\ IsLeft(z, l, c)
<1>1. PICK a \in Int : a = c.start - 1
  BY DEF Ranges
<1>2. LeftPiece(l, c) = [l EXCEPT !.end = a, !.block = {}]
  BY <1>1 DEF LeftPiece
<1>3. PICK z : z = [l EXCEPT !.end = a, !.block = {}]
  OBVIOUS
<1>4. z \in Locks /\ z.owner = l.owner /\ z.type = l.type /\ z.start = l.start /\ z.end = a
  BY <1>3 DEF Locks
<1> QED
  BY <1>1, <1>2, <1>3, <1>4 DEF IsLeft

LEMMA RightPieceParts ==
    ASSUME NEW l \in Locks, NEW c \in Ranges, WithinFile(l), c.end < l.end
    PROVE  LET z == RightPiece(l, c) IN z \in Locks /\ z.owner = l.owner /\ IsRight(z, l, c)
<1>0. c.end \in Int /\ l.end \in Int /\ l.end < OFFSET_MAX /\ OFFSET_MAX \in Nat
  BY LockWithin, PosixAssumption DEF Ranges
<1>1. PICK a \in Int : a = c.end + 1 /\ a = Succ(c.end)
  <2>1. c.end # OFFSET_MAX
    BY <1>0
  <2> QED
    BY <1>0, <2>1 DEF Succ
<1>2. RightPiece(l, c) = [l EXCEPT !.start = a, !.block = {}]
  BY <1>1 DEF RightPiece
<1>3. PICK z : z = [l EXCEPT !.start = a, !.block = {}]
  OBVIOUS
<1>4. z \in Locks /\ z.owner = l.owner /\ z.type = l.type /\ z.end = l.end /\ z.start = a
  BY <1>3 DEF Locks
<1> QED
  BY <1>1, <1>2, <1>3, <1>4 DEF IsRight

\* The four parts of OwnAfter, as the lemmas above take them.
LEMMA PartsAre ==
    ASSUME NEW p \in Procs, NEW s \in Good(p), NEW r \in Ranges, NEW Q, Fits(s, r, Q), InFile(Q)
    PROVE  /\ DonePart(s) \in Seq(Locks) /\ DoneOf(DonePart(s), s.done, s.caller, s.left)
           /\ RestPart(s) \in Seq(Locks) /\ RestOf(RestPart(s), s.rest, s.caller, CutOf(s))
           /\ IF CutOf(s) = 1 /\ s.left = Len(s.done) + 1
              THEN \E z \in Locks : CutPart(s) = <<z>> /\ z.owner = p /\ IsLeft(z, s.rest[1], s.caller)
              ELSE CutPart(s) = <<>>
           /\ IF s.at = 0 /\ s.caller.type # "UNLCK"
              THEN \E z \in Locks : NewPart(p, s) = <<z>> /\ z.owner = p /\ Agrees(z, s.caller)
              ELSE NewPart(p, s) = <<>>
           /\ \A l \in Range(DonePart(s)) \cup Range(RestPart(s)) : l.owner = p
<1>1. /\ s \in LoopStates /\ s.done \in Seq(Locks) /\ s.rest \in Seq(Locks) /\ s.caller \in Ranges
      /\ s.at \in Nat /\ s.left \in Nat /\ CutOf(s) \in {0, 1} /\ Kept(s) \subseteq Locks
      /\ Grown(r, s.caller) /\ WithinFile(s.caller)
      /\ Placed(s.done, s.rest, s.caller, s.at, s.left, CutOf(s), Q)
  BY FitsParts
<1>2. PICK d, e \in Seq(Locks), c \in Ranges : d = s.done /\ e = s.rest /\ c = s.caller
  BY <1>1
<1>3. /\ DOMAIN d = 1 .. Len(d) /\ Len(d) \in Nat /\ DOMAIN e = 1 .. Len(e) /\ Len(e) \in Nat
      /\ \A i \in 1 .. Len(d) : d[i] \in Locks /\ d[i].owner = p
      /\ \A i \in 1 .. Len(e) : e[i] \in Locks /\ e[i].owner = p
  <2>1. /\ DOMAIN d = 1 .. Len(d) /\ Len(d) \in Nat /\ DOMAIN e = 1 .. Len(e) /\ Len(e) \in Nat
        /\ \A i \in 1 .. Len(d) : d[i] \in Locks
        /\ \A i \in 1 .. Len(e) : e[i] \in Locks
    OBVIOUS
  <2>2. \A i \in 1 .. Len(d) : d[i] \in Kept(s)
    BY <1>2, <2>1 DEF Kept, Range
  <2>3. \A i \in 1 .. Len(e) : e[i] \in Kept(s)
    BY <1>2, <2>1 DEF Kept, Range
  <2> QED
    BY <2>1, <2>2, <2>3 DEF Good
<1>4. CutOf(s) = 1 <=> s.right
  <2>1. CASE s.right
    <3>1. CutOf(s) = 1
      BY <2>1, Zenon DEF CutOf
    <3> QED
      BY <2>1, <3>1
  <2>2. CASE ~s.right
    <3>1. CutOf(s) = 0
      BY <2>2, Zenon DEF CutOf
    <3>2. ~(CutOf(s) = 1)
      BY <3>1
    <3> QED
      BY <2>2, <3>2, Zenon
  <2> QED
    BY <2>1, <2>2, Zenon
<1>5. PICK x : x = DonePart(s)
  OBVIOUS
<1>6. x \in Seq(Locks) /\ DoneOf(x, d, c, s.left) /\ \A l \in Range(x) : l.owner = p
  <2>1. x = [i \in 1 .. Len(d) |-> IF i = s.left THEN LeftPiece(d[i], c) ELSE d[i]]
    BY <1>2, <1>3, <1>5 DEF DonePart
  <2>2. \A i \in 1 .. Len(d) : LeftPiece(d[i], c) \in Locks /\ LeftPiece(d[i], c).owner = p /\ IsLeft(LeftPiece(d[i], c), d[i], c)
    BY <1>3, LeftPieceParts
  <2>3. x \in [1 .. Len(d) -> Locks]
    BY <1>3, <2>1, <2>2
  <2>4. x \in Seq(Locks) /\ Len(x) = Len(d) /\ DOMAIN x = 1 .. Len(d)
    BY <1>3, <2>3
  <2>5. \A i \in 1 .. Len(d) : x[i].owner = p /\ IF i = s.left THEN IsLeft(x[i], d[i], c) ELSE x[i] = d[i]
    BY <1>3, <2>1, <2>2
  <2> QED
    BY <2>4, <2>5 DEF DoneOf, Range
<1>7. PICK y : y = RestPart(s)
  OBVIOUS
<1>8. y \in Seq(Locks) /\ RestOf(y, e, c, CutOf(s)) /\ \A l \in Range(y) : l.owner = p
  <2>1. y = [i \in 1 .. Len(e) |-> IF i = 1 /\ s.right THEN RightPiece(e[i], c) ELSE e[i]]
    BY <1>2, <1>3, <1>7 DEF RestPart
  <2>2. \A i \in 1 .. Len(e) : i = 1 /\ s.right <=> i = CutOf(s)
    BY <1>1, <1>4
  <2>3. \A i \in 1 .. Len(e) : y[i] = IF i = CutOf(s) THEN RightPiece(e[i], c) ELSE e[i]
    BY <2>1, <2>2
  <2>4. ASSUME NEW i \in 1 .. Len(e), i = CutOf(s)
        PROVE  RightPiece(e[i], c) \in Locks /\ RightPiece(e[i], c).owner = p /\ IsRight(RightPiece(e[i], c), e[i], c)
    <3>1. i = 1 /\ CutOf(s) = 1
      BY <1>1, <2>4
    <3>2. c.end < e[i].end /\ e[i] \in Q
      BY <1>1, <1>2, <3>1 DEF Placed, RightOf, Kinds
    <3>3. WithinFile(e[i])
      BY <3>2 DEF InFile
    <3> QED
      BY <1>3, <3>2, <3>3, RightPieceParts
  <2>5. \A i \in 1 .. Len(e) : y[i] \in Locks /\ y[i].owner = p
                                 /\ IF i = CutOf(s) THEN IsRight(y[i], e[i], c) ELSE y[i] = e[i]
    BY <1>3, <2>3, <2>4
  <2>6. y \in [1 .. Len(e) -> Locks]
    BY <1>3, <2>1, <2>5
  <2>7. y \in Seq(Locks) /\ Len(y) = Len(e) /\ DOMAIN y = 1 .. Len(e)
    BY <1>3, <2>6
  <2> QED
    BY <2>5, <2>7 DEF RestOf, Range
<1>9. IF CutOf(s) = 1 /\ s.left = Len(s.done) + 1
      THEN \E z \in Locks : CutPart(s) = <<z>> /\ z.owner = p /\ IsLeft(z, e[1], c)
      ELSE CutPart(s) = <<>>
  <2>1. CASE CutOf(s) = 1 /\ s.left = Len(s.done) + 1
    <3>1. 1 \in 1 .. Len(e)
      BY <1>1, <1>2, <1>3, <2>1 DEF Placed, RightOf
    <3>2. PICK z \in Locks : z = LeftPiece(e[1], c) /\ z.owner = p /\ IsLeft(z, e[1], c)
      BY <1>3, <3>1, LeftPieceParts
    <3>3. CutPart(s) = <<z>>
      BY <1>2, <1>4, <2>1, <3>2 DEF CutPart
    <3> QED
      BY <2>1, <3>2, <3>3
  <2>2. CASE ~(CutOf(s) = 1 /\ s.left = Len(s.done) + 1)
    BY <1>4, <2>2 DEF CutPart
  <2> QED
    BY <2>1, <2>2
<1>10. IF s.at = 0 /\ s.caller.type # "UNLCK"
       THEN \E z \in Locks : NewPart(p, s) = <<z>> /\ z.owner = p /\ Agrees(z, c)
       ELSE NewPart(p, s) = <<>>
  <2>0. r.type = c.type /\ (c.type # "UNLCK" => (s.added <=> s.at # 0))
    BY <1>1, <1>2 DEF Fits, Grown
  <2>1. CASE s.at = 0 /\ s.caller.type # "UNLCK"
    <3>1. PICK z : z = [owner |-> p, type |-> c.type, start |-> c.start, end |-> c.end, block |-> {}]
      OBVIOUS
    <3>2. z \in Locks /\ z.owner = p /\ Agrees(z, c)
      BY <1>2, <2>1, <3>1 DEF Locks, Ranges, Types, Agrees
    <3>3. ~(s.added \/ s.caller.type = "UNLCK")
      BY <1>2, <2>0, <2>1
    <3>4. NewPart(p, s) = <<z>>
      BY <1>2, <3>1, <3>3 DEF NewPart
    <3> QED
      BY <2>1, <3>2, <3>4
  <2>2. CASE ~(s.at = 0 /\ s.caller.type # "UNLCK")
    <3>1. s.added \/ s.caller.type = "UNLCK"
      BY <1>2, <2>0, <2>2
    <3> QED
      BY <2>2, <3>1 DEF NewPart
  <2> QED
    BY <2>1, <2>2
<1> QED
  BY <1>2, <1>5, <1>6, <1>7, <1>8, <1>9, <1>10

\* Three lists joined.
LEMMA JoinAssoc ==
    ASSUME NEW S, NEW a \in Seq(S), NEW b \in Seq(S), NEW c \in Seq(S),
           NEW u, u = a \o b, NEW v, v = b \o c, NEW x, x = u \o c
    PROVE  x = a \o v
<1>1. PICK y : y = a \o v
  OBVIOUS
<1>2. x = u \o c /\ u = a \o b /\ v = b \o c
  OBVIOUS
<1>3. PICK l, m, n : l = Len(a) /\ m = Len(b) /\ n = Len(c)
  OBVIOUS
<1>4. l \in Nat /\ m \in Nat /\ n \in Nat
  BY <1>3
<1>5. /\ u \in Seq(S) /\ Len(u) = l + m
      /\ \A i \in 1 .. l : u[i] = a[i]
      /\ \A i \in 1 .. m : u[l + i] = b[i]
  BY <1>2, <1>3, JoinedElements
<1>6. /\ v \in Seq(S) /\ Len(v) = m + n
      /\ \A i \in 1 .. m : v[i] = b[i]
      /\ \A i \in 1 .. n : v[m + i] = c[i]
  BY <1>2, <1>3, JoinedElements
<1>7. /\ x \in Seq(S) /\ Len(x) = (l + m) + n
      /\ \A i \in 1 .. l + m : x[i] = u[i]
      /\ \A i \in 1 .. n : x[(l + m) + i] = c[i]
  BY <1>1, <1>2, <1>3, <1>5, JoinedElements
<1>8. /\ y \in Seq(S) /\ Len(y) = l + (m + n)
      /\ \A i \in 1 .. l : y[i] = a[i]
      /\ \A i \in 1 .. m + n : y[l + i] = v[i]
  BY <1>1, <1>2, <1>3, <1>6, JoinedElements
<1>9. ASSUME NEW i \in 1 .. Len(x) PROVE x[i] = y[i]
  <2>0. i \in 1 .. (l + m) + n
    BY <1>7
  <2>1. CASE i <= l
    <3>1. i \in 1 .. l /\ i \in 1 .. l + m
      BY ONLY <2>0, <2>1, <1>4
    <3> QED
      BY <1>5, <1>7, <1>8, <3>1
  <2>2. CASE ~(i <= l) /\ i <= l + m
    <3>1. PICK k \in 1 .. m : i = l + k
      <4>1. i - l \in 1 .. m /\ i = l + (i - l)
        BY ONLY <2>0, <2>2, <1>4
      <4> QED
        BY <4>1
    <3>2. i \in 1 .. l + m /\ k \in 1 .. m + n
      BY ONLY <2>0, <2>2, <1>4, <3>1
    <3>3. x[i] = u[l + k] /\ u[l + k] = b[k] /\ y[l + k] = v[k] /\ v[k] = b[k]
      BY <1>5, <1>6, <1>7, <1>8, <3>1, <3>2
    <3> QED
      BY <3>1, <3>3
  <2>3. CASE ~(i <= l + m)
    <3>1. PICK k \in 1 .. n : i = (l + m) + k /\ i = l + (m + k) /\ m + k \in 1 .. m + n
      <4>1. i - (l + m) \in 1 .. n /\ i = (l + m) + (i - (l + m)) /\ i = l + (m + (i - (l + m)))
        BY ONLY <2>0, <2>3, <1>4
      <4>2. m + (i - (l + m)) \in 1 .. m + n
        BY ONLY <4>1, <1>4
      <4> QED
        BY <4>1, <4>2
    <3>2. x[(l + m) + k] = c[k]
      BY <1>7
    <3>3. y[l + (m + k)] = v[m + k] /\ v[m + k] = c[k]
      BY <1>6, <1>8, <3>1
    <3> QED
      BY <3>1, <3>2, <3>3
  <2> QED
    BY <1>4, <2>0, <2>1, <2>2, <2>3
<1>10. Len(x) = Len(y)
  BY <1>4, <1>7, <1>8
<1>11. x = y
  BY <1>7, <1>8, <1>9, <1>10, ListsEqual
<1> QED
  BY <1>1, <1>11

LEMMA ListRange ==
    ASSUME NEW S, NEW a \in Seq(S)
    PROVE  /\ Range(a) = {a[i] : i \in 1 .. Len(a)} /\ Range(a) \subseteq S /\ Len(a) \in Nat
<1>1. DOMAIN a = 1 .. Len(a) /\ Len(a) \in Nat /\ \A i \in 1 .. Len(a) : a[i] \in S
  OBVIOUS
<1> QED
  BY <1>1 DEF Range

\* No element or one.
LEMMA AtMostOne ==
    ASSUME NEW S
    PROVE  /\ <<>> \in Seq(S) /\ Line(<<>>) /\ Range(<<>>) = {}
           /\ \A z \in S : <<z>> \in Seq(S) /\ Line(<<z>>) /\ Range(<<z>>) = {z}
<1>1. <<>> \in Seq(S) /\ Line(<<>>) /\ Range(<<>>) = {}
  BY DEF Line, Range
<1>2. ASSUME NEW z \in S PROVE <<z>> \in Seq(S) /\ Line(<<z>>) /\ Range(<<z>>) = {z}
  <2>1. <<z>> \in Seq(S) /\ Len(<<z>>) = 1 /\ <<z>>[1] = z
    OBVIOUS
  <2>2. \A i, j \in 1 .. 1 : ~(i < j)
    OBVIOUS
  <2>3. Range(<<z>>) = {<<z>>[i] : i \in 1 .. 1}
    BY <2>1, ListRange
  <2>4. Range(<<z>>) = {z}
    BY <2>1, <2>3
  <2> QED
    BY <2>1, <2>2, <2>4 DEF Line
<1> QED
  BY <1>1, <1>2

\* What is before caller, what it is, and what is behind it.
InFront(A, c, at) ==
    /\ A \subseteq Locks
    /\ \A a \in A : WithinFile(a) /\ (Before(a, c) \/ Agrees(a, c)) /\ (at = 0 => Before(a, c))
Behind(B, c) == B \subseteq Locks /\ \A b \in B : WithinFile(b) /\ Before(c, b)
Is(C, c) == C \subseteq Locks /\ \A b \in C : Agrees(b, c)

LEMMA InOrder ==
    ASSUME NEW c \in Ranges, WithinFile(c), NEW at, NEW A, NEW B, NEW C,
           InFront(A, c, at), Behind(B, c), Is(C, c), at = 0 \/ C = {}
    PROVE  /\ \A a \in A, b \in B : Before(a, b)
           /\ \A a \in A, b \in C : Before(a, b)
           /\ \A a \in C, b \in B : Before(a, b)
           /\ \A a \in C : WithinFile(a)
<1>1. ASSUME NEW b \in B PROVE ~Agrees(b, c)
  <2>1. c.start \in Int /\ c.end \in Int /\ c.start <= c.end
    BY RangeParts
  <2>2. b.start \in Int /\ c.end < b.start
    BY LockWithin DEF Behind, Before
  <2> QED
    BY <2>1, <2>2 DEF Agrees
<1>2. ASSUME NEW a \in A, NEW b \in B PROVE Before(a, b)
  <2>1. a \in Locks /\ b \in Locks /\ (Before(a, c) \/ Agrees(a, c)) /\ Before(c, b)
    BY DEF InFront, Behind
  <2> QED
    BY <1>1, <2>1, AcrossCaller
<1>3. ASSUME NEW a \in A, NEW b \in C PROVE Before(a, b)
  <2>1. a \in Locks /\ Before(a, c) /\ Agrees(b, c)
    BY DEF InFront, Is
  <2> QED
    BY <2>1 DEF Agrees, Before
<1>4. ASSUME NEW a \in C, NEW b \in B PROVE Before(a, b)
  <2>1. Before(c, b) /\ Agrees(a, c)
    BY DEF Behind, Is
  <2> QED
    BY <2>1 DEF Agrees, Before
<1>5. ASSUME NEW a \in C PROVE WithinFile(a)
  BY DEF Is, Agrees, WithinFile
<1> QED
  BY <1>2, <1>3, <1>4, <1>5

\* The locks of the caller after the call.
Own(p, o) ==
    o \in Seq(Locks) /\ Line(o) /\ \A l \in Range(o) : l.owner = p /\ WithinFile(l)

LEMMA OwnLine ==
    ASSUME NEW p \in Procs, NEW s \in Good(p), NEW r \in Ranges, NEW Q, Fits(s, r, Q), InFile(Q)
    PROVE  Own(p, OwnAfter(p, s)) /\ BytesSet(Q, Range(OwnAfter(p, s)), r)
<1>1. /\ s \in LoopStates /\ s.done \in Seq(Locks) /\ s.rest \in Seq(Locks) /\ s.caller \in Ranges
      /\ s.at \in Nat /\ s.left \in Nat /\ CutOf(s) \in {0, 1} /\ Kept(s) \subseteq Locks
      /\ Grown(r, s.caller) /\ WithinFile(s.caller)
      /\ Placed(s.done, s.rest, s.caller, s.at, s.left, CutOf(s), Q)
  BY FitsParts
<1>2. PICK d, e \in Seq(Locks), c \in Ranges : d = s.done /\ e = s.rest /\ c = s.caller
  BY <1>1
<1>3. PICK at, left \in Nat, cut \in {0, 1} : at = s.at /\ left = s.left /\ cut = CutOf(s)
  BY <1>1
<1>4. Placed(d, e, c, at, left, cut, Q) /\ Grown(r, c) /\ WithinFile(c) /\ (at # 0 => Agrees(d[at], c))
  <2>1. at # 0 => Agrees(d[at], c)
    BY <1>2, <1>3 DEF Good
  <2> QED
    BY <1>1, <1>2, <1>3, <2>1
<1>5. PICK x, z, w, y : x = DonePart(s) /\ z = CutPart(s) /\ w = NewPart(p, s) /\ y = RestPart(s)
  OBVIOUS
<1>6. /\ x \in Seq(Locks) /\ DoneOf(x, d, c, left)
      /\ y \in Seq(Locks) /\ RestOf(y, e, c, cut)
      /\ IF cut = 1 /\ left = Len(d) + 1
         THEN \E v \in Locks : z = <<v>> /\ v.owner = p /\ IsLeft(v, e[1], c)
         ELSE z = <<>>
      /\ IF at = 0 /\ c.type # "UNLCK"
         THEN \E v \in Locks : w = <<v>> /\ v.owner = p /\ Agrees(v, c)
         ELSE w = <<>>
      /\ \A l \in Range(x) \cup Range(y) : l.owner = p
  BY <1>2, <1>3, <1>5, PartsAre
<1>7. Line(x) /\ InFront(Range(x), c, at)
  <2>1. /\ Line(x)
        /\ \A i \in 1 .. Len(x) : WithinFile(x[i]) /\ (IF i = at THEN Agrees(x[i], c) ELSE Before(x[i], c))
    BY <1>4, <1>6, DoneLine
  <2>2. Range(x) = {x[i] : i \in 1 .. Len(x)} /\ Range(x) \subseteq Locks
    BY <1>6, ListRange
  <2>3. \A i \in 1 .. Len(x) : WithinFile(x[i]) /\ (Before(x[i], c) \/ Agrees(x[i], c)) /\ (at = 0 => Before(x[i], c))
    BY <2>1
  <2> QED
    BY <2>1, <2>2, <2>3 DEF InFront
<1>8. Line(y) /\ Behind(Range(y), c)
  <2>1. Line(y) /\ \A i \in 1 .. Len(y) : WithinFile(y[i]) /\ Before(c, y[i])
    BY <1>4, <1>6, RestLine
  <2>2. Range(y) = {y[i] : i \in 1 .. Len(y)} /\ Range(y) \subseteq Locks
    BY <1>6, ListRange
  <2> QED
    BY <2>1, <2>2 DEF Behind
<1>9. /\ z \in Seq(Locks) /\ Line(z) /\ InFront(Range(z), c, at)
      /\ \A a \in Range(x), b \in Range(z) : Before(a, b)
      /\ \A b \in Range(z) : b.owner = p /\ IsLeft(b, e[1], c)
      /\ Range(z) # {} <=> cut = 1 /\ left = Len(d) + 1
  <2>1. CASE cut = 1 /\ left = Len(d) + 1
    <3>1. PICK v \in Locks : z = <<v>> /\ v.owner = p /\ IsLeft(v, e[1], c)
      BY <1>6, <2>1
    <3>2. at = 0 /\ WithinFile(v) /\ Before(v, c) /\ \A i \in 1 .. Len(d) : Before(d[i], v)
      BY <1>4, <2>1, <3>1, CutLine
    <3>3. z \in Seq(Locks) /\ Line(z) /\ Range(z) = {v}
      BY <3>1, AtMostOne
    <3>4. Len(d) \in Nat /\ Len(x) = Len(d) /\ \A i \in 1 .. Len(d) : i # left
      BY <1>6, <2>1 DEF DoneOf
    <3>5. \A i \in 1 .. Len(x) : x[i] = d[i]
      BY <1>6, <3>4 DEF DoneOf
    <3>6. \A i \in 1 .. Len(x) : Before(x[i], v)
      BY <3>2, <3>4, <3>5
    <3>7. \A a \in Range(x) : Before(a, v)
      BY <1>6, <3>6, ListRange
    <3> QED
      BY <2>1, <3>1, <3>2, <3>3, <3>7 DEF InFront
  <2>2. CASE ~(cut = 1 /\ left = Len(d) + 1)
    <3>1. z = <<>>
      BY <1>6, <2>2
    <3>2. z \in Seq(Locks) /\ Line(z) /\ Range(z) = {}
      BY <3>1, AtMostOne
    <3> QED
      BY <2>2, <3>2 DEF InFront
  <2> QED
    BY <2>1, <2>2
<1>10. /\ w \in Seq(Locks) /\ Line(w) /\ Is(Range(w), c) /\ (at = 0 \/ Range(w) = {})
       /\ \A b \in Range(w) : b.owner = p
       /\ c.type # "UNLCK" /\ at = 0 => Range(w) # {}
  <2>1. CASE at = 0 /\ c.type # "UNLCK"
    <3>1. PICK v \in Locks : w = <<v>> /\ v.owner = p /\ Agrees(v, c)
      BY <1>6, <2>1
    <3>2. w \in Seq(Locks) /\ Line(w) /\ Range(w) = {v}
      BY <3>1, AtMostOne
    <3> QED
      BY <2>1, <3>1, <3>2 DEF Is
  <2>2. CASE ~(at = 0 /\ c.type # "UNLCK")
    <3>1. w = <<>>
      BY <1>6, <2>2
    <3>2. w \in Seq(Locks) /\ Line(w) /\ Range(w) = {}
      BY <3>1, AtMostOne
    <3> QED
      BY <2>2, <3>2 DEF Is
  <2> QED
    BY <2>1, <2>2
<1>11. PICK u : u = x \o z
  OBVIOUS
<1>12. u \in Seq(Locks) /\ Range(u) = Range(x) \cup Range(z) /\ Line(u)
  BY <1>6, <1>7, <1>9, <1>11, JoinedRange, JoinedLine
<1>13. InFront(Range(u), c, at)
  BY <1>7, <1>9, <1>12 DEF InFront
<1>14. /\ \A a \in Range(u), b \in Range(y) : Before(a, b)
       /\ \A a \in Range(u), b \in Range(w) : Before(a, b)
       /\ \A a \in Range(w), b \in Range(y) : Before(a, b)
       /\ \A a \in Range(w) : WithinFile(a)
  BY <1>4, <1>8, <1>10, <1>13, InOrder
<1>15. PICK v : v = u \o w
  OBVIOUS
<1>16. v \in Seq(Locks) /\ Range(v) = Range(u) \cup Range(w) /\ Line(v)
  <2>1. w \in Seq(Locks) /\ Line(w) /\ u \in Seq(Locks) /\ Line(u)
    BY <1>10, <1>12
  <2>2. u \o w \in Seq(Locks) /\ Range(u \o w) = Range(u) \cup Range(w)
    BY <2>1, JoinedRange
  <2>3. Line(u \o w)
    BY <1>14, <2>1, JoinedLine
  <2> QED
    BY <1>15, <2>2, <2>3
<1>17. \A a \in Range(v), b \in Range(y) : Before(a, b)
  BY <1>14, <1>16
<1>18. PICK o : o = v \o y
  OBVIOUS
<1>19. o \in Seq(Locks) /\ Range(o) = Range(v) \cup Range(y) /\ Line(o)
  <2>1. v \in Seq(Locks) /\ Line(v) /\ y \in Seq(Locks) /\ Line(y)
    BY <1>6, <1>8, <1>16
  <2>2. v \o y \in Seq(Locks) /\ Range(v \o y) = Range(v) \cup Range(y)
    BY <2>1, JoinedRange
  <2>3. Line(v \o y)
    BY <1>17, <2>1, JoinedLine
  <2> QED
    BY <1>18, <2>2, <2>3
<1>20. Range(o) = Range(x) \cup Range(z) \cup Range(w) \cup Range(y)
  BY <1>12, <1>16, <1>19
<1>21. \A l \in Range(o) : l.owner = p /\ WithinFile(l)
  BY <1>6, <1>7, <1>8, <1>9, <1>10, <1>14, <1>20 DEF InFront, Behind
<1>22. o = OwnAfter(p, s)
  BY <1>5, <1>11, <1>15, <1>18 DEF OwnAfter
<1>23. BytesSet(Range(d) \cup Range(e), Range(o), c)
  <2>1. PICK Z, W \in SUBSET Locks : Z = Range(z) /\ W = Range(w)
    BY <1>9, <1>10 DEF InFront, Is
  <2>2. /\ (\A l \in Z : IsLeft(l, e[1], c)) /\ (Z # {} <=> cut = 1 /\ left = Len(d) + 1)
        /\ (\A l \in W : Agrees(l, c)) /\ (c.type # "UNLCK" /\ at = 0 => W # {})
    BY <1>9, <1>10, <2>1 DEF Is
  <2>3. Pieces(d, e, c, at, left, cut, Q, x, Z, W, y)
    <3>1. d \in Seq(Locks) /\ e \in Seq(Locks) /\ c \in Ranges /\ at \in Nat /\ left \in Nat /\ cut \in {0, 1}
      OBVIOUS
    <3>2. x \in Seq(Locks) /\ DoneOf(x, d, c, left) /\ y \in Seq(Locks) /\ RestOf(y, e, c, cut)
      BY <1>6
    <3>3. InFile(Q) /\ Z \subseteq Locks /\ W \subseteq Locks
      OBVIOUS
    <3> QED
      BY <1>4, <2>2, <3>1, <3>2, <3>3, Zenon DEF Pieces
  <2>4. PICK K, N : K = Range(d) \cup Range(e) /\ N = Range(x) \cup Z \cup W \cup Range(y)
    OBVIOUS
  <2>5. BytesSet(K, N, c)
    BY <2>3, <2>4, PartBytes
  <2> QED
    BY <1>20, <2>1, <2>4, <2>5
<1>24. SameBytes(Q, Range(d) \cup Range(e), r, c)
  BY <1>2 DEF Fits, Kept
<1>25. /\ \A b \in Int : On(r, b) => On(c, b)
       /\ c.type = r.type
  <2>1. r.start \in Int /\ r.end \in Int /\ c.start \in Int /\ c.end \in Int
    BY DEF Ranges
  <2> QED
    BY <1>4, <2>1 DEF Grown, On
<1>26. BytesSet(Q, Range(o), r)
  BY <1>23, <1>24, <1>25 DEF BytesSet, SameBytes
<1> QED
  BY <1>19, <1>21, <1>22, <1>26 DEF Own

-----------------------------------------------------------------------------
(* The list after the loop.                                                *)

LEMMA AfterJoins ==
    ASSUME NEW p, NEW s, NEW A, NEW B, A \in Seq(Locks), B \in Seq(Locks),
           A = SubSeq(i_flock, 1, FirstOwn(p) - 1), B = SubSeq(i_flock, EndOwn(p) + 1, Len(i_flock)),
           DonePart(s) \in Seq(Locks), CutPart(s) \in Seq(Locks), NewPart(p, s) \in Seq(Locks), RestPart(s) \in Seq(Locks),
           NEW M, M = (A \o OwnAfter(p, s)) \o B
    PROVE  M = After(p, s)
<1>1. PICK x, z, w, y \in Seq(Locks) : x = DonePart(s) /\ z = CutPart(s) /\ w = NewPart(p, s) /\ y = RestPart(s)
  OBVIOUS
<1>2. After(p, s) = A \o x \o z \o w \o y \o B
  BY <1>1, AfterParts
<1>3. OwnAfter(p, s) = x \o z \o w \o y
  BY <1>1 DEF OwnAfter
<1>4. PICK u, v, o : u = x \o z /\ v = u \o w /\ o = v \o y
  OBVIOUS
<1>5. u \in Seq(Locks)
  BY <1>4, JoinedElements
<1>6. v \in Seq(Locks)
  BY <1>4, <1>5, JoinedElements
<1>7. PICK a, b, c, d : a = A \o x /\ b = a \o z /\ c = b \o w /\ d = c \o y
  OBVIOUS
<1>8. b = A \o u
  <2>1. A \in Seq(Locks) /\ x \in Seq(Locks) /\ z \in Seq(Locks) /\ a = A \o x /\ b = a \o z /\ u = x \o z
    BY <1>4, <1>7
  <2> QED
    BY ONLY <2>1, JoinAssoc
<1>9. c = A \o v
  <2>1. A \in Seq(Locks) /\ u \in Seq(Locks) /\ w \in Seq(Locks) /\ b = A \o u /\ c = b \o w /\ v = u \o w
    BY <1>4, <1>5, <1>7, <1>8
  <2> QED
    BY ONLY <2>1, JoinAssoc, SMTT(30)
<1>10. d = A \o o
  <2>1. A \in Seq(Locks) /\ v \in Seq(Locks) /\ y \in Seq(Locks) /\ c = A \o v /\ d = c \o y /\ o = v \o y
    BY <1>4, <1>6, <1>7, <1>9
  <2> QED
    BY ONLY <2>1, JoinAssoc, SMTT(30)
<1>11. After(p, s) = d \o B /\ OwnAfter(p, s) = o
  BY <1>2, <1>3, <1>4, <1>7
<1> QED
  BY <1>10, <1>11

LEMMA PartElements ==
    ASSUME NEW S, NEW l \in Seq(S), NEW a \in Nat, NEW b \in Nat, NEW n \in Nat, a >= 1, b <= Len(l), n = b - a + 1
    PROVE  LET c == SubSeq(l, a, b)
           IN  c \in Seq(S) /\ Len(c) = n /\ \A i \in 1 .. n : c[i] = l[(a + i) - 1]
<1>1. CASE a <= b
  BY <1>1
<1>2. CASE ~(a <= b)
  <2>1. n = 0 /\ SubSeq(l, a, b) = <<>>
    BY <1>2
  <2> QED
    BY <2>1
<1> QED
  BY <1>1, <1>2

\* All locks of p, and no others, are where the loop looks.
LEMMA OwnTogether ==
    ASSUME Tidy(i_flock), NEW p, NEW n \in Nat, n = Len(i_flock)
    PROVE  /\ \A i \in 1 .. n : i_flock[i].owner = p <=> i \in FirstOwn(p) .. EndOwn(p)
           /\ FirstOwn(p) <= EndOwn(p) \/ (FirstOwn(p) = n + 1 /\ EndOwn(p) = n)
<1>0. i_flock \in Seq(Locks) /\ DOMAIN i_flock = 1 .. n
  BY DEF Tidy
<1>1. PICK f \in Nat, e \in Int :
          /\ f = FirstOwn(p) /\ e = EndOwn(p) /\ f >= 1 /\ f <= n + 1 /\ e >= f - 1 /\ e <= n
          /\ \A j \in f .. e : i_flock[j].owner = p
  BY <1>0, OwnPart
<1> DEFINE own == {i \in 1 .. n : i_flock[i].owner = p}
<1> DEFINE T == {i \in f - 1 .. n : \A j \in f .. i : i_flock[j].owner = p}
<1>2. CASE own = {}
  <2>1. f = n + 1
    BY <1>0, <1>1, <1>2 DEF FirstOwn
  <2>2. e = n /\ f .. e = {}
    BY <1>1, <2>1
  <2> QED
    BY <1>1, <1>2, <2>1, <2>2
<1>3. CASE own # {}
  <2>1. f = Min(own)
    BY <1>0, <1>1, <1>3 DEF FirstOwn
  <2>2. own \subseteq Nat
    OBVIOUS
  <2>3. f \in own /\ \A i \in own : f <= i
    <3> HIDE DEF own
    <3> QED
      BY <1>3, <2>1, <2>2, MinOf
  <2>4. e = Max(T)
    BY <1>1 DEF EndOwn
  <2>5. T \subseteq 0 .. n /\ f - 1 \in T
    <3>1. f - 1 \in f - 1 .. n /\ \A j \in f .. f - 1 : FALSE
      BY <1>1
    <3> QED
      BY <1>1, <3>1
  <2>6. \A i \in T : e >= i
    <3> HIDE DEF T
    <3> QED
      BY <2>4, <2>5, MaxOf
  <2>7. ASSUME NEW i \in own PROVE i <= e /\ f <= i
    <3>1. f <= i /\ i \in 1 .. n /\ f \in 1 .. n /\ i_flock[f].owner = p /\ i_flock[i].owner = p
      BY <2>3
    <3>2. \A k \in f .. i : i_flock[k].owner = p
      <4>1. CASE f < i
        BY <3>1, <4>1 DEF Tidy
      <4>2. CASE f = i
        BY <3>1, <4>2
      <4> QED
        BY <3>1, <4>1, <4>2
    <3>3. i \in T
      BY <1>1, <3>1, <3>2
    <3> QED
      BY <2>6, <3>1, <3>3
  <2>8. f <= e
    BY <2>3, <2>7
  <2>9. ASSUME NEW i \in 1 .. n PROVE i_flock[i].owner = p <=> i \in f .. e
    <3>1. ASSUME i_flock[i].owner = p PROVE i \in f .. e
      <4>1. i \in own
        BY <3>1
      <4> QED
        BY <1>1, <2>7, <4>1
    <3> QED
      BY <1>1, <3>1
  <2> QED
    BY <1>1, <2>8, <2>9
<1> QED
  BY <1>2, <1>3

\* Where the elements of three lists joined come from.
LEMMA ThreeJoined ==
    ASSUME NEW S, NEW A \in Seq(S), NEW O \in Seq(S), NEW B \in Seq(S), NEW M, M = (A \o O) \o B,
           NEW a, a = Len(A), NEW m, m = Len(O), NEW b, b = Len(B)
    PROVE  /\ M \in Seq(S) /\ Len(M) = (a + m) + b /\ a \in Nat /\ m \in Nat /\ b \in Nat
           /\ \A i \in 1 .. a : M[i] = A[i]
           /\ \A i \in 1 .. m : M[a + i] = O[i]
           /\ \A i \in 1 .. b : M[(a + m) + i] = B[i]
<1>1. PICK u : u = A \o O
  OBVIOUS
<1>2. /\ u \in Seq(S) /\ Len(u) = a + m
      /\ \A i \in 1 .. a : u[i] = A[i]
      /\ \A i \in 1 .. m : u[a + i] = O[i]
  BY <1>1, JoinedElements
<1>3. /\ M \in Seq(S) /\ Len(M) = (a + m) + b
      /\ \A i \in 1 .. a + m : M[i] = u[i]
      /\ \A i \in 1 .. b : M[(a + m) + i] = B[i]
  BY <1>1, <1>2, JoinedElements, SMTT(30)
<1>4. a \in Nat /\ m \in Nat /\ b \in Nat
  OBVIOUS
<1>5. \A i \in 1 .. a : i \in 1 .. a + m
  BY <1>4
<1>6. \A i \in 1 .. m : a + i \in 1 .. a + m
  BY <1>4
<1> QED
  BY <1>2, <1>3, <1>4, <1>5, <1>6

\* The locks of p in the list l, which are l[f] to l[e], are replaced by those of o.
LEMMA TidyJoined ==
    ASSUME NEW p, NEW L, Tidy(L), NEW n \in Nat, n = Len(L), NEW f \in Nat, NEW e \in Nat, f >= 1, e >= f - 1, e <= n,
           \A i \in 1 .. n : L[i].owner = p <=> i \in f .. e, f <= e \/ e = n,
           NEW o, Own(p, o),
           NEW M, M = (SubSeq(L, 1, f - 1) \o o) \o SubSeq(L, e + 1, n)
    PROVE  Tidy(M)
<1>0. PICK A, B : A = SubSeq(L, 1, f - 1) /\ B = SubSeq(L, e + 1, n)
  OBVIOUS
<1>1. PICK a \in Nat, b \in Nat, m \in Nat : a = f - 1 /\ b = n - e /\ m = Len(o)
  <2>1. f - 1 \in Nat /\ n - e \in Nat
    OBVIOUS
  <2>2. Len(o) \in Nat
    BY DEF Own
  <2> QED
    BY <2>1, <2>2
<1>2. /\ L \in Seq(Locks) /\ \A i \in 1 .. n : L[i] \in Locks
      /\ o \in Seq(Locks) /\ \A i \in 1 .. m : o[i] \in Range(o)
  <2>1. L \in Seq(Locks) /\ \A i \in 1 .. n : L[i] \in Locks
    BY DEF Tidy
  <2>2. o \in Seq(Locks)
    BY DEF Own
  <2> QED
    BY <1>0, <1>1, <2>1, <2>2 DEF Range
<1>3. A \in Seq(Locks) /\ Len(A) = a /\ \A i \in 1 .. a : A[i] = L[i]
  <2>1. f - 1 \in Nat /\ f - 1 <= Len(L) /\ a = (f - 1) - 1 + 1
    BY <1>0, <1>1
  <2>2. A \in Seq(Locks) /\ Len(A) = a /\ \A i \in 1 .. a : A[i] = L[(1 + i) - 1]
    BY <1>0, <1>1, <1>2, <2>1, PartElements
  <2> QED
    BY <2>2
<1>4. B \in Seq(Locks) /\ Len(B) = b /\ \A i \in 1 .. b : B[i] = L[e + i]
  <2>1. e + 1 \in Nat /\ n <= Len(L) /\ b = n - (e + 1) + 1 /\ e + 1 >= 1
    BY <1>0, <1>1
  <2>2. B \in Seq(Locks) /\ Len(B) = b /\ \A i \in 1 .. b : B[i] = L[((e + 1) + i) - 1]
    BY <1>0, <1>1, <1>2, <2>1, PartElements
  <2>3. \A i \in 1 .. b : ((e + 1) + i) - 1 = e + i
    OBVIOUS
  <2> QED
    BY <2>2, <2>3
<1>5. /\ M \in Seq(Locks) /\ Len(M) = (a + m) + b
      /\ \A i \in 1 .. a : M[i] = A[i]
      /\ \A i \in 1 .. m : M[a + i] = o[i]
      /\ \A i \in 1 .. b : M[(a + m) + i] = B[i]
  <2>1. /\ A \in Seq(Locks) /\ o \in Seq(Locks) /\ B \in Seq(Locks) /\ M = (A \o o) \o B
        /\ a = Len(A) /\ m = Len(o) /\ b = Len(B)
    BY <1>0, <1>1, <1>2, <1>3, <1>4
  <2> QED
    BY ONLY <2>1, ThreeJoined
<1>6. /\ \A i \in 1 .. a : i \in 1 .. n /\ i < f /\ M[i] = L[i] /\ L[i].owner # p
      /\ \A i \in 1 .. m : M[a + i] = o[i] /\ o[i].owner = p
      /\ \A i \in 1 .. b : e + i \in 1 .. n /\ M[(a + m) + i] = L[e + i] /\ L[e + i].owner # p
  <2>1. \A i \in 1 .. a : i \in 1 .. n /\ i < f /\ i \notin f .. e
    BY <1>0, <1>1
  <2>2. \A i \in 1 .. b : e + i \in 1 .. n /\ e + i \notin f .. e
    BY <1>0, <1>1
  <2>3. \A i \in 1 .. m : o[i].owner = p
    BY <1>2 DEF Own
  <2> QED
    BY <1>3, <1>4, <1>5, <2>1, <2>2, <2>3, ZenonT(30)
\* The places of M, by where their locks come from.
<1> DEFINE InA(i) == i \in 1 .. a
<1> DEFINE InO(i) == \E k \in 1 .. m : i = a + k
<1> DEFINE InB(i) == \E k \in 1 .. b : i = (a + m) + k
<1>7. ASSUME NEW i \in 1 .. (a + m) + b PROVE /\ InA(i) <=> i <= a
                                              /\ InO(i) <=> a < i /\ i <= a + m
                                              /\ InB(i) <=> a + m < i
  <2>1. ASSUME a < i, i <= a + m PROVE InO(i)
    <3>1. i - a \in 1 .. m /\ i = a + (i - a)
      BY <2>1
    <3> QED
      BY <3>1
  <2>2. ASSUME a + m < i PROVE InB(i)
    <3>1. i - (a + m) \in 1 .. b /\ i = (a + m) + (i - (a + m))
      BY <2>2
    <3> QED
      BY <3>1
  <2> QED
    BY <2>1, <2>2
<1>8. ASSUME NEW i \in 1 .. (a + m) + b PROVE InA(i) \/ InO(i) \/ InB(i)
  BY <1>7
<1> HIDE DEF InA, InO, InB
<1>9. ASSUME NEW i \in 1 .. (a + m) + b PROVE WithinFile(M[i])
  <2>1. CASE InA(i)
    BY <1>6, <2>1 DEF InA, Tidy
  <2>2. CASE InO(i)
    BY <1>2, <1>6, <2>2 DEF InO, Own
  <2>3. CASE InB(i)
    <3>1. PICK k \in 1 .. b : i = (a + m) + k
      BY <2>3 DEF InB
    <3>2. M[i] = L[e + k] /\ e + k \in 1 .. n
      BY <1>6, <3>1
    <3> QED
      BY <3>2 DEF Tidy
  <2> QED
    BY <1>8, <2>1, <2>2, <2>3
<1>10. ASSUME NEW i, InO(i) PROVE M[i].owner = p
  <2>1. PICK k \in 1 .. m : i = a + k
    BY <1>10 DEF InO
  <2> QED
    BY <1>6, <2>1
<1>11. ASSUME NEW i, InB(i) PROVE M[i].owner # p
  <2>1. PICK k \in 1 .. b : i = (a + m) + k
    BY <1>11 DEF InB
  <2> QED
    BY <1>6, <2>1
<1>12. ASSUME NEW i \in 1 .. (a + m) + b, NEW j \in 1 .. (a + m) + b, i < j, M[i].owner = M[j].owner
       PROVE  Before(M[i], M[j]) /\ \A k \in i .. j : M[k].owner = M[i].owner
  <2>0. \A k \in i .. j : k \in 1 .. (a + m) + b
    OBVIOUS
  <2>1. CASE InA(j)
    <3>1. i \in 1 .. a /\ j \in 1 .. a /\ \A k \in i .. j : k \in 1 .. a
      BY <1>12, <2>1 DEF InA
    <3>2. L[i].owner = L[j].owner /\ i \in 1 .. n /\ j \in 1 .. n
      BY <1>6, <1>12, <3>1
    <3>3. Before(L[i], L[j]) /\ \A k \in i .. j : L[k].owner = L[i].owner
      BY <1>12, <3>2 DEF Tidy
    <3> QED
      BY <1>6, <3>1, <3>3
  <2>2. CASE InA(i) /\ InO(j)
    <3>1. M[i].owner # p
      BY <1>6, <2>2 DEF InA
    <3> QED
      BY <1>12, <2>2, <3>1, <1>10
  <2>3. CASE InA(i) /\ InB(j)
    <3>1. PICK k \in 1 .. b : j = (a + m) + k
      BY <2>3 DEF InB
    <3>2. i \in 1 .. n /\ e + k \in 1 .. n /\ i < f /\ L[i].owner = L[e + k].owner /\ L[i].owner # p
      BY <1>6, <1>12, <2>3, <3>1 DEF InA
    <3>3. f <= e /\ i < e + k /\ f \in i .. e + k /\ f \in f .. e /\ f \in 1 .. n
      BY <1>0, <1>1, <3>1, <3>2
    <3>4. L[f].owner = L[i].owner
      BY <3>2, <3>3 DEF Tidy
    <3> QED
      BY <3>2, <3>3, <3>4
  <2>4. CASE InO(i) /\ InO(j)
    <3>1. PICK h \in 1 .. m : i = a + h
      BY <2>4 DEF InO
    <3>2. PICK k \in 1 .. m : j = a + k
      BY <2>4 DEF InO
    <3>3. h < k
      BY <1>12, <3>1, <3>2
    <3>4. Before(o[h], o[k])
      BY <1>0, <1>1, <3>3 DEF Own, Line
    <3>5. \A x \in i .. j : a < x /\ x <= a + m
      BY <3>1, <3>2
    <3>6. \A x \in i .. j : InO(x)
      BY <1>7, <2>0, <3>5
    <3>7. \A x \in i .. j : M[x].owner = p
      BY <1>10, <3>6
    <3> QED
      BY <1>6, <3>1, <3>2, <3>4, <3>7
  <2>5. CASE InO(i) /\ InB(j)
    <3>1. M[j].owner # p
      BY <1>11, <2>5
    <3> QED
      BY <1>12, <1>10, <2>5, <3>1
  <2>6. CASE InB(i)
    <3>1. PICK h \in 1 .. b : i = (a + m) + h
      BY <2>6 DEF InB
    <3>2. PICK k \in 1 .. b : j = (a + m) + k
      <4>1. InB(j)
        BY <1>7, <1>12, <2>6
      <4> QED
        BY <4>1 DEF InB
    <3>3. h < k /\ e + h < e + k
      BY <1>12, <3>1, <3>2
    <3>4. L[e + h].owner = L[e + k].owner /\ e + h \in 1 .. n /\ e + k \in 1 .. n
      BY <1>6, <1>12, <3>1, <3>2
    <3>5. Before(L[e + h], L[e + k]) /\ \A x \in e + h .. e + k : L[x].owner = L[e + h].owner
      BY <3>3, <3>4 DEF Tidy
    <3>6. ASSUME NEW x \in i .. j PROVE M[x].owner = M[i].owner
      <4>1. PICK y \in Int : y = x - (a + m)
        OBVIOUS
      <4>2. y \in 1 .. b /\ x = (a + m) + y /\ e + y \in e + h .. e + k
        BY <3>1, <3>2, <4>1
      <4> QED
        BY <1>6, <3>1, <3>5, <4>2
    <3> QED
      BY <1>6, <3>1, <3>2, <3>5, <3>6
  <2> QED
    BY <1>7, <1>8, <1>12, <2>1, <2>2, <2>3, <2>4, <2>5, <2>6
<1> QED
  BY ONLY <1>5, <1>9, <1>12 DEF Tidy

\* The locks of p in the list L, and the type of its lock on b.
Locked(L, p) == {l \in Range(L) : l.owner = p}
HeldIn(L, p, b) ==
    LET on == {i \in DOMAIN L : L[i].owner = p /\ b \in L[i].start .. L[i].end}
    IN IF on = {} THEN "UNLCK" ELSE L[Min(on)].type
HeldOf(S, b) ==
    IF Has(S, b, "RDLCK") THEN "RDLCK" ELSE IF Has(S, b, "WRLCK") THEN "WRLCK" ELSE "UNLCK"

\* The list locks a byte for its owner once.
LEMMA HeldOnce ==
    ASSUME NEW L, Tidy(L), NEW p, NEW b \in Int
    PROVE  HeldIn(L, p, b) = HeldOf(Locked(L, p), b)
<1>1. L \in Seq(Locks) /\ Len(L) \in Nat /\ DOMAIN L = 1 .. Len(L) /\ \A i \in 1 .. Len(L) : L[i] \in Locks
  BY DEF Tidy
<1>2. PICK n \in Nat : n = Len(L)
  BY <1>1
<1> DEFINE on == {i \in 1 .. n : L[i].owner = p /\ On(L[i], b)}
<1>3. HeldIn(L, p, b) = IF on = {} THEN "UNLCK" ELSE L[Min(on)].type
  <2>1. ASSUME NEW i \in 1 .. n PROVE b \in L[i].start .. L[i].end <=> On(L[i], b)
    <3>1. L[i].start \in Int /\ L[i].end \in Int
      BY <1>1, <1>2, LockWithin
    <3> QED
      BY <3>1 DEF On
  <2>2. on = {i \in DOMAIN L : L[i].owner = p /\ b \in L[i].start .. L[i].end}
    BY <1>1, <1>2, <2>1
  <2> HIDE DEF on
  <2> QED
    BY <2>2, Zenon DEF HeldIn
<1>4. \A t : Has(Locked(L, p), b, t) <=> \E i \in on : L[i].type = t
  <2>1. Range(L) = {L[i] : i \in 1 .. n}
    BY <1>1, <1>2 DEF Range
  <2> QED
    BY <2>1 DEF Has, Locked
<1>5. CASE on = {}
  BY <1>3, <1>4, <1>5 DEF HeldOf
<1>6. CASE on # {}
  <2>1. on \subseteq Nat
    OBVIOUS
  <2>2. PICK m : m = Min(on)
    OBVIOUS
  <2>3. m \in on /\ \A i \in on : m <= i
    <3> HIDE DEF on
    <3> QED
      BY <1>6, <2>1, <2>2, MinOf
  <2>4. ASSUME NEW i \in on PROVE i = m
    <3> SUFFICES ASSUME i # m PROVE FALSE
      OBVIOUS
    <3>1. m < i /\ m \in 1 .. n /\ i \in 1 .. n /\ L[m].owner = L[i].owner
      BY <2>3
    <3>2. L[m].end < L[i].start
      BY <1>2, <3>1 DEF Tidy, Before
    <3>3. /\ L[m].start \in Int /\ L[m].end \in Int /\ L[i].start \in Int /\ L[i].end \in Int
      BY <1>1, <1>2, <3>1, LockWithin
    <3>4. L[m].start <= b /\ b <= L[m].end /\ L[i].start <= b /\ b <= L[i].end
      BY <2>3 DEF On
    <3> QED
      BY ONLY b \in Int, <3>2, <3>3, <3>4
  <2>5. HeldIn(L, p, b) = L[m].type /\ L[m].type \in {"RDLCK", "WRLCK"}
    <3>1. m \in 1 .. n
      BY <2>3
    <3> HIDE DEF on
    <3> QED
      BY <1>1, <1>2, <1>3, <1>6, <2>2, <3>1 DEF Locks
  <2>6. \A t : Has(Locked(L, p), b, t) <=> L[m].type = t
    <3> HIDE DEF on
    <3> QED
      BY <1>4, <2>3, <2>4
  <2> HIDE DEF on
  <2> QED
    BY <2>5, <2>6 DEF HeldOf
<1> QED
  BY <1>5, <1>6

\* What a granted call does to the list.
Granted(L, M, p, r) ==
    /\ Tidy(M) /\ BytesSet(Locked(L, p), Locked(M, p), r)
    /\ \A q \in Procs : q # p => Locked(M, q) = Locked(L, q)

LEMMA LoopGrants ==
    ASSUME Tidy(i_flock), NEW p \in Procs, fl \in [Procs -> Ranges], WithinFile(fl[p])
    PROVE  /\ Granted(i_flock, After(p, Looped(p)), p, fl[p])
           /\ LET c == Looped(p).file IN c \in Ranges /\ WithinFile(c) /\ c.type = fl[p].type
<1>0. PICK L : L = i_flock
  OBVIOUS
<1>1. PICK r \in Ranges, n \in Nat : L = i_flock /\ r = fl[p] /\ n = Len(L)
  <2>1. Len(L) \in Nat /\ fl[p] \in Ranges
    BY <1>0 DEF Tidy
  <2> QED
    BY <1>0, <2>1
<1>2. /\ L \in Seq(Locks) /\ DOMAIN L = 1 .. n /\ \A i \in 1 .. n : L[i] \in Locks /\ WithinFile(L[i])
  BY <1>1 DEF Tidy
<1>3. PICK f \in Nat, e \in Nat :
          /\ f = FirstOwn(p) /\ e = EndOwn(p) /\ f >= 1 /\ f <= n + 1 /\ e >= f - 1 /\ e <= n
          /\ \A i \in 1 .. n : L[i].owner = p <=> i \in f .. e
          /\ f <= e \/ e = n
  <2>1. FirstOwn(p) \in 1 .. n + 1 /\ EndOwn(p) \in FirstOwn(p) - 1 .. n
    BY <1>1, <1>2, OwnPart
  <2>2. /\ \A i \in 1 .. n : L[i].owner = p <=> i \in FirstOwn(p) .. EndOwn(p)
        /\ FirstOwn(p) <= EndOwn(p) \/ EndOwn(p) = n
    BY <1>1, OwnTogether
  <2>3. FirstOwn(p) \in Nat /\ EndOwn(p) \in Nat
    BY <2>1
  <2> QED
    BY <2>1, <2>2, <2>3
<1>4. PICK s, Q : s = Looped(p) /\ Q = Between(f, e)
  OBVIOUS
<1>5. s \in Good(p) /\ Fits(s, r, Q)
  BY <1>1, <1>3, <1>4, LoopFits
<1>6. Q = Locked(L, p) /\ InFile(Q)
  <2>1. Range(L) = {L[i] : i \in 1 .. n}
    BY <1>2 DEF Range
  <2>2. \A i \in f .. e : i \in 1 .. n
    BY <1>3
  <2>3. Q = {L[i] : i \in f .. e}
    BY <1>1, <1>4 DEF Between
  <2>4. Q = Locked(L, p)
    BY <1>3, <2>1, <2>2, <2>3 DEF Locked
  <2> QED
    BY <1>2, <2>2, <2>3, <2>4 DEF InFile
<1>7. PICK o : o = OwnAfter(p, s)
  OBVIOUS
<1>8. Own(p, o) /\ BytesSet(Q, Range(o), r)
  BY <1>5, <1>6, <1>7, OwnLine
<1>9. PICK A, B, M : A = SubSeq(L, 1, f - 1) /\ B = SubSeq(L, e + 1, n) /\ M = (A \o o) \o B
  OBVIOUS
<1>10. A \in Seq(Locks) /\ Range(A) = {L[i] : i \in 1 .. f - 1}
  <2>1. PICK g \in Nat : g = f - 1 /\ g <= Len(L) /\ 1 \in Nat /\ 1 >= 1
    BY <1>1, <1>3
  <2>2. SubSeq(L, 1, g) \in Seq(Locks) /\ Range(SubSeq(L, 1, g)) = {L[i] : i \in 1 .. g}
    BY <1>2, <2>1, PartRange
  <2> QED
    BY <1>9, <2>1, <2>2
<1>11. B \in Seq(Locks) /\ Range(B) = {L[i] : i \in e + 1 .. n}
  <2>1. e + 1 \in Nat /\ e + 1 >= 1
    BY <1>3
  <2> QED
    BY <1>1, <1>2, <1>9, <2>1, PartRange, SMTT(30)
<1>12. M = After(p, s)
  <2>1. /\ DonePart(s) \in Seq(Locks) /\ CutPart(s) \in Seq(Locks) /\ NewPart(p, s) \in Seq(Locks)
        /\ RestPart(s) \in Seq(Locks)
    BY <1>5, PartsKept, PosixAssumption
  <2>2. A = SubSeq(i_flock, 1, FirstOwn(p) - 1) /\ B = SubSeq(i_flock, EndOwn(p) + 1, Len(i_flock))
    BY <1>1, <1>3, <1>9
  <2>3. M = (A \o OwnAfter(p, s)) \o B /\ A \in Seq(Locks) /\ B \in Seq(Locks)
    BY <1>7, <1>9, <1>10, <1>11
  <2> QED
    BY ONLY <2>1, <2>2, <2>3, AfterJoins
<1>13. Tidy(M)
  <2>1. Tidy(L) /\ M = (SubSeq(L, 1, f - 1) \o o) \o SubSeq(L, e + 1, n)
    BY <1>1, <1>9
  <2> QED
    BY <1>1, <1>3, <1>8, <2>1, TidyJoined
<1>14. Range(M) = Range(A) \cup Range(o) \cup Range(B)
  <2>1. o \in Seq(Locks)
    BY <1>8 DEF Own
  <2>2. PICK u : u = A \o o
    OBVIOUS
  <2>3. u \in Seq(Locks) /\ Range(u) = Range(A) \cup Range(o)
    BY <1>10, <2>1, <2>2, JoinedRange
  <2>4. Range(u \o B) = Range(u) \cup Range(B)
    BY <1>11, <2>3, JoinedRange
  <2> QED
    BY <1>9, <2>2, <2>3, <2>4
<1>15. \A l \in Range(A) \cup Range(B) : l.owner # p
  <2>1. \A i \in 1 .. f - 1 : i \in 1 .. n /\ i \notin f .. e
    BY <1>3
  <2>2. \A i \in e + 1 .. n : i \in 1 .. n /\ i \notin f .. e
    BY <1>3
  <2> QED
    BY <1>3, <1>10, <1>11, <2>1, <2>2
<1>16. Locked(M, p) = Range(o)
  BY <1>8, <1>14, <1>15 DEF Locked, Own
<1>17. ASSUME NEW q \in Procs, q # p PROVE Locked(M, q) = Locked(L, q)
  <2>1. Range(L) = {L[i] : i \in 1 .. n}
    BY <1>2 DEF Range
  <2>2. \A l \in Range(o) : l.owner = p
    BY <1>8 DEF Own
  <2>3. \A i \in 1 .. n : i \in 1 .. f - 1 \/ i \in f .. e \/ i \in e + 1 .. n
    BY <1>3
  <2>4. ASSUME NEW l \in Locked(L, q) PROVE l \in Locked(M, q)
    <3>1. PICK i \in 1 .. n : l = L[i] /\ L[i].owner # p /\ l.owner = q
      BY <1>17, <2>1 DEF Locked
    <3>2. i \in 1 .. f - 1 \/ i \in e + 1 .. n
      BY <1>3, <2>3, <3>1
    <3>3. l \in Range(A) \cup Range(B)
      BY <1>10, <1>11, <3>1, <3>2
    <3> QED
      BY <1>14, <3>1, <3>3 DEF Locked
  <2>5. ASSUME NEW l \in Locked(M, q) PROVE l \in Locked(L, q)
    <3>1. l \in Range(A) \cup Range(B) /\ l.owner = q
      BY <1>14, <1>17, <2>2 DEF Locked
    <3>2. /\ \A i \in 1 .. f - 1 : i \in 1 .. n
          /\ \A i \in e + 1 .. n : i \in 1 .. n
      BY <1>3
    <3>3. l \in Range(L)
      BY <1>10, <1>11, <2>1, <3>1, <3>2
    <3> QED
      BY <3>1, <3>3 DEF Locked
  <2> QED
    BY <2>4, <2>5
<1>18. Granted(L, M, p, r)
  BY <1>6, <1>8, <1>13, <1>16, <1>17 DEF Granted
<1>19. s.file \in Ranges /\ WithinFile(s.file) /\ s.file.type = r.type
  BY <1>5, FitsParts, StateParts
<1> QED
  BY <1>1, <1>4, <1>12, <1>18, <1>19

-----------------------------------------------------------------------------
(* What a step does to the list, and to the bytes that it locks.           *)

HeldMap(L) == [p \in Procs |-> [b \in 0 .. OFFSET_MAX |-> HeldIn(L, p, b)]]

\* M differs from L in who waits.
SameLocks(L, M) ==
    M \in Seq(Locks) /\ Len(M) = Len(L) /\ \A i \in 1 .. Len(L) : M[i].owner = L[i].owner /\ Agrees(M[i], L[i])

LEMMA SameLocksHeld ==
    ASSUME NEW L, Tidy(L), NEW M, SameLocks(L, M)
    PROVE  Tidy(M) /\ HeldMap(M) = HeldMap(L)
<1>1. L \in Seq(Locks) /\ Len(L) \in Nat /\ DOMAIN L = 1 .. Len(L)
  BY DEF Tidy
<1>2. PICK n \in Nat : n = Len(L)
  BY <1>1
<1>3. /\ M \in Seq(Locks) /\ Len(M) = n /\ DOMAIN M = 1 .. n
      /\ \A i \in 1 .. n : M[i].owner = L[i].owner /\ M[i].type = L[i].type /\ M[i].start = L[i].start /\ M[i].end = L[i].end
  <2>1. M \in Seq(Locks) /\ Len(M) = n /\ \A i \in 1 .. n : M[i].owner = L[i].owner /\ Agrees(M[i], L[i])
    BY <1>2 DEF SameLocks
  <2> QED
    BY <2>1 DEF Agrees
<1>4. Tidy(M)
  <2>1. \A i \in 1 .. n : WithinFile(M[i])
    BY <1>2, <1>3 DEF Tidy, WithinFile
  <2>2. ASSUME NEW i \in 1 .. n, NEW j \in 1 .. n, i < j, M[i].owner = M[j].owner
        PROVE  Before(M[i], M[j]) /\ \A k \in i .. j : M[k].owner = M[i].owner
    <3>1. Before(L[i], L[j]) /\ \A k \in i .. j : L[k].owner = L[i].owner
      BY <1>2, <1>3, <2>2 DEF Tidy
    <3>2. \A k \in i .. j : k \in 1 .. n
      OBVIOUS
    <3> QED
      BY <1>3, <3>1, <3>2 DEF Before
  <2> QED
    BY ONLY <1>3, <2>1, <2>2 DEF Tidy
<1>5. ASSUME NEW p \in Procs, NEW b \in 0 .. OFFSET_MAX PROVE HeldIn(M, p, b) = HeldIn(L, p, b)
  <2>1. b \in Int
    BY PosixAssumption
  <2>2. HeldIn(M, p, b) = HeldOf(Locked(M, p), b)
    BY <1>4, <2>1, HeldOnce
  <2>3. HeldIn(L, p, b) = HeldOf(Locked(L, p), b)
    BY <2>1, HeldOnce
  <2>4. Range(L) = {L[i] : i \in 1 .. n} /\ Range(M) = {M[i] : i \in 1 .. n}
    BY <1>1, <1>2, <1>3 DEF Range
  <2>5. \A t : Has(Locked(M, p), b, t) <=> \E i \in 1 .. n : M[i].owner = p /\ On(M[i], b) /\ M[i].type = t
    BY <2>4 DEF Has, Locked
  <2>6. \A t : Has(Locked(L, p), b, t) <=> \E i \in 1 .. n : L[i].owner = p /\ On(L[i], b) /\ L[i].type = t
    BY <2>4 DEF Has, Locked
  <2>7. \A t : Has(Locked(M, p), b, t) <=> Has(Locked(L, p), b, t)
    BY <1>3, <2>5, <2>6 DEF On
  <2> QED
    BY <2>2, <2>3, <2>7 DEF HeldOf
<1>6. HeldMap(M) = HeldMap(L)
  BY <1>5 DEF HeldMap
<1> QED
  BY <1>4, <1>6

LEMMA GrantedHeld ==
    ASSUME NEW L, Tidy(L), NEW M, NEW p \in Procs, NEW r \in Ranges, Granted(L, M, p, r)
    PROVE  HeldMap(M) = [HeldMap(L) EXCEPT ![p] = [b \in 0 .. OFFSET_MAX |->
                                                  IF b \in r.start .. r.end THEN r.type ELSE HeldMap(L)[p][b]]]
<1>1. Tidy(M) /\ BytesSet(Locked(L, p), Locked(M, p), r)
  BY DEF Granted
<1>2. r.start \in Int /\ r.end \in Int /\ r.type \in {"RDLCK", "WRLCK", "UNLCK"}
  BY DEF Ranges, Types
<1>3. \A b \in 0 .. OFFSET_MAX : b \in Int
  BY PosixAssumption
<1>4. ASSUME NEW q \in Procs, NEW b \in 0 .. OFFSET_MAX
      PROVE  HeldIn(L, q, b) = HeldOf(Locked(L, q), b) /\ HeldIn(M, q, b) = HeldOf(Locked(M, q), b)
  BY <1>1, <1>3, HeldOnce
<1>5. ASSUME NEW q \in Procs, q # p, NEW b \in 0 .. OFFSET_MAX PROVE HeldIn(M, q, b) = HeldIn(L, q, b)
  <2>1. Locked(M, q) = Locked(L, q)
    BY <1>5 DEF Granted
  <2> QED
    BY <1>4, <2>1
<1>6. ASSUME NEW b \in 0 .. OFFSET_MAX
      PROVE  HeldIn(M, p, b) = IF b \in r.start .. r.end THEN r.type ELSE HeldIn(L, p, b)
  <2>1. b \in r.start .. r.end <=> On(r, b)
    BY <1>2, <1>3 DEF On
  <2>2. \A t \in {"RDLCK", "WRLCK"} :
            Has(Locked(M, p), b, t) <=> IF On(r, b) THEN t = r.type ELSE Has(Locked(L, p), b, t)
    BY <1>1, <1>3 DEF BytesSet
  <2>3. HeldIn(L, p, b) = HeldOf(Locked(L, p), b) /\ HeldIn(M, p, b) = HeldOf(Locked(M, p), b)
    BY <1>4
  <2>4. CASE On(r, b)
    <3>1. \A t \in {"RDLCK", "WRLCK"} : Has(Locked(M, p), b, t) <=> t = r.type
      BY <2>2, <2>4
    <3>2. HeldOf(Locked(M, p), b) = r.type
      BY <1>2, <3>1 DEF HeldOf
    <3> QED
      BY <2>1, <2>3, <2>4, <3>2
  <2>5. CASE ~On(r, b)
    <3>1. \A t \in {"RDLCK", "WRLCK"} : Has(Locked(M, p), b, t) <=> Has(Locked(L, p), b, t)
      BY <2>2, <2>5
    <3>2. HeldOf(Locked(M, p), b) = HeldOf(Locked(L, p), b)
      BY <3>1 DEF HeldOf
    <3> QED
      BY <2>1, <2>3, <2>5, <3>2
  <2> QED
    BY <2>4, <2>5
<1> QED
  BY <1>5, <1>6 DEF HeldMap

\* A conflict on a byte is a lock in the way.
LEMMA FreeBytes ==
    ASSUME NEW L, Tidy(L), NEW p \in Procs, NEW r \in Ranges, WithinFile(r),
           r.type # "UNLCK" => \A i \in 1 .. Len(L) : ~posix_locks_conflict(p, r, L[i]),
           NEW q \in Procs \ {p}, NEW b \in r.start .. r.end
    PROVE  ~("WRLCK" \in {r.type, HeldMap(L)[q][b]} /\ "UNLCK" \notin {r.type, HeldMap(L)[q][b]})
<1>1. /\ r.start \in Int /\ r.end \in Int /\ 0 <= r.start /\ r.end <= OFFSET_MAX /\ OFFSET_MAX \in Nat
  BY RangeParts
<1>2. b \in Int /\ b \in 0 .. OFFSET_MAX /\ r.start <= b /\ b <= r.end
  BY <1>1
<1>3. PICK t : t = HeldMap(L)[q][b] /\ t = HeldOf(Locked(L, q), b)
  BY <1>2, HeldOnce DEF HeldMap
<1> SUFFICES ASSUME r.type # "UNLCK", t # "UNLCK", "WRLCK" \in {r.type, t} PROVE FALSE
  BY <1>3
<1>4. Has(Locked(L, q), b, t)
  BY <1>3 DEF HeldOf
<1>5. L \in Seq(Locks) /\ Range(L) = {L[i] : i \in 1 .. Len(L)}
  BY ListRange DEF Tidy
<1>6. PICK i \in 1 .. Len(L) : L[i].owner = q /\ On(L[i], b) /\ L[i].type = t
  BY <1>4, <1>5 DEF Has, Locked
<1>7. L[i].start \in Int /\ L[i].end \in Int /\ L[i].start <= b /\ b <= L[i].end
  BY <1>5, <1>6, LockWithin DEF On
<1>8. r.end >= L[i].start /\ L[i].end >= r.start
  BY ONLY <1>1, <1>2, <1>7
<1>9. posix_locks_conflict(p, r, L[i])
  BY <1>6, <1>8 DEF posix_locks_conflict, locks_overlap
<1> QED
  BY <1>9

\* What is picked from a list in order is as tidy.
LEMMA PickedTidy ==
    ASSUME NEW L, Tidy(L), NEW n, n = Len(L), NEW u \in Seq(Locks), Picked(u, L, n)
    PROVE  Tidy(u)
<1>1. PICK h \in [1 .. Len(u) -> 1 .. n] :
          /\ \A i \in 1 .. Len(u) : u[i] = L[h[i]]
          /\ \A i, j \in 1 .. Len(u) : i < j => h[i] < h[j]
  BY DEF Picked
<1>2. n \in Nat /\ Len(u) \in Nat
  BY DEF Tidy
<1>3. \A i \in 1 .. Len(u) : WithinFile(u[i])
  BY <1>1 DEF Tidy
<1>4. ASSUME NEW i \in 1 .. Len(u), NEW j \in 1 .. Len(u), i < j, u[i].owner = u[j].owner
      PROVE  Before(u[i], u[j]) /\ \A k \in i .. j : u[k].owner = u[i].owner
  <2>1. /\ h[i] \in 1 .. n /\ h[j] \in 1 .. n /\ h[i] < h[j] /\ L[h[i]].owner = L[h[j]].owner
        /\ u[i] = L[h[i]] /\ u[j] = L[h[j]]
    BY <1>1, <1>4
  <2>2. Before(L[h[i]], L[h[j]]) /\ \A k \in h[i] .. h[j] : L[k].owner = L[h[i]].owner
    BY <2>1 DEF Tidy
  <2>3. ASSUME NEW k \in i .. j PROVE u[k].owner = u[i].owner
    <3>1. k \in 1 .. Len(u) /\ (k = i \/ i < k) /\ (k = j \/ k < j)
      BY <1>2
    <3>2. h[k] \in 1 .. n /\ (h[k] = h[i] \/ h[i] < h[k]) /\ (h[k] = h[j] \/ h[k] < h[j]) /\ u[k] = L[h[k]]
      BY <1>1, <3>1
    <3>3. h[k] \in h[i] .. h[j]
      BY <1>2, <2>1, <3>2
    <3> QED
      BY <2>1, <2>2, <3>2, <3>3
  <2> QED
    BY <2>1, <2>2, <2>3
<1> QED
  BY ONLY u \in Seq(Locks), <1>3, <1>4 DEF Tidy

LEMMA DroppedHeld ==
    ASSUME Tidy(i_flock), NEW p \in Procs, NEW L, L = i_flock, NEW M, M = Others(p)
    PROVE  Tidy(M) /\ HeldMap(M) = [HeldMap(L) EXCEPT ![p] = [b \in 0 .. OFFSET_MAX |-> "UNLCK"]]
<1>1. i_flock \in Seq(Locks)
  BY DEF Tidy
<1>2. M \in Seq(Locks) /\ Range(M) = {l \in Range(L) : l.owner # p} /\ Picked(M, L, Len(L)) /\ Tidy(L)
  BY <1>1, OthersLeft
<1>3. Tidy(M)
  BY <1>2, PickedTidy
<1>4. ASSUME NEW q \in Procs, NEW b \in 0 .. OFFSET_MAX
      PROVE  HeldIn(L, q, b) = HeldOf(Locked(L, q), b) /\ HeldIn(M, q, b) = HeldOf(Locked(M, q), b)
  <2>1. b \in Int
    BY PosixAssumption
  <2> QED
    BY <1>2, <1>3, <2>1, HeldOnce
<1>5. Locked(M, p) = {} /\ \A q \in Procs : q # p => Locked(M, q) = Locked(L, q)
  BY <1>2 DEF Locked
<1>6. \A b : HeldOf({}, b) = "UNLCK"
  BY DEF HeldOf, Has
<1>7. \A b \in 0 .. OFFSET_MAX : HeldIn(M, p, b) = "UNLCK"
  BY <1>4, <1>5, <1>6
<1>8. \A q \in Procs : \A b \in 0 .. OFFSET_MAX : q # p => HeldIn(M, q, b) = HeldIn(L, q, b)
  BY <1>4, <1>5
<1> QED
  BY <1>3, <1>7, <1>8 DEF HeldMap

\* locks_block_on, and locks_delete_block
LEMMA QueuedLocks ==
    ASSUME i_flock \in Seq(Locks), NEW p \in Procs
    PROVE  /\ SameLocks(i_flock, Unqueued(p))
           /\ \A k \in DOMAIN i_flock : SameLocks(i_flock, [i_flock EXCEPT ![k].block = @ \cup {p}])
<1>1. PICK L \in Seq(Locks) : L = i_flock
  OBVIOUS
<1>2. DOMAIN L = 1 .. Len(L) /\ Len(L) \in Nat /\ \A i \in 1 .. Len(L) : L[i] \in Locks
  OBVIOUS
<1>3. SameLocks(i_flock, Unqueued(p))
  <2>1. PICK U : U = Unqueued(p)
    OBVIOUS
  <2>2. U \in Seq(Locks) /\ DOMAIN U = DOMAIN L /\ \A i \in DOMAIN L : U[i].owner = L[i].owner /\ Agrees(U[i], L[i])
    BY <1>1, <2>1, UnqueuedParts
  <2>3. Len(U) = Len(L)
    BY <1>2, <2>2
  <2> QED
    BY <1>1, <1>2, <2>1, <2>2, <2>3 DEF SameLocks
<1>4. ASSUME NEW k \in DOMAIN L PROVE SameLocks(L, [L EXCEPT ![k].block = @ \cup {p}])
  <2>1. PICK l \in Locks : l = L[k]
    BY <1>2
  <2>2. PICK m \in Locks : m = [l EXCEPT !.block = l.block \cup {p}]
    BY DEF Locks
  <2>3. m.owner = l.owner /\ Agrees(m, l)
    BY <2>2 DEF Locks, Agrees
  <2>4. PICK M : M = [L EXCEPT ![k] = m]
    OBVIOUS
  <2>5. M \in [1 .. Len(L) -> Locks] /\ M[k] = m /\ \A i \in 1 .. Len(L) : i # k => M[i] = L[i]
    BY <1>2, <2>4
  <2>6. M \in Seq(Locks) /\ Len(M) = Len(L)
    BY <1>2, <2>5
  <2>7. \A i \in 1 .. Len(L) : M[i].owner = L[i].owner /\ Agrees(M[i], L[i])
    BY <2>1, <2>3, <2>5 DEF Agrees
  <2>8. [L EXCEPT ![k].block = @ \cup {p}] = M
    BY <2>1, <2>2, <2>4
  <2> QED
    BY <2>6, <2>7, <2>8 DEF SameLocks
<1> QED
  BY <1>1, <1>3, <1>4

-----------------------------------------------------------------------------
(* The steps keep the list in order, and are steps of ByteLocks.           *)

Places == {"idle", "lock", "check", "io", "io_again", "access"}

CallsFit(f, c) ==
    /\ f \in [Procs -> Ranges] /\ c \in [Procs -> Places]
    /\ \A q \in Procs : c[q] \in {"lock", "check"} => WithinFile(f[q])
AskedMap(f, c) == [q \in Procs |-> IF c[q] = "lock" THEN f[q] ELSE None]

LEMMA ListParts ==
    /\ ListInv <=> Tidy(i_flock) /\ CallsFit(fl, pc)
    /\ ListInv' <=> Tidy(i_flock') /\ CallsFit(fl', pc')
<1>1. i_flock \in Seq(Locks) => DOMAIN i_flock = 1 .. Len(i_flock)
  OBVIOUS
<1>2. i_flock' \in Seq(Locks) => DOMAIN i_flock' = 1 .. Len(i_flock')
  OBVIOUS
<1>3. ListInv <=> Tidy(i_flock) /\ CallsFit(fl, pc)
  BY <1>1 DEF ListInv, Tidy, CallsFit, Places, SortedAndMerged, Before
<1>4. ListInv' <=> Tidy(i_flock') /\ CallsFit(fl', pc')
  BY <1>2 DEF ListInv, Tidy, CallsFit, Places, SortedAndMerged, Before, WithinFile
<1> QED
  BY <1>3, <1>4

LEMMA Maps ==
    /\ HeldBytes = HeldMap(i_flock) /\ HeldBytes' = HeldMap(i_flock')
    /\ AskedFor = AskedMap(fl, pc) /\ AskedFor' = AskedMap(fl', pc')
BY DEF HeldBytes, HeldMap, Held, HeldIn, AskedFor, AskedMap

CallFits(v, a) == v \in Ranges /\ a \in Places /\ (a \in {"lock", "check"} => WithinFile(v))

Sets(g, f, p, v) == g = [f EXCEPT ![p] = v]

LEMMA CallsSet ==
    ASSUME NEW f, NEW c, CallsFit(f, c), NEW p \in Procs, NEW v, NEW a, CallFits(v, a),
           NEW g, Sets(g, f, p, v), NEW d, Sets(d, c, p, a),
           NEW w, w = IF a = "lock" THEN v ELSE None
    PROVE  CallsFit(g, d) /\ Sets(AskedMap(g, d), AskedMap(f, c), p, w)
<1> USE DEF Sets
<1>1. /\ g \in [Procs -> Ranges] /\ d \in [Procs -> Places] /\ g[p] = v /\ d[p] = a
      /\ \A q \in Procs : q # p => g[q] = f[q] /\ d[q] = c[q]
  BY DEF CallsFit, CallFits
<1>2. CallsFit(g, d)
  BY <1>1 DEF CallsFit, CallFits
<1>3. AskedMap(g, d) = [AskedMap(f, c) EXCEPT ![p] = w]
  BY <1>1 DEF AskedMap
<1> QED
  BY <1>2, <1>3

LEMMA NoneIsNoRange ==
    ASSUME NEW r \in Ranges PROVE r # None
BY PosixAssumption DEF Ranges, Types

\* A step that locks and unlocks nothing: a call begins, is refused, or goes on.
LEMMA KeepStep ==
    ASSUME ListInv, NEW p \in Procs, SameLocks(i_flock, i_flock'), NEW v \in Ranges, NEW a \in Places,
           a \in {"lock", "check"} => WithinFile(v), a = "lock" /\ pc[p] = "lock" => v = fl[p],
           fl' = [fl EXCEPT ![p] = v], pc' = [pc EXCEPT ![p] = a]
    PROVE  ListInv' /\ [Bytes!Next]_<<HeldBytes, AskedFor>>
<1>1. Tidy(i_flock) /\ CallsFit(fl, pc)
  BY ListParts
<1>2. PICK L, M, f, c, g, d : L = i_flock /\ M = i_flock' /\ f = fl /\ c = pc /\ g = fl' /\ d = pc'
  OBVIOUS
<1>3. Tidy(M) /\ HeldMap(M) = HeldMap(L)
  <2>1. Tidy(L) /\ SameLocks(L, M)
    BY <1>1, <1>2
  <2> QED
    BY <2>1, SameLocksHeld
<1>4. CallsFit(f, c) /\ g = [f EXCEPT ![p] = v] /\ d = [c EXCEPT ![p] = a]
  BY <1>1, <1>2
<1>5. CallsFit(g, d) /\ AskedMap(g, d) = [AskedMap(f, c) EXCEPT ![p] = IF a = "lock" THEN v ELSE None]
  <2>1. CallFits(v, a)
    BY DEF CallFits
  <2>2. PICK w : w = IF a = "lock" THEN v ELSE None
    OBVIOUS
  <2>3. CallsFit(f, c) /\ Sets(g, f, p, v) /\ Sets(d, c, p, a)
    BY <1>4 DEF Sets
  <2>4. CallsFit(g, d) /\ Sets(AskedMap(g, d), AskedMap(f, c), p, w)
    BY ONLY p \in Procs, <2>1, <2>2, <2>3, CallsSet
  <2> QED
    BY <2>2, <2>4 DEF Sets
<1>6. ListInv'
  BY <1>2, <1>3, <1>5, ListParts
<1>7. HeldBytes' = HeldBytes /\ AskedFor' = [AskedFor EXCEPT ![p] = IF a = "lock" THEN v ELSE None]
  BY <1>2, <1>3, <1>5, Maps
<1>8. AskedFor[p] = IF pc[p] = "lock" THEN fl[p] ELSE None
  BY DEF AskedFor
<1>9. \A x : x = AskedFor[p] => [AskedFor EXCEPT ![p] = x] = AskedFor
  BY DEF AskedFor
<1>10. fl[p] \in Ranges /\ fl[p] # None
  BY <1>1, NoneIsNoRange DEF CallsFit
<1>11. CASE a # "lock" /\ pc[p] # "lock"
  BY <1>6, <1>7, <1>8, <1>9, <1>11
<1>12. CASE a = "lock" /\ pc[p] = "lock"
  BY <1>6, <1>7, <1>8, <1>9, <1>12
<1>13. CASE a # "lock" /\ pc[p] = "lock"
  <2>1. AskedFor[p] # None /\ AskedFor' = [AskedFor EXCEPT ![p] = None]
    BY <1>7, <1>8, <1>10, <1>13
  <2>2. Bytes!Refuse(p)
    BY <1>7, <2>1 DEF Bytes!Refuse
  <2> QED
    BY <1>6, <2>2 DEF Bytes!Next
<1>14. CASE a = "lock" /\ pc[p] # "lock"
  <2>1. AskedFor[p] = None /\ AskedFor' = [AskedFor EXCEPT ![p] = v]
    BY <1>7, <1>8, <1>14
  <2>2. /\ v = [type |-> v.type, start |-> v.start, end |-> v.end] /\ v.type \in {"RDLCK", "WRLCK", "UNLCK"}
        /\ v.start \in 0 .. OFFSET_MAX /\ v.end \in 0 .. OFFSET_MAX
    <3>1. v = [type |-> v.type, start |-> v.start, end |-> v.end] /\ v.type \in {"RDLCK", "WRLCK", "UNLCK"}
      BY DEF Ranges, Types
    <3>2. WithinFile(v)
      BY <1>14
    <3>3. /\ v.start \in Int /\ v.end \in Int /\ 0 <= v.start /\ v.start <= v.end /\ v.end <= OFFSET_MAX
          /\ OFFSET_MAX \in Nat
      BY <3>2, RangeParts
    <3> QED
      BY <3>1, <3>3
  <2>3. Bytes!Ask(p)
    <3>1. \E type \in {"RDLCK", "WRLCK", "UNLCK"}, from, to \in 0 .. OFFSET_MAX :
              AskedFor' = [AskedFor EXCEPT ![p] = [type |-> type, start |-> from, end |-> to]]
      <4>1. AskedFor' = [AskedFor EXCEPT ![p] = [type |-> v.type, start |-> v.start, end |-> v.end]]
        BY <2>1, <2>2
      <4> QED
        BY <2>2, <4>1, Zenon
    <3> QED
      BY <1>7, <2>1, <3>1, Zenon DEF Bytes!Ask, Bytes!Offsets
  <2> QED
    BY <1>6, <2>3 DEF Bytes!Next
<1> QED
  BY <1>11, <1>12, <1>13, <1>14

\* posix_lock_file to its end
LEMMA GrantStep ==
    ASSUME ListInv, NEW p \in Procs, pc[p] = "lock",
           fl[p].type # "UNLCK" => \A i \in DOMAIN i_flock : ~posix_locks_conflict(p, fl[p], i_flock[i]),
           i_flock' = After(p, Looped(p)), fl' = [fl EXCEPT ![p] = Looped(p).file], pc' = [pc EXCEPT ![p] = "check"]
    PROVE  ListInv' /\ Bytes!Grant(p)
<1>1. Tidy(i_flock) /\ CallsFit(fl, pc) /\ fl \in [Procs -> Ranges] /\ WithinFile(fl[p])
  BY ListParts DEF CallsFit
<1>2. PICK L, M, f, c, g, d : L = i_flock /\ M = i_flock' /\ f = fl /\ c = pc /\ g = fl' /\ d = pc'
  OBVIOUS
<1>3. PICK r \in Ranges : r = fl[p] /\ WithinFile(r)
  BY <1>1
<1>4. PICK v : v = Looped(p).file
  OBVIOUS
<1>5. Granted(L, M, p, r) /\ v \in Ranges /\ WithinFile(v)
  BY <1>1, <1>2, <1>3, <1>4, LoopGrants
<1>6. /\ Tidy(L) /\ Tidy(M)
      /\ HeldMap(M) = [HeldMap(L) EXCEPT ![p] = [b \in 0 .. OFFSET_MAX |->
                                                IF b \in r.start .. r.end THEN r.type ELSE HeldMap(L)[p][b]]]
  <2>1. Tidy(L) /\ Tidy(M)
    BY <1>1, <1>2, <1>5 DEF Granted
  <2> QED
    BY <1>5, <2>1, GrantedHeld
<1>7. CallsFit(f, c) /\ g = [f EXCEPT ![p] = v] /\ d = [c EXCEPT ![p] = "check"]
  BY <1>1, <1>2, <1>4
<1>8. CallsFit(g, d) /\ AskedMap(g, d) = [AskedMap(f, c) EXCEPT ![p] = None]
  <2>1. CallFits(v, "check")
    BY <1>5 DEF Places, CallFits
  <2>2. PICK a, w : a = "check" /\ w = None
    OBVIOUS
  <2>3. /\ CallsFit(f, c) /\ CallFits(v, a) /\ Sets(g, f, p, v) /\ Sets(d, c, p, a)
        /\ w = IF a = "lock" THEN v ELSE None
    BY <1>7, <2>1, <2>2 DEF Sets
  <2>4. CallsFit(g, d) /\ Sets(AskedMap(g, d), AskedMap(f, c), p, w)
    BY ONLY p \in Procs, <2>3, CallsSet
  <2> QED
    BY <2>2, <2>4 DEF Sets
<1>9. ListInv'
  BY <1>2, <1>6, <1>8, ListParts
<1>10. /\ AskedFor[p] = r /\ r # None /\ AskedFor' = [AskedFor EXCEPT ![p] = None]
       /\ HeldBytes' = [HeldBytes EXCEPT ![p] = [b \in 0 .. OFFSET_MAX |->
                                                    IF b \in r.start .. r.end THEN r.type ELSE HeldBytes[p][b]]]
  <2>1. AskedFor[p] = r /\ r # None
    BY <1>3, NoneIsNoRange DEF AskedFor
  <2> QED
    BY <1>2, <1>6, <1>8, <2>1, Maps
<1>11. ASSUME NEW q \in Procs \ {p}, NEW b \in r.start .. r.end PROVE ~Bytes!Excludes(r.type, HeldBytes[q][b])
  <2>1. L \in Seq(Locks) /\ DOMAIN L = 1 .. Len(L)
    BY <1>6 DEF Tidy
  <2>2. r.type # "UNLCK" => \A i \in 1 .. Len(L) : ~posix_locks_conflict(p, r, L[i])
    BY <1>2, <1>3, <2>1
  <2>3. ~("WRLCK" \in {r.type, HeldMap(L)[q][b]} /\ "UNLCK" \notin {r.type, HeldMap(L)[q][b]})
    BY <1>3, <1>6, <2>2, FreeBytes
  <2> QED
    BY <1>2, <2>3, Maps DEF Bytes!Excludes
<1>12. Bytes!Grant(p)
  BY <1>10, <1>11 DEF Bytes!Grant, Bytes!Offsets
<1> QED
  BY <1>9, <1>12

\* close
LEMMA DropStep ==
    ASSUME ListInv, NEW p \in Procs, i_flock' = Others(p), fl' = fl, pc' = pc
    PROVE  ListInv' /\ Bytes!Drop(p)
<1>1. Tidy(i_flock) /\ CallsFit(fl, pc)
  BY ListParts
<1>2. PICK L, M : L = i_flock /\ M = Others(p)
  OBVIOUS
<1>3. Tidy(M) /\ HeldMap(M) = [HeldMap(L) EXCEPT ![p] = [b \in 0 .. OFFSET_MAX |-> "UNLCK"]]
  BY <1>1, <1>2, DroppedHeld
<1>4. ListInv'
  BY <1>1, <1>2, <1>3, ListParts
<1>5. HeldBytes' = [HeldBytes EXCEPT ![p] = [b \in 0 .. OFFSET_MAX |-> "UNLCK"]] /\ AskedFor' = AskedFor
  BY <1>2, <1>3, Maps DEF AskedFor
<1>6. Bytes!Drop(p)
  BY <1>5 DEF Bytes!Drop, Bytes!Offsets
<1> QED
  BY <1>4, <1>6

ListStep == ListInv' /\ [Bytes!Next]_<<HeldBytes, AskedFor>>

LEMMA SameLocksItself ==
    ASSUME ListInv PROVE SameLocks(i_flock, i_flock) /\ i_flock \in Seq(Locks)
BY DEF ListInv, SameLocks, Agrees

LEMMA ReturnStep ==
    ASSUME ListInv, NEW p \in Procs, Return(p), SameLocks(i_flock, i_flock')
    PROVE  ListStep
<1>1. fl' = [fl EXCEPT ![p] = NoLock] /\ pc' = [pc EXCEPT ![p] = "idle"]
  BY DEF Return
<1>2. PICK v, a : v = NoLock /\ a = "idle"
  OBVIOUS
<1>3. /\ v \in Ranges /\ a \in Places /\ a # "lock" /\ a # "check"
      /\ fl' = [fl EXCEPT ![p] = v] /\ pc' = [pc EXCEPT ![p] = a]
  BY <1>1, <1>2, NoLockInRanges DEF Places
<1> QED
  BY <1>3, KeepStep DEF ListStep

\* The call of p goes on at a.
LEMMA MoveStep ==
    ASSUME ListInv, NEW p \in Procs, NEW a \in Places, a = "lock" => pc[p] = "lock", a # "check",
           SameLocks(i_flock, i_flock'), fl' = fl, pc' = [pc EXCEPT ![p] = a]
    PROVE  ListStep
<1>1. fl \in [Procs -> Ranges] /\ (pc[p] = "lock" => WithinFile(fl[p]))
  BY DEF ListInv
<1>2. PICK v \in Ranges : v = fl[p]
  BY <1>1
<1>3. fl' = [fl EXCEPT ![p] = v]
  BY <1>1, <1>2
<1>4. (a \in {"lock", "check"} => WithinFile(v)) /\ (a = "lock" /\ pc[p] = "lock" => v = fl[p])
  BY <1>1, <1>2
<1> QED
  BY <1>3, <1>4, KeepStep DEF ListStep

LEMMA BlockedStep ==
    ASSUME ListInv, NEW p \in Procs, NEW k \in DOMAIN i_flock, NEW again \in {"lock", "io_again"},
           again = "lock" => pc[p] = "lock", Blocked(p, k, again)
    PROVE  ListStep
<1>1. CASE ~wait[p] \/ posix_locks_deadlock(p, i_flock[k])
  <2>1. Return(p) /\ i_flock' = i_flock
    BY <1>1 DEF Blocked
  <2>2. SameLocks(i_flock, i_flock')
    BY <2>1, SameLocksItself
  <2> QED
    BY <2>1, <2>2, ReturnStep
<1>2. CASE ~(~wait[p] \/ posix_locks_deadlock(p, i_flock[k]))
  <2>1. /\ i_flock' = [i_flock EXCEPT ![k].block = @ \cup {p}]
        /\ pc' = [pc EXCEPT ![p] = again] /\ fl' = fl
    BY <1>2 DEF Blocked
  <2>2. SameLocks(i_flock, i_flock')
    BY <2>1, SameLocksItself, QueuedLocks
  <2>3. again \in Places /\ again # "check"
    BY DEF Places
  <2> QED
    BY <2>1, <2>2, <2>3, MoveStep
<1> QED
  BY <1>1, <1>2

LEMMA LockStep ==
    ASSUME ListInv, NEW p \in Procs, posix_lock_file(p)
    PROVE  ListStep
<1>1. pc[p] = "lock" /\ i_flock \in Seq(Locks)
  BY DEF posix_lock_file, ListInv
<1> DEFINE inTheWay == {i \in DOMAIN i_flock : posix_locks_conflict(p, fl[p], i_flock[i])}
<1>2. CASE fl[p].type # "UNLCK" /\ inTheWay # {}
  <2>1. PICK k \in inTheWay : k = Min(inTheWay)
    <3>1. inTheWay \subseteq Nat
      BY <1>1
    <3> HIDE DEF inTheWay
    <3> QED
      BY <1>2, <3>1, MinOf
  <2>2. Blocked(p, k, "lock") /\ k \in DOMAIN i_flock
    BY <1>2, <2>1 DEF posix_lock_file
  <2> QED
    BY <1>1, <2>2, BlockedStep
<1>3. CASE ~(fl[p].type # "UNLCK" /\ inTheWay # {})
  <2>1. /\ i_flock' = After(p, Looped(p)) /\ fl' = [fl EXCEPT ![p] = Looped(p).file]
        /\ pc' = [pc EXCEPT ![p] = "check"]
    BY <1>3 DEF posix_lock_file
  <2>2. fl[p].type # "UNLCK" => \A i \in DOMAIN i_flock : ~posix_locks_conflict(p, fl[p], i_flock[i])
    BY <1>3
  <2>3. ListInv' /\ Bytes!Grant(p)
    BY <1>1, <2>1, <2>2, GrantStep
  <2> QED
    BY <2>3 DEF ListStep, Bytes!Next
<1> QED
  BY <1>2, <1>3

LEMMA MandatoryStep ==
    ASSUME ListInv, NEW p \in Procs, locks_mandatory_area(p)
    PROVE  ListStep
<1>1. i_flock \in Seq(Locks) /\ SameLocks(i_flock, i_flock)
  BY SameLocksItself
<1> DEFINE ends == {i \in DOMAIN i_flock : \/ i_flock[i].start > fl[p].end
                                           \/ posix_locks_conflict(p, fl[p], i_flock[i])}
           blocks == /\ pc[p] = "io" \/ mandatory
                     /\ ends # {} /\ ~(i_flock[Min(ends)].start > fl[p].end)
<1>2. CASE blocks
  <2>1. PICK k \in ends : k = Min(ends)
    <3>1. ends \subseteq Nat /\ ends # {}
      BY <1>1, <1>2
    <3> HIDE DEF ends
    <3> QED
      BY <3>1, MinOf
  <2>2. Blocked(p, k, "io_again") /\ k \in DOMAIN i_flock
    BY <1>2, <2>1 DEF locks_mandatory_area
  <2> QED
    BY <2>2, BlockedStep
<1>3. CASE ~blocks
  <2>1. /\ pc' = [pc EXCEPT ![p] = "access"] /\ i_flock' = i_flock /\ fl' = fl
    BY <1>3 DEF locks_mandatory_area
  <2>2. "access" \in Places /\ SameLocks(i_flock, i_flock')
    BY <1>1, <2>1 DEF Places
  <2> QED
    BY <2>1, <2>2, MoveStep
<1> QED
  BY <1>2, <1>3

LEMMA CallStep ==
    ASSUME ListInv, LastByteFree, NEW p \in Procs, NEW op \in {"lock", "io"}, NEW requests \in SUBSET (Requests \cup Accesses),
           op = "lock" => requests \subseteq Requests, Call(p, op, requests)
    PROVE  ListStep
<1>1. PICK r \in requests : fl' = [fl EXCEPT ![p] = [type |-> r.type, start |-> r.start, end |-> r.end]]
  BY DEF Call
<1>2. PICK v \in Ranges : v = [type |-> r.type, start |-> r.start, end |-> r.end]
  BY RequestRange
<1>3. op = "lock" => WithinFile(v)
  <2>1. v.type = r.type /\ v.start = r.start /\ v.end = r.end
    BY <1>2
  <2>2. r.start \in 0 .. OFFSET_MAX /\ r.end \in r.start .. OFFSET_MAX /\ OFFSET_MAX \in Nat
    BY PosixAssumption
  <2>3. op = "lock" => (r.type # "UNLCK" => r.end < OFFSET_MAX)
    BY DEF LastByteFree
  <2> QED
    BY <2>1, <2>2, <2>3 DEF WithinFile
<1>4. SameLocks(i_flock, i_flock') /\ pc[p] = "idle" /\ pc' = [pc EXCEPT ![p] = op] /\ fl' = [fl EXCEPT ![p] = v]
  BY <1>1, <1>2, SameLocksItself DEF Call
<1>5. op \in Places /\ op # "check"
  BY DEF Places
<1> QED
  BY <1>3, <1>4, <1>5, KeepStep DEF ListStep

LEMMA RecheckStep ==
    ASSUME ListInv, NEW p \in Procs, Recheck(p)
    PROVE  ListStep
<1>1. pc[p] = "check" /\ i_flock' = i_flock /\ fl[p] \in Ranges /\ WithinFile(fl[p])
  BY DEF Recheck, ListInv
<1>2. SameLocks(i_flock, i_flock')
  BY <1>1, SameLocksItself
<1>3. CASE Return(p)
  BY <1>2, <1>3, ReturnStep
<1>4. CASE ~Return(p)
  <2>1. /\ fl' = [fl EXCEPT ![p].type = "UNLCK"] /\ pc' = [pc EXCEPT ![p] = "lock"]
    BY <1>4 DEF Recheck
  <2>2. PICK r \in Ranges : r = fl[p] /\ WithinFile(r)
    BY <1>1
  <2>3. PICK v : v = [r EXCEPT !.type = "UNLCK"]
    OBVIOUS
  <2>4. v \in Ranges /\ v.type = "UNLCK" /\ v.start = r.start /\ v.end = r.end
    BY <2>3 DEF Ranges, Types
  <2>5. WithinFile(v)
    BY <2>2, <2>4 DEF WithinFile
  <2>6. fl' = [fl EXCEPT ![p] = v]
    BY <2>1, <2>2, <2>3
  <2>7. PICK a \in Places : a = "lock"
    BY DEF Places
  <2>8. pc' = [pc EXCEPT ![p] = a] /\ ~(a = "lock" /\ pc[p] = "lock")
    BY <1>1, <2>1, <2>7
  <2> QED
    BY <1>2, <2>4, <2>5, <2>6, <2>8, KeepStep DEF ListStep
<1> QED
  BY <1>3, <1>4

LEMMA NextList ==
    ASSUME ListInv, LastByteFree, [Next]_vars PROVE ListStep
<1>0. i_flock \in Seq(Locks) /\ SameLocks(i_flock, i_flock)
  BY SameLocksItself
<1>1. ASSUME NEW p \in Procs, fcntl_setlk(p) PROVE ListStep
  BY <1>1, CallStep DEF fcntl_setlk
<1>2. ASSUME NEW p \in Procs, ReadWrite(p) PROVE ListStep
  BY <1>2, CallStep DEF ReadWrite
<1>3. ASSUME NEW p \in Procs, Access(p) \/ OutOfMemory(p) \/ Interrupted(p) PROVE ListStep
  <2>1. Return(p) /\ i_flock' \in {i_flock, Unqueued(p)}
    BY <1>3 DEF Access, OutOfMemory, Interrupted
  <2>2. SameLocks(i_flock, i_flock')
    BY <1>0, <2>1, QueuedLocks
  <2> QED
    BY <2>1, <2>2, ReturnStep
<1>4. ASSUME i_flock' = i_flock, fl' = fl, pc' = pc PROVE ListStep
  <2>1. ListInv'
    BY <1>4, ListParts
  <2>2. HeldBytes' = HeldBytes /\ AskedFor' = AskedFor
    BY <1>4, Maps
  <2> QED
    BY <2>1, <2>2 DEF ListStep
<1>5. ASSUME NEW p \in Procs, Signal(p) \/ Close(p) \/ Look(p) \/ Open(p) PROVE ListStep
  BY <1>4, <1>5 DEF Signal, Close, Look, Open, callVars
<1>6. ASSUME NEW p \in Procs, locks_remove_posix(p) PROVE ListStep
  <2>1. i_flock' = Others(p) /\ fl' = fl /\ pc' = pc
    BY <1>6 DEF locks_remove_posix, callVars
  <2>2. ListInv' /\ Bytes!Drop(p)
    BY <2>1, DropStep
  <2> QED
    BY <2>2 DEF ListStep, Bytes!Next
<1>7. CASE ChangeMode \/ UNCHANGED vars
  BY <1>4, <1>7 DEF ChangeMode, vars
<1> QED
  BY <1>1, <1>2, <1>3, <1>5, <1>6, <1>7, LockStep, MandatoryStep, RecheckStep DEF Next

LEMMA InitList ==
    ASSUME Init PROVE ListInv /\ Bytes!Init
<1>1. i_flock = <<>> /\ fl = [p \in Procs |-> NoLock] /\ pc = [p \in Procs |-> "idle"]
  BY DEF Init
<1>2. ListInv
  BY <1>1, NoLockInRanges DEF ListInv, SortedAndMerged
<1>3. \A p \in Procs, b \in 0 .. OFFSET_MAX : Held(p, b) = "UNLCK"
  <2>1. DOMAIN i_flock = {}
    BY <1>1
  <2> QED
    BY <2>1 DEF Held
<1>4. HeldBytes = [p \in Procs |-> [b \in 0 .. OFFSET_MAX |-> "UNLCK"]]
  BY <1>3 DEF HeldBytes
<1>5. AskedFor = [p \in Procs |-> None]
  BY <1>1 DEF AskedFor
<1> QED
  BY <1>2, <1>4, <1>5 DEF Bytes!Init, Bytes!Offsets

\* However posix_lock_file merges, cuts and replaces locks, fcntl_setlk undoes them and
\* locks_remove_posix takes them away, ListInv holds: the list is in order, and no lock of it
\* and no request that is under way reaches the last byte, but for unlocks.
THEOREM ListInvariant ==
    ASSUME LastByteFree PROVE Spec => []ListInv
<1>1. Init => ListInv
  BY InitList
<1>2. ListInv /\ [Next]_vars => ListInv'
  BY NextList DEF ListStep
<1> QED
  BY <1>1, <1>2, PTL DEF Spec

\* The locks of each process are together in the list, sorted, apart, and as few as they can
\* be: what the comment above posix_lock_file says of i_flock.
THEOREM ListStaysSorted ==
    ASSUME LastByteFree PROVE Spec => []SortedAndMerged
<1>1. ListInv => SortedAndMerged
  BY DEF ListInv
<1> QED
  BY <1>1, ListInvariant, PTL

\* posix_lock_file does to every byte what the caller asked for and nothing else, and only when
\* nobody else has a conflicting lock on it; a refused or interrupted call does nothing.
THEOREM LocksImplementByteLocks ==
    ASSUME LastByteFree PROVE Spec => ImplementsByteLocks
<1>1. Init => Bytes!Init
  BY InitList
<1>2. ListInv /\ [Next]_vars => [Bytes!Next]_<<HeldBytes, AskedFor>>
  BY NextList DEF ListStep
<1> QED
  BY <1>1, <1>2, ListInvariant, PTL DEF Spec, ImplementsByteLocks, Bytes!Spec

-----------------------------------------------------------------------------
(* Calls that race with close: NoStuckLock.                                *)

\* CloseInv, of one process: where it is, its request, whether it has a signal, the file of
\* the descriptor and of the call, where close is, and the bytes that it holds.
CloseOne(a, v, s, o, w, k, h) ==
    /\ a # "idle" => w # 0
    /\ s => a \in {"lock", "io_again"} /\ v.type # "UNLCK"
    /\ k = "no" /\ (IF a = "idle" THEN o = 0 ELSE w # o) =>
           \A b \in 0 .. OFFSET_MAX : h[b] # "UNLCK" =>
               a = (IF v.type = "UNLCK" THEN "lock" ELSE "check") /\ b \in v.start .. v.end

Files == [Procs -> 0 .. 2]
Closings == [Procs -> {"no", "look", "remove"}]
CloseTypes(o, w, s, k) == o \in Files /\ w \in Files /\ s \in [Procs -> BOOLEAN] /\ k \in Closings

LEMMA CloseParts ==
    /\ CloseInv <=> /\ CloseTypes(fd, filp, sig, closing)
                    /\ \A p \in Procs : CloseOne(pc[p], fl[p], sig[p], fd[p], filp[p], closing[p], HeldBytes[p])
    /\ CloseInv' <=> /\ CloseTypes(fd', filp', sig', closing')
                     /\ \A p \in Procs : CloseOne(pc'[p], fl'[p], sig'[p], fd'[p], filp'[p], closing'[p], HeldBytes'[p])
<1>1. \A p \in Procs : \A b \in 0 .. OFFSET_MAX : HeldBytes[p][b] = Held(p, b)
  BY DEF HeldBytes
<1>2. \A p \in Procs : \A b \in 0 .. OFFSET_MAX : HeldBytes'[p][b] = Held(p, b)'
  BY DEF HeldBytes
<1>3. CloseInv <=> /\ CloseTypes(fd, filp, sig, closing)
                   /\ \A p \in Procs : CloseOne(pc[p], fl[p], sig[p], fd[p], filp[p], closing[p], HeldBytes[p])
  BY <1>1, Zenon DEF CloseInv, Closed, CloseTypes, CloseOne, Files, Closings
<1>4. CloseInv' <=> /\ CloseTypes(fd', filp', sig', closing')
                    /\ \A p \in Procs : CloseOne(pc'[p], fl'[p], sig'[p], fd'[p], filp'[p], closing'[p], HeldBytes'[p])
  BY <1>2, Zenon DEF CloseInv, Closed, CloseTypes, CloseOne, Files, Closings
<1> QED
  BY <1>3, <1>4

\* The step changes nothing about q.
Untouched(q) ==
    /\ pc'[q] = pc[q] /\ fl'[q] = fl[q] /\ sig'[q] = sig[q] /\ fd'[q] = fd[q] /\ filp'[q] = filp[q]
    /\ closing'[q] = closing[q] /\ HeldBytes'[q] = HeldBytes[q]

LEMMA OneCloses ==
    ASSUME CloseInv, NEW p, \A q \in Procs : q # p => Untouched(q), CloseTypes(fd', filp', sig', closing'),
           CloseOne(pc'[p], fl'[p], sig'[p], fd'[p], filp'[p], closing'[p], HeldBytes'[p])
    PROVE  CloseInv'
<1>1. ASSUME NEW q \in Procs, q # p
      PROVE  CloseOne(pc'[q], fl'[q], sig'[q], fd'[q], filp'[q], closing'[q], HeldBytes'[q])
  <2>1. CloseOne(pc[q], fl[q], sig[q], fd[q], filp[q], closing[q], HeldBytes[q])
    BY CloseParts
  <2> QED
    BY <1>1, <2>1 DEF Untouched
<1> QED
  BY <1>1, CloseParts

LEMMA SameLocksBytes ==
    ASSUME ListInv, SameLocks(i_flock, i_flock') PROVE HeldBytes' = HeldBytes
<1>1. PICK L, M : L = i_flock /\ M = i_flock'
  OBVIOUS
<1>2. Tidy(L) /\ SameLocks(L, M)
  BY <1>1, ListParts
<1>3. HeldMap(M) = HeldMap(L)
  BY <1>2, SameLocksHeld
<1> QED
  BY <1>1, <1>3, Maps

\* No byte is held by a process that has no lock in the list, and the other way round.
LEMMA NoByteNoLock ==
    ASSUME ListInv, NEW p \in Procs, \A b \in 0 .. OFFSET_MAX : HeldBytes[p][b] = "UNLCK"
    PROVE  \A i \in DOMAIN i_flock : i_flock[i].owner # p
<1> SUFFICES ASSUME NEW i \in DOMAIN i_flock, i_flock[i].owner = p PROVE FALSE
  OBVIOUS
<1>1. i_flock \in Seq(Locks) /\ i_flock[i] \in Locks /\ WithinFile(i_flock[i]) /\ DOMAIN i_flock \subseteq Nat
  BY DEF ListInv
<1>2. PICK b \in 0 .. OFFSET_MAX : b = i_flock[i].start /\ b \in i_flock[i].start .. i_flock[i].end
  <2>1. i_flock[i].start \in Int /\ i_flock[i].end \in Int /\ OFFSET_MAX \in Nat
    BY <1>1, LockWithin, PosixAssumption
  <2> QED
    BY <1>1, <2>1 DEF WithinFile
<1> DEFINE on == {j \in DOMAIN i_flock : i_flock[j].owner = p /\ b \in i_flock[j].start .. i_flock[j].end}
<1>3. i \in on /\ on \subseteq Nat
  BY <1>1, <1>2
<1>4. PICK m : m = Min(on) /\ m \in on
  <2> HIDE DEF on
  <2> QED
    BY <1>3, MinOf
<1>5. i_flock[m].type # "UNLCK"
  <2>1. m \in DOMAIN i_flock
    BY <1>4
  <2>2. i_flock[m] \in Locks
    BY <1>1, <2>1
  <2> QED
    BY <2>2 DEF Locks
<1>6. Held(p, b) = i_flock[m].type
  <2>1. on # {}
    BY <1>3
  <2> QED
    BY <1>4, <2>1 DEF Held
<1> QED
  BY <1>5, <1>6 DEF HeldBytes

\* A call comes to its end, with nothing left to undo.
LEMMA ReturnCloses ==
    ASSUME CloseInv, NEW p \in Procs, pc[p] # "idle", Return(p), HeldBytes' = HeldBytes,
           pc \in [Procs -> Places], fl \in [Procs -> Ranges],
           fd[p] = filp[p] \/ pc[p] # IF fl[p].type = "UNLCK" THEN "lock" ELSE "check"
    PROVE  CloseInv'
<1>1. /\ pc' = [pc EXCEPT ![p] = "idle"] /\ fl' = [fl EXCEPT ![p] = NoLock] /\ sig' = [sig EXCEPT ![p] = FALSE]
      /\ filp' = [filp EXCEPT ![p] = 0] /\ fd' = fd /\ closing' = closing
  BY DEF Return
<1>2. CloseTypes(fd, filp, sig, closing) /\ CloseOne(pc[p], fl[p], sig[p], fd[p], filp[p], closing[p], HeldBytes[p])
  BY CloseParts
<1>3. \A q \in Procs : q # p => Untouched(q)
  BY <1>1, <1>2 DEF CloseTypes, Files, Closings, Untouched
<1>4. CloseTypes(fd', filp', sig', closing')
  BY <1>1, <1>2 DEF CloseTypes, Files, Closings
<1>5. /\ pc'[p] = "idle" /\ ~sig'[p] /\ fd'[p] = fd[p] /\ closing'[p] = closing[p] /\ HeldBytes'[p] = HeldBytes[p]
  BY <1>1, <1>2 DEF CloseTypes
<1>6. ASSUME closing[p] = "no", fd[p] = 0 PROVE \A b \in 0 .. OFFSET_MAX : HeldBytes[p][b] = "UNLCK"
  BY <1>2, <1>6 DEF CloseOne
<1>7. CloseOne(pc'[p], fl'[p], sig'[p], fd'[p], filp'[p], closing'[p], HeldBytes'[p])
  BY <1>5, <1>6 DEF CloseOne
<1> QED
  BY <1>3, <1>4, <1>7, OneCloses

\* The call of p goes on, and locks nothing.
LEMMA MoveCloses ==
    ASSUME CloseInv, NEW p \in Procs, NEW a, pc' = [pc EXCEPT ![p] = a], fl' = fl, HeldBytes' = HeldBytes,
           pc \in [Procs -> Places], sig' = sig, fd' = fd, filp' = filp, closing' = closing,
           a = pc[p] \/ (a \notin {"idle", "lock", "check"} /\ pc[p] \in {"io", "io_again"} /\ ~sig[p])
    PROVE  CloseInv'
<1>1. CloseTypes(fd, filp, sig, closing) /\ CloseOne(pc[p], fl[p], sig[p], fd[p], filp[p], closing[p], HeldBytes[p])
  BY CloseParts
<1>2. \A q \in Procs : q # p => Untouched(q)
  BY DEF Untouched
<1>3. pc'[p] = a
  OBVIOUS
<1>4. CloseOne(a, fl[p], sig[p], fd[p], filp[p], closing[p], HeldBytes[p])
  BY <1>1 DEF CloseOne
<1> QED
  BY <1>1, <1>2, <1>3, <1>4, OneCloses

LEMMA CallCloses ==
    ASSUME CloseInv, ListInv, NEW p \in Procs, NEW op \in {"lock", "io"}, NEW requests, Call(p, op, requests)
    PROVE  CloseInv'
<1>1. /\ pc[p] = "idle" /\ fd[p] # 0 /\ filp' = [filp EXCEPT ![p] = fd[p]] /\ pc' = [pc EXCEPT ![p] = op]
      /\ i_flock' = i_flock /\ sig' = sig /\ fd' = fd /\ closing' = closing
      /\ \E v : fl' = [fl EXCEPT ![p] = v]
  BY DEF Call
<1>2. HeldBytes' = HeldBytes
  BY <1>1, SameLocksItself, SameLocksBytes
<1>3. CloseTypes(fd, filp, sig, closing) /\ CloseOne(pc[p], fl[p], sig[p], fd[p], filp[p], closing[p], HeldBytes[p])
  BY CloseParts
<1>4. pc \in [Procs -> Places] /\ fl \in [Procs -> Ranges]
  BY DEF ListInv, Places
<1>5. \A q \in Procs : q # p => Untouched(q)
  BY <1>1, <1>2, <1>3, <1>4 DEF CloseTypes, Files, Untouched
<1>6. CloseTypes(fd', filp', sig', closing')
  BY <1>1, <1>3 DEF CloseTypes, Files
<1>7. pc'[p] = op /\ filp'[p] = fd[p] /\ ~sig[p]
  BY <1>1, <1>3, <1>4 DEF CloseTypes, Files, CloseOne
<1>8. CloseOne(pc'[p], fl'[p], sig'[p], fd'[p], filp'[p], closing'[p], HeldBytes'[p])
  BY <1>1, <1>7 DEF CloseOne
<1> QED
  BY <1>5, <1>6, <1>8, OneCloses

LEMMA BlockedCloses ==
    ASSUME CloseInv, ListInv, NEW p \in Procs, NEW k \in DOMAIN i_flock, NEW again \in {"lock", "io_again"},
           Blocked(p, k, again), fl[p].type # "UNLCK", ~sig[p],
           IF again = "lock" THEN pc[p] = "lock" ELSE pc[p] \in {"io", "io_again"}
    PROVE  CloseInv'
<1>1. pc \in [Procs -> Places] /\ fl \in [Procs -> Ranges]
  BY DEF ListInv, Places
<1>2. CASE ~wait[p] \/ posix_locks_deadlock(p, i_flock[k])
  <2>1. Return(p) /\ i_flock' = i_flock
    BY <1>2 DEF Blocked
  <2>2. HeldBytes' = HeldBytes
    BY <2>1, SameLocksItself, SameLocksBytes
  <2> QED
    BY <1>1, <2>1, <2>2, ReturnCloses
<1>3. CASE ~(~wait[p] \/ posix_locks_deadlock(p, i_flock[k]))
  <2>1. /\ i_flock' = [i_flock EXCEPT ![k].block = @ \cup {p}] /\ pc' = [pc EXCEPT ![p] = again] /\ fl' = fl
        /\ sig' = sig /\ fd' = fd /\ filp' = filp /\ closing' = closing
    BY <1>3 DEF Blocked, fileVars
  <2>2. HeldBytes' = HeldBytes
    BY <2>1, SameLocksItself, QueuedLocks, SameLocksBytes
  <2>3. again = pc[p] \/ (again \notin {"idle", "lock", "check"} /\ pc[p] \in {"io", "io_again"} /\ ~sig[p])
    OBVIOUS
  <2> QED
    BY <1>1, <2>1, <2>2, <2>3, MoveCloses
<1> QED
  BY <1>2, <1>3

\* Without a lock of p the loop has nothing to do, and the request is what it was.
LEMMA NothingToMerge ==
    ASSUME ListInv, NEW p \in Procs, \A i \in DOMAIN i_flock : i_flock[i].owner # p
    PROVE  Looped(p).file = fl[p]
<1>1. Tidy(i_flock) /\ i_flock \in Seq(Locks) /\ fl \in [Procs -> Ranges]
  BY TidyList DEF ListInv
<1>2. PICK n \in Nat : n = Len(i_flock) /\ DOMAIN i_flock = 1 .. n
  BY <1>1
<1>3. PICK f, e : f = FirstOwn(p) /\ e = EndOwn(p)
  OBVIOUS
<1>4. f \in 1 .. n + 1 /\ e \in f - 1 .. n /\ \A j \in f .. e : i_flock[j].owner = p
  BY <1>1, <1>2, <1>3, OwnPart
<1>5. e = f - 1
  <2>1. f <= e => f \in f .. e /\ f \in DOMAIN i_flock
    BY <1>2, <1>4
  <2> QED
    BY <1>4, <2>1
<1>6. PICK u : u[f - 1] = Start(p) /\ Looped(p) = u[e]
  BY <1>1, <1>3, LoopRuns
<1>7. Looped(p) = Start(p)
  BY <1>5, <1>6
<1> QED
  BY <1>7 DEF Start

LEMMA GrantCloses ==
    ASSUME CloseInv, ListInv, NEW p \in Procs, pc[p] = "lock", ~sig[p],
           fl[p].type # "UNLCK" => \A i \in DOMAIN i_flock : ~posix_locks_conflict(p, fl[p], i_flock[i]),
           i_flock' = After(p, Looped(p)), fl' = [fl EXCEPT ![p] = Looped(p).file], pc' = [pc EXCEPT ![p] = "check"],
           sig' = sig, fd' = fd, filp' = filp, closing' = closing
    PROVE  CloseInv'
<1>1. ListInv' /\ Bytes!Grant(p)
  BY GrantStep
<1>2. Tidy(i_flock) /\ pc \in [Procs -> Places] /\ fl \in [Procs -> Ranges] /\ WithinFile(fl[p])
  BY ListParts DEF CallsFit
<1>3. PICK r, v : r = fl[p] /\ v = Looped(p).file
  OBVIOUS
<1>4. v.type = r.type /\ pc'[p] = "check" /\ fl'[p] = v
  BY <1>2, <1>3, LoopGrants
<1>5. AskedFor[p] = r
  BY <1>3 DEF AskedFor
<1>6. HeldBytes' = [HeldBytes EXCEPT ![p] = [b \in 0 .. OFFSET_MAX |->
                                                IF b \in r.start .. r.end THEN r.type ELSE HeldBytes[p][b]]]
  BY <1>1, <1>5 DEF Bytes!Grant, Bytes!Offsets
<1>7. /\ \A q \in Procs : q # p => HeldBytes'[q] = HeldBytes[q]
      /\ \A b \in 0 .. OFFSET_MAX : HeldBytes'[p][b] = IF b \in r.start .. r.end THEN r.type ELSE HeldBytes[p][b]
  BY <1>6 DEF HeldBytes
<1>8. \A q \in Procs : q # p => Untouched(q)
  BY <1>2, <1>7 DEF Untouched
<1>9. CloseTypes(fd, filp, sig, closing) /\ CloseOne(pc[p], fl[p], sig[p], fd[p], filp[p], closing[p], HeldBytes[p])
  BY CloseParts
<1>10. ASSUME closing[p] = "no", filp[p] # fd[p], NEW b \in 0 .. OFFSET_MAX, HeldBytes'[p][b] # "UNLCK"
       PROVE  v.type # "UNLCK" /\ b \in v.start .. v.end
  <2>1. \A c \in 0 .. OFFSET_MAX : HeldBytes[p][c] # "UNLCK" => r.type = "UNLCK" /\ c \in r.start .. r.end
    BY <1>3, <1>9, <1>10 DEF CloseOne
  <2>2. r.type # "UNLCK"
    BY <1>7, <1>10, <2>1
  <2>3. v = r
    <3>1. \A c \in 0 .. OFFSET_MAX : HeldBytes[p][c] = "UNLCK"
      BY <2>1, <2>2
    <3>2. \A i \in DOMAIN i_flock : i_flock[i].owner # p
      BY <3>1, NoByteNoLock
    <3> QED
      BY <1>3, <3>2, NothingToMerge
  <2> QED
    BY <1>7, <1>10, <2>1, <2>2, <2>3
<1>11. CloseOne(pc'[p], fl'[p], sig'[p], fd'[p], filp'[p], closing'[p], HeldBytes'[p])
  BY <1>4, <1>9, <1>10 DEF CloseOne
<1> QED
  BY <1>8, <1>9, <1>11, OneCloses

LEMMA LockCloses ==
    ASSUME CloseInv, ListInv, NEW p \in Procs, posix_lock_file(p)
    PROVE  CloseInv'
<1>1. pc[p] = "lock" /\ i_flock \in Seq(Locks) /\ ~sig[p]
  BY DEF posix_lock_file, ListInv
<1> DEFINE inTheWay == {i \in DOMAIN i_flock : posix_locks_conflict(p, fl[p], i_flock[i])}
<1>2. CASE fl[p].type # "UNLCK" /\ inTheWay # {}
  <2>1. PICK k \in inTheWay : k = Min(inTheWay)
    <3>1. inTheWay \subseteq Nat
      BY <1>1
    <3> HIDE DEF inTheWay
    <3> QED
      BY <1>2, <3>1, MinOf
  <2>2. Blocked(p, k, "lock") /\ k \in DOMAIN i_flock
    BY <1>2, <2>1 DEF posix_lock_file
  <2> QED
    BY <1>1, <1>2, <2>2, BlockedCloses
<1>3. CASE ~(fl[p].type # "UNLCK" /\ inTheWay # {})
  <2>1. /\ i_flock' = After(p, Looped(p)) /\ fl' = [fl EXCEPT ![p] = Looped(p).file]
        /\ pc' = [pc EXCEPT ![p] = "check"]
        /\ sig' = sig /\ fd' = fd /\ filp' = filp /\ closing' = closing
    BY <1>3 DEF posix_lock_file, fileVars
  <2>2. fl[p].type # "UNLCK" => \A i \in DOMAIN i_flock : ~posix_locks_conflict(p, fl[p], i_flock[i])
    BY <1>3
  <2> QED
    BY <1>1, <2>1, <2>2, GrantCloses
<1> QED
  BY <1>2, <1>3

LEMMA MandatoryCloses ==
    ASSUME CloseInv, ListInv, SleepInv, NEW p \in Procs, locks_mandatory_area(p)
    PROVE  CloseInv'
<1>1. /\ i_flock \in Seq(Locks) /\ pc[p] \in {"io", "io_again"} /\ ~sig[p] /\ fl[p].type # "UNLCK"
      /\ pc \in [Procs -> Places]
  BY DEF locks_mandatory_area, ListInv, SleepInv, Places
<1> DEFINE ends == {i \in DOMAIN i_flock : \/ i_flock[i].start > fl[p].end
                                           \/ posix_locks_conflict(p, fl[p], i_flock[i])}
           blocks == /\ pc[p] = "io" \/ mandatory
                     /\ ends # {} /\ ~(i_flock[Min(ends)].start > fl[p].end)
<1>2. CASE blocks
  <2>1. PICK k \in ends : k = Min(ends)
    <3>1. ends \subseteq Nat /\ ends # {}
      BY <1>1, <1>2
    <3> HIDE DEF ends
    <3> QED
      BY <3>1, MinOf
  <2>2. Blocked(p, k, "io_again") /\ k \in DOMAIN i_flock
    BY <1>2, <2>1 DEF locks_mandatory_area
  <2> QED
    BY <1>1, <2>2, BlockedCloses
<1>3. CASE ~blocks
  <2>1. /\ pc' = [pc EXCEPT ![p] = "access"] /\ i_flock' = i_flock /\ fl' = fl
        /\ sig' = sig /\ fd' = fd /\ filp' = filp /\ closing' = closing
    BY <1>3 DEF locks_mandatory_area, fileVars
  <2>2. HeldBytes' = HeldBytes
    BY <2>1, SameLocksItself, SameLocksBytes
  <2>3. PICK a : a = "access" /\ a \notin {"idle", "lock", "check"} /\ pc' = [pc EXCEPT ![p] = a]
    BY <2>1
  <2> QED
    BY <1>1, <2>1, <2>2, <2>3, MoveCloses
<1> QED
  BY <1>2, <1>3

LEMMA RecheckCloses ==
    ASSUME CloseInv, ListInv, AskedInv, NEW p \in Procs, Recheck(p)
    PROVE  CloseInv'
<1>1. pc[p] = "check" /\ i_flock' = i_flock /\ pc \in [Procs -> Places] /\ fl \in [Procs -> Ranges]
  BY DEF Recheck, ListInv, Places
<1>2. HeldBytes' = HeldBytes
  BY <1>1, SameLocksItself, SameLocksBytes
<1>3. CASE ~(l_type[p] # "UNLCK" /\ filp[p] # fd[p])
  <2>1. Return(p)
    BY <1>3 DEF Recheck
  <2>2. fd[p] = filp[p] \/ pc[p] # IF fl[p].type = "UNLCK" THEN "lock" ELSE "check"
    BY <1>1, <1>3 DEF AskedInv
  <2> QED
    BY <1>1, <1>2, <2>1, <2>2, ReturnCloses
<1>4. CASE l_type[p] # "UNLCK" /\ filp[p] # fd[p]
  <2>1. /\ fl' = [fl EXCEPT ![p].type = "UNLCK"] /\ pc' = [pc EXCEPT ![p] = "lock"]
        /\ sig' = sig /\ fd' = fd /\ filp' = filp /\ closing' = closing
    BY <1>4 DEF Recheck, fileVars
  <2>2. CloseTypes(fd, filp, sig, closing) /\ CloseOne(pc[p], fl[p], sig[p], fd[p], filp[p], closing[p], HeldBytes[p])
    BY CloseParts
  <2>3. \A q \in Procs : q # p => Untouched(q)
    BY <1>1, <1>2, <2>1 DEF Untouched
  <2>4. pc'[p] = "lock" /\ fl'[p].type = "UNLCK" /\ fl'[p].start = fl[p].start /\ fl'[p].end = fl[p].end
    <3>1. fl[p] \in Ranges /\ fl'[p] = [fl[p] EXCEPT !.type = "UNLCK"]
      BY <1>1, <2>1
    <3> QED
      BY <1>1, <2>1, <3>1 DEF Ranges
  <2>5. ~sig[p] /\ filp[p] # 0
    BY <1>1, <2>2 DEF CloseOne
  <2>6. closing[p] = "no" => \A b \in 0 .. OFFSET_MAX : HeldBytes[p][b] # "UNLCK" => b \in fl[p].start .. fl[p].end
    BY <1>1, <1>4, <2>2 DEF CloseOne
  <2>7. CloseOne(pc'[p], fl'[p], sig'[p], fd'[p], filp'[p], closing'[p], HeldBytes'[p])
    BY <1>2, <2>1, <2>4, <2>5, <2>6 DEF CloseOne
  <2> QED
    BY <2>1, <2>2, <2>3, <2>7, OneCloses
<1> QED
  BY <1>3, <1>4

\* Access, and the calls that are interrupted
LEMMA EndCloses ==
    ASSUME CloseInv, ListInv, NEW p \in Procs, Access(p) \/ Interrupted(p)
    PROVE  CloseInv'
<1>1. /\ Return(p) /\ pc \in [Procs -> Places] /\ fl \in [Procs -> Ranges] /\ i_flock \in Seq(Locks)
      /\ i_flock' \in {i_flock, Unqueued(p)}
  BY DEF Access, Interrupted, ListInv, Places
<1>2. HeldBytes' = HeldBytes
  BY <1>1, SameLocksItself, QueuedLocks, SameLocksBytes
<1>3. CloseOne(pc[p], fl[p], sig[p], fd[p], filp[p], closing[p], HeldBytes[p])
  BY CloseParts
<1>4. pc[p] # "idle" /\ pc[p] # IF fl[p].type = "UNLCK" THEN "lock" ELSE "check"
  BY <1>3 DEF Access, Interrupted, CloseOne
<1> QED
  BY <1>1, <1>2, <1>4, ReturnCloses

LEMMA SignalCloses ==
    ASSUME CloseInv, ListInv, SleepInv, NEW p \in Procs, Signal(p)
    PROVE  CloseInv'
<1>1. /\ pc[p] \in {"lock", "io_again"} /\ fl[p].type # "UNLCK" /\ sig' = [sig EXCEPT ![p] = TRUE]
      /\ i_flock' = i_flock /\ fl' = fl /\ pc' = pc /\ fd' = fd /\ filp' = filp /\ closing' = closing
  BY DEF Signal, SleepInv, fileVars
<1>2. HeldBytes' = HeldBytes
  BY <1>1, SameLocksItself, SameLocksBytes
<1>3. CloseTypes(fd, filp, sig, closing) /\ CloseOne(pc[p], fl[p], sig[p], fd[p], filp[p], closing[p], HeldBytes[p])
  BY CloseParts
<1>4. (\A q \in Procs : q # p => Untouched(q)) /\ CloseTypes(fd', filp', sig', closing')
  BY <1>1, <1>2, <1>3 DEF CloseTypes, Untouched
<1>5. CloseOne(pc[p], fl[p], sig'[p], fd[p], filp[p], closing[p], HeldBytes[p])
  BY <1>1, <1>3 DEF CloseOne
<1> QED
  BY <1>1, <1>2, <1>4, <1>5, OneCloses

\* The other thread: p's own call stays where it is.
LEMMA ThreadCloses ==
    ASSUME CloseInv, NEW p \in Procs, fl' = fl, pc' = pc, sig' = sig, filp' = filp,
           \A q \in Procs : q # p => HeldBytes'[q] = HeldBytes[q],
           NEW o \in 0 .. 2, fd' = [fd EXCEPT ![p] = o],
           NEW k \in {"no", "look", "remove"}, closing' = [closing EXCEPT ![p] = k],
           \/ k # "no"
           \/ \A b \in 0 .. OFFSET_MAX : HeldBytes'[p][b] = "UNLCK"
           \/ closing[p] = "no" /\ fd[p] = 0 /\ HeldBytes'[p] = HeldBytes[p]
    PROVE  CloseInv'
<1>1. CloseTypes(fd, filp, sig, closing) /\ CloseOne(pc[p], fl[p], sig[p], fd[p], filp[p], closing[p], HeldBytes[p])
  BY CloseParts
<1>2. fd'[p] = o /\ closing'[p] = k /\ CloseTypes(fd', filp', sig', closing')
  BY <1>1 DEF CloseTypes, Files, Closings
<1>3. \A q \in Procs : q # p => Untouched(q)
  BY <1>1 DEF CloseTypes, Files, Closings, Untouched
<1>4. CloseOne(pc[p], fl[p], sig[p], o, filp[p], k, HeldBytes'[p])
  <2>1. CASE k # "no" \/ \A b \in 0 .. OFFSET_MAX : HeldBytes'[p][b] = "UNLCK"
    BY <1>1, <2>1 DEF CloseOne
  <2>2. CASE closing[p] = "no" /\ fd[p] = 0 /\ HeldBytes'[p] = HeldBytes[p]
    BY <1>1, <2>2 DEF CloseOne
  <2> QED
    BY <2>1, <2>2
<1> QED
  BY <1>2, <1>3, <1>4, OneCloses

LEMMA CloseCloses ==
    ASSUME CloseInv, ListInv, NEW p \in Procs, Close(p) \/ Look(p) \/ locks_remove_posix(p) \/ Open(p)
    PROVE  CloseInv'
<1>1. fd \in Files /\ filp \in Files /\ closing \in Closings
  BY CloseParts DEF CloseTypes
<1>2. fl' = fl /\ pc' = pc /\ sig' = sig /\ filp' = filp
  BY DEF Close, Look, locks_remove_posix, Open, callVars
<1>3. ASSUME i_flock' = i_flock PROVE HeldBytes' = HeldBytes
  BY <1>3, SameLocksItself, SameLocksBytes
<1>4. CASE Close(p)
  <2>1. PICK o \in 0 .. 2, k \in {"no", "look", "remove"} : o = 0 /\ k = "look"
    OBVIOUS
  <2>2. fd' = [fd EXCEPT ![p] = o] /\ closing' = [closing EXCEPT ![p] = k] /\ k # "no" /\ HeldBytes' = HeldBytes
    BY <1>3, <1>4, <2>1 DEF Close
  <2> QED
    BY <1>2, <2>2, ThreadCloses
<1>5. CASE Look(p)
  <2>1. PICK o \in 0 .. 2, k \in {"no", "look", "remove"} : o = fd[p] /\ k = IF i_flock = <<>> THEN "no" ELSE "remove"
    BY <1>1 DEF Files
  <2>2. fd' = [fd EXCEPT ![p] = o] /\ closing' = [closing EXCEPT ![p] = k] /\ HeldBytes' = HeldBytes
    BY <1>1, <1>3, <1>5, <2>1 DEF Look, Files
  <2>3. k # "no" \/ \A b \in 0 .. OFFSET_MAX : HeldBytes[p][b] = "UNLCK"
    <3>1. ASSUME i_flock = <<>> PROVE \A b \in 0 .. OFFSET_MAX : HeldBytes[p][b] = "UNLCK"
      <4>1. DOMAIN i_flock = {}
        BY <3>1
      <4> QED
        BY <4>1 DEF HeldBytes, Held
    <3> QED
      BY <2>1, <3>1
  <2> QED
    BY <1>2, <2>2, <2>3, ThreadCloses
<1>6. CASE locks_remove_posix(p)
  <2>1. PICK o \in 0 .. 2, k \in {"no", "look", "remove"} : o = fd[p] /\ k = "no"
    BY <1>1 DEF Files
  <2>2. fd' = [fd EXCEPT ![p] = o] /\ closing' = [closing EXCEPT ![p] = k] /\ i_flock' = Others(p)
    BY <1>1, <1>6, <2>1 DEF locks_remove_posix, Files
  <2>3. Bytes!Drop(p)
    BY <1>2, <2>2, DropStep
  <2>4. HeldBytes' = [HeldBytes EXCEPT ![p] = [b \in 0 .. OFFSET_MAX |-> "UNLCK"]]
    BY <2>3 DEF Bytes!Drop, Bytes!Offsets
  <2>5. /\ \A q \in Procs : q # p => HeldBytes'[q] = HeldBytes[q]
        /\ \A b \in 0 .. OFFSET_MAX : HeldBytes'[p][b] = "UNLCK"
    BY <2>4 DEF HeldBytes
  <2> QED
    BY <1>2, <2>2, <2>5, ThreadCloses
<1>7. CASE Open(p)
  <2>1. fd[p] = 0 /\ closing[p] = "no" /\ closing' = closing /\ HeldBytes' = HeldBytes
    BY <1>3, <1>7 DEF Open
  <2>2. PICK T : T = {1, 2} \ {filp[p]}
    OBVIOUS
  <2>3. T \subseteq Nat /\ T # {} /\ T \subseteq 0 .. 2
    BY <2>2
  <2>4. Min(T) \in 0 .. 2 /\ filp[p] \in 0 .. 2
    BY <1>1, <2>3, MinOf DEF Files
  <2>5. PICK o \in {Min(T), filp[p]} : fd' = [fd EXCEPT ![p] = o]
    BY <1>7, <2>2 DEF Open
  <2>6. PICK k \in {"no", "look", "remove"} : k = "no" /\ closing' = [closing EXCEPT ![p] = k]
    BY <1>1, <2>1 DEF Closings
  <2>7. o \in 0 .. 2
    BY <2>4, <2>5
  <2> QED
    BY <1>2, <2>1, <2>5, <2>6, <2>7, ThreadCloses
<1> QED
  BY <1>4, <1>5, <1>6, <1>7

LEMMA NextCloses ==
    ASSUME CloseInv, ListInv, SleepInv, AskedInv, ~NoMemory, [Next]_vars PROVE CloseInv'
<1>1. ASSUME NEW p \in Procs, fcntl_setlk(p) \/ ReadWrite(p) PROVE CloseInv'
  BY <1>1, CallCloses DEF fcntl_setlk, ReadWrite
<1>2. ASSUME NEW p \in Procs PROVE ~OutOfMemory(p)
  BY DEF OutOfMemory
<1>3. CASE ChangeMode \/ UNCHANGED vars
  <2>1. /\ i_flock' = i_flock /\ fl' = fl /\ pc' = pc /\ sig' = sig /\ fd' = fd /\ filp' = filp /\ closing' = closing
    BY <1>3 DEF ChangeMode, vars
  <2>2. HeldBytes' = HeldBytes
    BY <2>1, SameLocksItself, SameLocksBytes
  <2> QED
    BY <2>1, <2>2, CloseParts
<1> QED
  BY <1>1, <1>2, <1>3, LockCloses, MandatoryCloses, RecheckCloses, EndCloses, SignalCloses, CloseCloses DEF Next

LEMMA InitCloses ==
    ASSUME Init PROVE CloseInv
<1>1. /\ fd = [p \in Procs |-> 1] /\ filp = [p \in Procs |-> 0] /\ sig = [p \in Procs |-> FALSE]
      /\ closing = [p \in Procs |-> "no"] /\ pc = [p \in Procs |-> "idle"]
  BY DEF Init
<1>2. CloseTypes(fd, filp, sig, closing)
  BY <1>1 DEF CloseTypes, Files, Closings
<1>3. ASSUME NEW p \in Procs PROVE CloseOne(pc[p], fl[p], sig[p], fd[p], filp[p], closing[p], HeldBytes[p])
  BY <1>1 DEF CloseOne
<1> QED
  BY <1>2, <1>3, CloseParts

\* l_type is UNLCK only if the request is.
LEMMA NextAsks ==
    ASSUME AskedInv, ListInv, [Next]_vars PROVE AskedInv'
<1>1. pc \in [Procs -> Places] /\ fl \in [Procs -> Ranges] /\ l_type \in [Procs -> Types]
  BY DEF ListInv, AskedInv, Places
<1>2. ASSUME fl' = fl, l_type' = l_type PROVE AskedInv'
  BY <1>2 DEF AskedInv
<1>3. ASSUME NEW p \in Procs, Return(p) PROVE AskedInv'
  BY <1>1, <1>3 DEF Return, NoLock, AskedInv, Types
<1>4. ASSUME NEW p \in Procs, NEW op, NEW requests, Call(p, op, requests), requests \in {Requests, Accesses}
      PROVE  AskedInv'
  <2>1. PICK r \in requests : /\ fl' = [fl EXCEPT ![p] = [type |-> r.type, start |-> r.start, end |-> r.end]]
                              /\ l_type' = [l_type EXCEPT ![p] = r.type]
    BY <1>4 DEF Call
  <2>2. r.type \in Types
    BY <1>4, PosixAssumption DEF Types
  <2>3. fl'[p].type = r.type /\ l_type'[p] = r.type
    BY <1>1, <2>1
  <2>4. \A q \in Procs : q # p => fl'[q] = fl[q] /\ l_type'[q] = l_type[q]
    BY <1>1, <2>1
  <2>5. l_type' \in [Procs -> Types]
    BY <1>1, <2>1, <2>2
  <2> QED
    BY <2>3, <2>4, <2>5 DEF AskedInv
<1>5. ASSUME NEW p \in Procs, posix_lock_file(p) PROVE AskedInv'
  <2>1. pc[p] = "lock" /\ Tidy(i_flock) /\ WithinFile(fl[p])
    BY <1>5, ListParts DEF posix_lock_file, CallsFit
  <2>2. \/ Return(p)
        \/ fl' = fl /\ l_type' = l_type
        \/ fl' = [fl EXCEPT ![p] = Looped(p).file] /\ l_type' = l_type
    BY <1>5 DEF posix_lock_file, Blocked, fileVars
  <2>3. CASE fl' = [fl EXCEPT ![p] = Looped(p).file] /\ l_type' = l_type
    <3>1. PICK r, v : r = fl[p] /\ v = Looped(p).file
      OBVIOUS
    <3>2. v.type = r.type
      BY <1>1, <2>1, <3>1, LoopGrants
    <3>3. fl'[p].type = fl[p].type /\ \A q \in Procs : q # p => fl'[q] = fl[q]
      BY <1>1, <2>3, <3>1, <3>2
    <3> QED
      BY <2>3, <3>3 DEF AskedInv
  <2> QED
    BY <1>2, <1>3, <2>2, <2>3
<1>6. ASSUME NEW p \in Procs, Recheck(p) PROVE AskedInv'
  <2>1. CASE Return(p)
    BY <1>3, <2>1
  <2>2. CASE ~Return(p)
    <3>1. fl' = [fl EXCEPT ![p].type = "UNLCK"] /\ l_type' = l_type
      BY <1>6, <2>2 DEF Recheck, fileVars
    <3>2. fl[p] \in Ranges /\ fl'[p] = [fl[p] EXCEPT !.type = "UNLCK"]
      BY <1>1, <3>1
    <3>3. fl'[p].type = "UNLCK" /\ \A q \in Procs : q # p => fl'[q] = fl[q]
      BY <1>1, <3>1, <3>2 DEF Ranges
    <3> QED
      BY <3>1, <3>3 DEF AskedInv
  <2> QED
    BY <2>1, <2>2
<1>7. ASSUME NEW p \in Procs, locks_mandatory_area(p) PROVE AskedInv'
  <2>1. Return(p) \/ (fl' = fl /\ l_type' = l_type)
    BY <1>7 DEF locks_mandatory_area, Blocked, fileVars
  <2> QED
    BY <1>2, <1>3, <2>1
<1>8. ASSUME NEW p \in Procs, Access(p) \/ Interrupted(p) \/ OutOfMemory(p) PROVE AskedInv'
  BY <1>3, <1>8 DEF Access, Interrupted, OutOfMemory
<1>9. ASSUME NEW p \in Procs, Signal(p) \/ Close(p) \/ Look(p) \/ locks_remove_posix(p) \/ Open(p)
      PROVE  AskedInv'
  BY <1>2, <1>9 DEF Signal, Close, Look, locks_remove_posix, Open, callVars, fileVars
<1>10. CASE ChangeMode \/ UNCHANGED vars
  BY <1>2, <1>10 DEF ChangeMode, vars
<1>11. ASSUME NEW p \in Procs, fcntl_setlk(p) \/ ReadWrite(p) PROVE AskedInv'
  BY <1>4, <1>11 DEF fcntl_setlk, ReadWrite
<1> QED
  BY <1>5, <1>6, <1>7, <1>8, <1>9, <1>10, <1>11 DEF Next

LEMMA AskedInvariant ==
    ASSUME LastByteFree PROVE Spec => []AskedInv
<1>1. Init => AskedInv
  BY DEF Init, AskedInv, NoLock, Types
<1>2. AskedInv /\ ListInv /\ [Next]_vars => AskedInv'
  BY NextAsks
<1> QED
  BY <1>1, <1>2, ListInvariant, PTL DEF Spec

\* What fcntl_setlk locks after another thread has closed the file, it undoes, however often it
\* goes round: CloseInv holds.
THEOREM CloseInvariant ==
    ASSUME LastByteFree, ~NoMemory PROVE Spec => []CloseInv
<1>1. Init => CloseInv
  BY InitCloses
<1>2. CloseInv /\ ListInv /\ SleepInv /\ AskedInv /\ [Next]_vars => CloseInv'
  BY NextCloses
<1> QED
  BY <1>1, <1>2, ListInvariant, SleepInvariant, AskedInvariant, PTL DEF Spec

\* When a file is closed, the calls that raced with close leave no lock of the process in the
\* list: when they have returned, and each time that they have undone it and look again.
THEOREM NoLockIsStuck ==
    ASSUME LastByteFree, ~NoMemory PROVE Spec => []NoStuckLock
<1>1. CloseInv /\ ListInv => NoStuckLock
  <2> SUFFICES ASSUME CloseInv, ListInv, NEW p \in Procs, Closed(p),
                      pc[p] = "idle" \/ (pc[p] = "check" /\ fl[p].type = "UNLCK")
               PROVE  \A i \in DOMAIN i_flock : i_flock[i].owner # p
    BY DEF NoStuckLock
  <2>1. CloseOne(pc[p], fl[p], sig[p], fd[p], filp[p], closing[p], HeldBytes[p])
    BY CloseParts
  <2>2. \A b \in 0 .. OFFSET_MAX : HeldBytes[p][b] = "UNLCK"
    BY <2>1 DEF CloseOne, Closed
  <2> QED
    BY <2>2, NoByteNoLock
<1> QED
  BY <1>1, CloseInvariant, ListInvariant, PTL
-----------------------------------------------------------------------------
(* flock() and leases, the other locks in the list.                        *)

CONSTANTS Tasks, OpenFiles, FileOf, Flocks, Leases, Opens, Renews, BreakTime

VARIABLES f_flock, bkl, f_pc, arg, gone, f_asleep, f_sig, timedout, open

F == INSTANCE FlockLease WITH
    Files <- OpenFiles, i_flock <- f_flock, pc <- f_pc, asleep <- f_asleep, sig <- f_sig

LEMMA SameMax == ASSUME NEW T PROVE F!Max(T) = Max(T)
BY DEF F!Max, Max

LEMMA SameMin == ASSUME NEW T PROVE F!Min(T) = Min(T)
BY DEF F!Min, Min

\* The places in u are different places in l.
Injects(u, l, h) ==
    /\ h \in [DOMAIN u -> DOMAIN l]
    /\ \A i, j \in DOMAIN u : h[i] = h[j] => i = j

\* u consists of the elements of l at the places in K.
Remains(u, l, K) ==
    \E h \in [DOMAIN u -> K] :
        /\ \A i \in DOMAIN u : u[i] = l[h[i]]
        /\ \A i, j \in DOMAIN u : h[i] = h[j] => i = j
        /\ \A k \in K : \E i \in DOMAIN u : h[i] = k

LEMMA RemainsMore ==
    ASSUME NEW S, NEW u \in Seq(S), NEW l, NEW k, NEW K, k \notin K, Remains(u, l, K),
           NEW x \in S, x = l[k]
    PROVE  Remains(Append(u, x), l, K \cup {k})
<1>1. PICK D, m, v, E : D = DOMAIN u /\ E = DOMAIN v /\ m = Len(u) + 1 /\ v = Append(u, x)
  OBVIOUS
<1>2. PICK h \in [D -> K] :
          /\ \A i \in D : u[i] = l[h[i]]
          /\ \A i, j \in D : h[i] = h[j] => i = j
          /\ \A j \in K : \E i \in D : h[i] = j
  <2>1. PICK h \in [DOMAIN u -> K] :
            /\ \A i \in DOMAIN u : u[i] = l[h[i]]
            /\ \A i, j \in DOMAIN u : h[i] = h[j] => i = j
            /\ \A j \in K : \E i \in DOMAIN u : h[i] = j
    BY Zenon DEF Remains
  <2> QED
    BY <1>1, <2>1
<1>3. m \notin D /\ E = D \cup {m} /\ v[m] = x /\ \A i \in D : v[i] = u[i]
  BY <1>1
<1> DEFINE g == [i \in E |-> IF i = m THEN k ELSE h[i]]
<1>4. g[m] = k /\ \A i \in D : g[i] = h[i] /\ h[i] \in K
  BY <1>3
<1>5. g \in [E -> K \cup {k}]
  BY <1>3, <1>4
<1> HIDE DEF g
<1>6. \A i \in E : v[i] = l[g[i]]
  BY <1>2, <1>3, <1>4
<1>7. \A i, j \in E : g[i] = g[j] => i = j
  BY <1>2, <1>3, <1>4
<1>8. \A j \in K \cup {k} : \E i \in E : g[i] = j
  BY <1>2, <1>3, <1>4
<1>9. Remains(v, l, K \cup {k})
  <2>1. /\ g \in [DOMAIN v -> K \cup {k}] /\ \A i \in DOMAIN v : v[i] = l[g[i]]
        /\ \A i, j \in DOMAIN v : g[i] = g[j] => i = j
        /\ \A j \in K \cup {k} : \E i \in DOMAIN v : g[i] = j
    BY <1>1, <1>5, <1>6, <1>7, <1>8
  <2> QED
    BY <2>1, Zenon DEF Remains
<1> QED
  BY <1>1, <1>9

\* What is left of a list, in the same order.
LEMMA WithoutParts ==
    ASSUME NEW S, NEW l \in Seq(S), NEW out
    PROVE  /\ F!Without(l, out) \in Seq(S)
           /\ Remains(F!Without(l, out), l, DOMAIN l \ out)
<1>0. PICK SS : SS = Seq(S)
  OBVIOUS
<1>1. PICK n \in Nat, s0 \in SS : n = Len(l) /\ s0 = <<>>
  <2>1. Len(l) \in Nat /\ <<>> \in Seq(S)
    OBVIOUS
  <2> QED
    BY <1>0, <2>1
<1>2. (\A i \in 1 .. n : l[i] \in S) /\ DOMAIN l = 1 .. n
  BY <1>1
<1> DEFINE One(s, i) == IF i \in out THEN s ELSE Append(s, l[i])
<1>3. \A s \in SS, i \in 1 .. n : One(s, i) \in SS
  BY <1>0, <1>2
<1>4. PICK step \in [SS \X (1 .. n) -> SS] : \A s \in SS, i \in 1 .. n : step[<<s, i>>] = One(s, i)
  <2> HIDE DEF One
  <2> DEFINE step == [x \in SS \X (1 .. n) |-> One(x[1], x[2])]
  <2>1. step \in [SS \X (1 .. n) -> SS]
    BY <1>3
  <2>2. \A s \in SS, i \in 1 .. n : step[<<s, i>>] = One(s, i)
    OBVIOUS
  <2> HIDE DEF step
  <2> QED
    BY <2>1, <2>2
<1> HIDE DEF One
<1>5. PICK g \in [0 .. n -> SS] : g[0] = s0 /\ \A i \in 1 .. n : g[i] = step[<<g[i - 1], i>>]
  <2>1. step \in Steps(SS, n)
    BY <1>4 DEF Steps
  <2>2. PICK g : IsRun(g, n, SS, s0, step)
    BY <2>1, Rounds
  <2> QED
    BY <2>2 DEF IsRun
<1>6. ASSUME NEW i \in 1 .. n PROVE g[i] = One(g[i - 1], i)
  <2>1. g[i - 1] \in SS
    BY <1>5
  <2> QED
    BY <1>4, <1>5, <2>1
<1> DEFINE Eq(u) == u = [i \in 0 .. n |-> IF i = 0 THEN <<>>
                                          ELSE IF i \in out THEN u[i - 1]
                                          ELSE Append(u[i - 1], l[i])]
<1>7. Eq(g)
  <2>1. ASSUME NEW i \in 0 .. n
        PROVE  g[i] = IF i = 0 THEN <<>>
                      ELSE IF i \in out THEN g[i - 1]
                      ELSE Append(g[i - 1], l[i])
    <3>1. CASE i = 0
      BY <1>1, <1>5, <3>1
    <3>2. CASE i # 0
      <4>1. i \in 1 .. n
        BY <3>2
      <4> QED
        BY <1>6, <3>2, <4>1 DEF One
    <3> QED
      BY <3>1, <3>2
  <2> QED
    BY <2>1
<1>8. PICK u : u = CHOOSE v : Eq(v)
  OBVIOUS
<1>9. Eq(u)
  BY <1>7, <1>8
<1>10. F!Without(l, out) = u[n]
  BY <1>1, <1>8 DEF F!Without
<1> DEFINE T == {k \in Nat : k <= n => u[k] \in Seq(S) /\ Remains(u[k], l, (1 .. k) \ out)}
<1>11. 0 \in T
  <2>1. u[0] = <<>>
    BY <1>9
  <2>2. <<>> \in Seq(S) /\ DOMAIN <<>> = {} /\ <<>> \in [{} -> {}] /\ 1 .. 0 = {}
    OBVIOUS
  <2>3. Remains(<<>>, l, (1 .. 0) \ out)
    BY <2>2 DEF Remains
  <2> QED
    BY <2>1, <2>2, <2>3
<1>12. ASSUME NEW k \in Nat, k \in T PROVE k + 1 \in T
  <2> SUFFICES ASSUME k + 1 <= n
               PROVE  u[k + 1] \in Seq(S) /\ Remains(u[k + 1], l, (1 .. k + 1) \ out)
    OBVIOUS
  <2>1. k + 1 \in 1 .. n /\ k + 1 \in 0 .. n /\ k + 1 # 0 /\ (k + 1) - 1 = k /\ k <= n
    OBVIOUS
  <2>2. PICK s \in Seq(S) : s = u[k] /\ Remains(s, l, (1 .. k) \ out)
    BY <1>12, <2>1
  <2>3. PICK x \in S : x = l[k + 1]
    BY <1>2, <2>1
  <2>4. u[k + 1] = IF k + 1 \in out THEN s ELSE Append(s, x)
    BY <1>9, <2>1, <2>2, <2>3
  <2>5. 1 .. k + 1 = (1 .. k) \cup {k + 1} /\ k + 1 \notin 1 .. k
    OBVIOUS
  <2>6. CASE k + 1 \in out
    <3>1. (1 .. k + 1) \ out = (1 .. k) \ out
      BY <2>5, <2>6
    <3> QED
      BY <2>2, <2>4, <2>6, <3>1
  <2>7. CASE k + 1 \notin out
    <3>1. (1 .. k + 1) \ out = ((1 .. k) \ out) \cup {k + 1} /\ k + 1 \notin (1 .. k) \ out
      BY <2>5, <2>7
    <3>2. PICK K, m : K = (1 .. k) \ out /\ m = k + 1
      OBVIOUS
    <3>3. m \notin K /\ Remains(s, l, K) /\ x = l[m]
      BY <2>2, <2>3, <3>1, <3>2
    <3>4. Remains(Append(s, x), l, K \cup {m})
      BY <3>3, RemainsMore
    <3>5. Append(s, x) \in Seq(S)
      OBVIOUS
    <3> QED
      BY <2>4, <2>7, <3>1, <3>2, <3>4, <3>5
  <2> QED
    BY <2>6, <2>7
<1>13. u[n] \in Seq(S) /\ Remains(u[n], l, (1 .. n) \ out)
  <2>1. n \in T
    <3> HIDE DEF T
    <3> QED
      BY <1>11, <1>12, Induction
  <2> QED
    BY <2>1
<1> QED
  BY <1>2, <1>10, <1>13

\* Every element that remains has its place in the list, and the other way round.
LEMMA RemainsParts ==
    ASSUME NEW S, NEW l \in Seq(S), NEW u \in Seq(S), NEW out, Remains(u, l, DOMAIN l \ out)
    PROVE  /\ \A j \in DOMAIN u : \E i \in DOMAIN l \ out : u[j] = l[i]
           /\ \A i \in DOMAIN l \ out : \E j \in DOMAIN u : u[j] = l[i]
<1>1. PICK D, K : D = DOMAIN u /\ K = DOMAIN l \ out
  OBVIOUS
<1>2. PICK h \in [D -> K] : (\A i \in D : u[i] = l[h[i]]) /\ \A k \in K : \E i \in D : h[i] = k
  BY <1>1, SMTT(30) DEF Remains
<1>3. (\A j \in D : \E i \in K : u[j] = l[i]) /\ \A i \in K : \E j \in D : u[j] = l[i]
  BY <1>2
<1> QED
  BY <1>1, <1>3

\* The run at the head of the list.
LEMMA RunParts ==
    ASSUME NEW S, NEW l \in Seq(S), NEW lease
    PROVE  /\ F!Run(l, lease) \in 0 .. Len(l)
           /\ \A i \in 1 .. F!Run(l, lease) : i \in DOMAIN l /\ l[i].lease = lease
           /\ (\A i \in DOMAIN l : l[i].lease = lease) => F!Run(l, lease) = Len(l)
<1>1. PICK n \in Nat : n = Len(l) /\ DOMAIN l = 1 .. n
  OBVIOUS
<1>2. PICK T : T = {k \in 0 .. n : \A i \in 1 .. k : l[i].lease = lease}
  OBVIOUS
<1>3. 0 \in T /\ T \subseteq 0 .. n
  BY <1>2
<1>4. Max(T) \in T /\ \A y \in T : Max(T) >= y
  BY <1>3, MaxOf
<1>5. F!Run(l, lease) = Max(T)
  BY <1>1, <1>2, SameMax DEF F!Run
<1>6. PICK r \in 0 .. n : r = F!Run(l, lease) /\ r \in T /\ \A y \in T : r >= y
  BY <1>2, <1>4, <1>5
<1>7. \A i \in 1 .. r : i \in 1 .. n /\ l[i].lease = lease
  BY <1>2, <1>6
<1>8. ASSUME \A i \in DOMAIN l : l[i].lease = lease PROVE r = n
  <2>1. n \in T
    BY <1>1, <1>2, <1>8
  <2> QED
    BY <1>6, <2>1
<1> QED
  BY <1>1, <1>6, <1>7, <1>8

LEMMA FlockFields ==
    ASSUME NEW lock \in F!Locks
    PROVE  /\ lock.lease \in BOOLEAN /\ lock.file \in OpenFiles /\ lock.owner \in Tasks
           /\ lock.type \in {"RDLCK", "WRLCK", "UNLCK"} /\ lock.breaking \in BOOLEAN
           /\ lock.timer \in {"off", "on", "over"} /\ lock.block \in SUBSET Tasks
BY DEF F!Locks

\* m is the lock l, or what lease_modify has made of it.
Ended(m, l) ==
    \/ m = l
    \/ /\ l.lease /\ l.breaking /\ l.type # "UNLCK"
       /\ m = [l EXCEPT !.breaking = FALSE, !.block = {}]

\* time_out_leases.
LEMMA TimedOutParts ==
    ASSUME NEW l \in Seq(F!Locks)
    PROVE  /\ F!TimedOut(l).list \in Seq(F!Locks)
           /\ \A i \in DOMAIN l :
                \/ \E j \in DOMAIN F!TimedOut(l).list : F!TimedOut(l).list[j] = l[i]
                \/ l[i].lease /\ l[i].breaking /\ l[i].block \subseteq F!TimedOut(l).woken
           /\ \E h : /\ Injects(F!TimedOut(l).list, l, h)
                     /\ \A j \in DOMAIN F!TimedOut(l).list : Ended(F!TimedOut(l).list[j], l[h[j]])
<1>1. PICK n \in Nat : n = Len(l) /\ DOMAIN l = 1 .. n /\ \A i \in 1 .. n : l[i] \in F!Locks
  OBVIOUS
<1>2. PICK H : H = {k \in 0 .. n : \A i \in 1 .. k : l[i].lease /\ l[i].breaking}
  OBVIOUS
<1>3. 0 \in H /\ H \subseteq 0 .. n
  BY <1>2
<1>4. Max(H) \in H
  BY <1>3, MaxOf
<1>5. PICK over : over = {i \in 1 .. Max(H) : l[i].timer = "over"}
  OBVIOUS
<1>6. \A i \in over : i \in DOMAIN l /\ l[i].lease /\ l[i].breaking
  BY <1>1, <1>2, <1>4, <1>5
<1>7. PICK out : out = {i \in over : l[i].type = "UNLCK"}
  OBVIOUS
<1>8. PICK e : e = [i \in DOMAIN l |->
                       IF i \in over THEN [l[i] EXCEPT !.breaking = FALSE, !.block = {}] ELSE l[i]]
  OBVIOUS
<1>9. PICK u, w : u = F!Without(e, out) /\ w = UNION {l[i].block : i \in over}
  OBVIOUS
<1>10. F!TimedOut(l).list = u /\ F!TimedOut(l).woken = w
  BY <1>1, <1>2, <1>5, <1>7, <1>8, <1>9, SameMax DEF F!TimedOut
<1>11. e \in Seq(F!Locks) /\ DOMAIN e = DOMAIN l
  <2>1. ASSUME NEW i \in 1 .. n PROVE e[i] \in F!Locks
    <3>1. PICK x \in F!Locks : x = l[i]
      BY <1>1
    <3>2. [x EXCEPT !.breaking = FALSE, !.block = {}] \in F!Locks
      BY ONLY x \in F!Locks DEF F!Locks
    <3> QED
      BY <1>1, <1>8, <3>1, <3>2
  <2>2. e = [i \in 1 .. n |-> e[i]] /\ DOMAIN e = 1 .. n
    BY <1>1, <1>8
  <2> QED
    BY <1>1, <2>1, <2>2
<1>12. u \in Seq(F!Locks) /\ Remains(u, e, DOMAIN e \ out)
  BY <1>9, <1>11, WithoutParts
<1>13. PICK D, K : D = DOMAIN u /\ K = DOMAIN l \ out
  OBVIOUS
<1>14. PICK h \in [D -> K] :
           /\ \A i \in D : u[i] = e[h[i]]
           /\ \A i, j \in D : h[i] = h[j] => i = j
           /\ \A k \in K : \E i \in D : h[i] = k
  <2>1. PICK h \in [DOMAIN u -> DOMAIN e \ out] :
            /\ \A i \in DOMAIN u : u[i] = e[h[i]]
            /\ \A i, j \in DOMAIN u : h[i] = h[j] => i = j
            /\ \A k \in DOMAIN e \ out : \E i \in DOMAIN u : h[i] = k
    BY <1>12, Zenon DEF Remains
  <2> QED
    BY <1>11, <1>13, <2>1
<1>15. ASSUME NEW i \in DOMAIN l
       PROVE  \/ \E j \in DOMAIN u : u[j] = l[i]
              \/ l[i].lease /\ l[i].breaking /\ l[i].block \subseteq w
  <2>1. CASE i \in over
    BY <1>6, <1>9, <2>1
  <2>2. CASE i \notin over
    <3>1. i \in K /\ e[i] = l[i]
      BY <1>7, <1>8, <1>13, <2>2
    <3>2. PICK j \in D : h[j] = i
      BY <1>14, <3>1
    <3> QED
      BY <1>13, <1>14, <3>1, <3>2
  <2> QED
    BY <2>1, <2>2
<1>16. Injects(u, l, h)
  BY <1>13, <1>14 DEF Injects
<1>17. ASSUME NEW j \in DOMAIN u PROVE Ended(u[j], l[h[j]])
  <2>1. h[j] \in DOMAIN l \ out /\ u[j] = e[h[j]]
    BY <1>13, <1>14
  <2> QED
    BY <1>6, <1>7, <1>8, <2>1 DEF Ended
<1> QED
  BY <1>10, <1>12, <1>15, <1>16, <1>17

-----------------------------------------------------------------------------
(* Who sleeps behind a lock stays behind it, or is woken.                  *)

\* m is in the way of the same sleepers as l.
Stays(l, m) ==
    /\ m.lease = l.lease /\ m.file = l.file /\ (~l.lease => m.type = l.type)
    /\ l.breaking => m.breaking

\* Between the lists l and m nobody but w loses the lock that he is behind.
Carry(l, m, w) ==
    \A i \in DOMAIN l : \A t \in l[i].block :
        t \in w \/ \E j \in DOMAIN m : t \in m[j].block /\ Stays(l[i], m[j])

LEMMA CarryTrans ==
    ASSUME NEW l, NEW m, NEW n, NEW v, NEW w, Carry(l, m, v), Carry(m, n, w)
    PROVE  Carry(l, n, v \cup w)
<1> SUFFICES ASSUME NEW i \in DOMAIN l, NEW t \in l[i].block, t \notin v, t \notin w
             PROVE  \E j \in DOMAIN n : t \in n[j].block /\ Stays(l[i], n[j])
  BY DEF Carry
<1>1. PICK j \in DOMAIN m : t \in m[j].block /\ Stays(l[i], m[j])
  BY DEF Carry
<1>2. PICK k \in DOMAIN n : t \in n[k].block /\ Stays(m[j], n[k])
  BY <1>1 DEF Carry
<1>3. Stays(l[i], n[k])
  BY <1>1, <1>2 DEF Stays
<1> QED
  BY <1>2, <1>3

LEMMA CarryLess ==
    ASSUME NEW l, NEW m, NEW v, NEW w, Carry(l, m, v), v \subseteq w
    PROVE  Carry(l, m, w)
BY DEF Carry

LEMMA CarrySame ==
    ASSUME NEW l
    PROVE  Carry(l, l, {})
BY DEF Carry, Stays

\* Every lock keeps its place.
LEMMA CarryPlace ==
    ASSUME NEW l, NEW m, NEW w, DOMAIN m = DOMAIN l,
           \A i \in DOMAIN l : Stays(l[i], m[i]) /\ l[i].block \ w \subseteq m[i].block
    PROVE  Carry(l, m, w)
BY DEF Carry

\* locks_delete_block
LEMMA UnqueuedLists ==
    ASSUME f_flock \in Seq(F!Locks), NEW t
    PROVE  /\ F!Unqueued(t) \in Seq(F!Locks) /\ DOMAIN F!Unqueued(t) = DOMAIN f_flock
           /\ Carry(f_flock, F!Unqueued(t), {t})
           /\ \A i \in DOMAIN f_flock :
                F!Unqueued(t)[i] = [f_flock[i] EXCEPT !.block = f_flock[i].block \ {t}]
<1>1. PICK n \in Nat : DOMAIN f_flock = 1 .. n /\ Len(f_flock) = n
  OBVIOUS
<1>2. PICK u : u = F!Unqueued(t)
  OBVIOUS
<1>3. u = [i \in 1 .. n |-> [f_flock[i] EXCEPT !.block = f_flock[i].block \ {t}]]
  BY <1>1, <1>2 DEF F!Unqueued
<1>4. \A i \in 1 .. n : f_flock[i] \in F!Locks
  BY <1>1
<1>5. \A i \in 1 .. n : u[i] \in F!Locks
  BY <1>3, <1>4 DEF F!Locks
<1>6. u \in Seq(F!Locks) /\ DOMAIN u = 1 .. n
  BY <1>3, <1>5
<1>7. \A i \in DOMAIN f_flock : Stays(f_flock[i], u[i]) /\ f_flock[i].block \ {t} \subseteq u[i].block
  BY <1>1, <1>3, <1>4 DEF Stays, F!Locks
<1>8. Carry(f_flock, u, {t})
  BY <1>1, <1>6, <1>7, CarryPlace
<1> QED
  BY <1>1, <1>2, <1>3, <1>6, <1>8

\* list_del, and locks_wake_up_blocks of what is deleted
LEMMA WithoutLists ==
    ASSUME NEW l \in Seq(F!Locks), NEW out, out \subseteq DOMAIN l
    PROVE  /\ F!Without(l, out) \in Seq(F!Locks)
           /\ Carry(l, F!Without(l, out), UNION {l[i].block : i \in out})
<1>1. PICK u : u = F!Without(l, out)
  OBVIOUS
<1>2. u \in Seq(F!Locks) /\ Remains(u, l, DOMAIN l \ out)
  BY <1>1, WithoutParts
<1>3. \A i \in DOMAIN l \ out : \E j \in DOMAIN u : u[j] = l[i]
  BY <1>2, RemainsParts
<1>4. Carry(l, u, UNION {l[i].block : i \in out})
  BY <1>3 DEF Carry, Stays
<1> QED
  BY <1>1, <1>2, <1>4

LEMMA TimedOutLists ==
    ASSUME NEW l \in Seq(F!Locks)
    PROVE  /\ F!TimedOut(l).list \in Seq(F!Locks)
           /\ Carry(l, F!TimedOut(l).list, F!TimedOut(l).woken)
<1>1. PICK u, w : u = F!TimedOut(l).list /\ w = F!TimedOut(l).woken
  OBVIOUS
<1>2. /\ u \in Seq(F!Locks)
      /\ \A i \in DOMAIN l : (\E j \in DOMAIN u : u[j] = l[i]) \/ l[i].block \subseteq w
  BY <1>1, TimedOutParts
<1>3. Carry(l, u, w)
  BY <1>2 DEF Carry, Stays
<1> QED
  BY <1>1, <1>2, <1>3

\* locks_insert_block
LEMMA BlockLists ==
    ASSUME NEW l \in Seq(F!Locks), NEW i \in DOMAIN l, NEW t \in Tasks
    PROVE  /\ [l EXCEPT ![i].block = @ \cup {t}] \in Seq(F!Locks)
           /\ DOMAIN [l EXCEPT ![i].block = @ \cup {t}] = DOMAIN l
           /\ [l EXCEPT ![i].block = @ \cup {t}][i] = [l[i] EXCEPT !.block = l[i].block \cup {t}]
           /\ Carry(l, [l EXCEPT ![i].block = @ \cup {t}], {})
<1>1. PICK u : u = [l EXCEPT ![i].block = @ \cup {t}]
  OBVIOUS
<1>2. DOMAIN u = DOMAIN l /\ \A j \in DOMAIN l : l[j] \in F!Locks
  BY <1>1
<1>3. u[i] = [l[i] EXCEPT !.block = l[i].block \cup {t}] /\ \A j \in DOMAIN l : j # i => u[j] = l[j]
  BY <1>1, <1>2
<1>4. \A j \in DOMAIN l : u[j] \in F!Locks
  BY <1>2, <1>3 DEF F!Locks
<1>5. u \in Seq(F!Locks)
  <2>1. PICK n \in Nat : DOMAIN l = 1 .. n
    OBVIOUS
  <2>2. u = [j \in 1 .. n |-> u[j]] /\ \A j \in 1 .. n : u[j] \in F!Locks
    BY <1>1, <1>2, <1>4, <2>1
  <2> QED
    BY <2>2
<1>6. \A j \in DOMAIN l : Stays(l[j], u[j]) /\ l[j].block \ {} \subseteq u[j].block
  BY <1>2, <1>3 DEF Stays, F!Locks
<1>7. Carry(l, u, {})
  BY <1>2, <1>6, CarryPlace
<1> QED
  BY <1>1, <1>2, <1>3, <1>5, <1>7

\* lease_modify
\* m is l, but for the lease i, which has this type and is not being broken any more.
Modified(m, l, i, type) ==
    /\ DOMAIN m = DOMAIN l /\ \A j \in DOMAIN l : j # i => m[j] = l[j]
    /\ m[i].lease = l[i].lease /\ m[i].file = l[i].file /\ m[i].type = type /\ ~m[i].breaking

LEMMA ModifyLists ==
    ASSUME NEW l \in Seq(F!Locks), NEW i \in DOMAIN l, l[i].lease,
           NEW type \in {"RDLCK", "WRLCK", "UNLCK"}
    PROVE  /\ F!lease_modify(l, i, type) \in Seq(F!Locks)
           /\ Carry(l, F!lease_modify(l, i, type), l[i].block)
           /\ type # "UNLCK" => Modified(F!lease_modify(l, i, type), l, i, type)
<1>1. CASE type = "UNLCK"
  <2>1. UNION {l[j].block : j \in {i}} = l[i].block
    OBVIOUS
  <2> QED
    BY <1>1, <2>1, WithoutLists DEF F!lease_modify
<1>2. CASE type # "UNLCK"
  <2>1. PICK u : u = F!lease_modify(l, i, type)
    OBVIOUS
  <2>2. u = [l EXCEPT ![i].type = type, ![i].breaking = FALSE, ![i].block = {}]
    BY <1>2, <2>1 DEF F!lease_modify
  <2>3. DOMAIN u = DOMAIN l /\ \A j \in DOMAIN l : l[j] \in F!Locks
    BY <2>2
  <2>4. /\ u[i] = [[[l[i] EXCEPT !.type = type] EXCEPT !.breaking = FALSE] EXCEPT !.block = {}]
        /\ \A j \in DOMAIN l : j # i => u[j] = l[j]
    BY <2>2, <2>3
  <2>5. u[i] \in F!Locks
    BY <2>3, <2>4, ZenonT(30) DEF F!Locks
  <2>6. u \in Seq(F!Locks)
    <3>1. \A j \in DOMAIN l : u[j] \in F!Locks
      BY <2>3, <2>4, <2>5
    <3> QED
      BY <2>2, <2>3, <3>1
  <2>7. Carry(l, u, l[i].block)
    BY <2>3, <2>4 DEF Carry, Stays
  <2>8. u[i].lease = l[i].lease /\ u[i].file = l[i].file /\ u[i].type = type /\ u[i].breaking = FALSE
    <3>1. PICK y \in F!Locks : y = l[i]
      BY <2>3
    <3>2. u[i] = [[[y EXCEPT !.type = type] EXCEPT !.breaking = FALSE] EXCEPT !.block = {}]
      BY <2>4, <3>1
    <3> QED
      BY <3>1, <3>2 DEF F!Locks
  <2>9. Modified(u, l, i, type)
    BY <2>3, <2>4, <2>8 DEF Modified
  <2> QED
    BY <2>1, <2>6, <2>7, <2>9
<1> QED
  BY <1>1, <1>2

\* A new lock, at the head or between others.
LEMMA InsertLists ==
    ASSUME NEW l \in Seq(F!Locks), NEW k \in 0 .. Len(l), NEW x \in F!Locks
    PROVE  /\ F!InsertAt(l, k + 1, x) \in Seq(F!Locks)
           /\ Carry(l, F!InsertAt(l, k + 1, x), {})
           /\ DOMAIN F!InsertAt(l, k + 1, x) = 1 .. Len(l) + 1 /\ F!InsertAt(l, k + 1, x)[k + 1] = x
           /\ \A i \in 1 .. k : F!InsertAt(l, k + 1, x)[i] = l[i]
<1>1. PICK n \in Nat : n = Len(l) /\ DOMAIN l = 1 .. n
  OBVIOUS
<1>2. PICK a, b, c : a = SubSeq(l, 1, k) /\ b = <<x>> /\ c = SubSeq(l, k + 1, n)
  OBVIOUS
<1>a. a \in Seq(F!Locks) /\ Len(a) = k /\ \A i \in 1 .. k : a[i] = l[i]
  BY <1>1, <1>2
<1>b. b \in Seq(F!Locks) /\ Len(b) = 1 /\ b[1] = x
  BY <1>2
<1>c. c \in Seq(F!Locks) /\ Len(c) = n - k /\ \A i \in 1 .. n - k : c[i] = l[k + i]
  BY <1>1, <1>2
<1>3. /\ Len(a) = k /\ \A i \in 1 .. k : a[i] = l[i]
      /\ Len(b) = 1 /\ b[1] = x
      /\ Len(c) = n - k /\ \A i \in 1 .. n - k : c[i] = l[k + i]
  BY <1>a, <1>b, <1>c
<1> DEFINE d == a \o b
           u == d \o c
<1>4. a \in Seq(F!Locks) /\ b \in Seq(F!Locks) /\ c \in Seq(F!Locks)
  BY <1>a, <1>b, <1>c
<1>d. /\ d \in Seq(F!Locks) /\ Len(d) = Len(a) + Len(b) /\ \A i \in 1 .. Len(a) : d[i] = a[i]
      /\ \A i \in 1 .. Len(b) : d[Len(a) + i] = b[i]
  BY ONLY <1>4, JoinedElements
<1>5. /\ Len(d) = k + 1 /\ \A i \in 1 .. k : d[i] = l[i]
      /\ d[k + 1] = x
  <2> HIDE DEF d
  <2> QED
    BY <1>3, <1>d
<1> HIDE DEF d
<1>6. d \in Seq(F!Locks)
  BY <1>d
<1>u. /\ u \in Seq(F!Locks) /\ Len(u) = Len(d) + Len(c) /\ \A i \in 1 .. Len(d) : u[i] = d[i]
      /\ \A i \in 1 .. Len(c) : u[Len(d) + i] = c[i]
  BY ONLY <1>4, <1>6, JoinedElements
<1> HIDE DEF u
<1>7. F!InsertAt(l, k + 1, x) = u
  <2>1. (k + 1) - 1 = k
    OBVIOUS
  <2> QED
    BY <1>1, <1>2, <2>1 DEF F!InsertAt, d, u
<1>8. /\ Len(u) = n + 1 /\ \A i \in 1 .. k : u[i] = l[i]
      /\ u[k + 1] = x /\ \A i \in 1 .. n - k : u[(k + 1) + i] = l[k + i]
  <2>1. /\ Len(u) = Len(d) + Len(c) /\ \A i \in 1 .. Len(d) : u[i] = d[i]
        /\ \A i \in 1 .. Len(c) : u[Len(d) + i] = c[i]
    BY <1>u
  <2>2. Len(d) = k + 1 /\ Len(c) = n - k /\ (k + 1) + (n - k) = n + 1
    BY <1>1, <1>3, <1>5
  <2>3. Len(u) = n + 1
    BY <2>1, <2>2
  <2>4. \A i \in 1 .. k + 1 : u[i] = d[i]
    BY <2>1, <2>2
  <2>5. \A i \in 1 .. n - k : u[(k + 1) + i] = l[k + i]
    BY <1>3, <2>1, <2>2
  <2> QED
    BY <1>5, <2>3, <2>4, <2>5
<1>9. DOMAIN u = 1 .. n + 1
  BY <1>8, <1>u
<1>10. ASSUME NEW i \in DOMAIN l PROVE \E j \in DOMAIN u : u[j] = l[i]
  <2>1. CASE i <= k
    BY <1>1, <1>8, <1>9, <2>1
  <2>2. CASE i > k
    <3>1. i - k \in 1 .. n - k /\ (k + 1) + (i - k) = i + 1 /\ k + (i - k) = i /\ i + 1 \in 1 .. n + 1
      BY <1>1, <2>2
    <3>2. u[i + 1] = l[i]
      BY <1>8, <3>1
    <3> QED
      BY <1>9, <3>1, <3>2
  <2> QED
    BY <1>1, <2>1, <2>2
<1>12. Carry(l, u, {})
  BY <1>10 DEF Carry, Stays
<1> QED
  BY <1>1, <1>7, <1>8, <1>9, <1>12, <1>u

\* The big step: what the next list, the calls and the woken tasks have to be.
LEMMA WakeKept ==
    ASSUME F!NoLostWakeup, NEW w, NEW new, Carry(f_flock, f_flock', w), f_asleep \subseteq Tasks,
           \A t \in f_asleep' \ new :
              /\ t \in f_asleep /\ t \notin w /\ f_pc'[t] = f_pc[t] /\ arg'[t] = arg[t]
              /\ \A u \in Tasks : f_pc[u] = "drain" /\ t \in gone[u] => f_pc'[u] = "drain" /\ t \in gone'[u],
           \A t \in new : \E i \in DOMAIN f_flock' : t \in f_flock'[i].block /\ F!Awaits(t, f_flock[i])'
    PROVE  F!NoLostWakeup'
<1> SUFFICES ASSUME NEW t \in f_asleep'
             PROVE  \/ \E i \in DOMAIN f_flock' : t \in f_flock'[i].block /\ F!Awaits(t, f_flock[i])'
                    \/ f_pc'[t] = "repeat" /\ \E u \in Tasks : f_pc'[u] = "drain" /\ t \in gone'[u]
  BY DEF F!NoLostWakeup
<1>1. CASE t \in new
  BY <1>1
<1>2. CASE t \notin new
  <2>1. /\ t \in f_asleep /\ t \notin w /\ f_pc'[t] = f_pc[t] /\ arg'[t] = arg[t]
        /\ \A u \in Tasks : f_pc[u] = "drain" /\ t \in gone[u] => f_pc'[u] = "drain" /\ t \in gone'[u]
    BY <1>2
  <2>2. CASE f_pc[t] = "repeat" /\ \E u \in Tasks : f_pc[u] = "drain" /\ t \in gone[u]
    BY <2>1, <2>2
  <2>3. CASE \E i \in DOMAIN f_flock : t \in f_flock[i].block /\ F!Awaits(t, f_flock[i])
    <3>1. PICK i \in DOMAIN f_flock : t \in f_flock[i].block /\ F!Awaits(t, f_flock[i])
      BY <2>3
    <3>2. PICK j \in DOMAIN f_flock' : t \in f_flock'[j].block /\ Stays(f_flock[i], f_flock'[j])
      BY <2>1, <3>1 DEF Carry
    <3>3. F!Awaits(t, f_flock[j])'
      BY <2>1, <3>1, <3>2 DEF F!Awaits, F!flock_locks_conflict, Stays
    <3> QED
      BY <3>2, <3>3
  <2> QED
    BY <2>1, <2>2, <2>3 DEF F!NoLostWakeup
<1> QED
  BY <1>1, <1>2

LEMMA QueueParts ==
    ASSUME F!QueueInv
    PROVE  /\ f_flock \in Seq(F!Locks) /\ f_pc \in [Tasks -> F!PCs]
           /\ arg \in [Tasks -> Flocks \cup Opens \cup {None}]
           /\ gone \in [Tasks -> SUBSET Tasks] /\ f_asleep \in SUBSET Tasks
           /\ f_sig \in [Tasks -> BOOLEAN] /\ timedout \in [Tasks -> BOOLEAN] /\ open \in SUBSET OpenFiles
           /\ F!NoLostWakeup /\ \A t \in Tasks : F!CallOf(t)
BY DEF F!QueueInv, F!Types, F!CallInv

\* A step in which t goes on to another place.
LEMMA StepKeeps ==
    ASSUME F!QueueInv, NEW t \in Tasks, t \notin f_asleep, NEW w, NEW to \in F!PCs,
           f_flock' \in Seq(F!Locks), Carry(f_flock, f_flock', w),
           f_pc' = [f_pc EXCEPT ![t] = to],
           arg' \in [Tasks -> Flocks \cup Opens \cup {None}],
           \A u \in Tasks \ {t} : arg'[u] = arg[u] /\ (f_sig'[u] => f_sig[u]),
           f_sig' \in [Tasks -> BOOLEAN], timedout' \in [Tasks -> BOOLEAN], open' \in SUBSET OpenFiles,
           gone' \in [Tasks -> SUBSET Tasks],
           \A u \in Tasks : gone'[u] \subseteq gone[u] /\ gone[u] \ {t} \subseteq gone'[u],
           f_asleep' \subseteq f_asleep \cup {t}, \A u \in f_asleep' \ {t} : u \notin w,
           f_pc[t] = "drain" => to = "drain" \/ gone[t] = {},
           F!CallOf(t)',
           t \in f_asleep' => \E i \in DOMAIN f_flock' : t \in f_flock'[i].block /\ F!Awaits(t, f_flock[i])'
    PROVE  F!QueueInv'
<1> USE QueueParts
<1>1. f_pc'[t] = to /\ \A u \in Tasks \ {t} : f_pc'[u] = f_pc[u]
  OBVIOUS
<1>2. F!Types'
  BY <1>1 DEF F!Types
<1>3. ASSUME NEW u \in Tasks PROVE F!CallOf(u)'
  <2>1. CASE u = t
    BY <2>1
  <2>2. CASE u # t
    <3>1. /\ f_pc'[u] = f_pc[u] /\ arg'[u] = arg[u] /\ (f_sig'[u] => f_sig[u])
          /\ (u \in f_asleep' => u \in f_asleep) /\ (gone'[u] # {} => gone[u] # {})
      BY <1>1, <2>2
    <3> QED
      BY <3>1 DEF F!CallOf
  <2> QED
    BY <2>1, <2>2
<1>4. F!NoLostWakeup'
  <2>1. PICK new : new = f_asleep' \cap {t}
    OBVIOUS
  <2>2. ASSUME NEW x \in f_asleep' \ new
        PROVE  /\ x \in f_asleep /\ x \notin w /\ f_pc'[x] = f_pc[x] /\ arg'[x] = arg[x]
               /\ \A u \in Tasks : f_pc[u] = "drain" /\ x \in gone[u] => f_pc'[u] = "drain" /\ x \in gone'[u]
    <3>1. x # t /\ x \in f_asleep /\ x \in Tasks
      BY <2>1, <2>2
    <3>2. ASSUME NEW u \in Tasks, f_pc[u] = "drain", x \in gone[u] PROVE f_pc'[u] = "drain" /\ x \in gone'[u]
      BY <1>1, <3>1, <3>2
    <3> QED
      BY <1>1, <2>2, <3>1, <3>2
  <2>3. \A x \in new : \E i \in DOMAIN f_flock' : x \in f_flock'[i].block /\ F!Awaits(x, f_flock[i])'
    BY <2>1
  <2>4. F!NoLostWakeup /\ f_asleep \subseteq Tasks /\ Carry(f_flock, f_flock', w)
    OBVIOUS
  <2> QED
    BY ONLY <2>2, <2>3, <2>4, WakeKept
<1> QED
  BY <1>2, <1>3, <1>4 DEF F!QueueInv, F!CallInv

\* A step in which nobody goes on.
LEMMA QuietKeeps ==
    ASSUME F!QueueInv, NEW w, f_flock' \in Seq(F!Locks), Carry(f_flock, f_flock', w),
           f_pc' = f_pc, arg' = arg, gone' = gone, f_asleep' \subseteq f_asleep, f_asleep' \cap w = {},
           \A u \in Tasks : f_sig'[u] => f_sig[u] \/ u \in f_asleep,
           f_sig' \in [Tasks -> BOOLEAN], timedout' \in [Tasks -> BOOLEAN], open' \in SUBSET OpenFiles
    PROVE  F!QueueInv'
<1> USE QueueParts
<1>1. F!Types'
  BY DEF F!Types
<1>2. ASSUME NEW u \in Tasks PROVE F!CallOf(u)'
  BY DEF F!CallOf
<1>3. F!NoLostWakeup'
  <2>1. PICK new : new = {}
    OBVIOUS
  <2>2. \A x \in f_asleep' \ new :
           /\ x \in f_asleep /\ x \notin w /\ f_pc'[x] = f_pc[x] /\ arg'[x] = arg[x]
           /\ \A u \in Tasks : f_pc[u] = "drain" /\ x \in gone[u] => f_pc'[u] = "drain" /\ x \in gone'[u]
    OBVIOUS
  <2>3. \A x \in new : \E i \in DOMAIN f_flock' : x \in f_flock'[i].block /\ F!Awaits(x, f_flock[i])'
    BY <2>1
  <2>4. F!NoLostWakeup /\ f_asleep \subseteq Tasks /\ Carry(f_flock, f_flock', w)
    OBVIOUS
  <2> QED
    BY ONLY <2>2, <2>3, <2>4, WakeKept
<1> QED
  BY <1>1, <1>2, <1>3 DEF F!QueueInv, F!CallInv

LEMMA DrainedParts ==
    ASSUME gone \in [Tasks -> SUBSET Tasks], NEW t
    PROVE  /\ F!Drained(t) \in [Tasks -> SUBSET Tasks]
           /\ \A u \in Tasks : F!Drained(t)[u] = gone[u] \ {t}
BY DEF F!Drained

LEMMA ReturnWakes ==
    ASSUME F!QueueInv, NEW t \in Tasks, t \notin f_asleep, f_pc[t] # "drain", F!Return(t), NEW w,
           f_flock' \in Seq(F!Locks), Carry(f_flock, f_flock', w),
           gone' = gone \/ gone' = F!Drained(t),
           f_asleep' \subseteq f_asleep, f_asleep' \cap w \subseteq {t}
    PROVE  F!QueueInv'
<1> USE QueueParts
<1>1. /\ f_pc' = [f_pc EXCEPT ![t] = "idle"] /\ arg' = [arg EXCEPT ![t] = None]
      /\ f_sig' = [f_sig EXCEPT ![t] = FALSE] /\ timedout' = [timedout EXCEPT ![t] = FALSE]
      /\ open' = open
  BY DEF F!Return
<1>2. PICK to \in F!PCs : to = "idle"
  BY DEF F!PCs
<1>3. /\ arg' \in [Tasks -> Flocks \cup Opens \cup {None}]
      /\ \A u \in Tasks \ {t} : arg'[u] = arg[u] /\ (f_sig'[u] => f_sig[u])
  BY <1>1
<1>4. f_sig' \in [Tasks -> BOOLEAN] /\ timedout' \in [Tasks -> BOOLEAN] /\ f_sig'[t] = FALSE
  BY <1>1
<1>5. /\ gone' \in [Tasks -> SUBSET Tasks]
      /\ \A u \in Tasks : gone'[u] \subseteq gone[u] /\ gone[u] \ {t} \subseteq gone'[u]
  BY DrainedParts
<1>6. F!CallOf(t)'
  <2>1. gone[t] = {}
    BY DEF F!CallOf
  <2>2. gone'[t] = {} /\ f_pc'[t] = "idle" /\ t \notin f_asleep'
    BY <1>1, <1>5, <2>1
  <2> QED
    BY <1>4, <2>2 DEF F!CallOf
<1>7. /\ f_pc' = [f_pc EXCEPT ![t] = to] /\ open' \in SUBSET OpenFiles
      /\ f_asleep' \subseteq f_asleep \cup {t} /\ t \notin f_asleep'
      /\ \A u \in f_asleep' \ {t} : u \notin w
  BY <1>1, <1>2
<1> QED
  BY <1>3, <1>4, <1>5, <1>6, <1>7, StepKeeps

LEMMA MineParts ==
    ASSUME f_flock \in Seq(F!Locks), NEW t
    PROVE  /\ \/ F!Mine(t) = 0
              \/ /\ F!Mine(t) \in DOMAIN f_flock /\ F!Mine(t) # 0
                 /\ f_flock[F!Mine(t)].lease = FALSE /\ f_flock[F!Mine(t)].file = FileOf[t]
           /\ F!Mine(t) = 0 => \A i \in 1 .. F!Run(f_flock, FALSE) : f_flock[i].file # FileOf[t]
<1>1. PICK r \in Nat : /\ r = F!Run(f_flock, FALSE)
                       /\ \A i \in 1 .. r : i \in DOMAIN f_flock /\ f_flock[i].lease = FALSE
  <2>1. PICK l \in Seq(F!Locks), k \in BOOLEAN : l = f_flock /\ k = FALSE
    OBVIOUS
  <2>2. F!Run(l, k) \in 0 .. Len(l) /\ \A i \in 1 .. F!Run(l, k) : i \in DOMAIN l /\ l[i].lease = k
    BY RunParts
  <2>3. 0 .. Len(l) \subseteq Nat
    OBVIOUS
  <2> QED
    BY <2>1, <2>2, <2>3
<1>2. PICK T : T = {i \in 1 .. r : f_flock[i].file = FileOf[t]}
  OBVIOUS
<1>3. F!Mine(t) = IF T = {} THEN 0 ELSE Min(T)
  BY <1>1, <1>2, SameMin DEF F!Mine
<1>4. CASE T = {}
  BY <1>1, <1>2, <1>3, <1>4
<1>5. CASE T # {}
  <2>1. T \subseteq Nat
    BY <1>2
  <2>2. Min(T) \in T
    BY <1>5, <2>1, MinOf
  <2>3. F!Mine(t) \in T /\ F!Mine(t) # 0
    BY <1>2, <1>3, <1>5, <2>2
  <2> QED
    BY <1>1, <1>2, <2>3
<1> QED
  BY <1>4, <1>5

LEMMA InTheWayParts ==
    ASSUME f_flock \in Seq(F!Locks), NEW t, F!InTheWay(t) # {}
    PROVE  /\ F!Min(F!InTheWay(t)) \in DOMAIN f_flock
           /\ f_flock[F!Min(F!InTheWay(t))].lease = FALSE
           /\ F!flock_locks_conflict(t, f_flock[F!Min(F!InTheWay(t))])
<1>1. PICK r \in Nat : /\ r = F!Run(f_flock, FALSE)
                       /\ \A i \in 1 .. r : i \in DOMAIN f_flock /\ f_flock[i].lease = FALSE
  <2>1. PICK l \in Seq(F!Locks), k \in BOOLEAN : l = f_flock /\ k = FALSE
    OBVIOUS
  <2>2. F!Run(l, k) \in 0 .. Len(l) /\ \A i \in 1 .. F!Run(l, k) : i \in DOMAIN l /\ l[i].lease = k
    BY RunParts
  <2>3. 0 .. Len(l) \subseteq Nat
    OBVIOUS
  <2> QED
    BY <2>1, <2>2, <2>3
<1>2. PICK T : T = F!InTheWay(t)
  OBVIOUS
<1>3. T = {i \in 1 .. r : F!flock_locks_conflict(t, f_flock[i])}
  BY <1>1, <1>2 DEF F!InTheWay
<1>4. T \subseteq Nat /\ T # {}
  BY <1>2, <1>3
<1>5. F!Min(T) \in T
  BY <1>4, MinOf, SameMin
<1> QED
  BY <1>1, <1>2, <1>3, <1>5

LEMMA PrependLists ==
    ASSUME NEW l \in Seq(F!Locks), NEW x \in F!Locks
    PROVE  /\ <<x>> \o l \in Seq(F!Locks) /\ Carry(l, <<x>> \o l, {})
           /\ (<<x>> \o l)[1] = x
           /\ \A j \in DOMAIN (<<x>> \o l) : j = 1 \/ (j - 1 \in DOMAIN l /\ (<<x>> \o l)[j] = l[j - 1])
<1> DEFINE m == <<x>> \o l
<1>1. <<x>> \in Seq(F!Locks) /\ Len(<<x>>) = 1 /\ <<x>>[1] = x
  OBVIOUS
<1>2. /\ m \in Seq(F!Locks) /\ Len(m) = 1 + Len(l) /\ m[1] = x
      /\ \A i \in 1 .. Len(l) : m[1 + i] = l[i]
  BY <1>1, JoinedElements
<1> HIDE DEF m
<1>3. PICK n \in Nat : n = Len(l) /\ DOMAIN l = 1 .. n /\ DOMAIN m = 1 .. 1 + n
  BY <1>2
<1>4. \A i \in 1 .. n : 1 + i \in 1 .. 1 + n
  BY <1>3
<1>5. \A j \in 1 .. 1 + n : j = 1 \/ (j - 1 \in 1 .. n /\ 1 + (j - 1) = j)
  BY <1>3
<1>6. Carry(l, m, {})
  BY <1>2, <1>3, <1>4 DEF Carry, Stays
<1>7. \A j \in DOMAIN m : j = 1 \/ (j - 1 \in DOMAIN l /\ m[j] = l[j - 1])
  BY <1>2, <1>3, <1>5
<1> QED
  BY <1>2, <1>6, <1>7 DEF m

\* fl_type = future, for the leases at the head.
\* What a breaker asks for: this type, with F_INPROGRESS.
Asked(type) == <<type, TRUE>>

LEMMA BreakLists ==
    ASSUME NEW l \in Seq(F!Locks), NEW k \in 0 .. Len(l), \A i \in 1 .. k : l[i].lease,
           NEW type \in {"RDLCK", "WRLCK", "UNLCK"}, NEW b, b = F!Broken(l, k, Asked(type))
    PROVE  /\ b \in Seq(F!Locks) /\ Carry(l, b, {}) /\ DOMAIN b = DOMAIN l
           /\ \A i \in 1 .. k : b[i].lease /\ b[i].breaking /\ b[i].type = type
           /\ \A i \in DOMAIN l : b[i].lease = l[i].lease /\ b[i].file = l[i].file
           /\ \A i \in DOMAIN l \ (1 .. k) : b[i] = l[i]
<1>0. b = [i \in DOMAIN l |-> IF i \in 1 .. k THEN F!Break(l[i], <<type, TRUE>>) ELSE l[i]]
  BY DEF F!Broken, Asked
<1>1. PICK n \in Nat : n = Len(l) /\ DOMAIN l = 1 .. n /\ \A i \in 1 .. n : l[i] \in F!Locks
  OBVIOUS
<1>2. \A i \in 1 .. k : i \in 1 .. n
  BY <1>1
<1>3. ASSUME NEW i \in 1 .. k
      PROVE  /\ b[i] \in F!Locks /\ b[i].lease = l[i].lease /\ b[i].file = l[i].file
             /\ b[i].breaking = TRUE /\ b[i].type = type /\ b[i].block = l[i].block
  <2>1. b[i] = F!Break(l[i], <<type, TRUE>>) /\ l[i] \in F!Locks
    BY <1>0, <1>1, <1>2
  <2>2. CASE <<l[i].type, l[i].breaking>> = <<type, TRUE>>
    BY <2>1, <2>2 DEF F!Break
  <2>3. CASE <<l[i].type, l[i].breaking>> # <<type, TRUE>>
    <3>1. b[i] = [l[i] EXCEPT !.type = type, !.breaking = TRUE, !.timer = IF BreakTime THEN "on" ELSE "off"]
      BY <2>1, <2>3 DEF F!Break
    <3>2. PICK x \in {"off", "on", "over"} : x = IF BreakTime THEN "on" ELSE "off"
      OBVIOUS
    <3>3. b[i] = [l[i] EXCEPT !.type = type, !.breaking = TRUE, !.timer = x]
      BY <3>1, <3>2
    <3>4. PICK y \in F!Locks : y = l[i]
      BY <2>1
    <3>5. PICK c : c = [y EXCEPT !.type = type, !.breaking = TRUE, !.timer = x]
      OBVIOUS
    <3>6. c \in F!Locks
      BY <3>5 DEF F!Locks
    <3>7. /\ c.lease = y.lease /\ c.file = y.file /\ c.breaking = TRUE /\ c.type = type
          /\ c.block = y.block
      BY <3>5 DEF F!Locks
    <3> QED
      BY <3>3, <3>4, <3>5, <3>6, <3>7
  <2> QED
    BY <2>2, <2>3
<1>4. \A i \in DOMAIN l \ (1 .. k) : b[i] = l[i]
  BY <1>0
<1>5. DOMAIN b = 1 .. n /\ \A i \in 1 .. n : b[i] \in F!Locks
  BY <1>0, <1>1, <1>3, <1>4
<1>6. b \in Seq(F!Locks)
  <2>1. PICK c : c = b
    OBVIOUS
  <2>2. c = [i \in 1 .. n |-> c[i]] /\ \A i \in 1 .. n : c[i] \in F!Locks
    BY <1>0, <1>1, <1>5, <2>1
  <2>3. c \in Seq(F!Locks)
    BY ONLY n \in Nat, <2>2
  <2> QED
    BY <2>1, <2>3
<1>7. \A i \in DOMAIN l : Stays(l[i], b[i]) /\ l[i].block \ {} \subseteq b[i].block
  BY <1>3, <1>4 DEF Stays
<1>8. Carry(l, b, {})
  BY <1>1, <1>5, <1>7, CarryPlace
<1> QED
  BY <1>1, <1>3, <1>4, <1>5, <1>6, <1>8

-----------------------------------------------------------------------------
(* The steps.                                                              *)

LEMMA NothingWakes ==
    ASSUME F!QueueInv, NEW t \in Tasks, F!Nothing(t) PROVE F!QueueInv'
<1>1. /\ f_pc[t] = "search" /\ t \notin f_asleep /\ F!Return(t)
      /\ f_flock' = f_flock /\ gone' = gone /\ f_asleep' = f_asleep
  BY DEF F!Nothing, F!Runs
<1>2. Carry(f_flock, f_flock', {})
  BY <1>1, CarrySame
<1>3. f_flock' \in Seq(F!Locks)
  BY <1>1, QueueParts
<1> QED
  BY <1>1, <1>2, <1>3, ReturnWakes

LEMMA UnlockWakes ==
    ASSUME F!QueueInv, NEW t \in Tasks, F!Unlock(t) PROVE F!QueueInv'
<1>1. /\ f_pc[t] = "search" /\ t \notin f_asleep /\ F!Return(t) /\ F!Mine(t) # 0
      /\ f_flock' = F!Without(f_flock, {F!Mine(t)}) /\ gone' = gone
      /\ f_asleep' = f_asleep \ f_flock[F!Mine(t)].block
  BY DEF F!Unlock, F!Runs
<1>2. PICK l \in Seq(F!Locks) : l = f_flock
  BY QueueParts
<1>3. PICK i \in DOMAIN l : i = F!Mine(t)
  BY <1>1, <1>2, MineParts
<1>4. /\ F!Without(l, {i}) \in Seq(F!Locks)
      /\ Carry(l, F!Without(l, {i}), UNION {l[j].block : j \in {i}})
  BY WithoutLists
<1>5. PICK w : w = UNION {l[j].block : j \in {i}}
  OBVIOUS
<1>6. w = l[i].block
  BY <1>5
<1>7. f_flock' \in Seq(F!Locks) /\ Carry(f_flock, f_flock', w) /\ f_asleep' = f_asleep \ w
  BY <1>1, <1>2, <1>3, <1>4, <1>5, <1>6
<1> QED
  BY <1>1, <1>7, ReturnWakes

LEMMA InterruptedWakes ==
    ASSUME F!QueueInv, NEW t \in Tasks, F!Interrupted(t) PROVE F!QueueInv'
<1>1. /\ f_sig[t] /\ t \notin f_asleep /\ F!Return(t)
      /\ f_flock' = F!Unqueued(t) /\ gone' = F!Drained(t) /\ f_asleep' = f_asleep
  BY DEF F!Interrupted, F!Runs
<1>2. f_pc[t] # "drain"
  BY <1>1, QueueParts DEF F!CallOf
<1>3. f_flock' \in Seq(F!Locks) /\ Carry(f_flock, f_flock', {t})
  BY <1>1, QueueParts, UnqueuedLists
<1> QED
  BY <1>1, <1>2, <1>3, ReturnWakes

\* The lock is out of the list, and who was behind it is in the hands of t.
LEMMA ChangeWakes ==
    ASSUME F!QueueInv, NEW t \in Tasks, F!Change(t) PROVE F!QueueInv'
<1> USE QueueParts
<1>1. /\ f_pc[t] = "search" /\ t \notin f_asleep /\ F!Mine(t) # 0
      /\ arg[t].type \notin {"UNLCK", f_flock[F!Mine(t)].type}
      /\ f_flock' = F!Without(f_flock, {F!Mine(t)})
      /\ gone' = [gone EXCEPT ![t] = f_flock[F!Mine(t)].block] /\ f_asleep' = f_asleep
      /\ f_pc' = [f_pc EXCEPT ![t] = "drain"]
      /\ arg' = arg /\ f_sig' = f_sig /\ timedout' = timedout /\ open' = open
  BY DEF F!Change, F!Runs, F!Goto
<1>20. PICK l \in Seq(F!Locks) : l = f_flock
  OBVIOUS
<1>21. PICK i \in DOMAIN l : i = F!Mine(t)
  BY <1>1, <1>20, MineParts
<1>22. PICK w \in SUBSET Tasks : w = l[i].block
  <2>1. PICK y \in F!Locks : y = l[i]
    OBVIOUS
  <2> QED
    BY <2>1, FlockFields
<1>2. l = f_flock /\ i = F!Mine(t) /\ w = l[i].block
  BY <1>20, <1>21, <1>22
<1>3. F!Without(l, {i}) \in Seq(F!Locks) /\ Carry(l, F!Without(l, {i}), w)
  <2>1. /\ F!Without(l, {i}) \in Seq(F!Locks)
        /\ Carry(l, F!Without(l, {i}), UNION {l[j].block : j \in {i}})
    BY WithoutLists
  <2>2. UNION {l[j].block : j \in {i}} = w
    BY <1>2
  <2> QED
    BY <2>1, <2>2
<1>4. f_flock' \in Seq(F!Locks) /\ Carry(f_flock, f_flock', w)
  BY <1>1, <1>2, <1>3
<1>5. /\ gone' \in [Tasks -> SUBSET Tasks] /\ gone'[t] = w
      /\ \A u \in Tasks \ {t} : gone'[u] = gone[u] /\ f_pc'[u] = f_pc[u]
      /\ f_pc'[t] = "drain"
  BY <1>1, <1>2
<1>6. F!Types'
  BY <1>1, <1>4, <1>5 DEF F!Types, F!PCs
<1>7. ASSUME NEW u \in Tasks PROVE F!CallOf(u)'
  <2>1. CASE u = t
    BY <1>1, <1>5, <2>1 DEF F!CallOf
  <2>2. CASE u # t
    BY <1>1, <1>5, <2>2 DEF F!CallOf
  <2> QED
    BY <2>1, <2>2
<1>8. F!NoLostWakeup'
  <2> SUFFICES ASSUME NEW x \in f_asleep'
               PROVE  \/ \E j \in DOMAIN f_flock' : x \in f_flock'[j].block /\ F!Awaits(x, f_flock[j])'
                      \/ f_pc'[x] = "repeat" /\ \E u \in Tasks : f_pc'[u] = "drain" /\ x \in gone'[u]
    BY DEF F!NoLostWakeup
  <2>1. x \in f_asleep /\ x # t /\ x \in Tasks /\ f_pc'[x] = f_pc[x] /\ arg'[x] = arg[x]
    BY <1>1, <1>5
  <2>2. CASE f_pc[x] = "repeat" /\ \E u \in Tasks : f_pc[u] = "drain" /\ x \in gone[u]
    <3>1. PICK u \in Tasks : f_pc[u] = "drain" /\ x \in gone[u]
      BY <2>2
    <3>2. u # t
      BY <1>1, <3>1
    <3> QED
      BY <1>5, <2>1, <2>2, <3>1, <3>2
  <2>3. CASE f_pc[x] = "repeat" /\ x \in w
    BY <1>5, <2>1, <2>3
  <2>4. CASE ~(f_pc[x] = "repeat" /\ x \in w) /\
              \E j \in DOMAIN f_flock : x \in f_flock[j].block /\ F!Awaits(x, f_flock[j])
    <3>1. PICK j \in DOMAIN f_flock : x \in f_flock[j].block /\ F!Awaits(x, f_flock[j])
      BY <2>4
    <3>2. \E k \in DOMAIN f_flock' : x \in f_flock'[k].block /\ Stays(f_flock[j], f_flock'[k])
      <4>1. CASE x \notin w
        BY <1>4, <3>1, <4>1 DEF Carry
      <4>2. CASE x \in w
        <5>1. f_flock[j].lease
          BY <2>4, <3>1, <4>2 DEF F!Awaits
        <5>2. l[i].lease = FALSE
          BY <1>1, <1>2, MineParts
        <5>3. j \in DOMAIN l \ {i}
          BY <1>2, <5>1, <5>2
        <5>5. \E k \in DOMAIN F!Without(l, {i}) : F!Without(l, {i})[k] = l[j]
          <6>0. PICK out : out = {i}
            OBVIOUS
          <6>1. PICK v \in Seq(F!Locks) : v = F!Without(l, out)
            BY <1>3, <6>0
          <6>2. \A m \in DOMAIN l \ out : \E k \in DOMAIN v : v[k] = l[m]
            <7>1. Remains(v, l, DOMAIN l \ out)
              BY <6>1, WithoutParts
            <7>2. l \in Seq(F!Locks) /\ v \in Seq(F!Locks)
              OBVIOUS
            <7> QED
              BY ONLY <7>1, <7>2, RemainsParts
          <6> QED
            BY <5>3, <6>0, <6>1, <6>2
        <5> QED
          BY <1>1, <1>2, <3>1, <5>5 DEF Stays
      <4> QED
        BY <4>1, <4>2
    <3>3. PICK k \in DOMAIN f_flock' : x \in f_flock'[k].block /\ Stays(f_flock[j], f_flock'[k])
      BY <3>2
    <3>4. F!Awaits(x, f_flock[k])'
      BY <2>1, <3>1, <3>3 DEF F!Awaits, F!flock_locks_conflict, Stays
    <3> QED
      BY <3>3, <3>4
  <2> QED
    BY <2>1, <2>2, <2>3, <2>4 DEF F!NoLostWakeup
<1> QED
  BY <1>6, <1>7, <1>8 DEF F!QueueInv, F!CallInv

\* Steps in which t goes on, and the list stays as it is.
LEMMA MoveWakes ==
    ASSUME F!QueueInv, NEW t \in Tasks, t \notin f_asleep, NEW to \in F!PCs,
           f_pc' = [f_pc EXCEPT ![t] = to], f_flock' = f_flock, gone' = gone,
           f_asleep' \subseteq f_asleep, f_sig' = f_sig, timedout' \in [Tasks -> BOOLEAN],
           open' \in SUBSET OpenFiles, \A u \in Tasks \ {t} : arg'[u] = arg[u],
           arg' \in [Tasks -> Flocks \cup Opens \cup {None}],
           f_pc[t] = "drain" => to = "drain" \/ gone[t] = {}, F!CallOf(t)'
    PROVE  F!QueueInv'
<1>1. PICK w : w = {}
  OBVIOUS
<1>2. f_flock' \in Seq(F!Locks) /\ Carry(f_flock, f_flock', w)
  BY <1>1, QueueParts, CarrySame
<1>3. /\ f_sig' \in [Tasks -> BOOLEAN] /\ gone' \in [Tasks -> SUBSET Tasks]
      /\ \A u \in Tasks : gone'[u] \subseteq gone[u] /\ gone[u] \ {t} \subseteq gone'[u]
      /\ f_asleep' \subseteq f_asleep \cup {t} /\ \A u \in f_asleep' \ {t} : u \notin w
      /\ t \notin f_asleep'
  BY <1>1, QueueParts
<1> QED
  BY <1>2, <1>3, StepKeeps

LEMMA SimpleWakes ==
    ASSUME F!FlockAssumption, F!QueueInv, NEW t \in Tasks,
           F!sys_flock(t) \/ F!Drain(t) \/ F!Free(t) \/ F!Search(t) \/ F!Open(t) \/ F!Opened(t)
    PROVE  F!QueueInv'
<1> USE QueueParts DEF F!PCs
<1>1. CASE F!sys_flock(t)
  <2> USE <1>1 DEF F!sys_flock
  <2>2. t \notin f_asleep /\ ~f_sig[t] /\ gone[t] = {}
    BY DEF F!CallOf
  <2>0. PICK x \in Flocks : arg' = [arg EXCEPT ![t] = x]
    OBVIOUS
  <2>4. arg' \in [Tasks -> Flocks \cup Opens \cup {None}] /\ \A u \in Tasks \ {t} : arg'[u] = arg[u]
    BY <2>0
  <2>1. F!CallOf(t)'
    BY <2>0, <2>2 DEF F!CallOf
  <2>3. PICK to \in F!PCs : to = "search"
    OBVIOUS
  <2> QED
    BY <2>1, <2>2, <2>3, <2>4, MoveWakes
<1>2. CASE F!Drain(t)
  <2> USE <1>2 DEF F!Drain, F!Runs, F!Goto
  <2>1. F!CallOf(t)'
    BY DEF F!CallOf
  <2>2. PICK to \in F!PCs : to = "drain"
    OBVIOUS
  <2> QED
    BY <2>1, <2>2, MoveWakes
<1>3. CASE F!Free(t)
  <2> USE <1>3 DEF F!Free, F!Runs, F!Goto
  <2>1. F!CallOf(t)'
    BY DEF F!CallOf
  <2>2. PICK to \in F!PCs : to = "search"
    OBVIOUS
  <2> QED
    BY <2>1, <2>2, MoveWakes
<1>4. CASE F!Search(t)
  <2> USE <1>4 DEF F!Search, F!Runs, F!Goto
  <2>1. F!CallOf(t)'
    BY DEF F!CallOf
  <2>2. PICK to \in F!PCs : to = "repeat"
    OBVIOUS
  <2> QED
    BY <2>1, <2>2, MoveWakes
<1>5. CASE F!Open(t)
  <2> USE <1>5 DEF F!Open
  <2>2. t \notin f_asleep /\ ~f_sig[t] /\ gone[t] = {}
    BY DEF F!CallOf
  <2>0. PICK x \in Opens : arg' = [arg EXCEPT ![t] = x]
    OBVIOUS
  <2>4. arg' \in [Tasks -> Flocks \cup Opens \cup {None}] /\ \A u \in Tasks \ {t} : arg'[u] = arg[u]
    BY <2>0
  <2>1. F!CallOf(t)'
    BY <2>0, <2>2 DEF F!CallOf
  <2>3. PICK to \in F!PCs : to = "get_lease"
    OBVIOUS
  <2> QED
    BY <2>1, <2>2, <2>3, <2>4, MoveWakes
<1>6. CASE F!Opened(t)
  <2> USE <1>6 DEF F!Opened
  <2>4. /\ timedout' \in [Tasks -> BOOLEAN] /\ open' \in SUBSET OpenFiles
        /\ arg' \in [Tasks -> Flocks \cup Opens \cup {None}] /\ \A u \in Tasks \ {t} : arg'[u] = arg[u]
    BY DEF F!FlockAssumption
  <2>1. F!CallOf(t)'
    BY DEF F!CallOf
  <2>2. t \notin f_asleep
    BY DEF F!CallOf
  <2>3. PICK to \in F!PCs : to = "idle"
    OBVIOUS
  <2> QED
    BY <2>1, <2>2, <2>3, <2>4, MoveWakes
<1> QED
  BY <1>1, <1>2, <1>3, <1>4, <1>5, <1>6


\* flock_lock_file at repeat: t leaves the queue, and takes the lock, sleeps or gives up.
LEMMA RepeatWakes ==
    ASSUME F!FlockAssumption, F!QueueInv, NEW t \in Tasks, F!Repeat(t) PROVE F!QueueInv'
<1> USE QueueParts
<1>1. /\ f_pc[t] = "repeat" /\ t \notin f_asleep /\ ~f_sig[t] /\ gone' = F!Drained(t)
  BY DEF F!Repeat, F!Runs
<1>2. PICK m \in Seq(F!Locks) : m = F!Unqueued(t)
  BY UnqueuedLists
<1>3. /\ Carry(f_flock, m, {t}) /\ DOMAIN m = DOMAIN f_flock
      /\ \A i \in DOMAIN f_flock : m[i] = [f_flock[i] EXCEPT !.block = f_flock[i].block \ {t}]
  BY <1>2, UnqueuedLists
<1>4. arg[t] \in Flocks /\ arg[t].type # "UNLCK" /\ gone[t] = {}
  BY <1>1 DEF F!CallOf
<1>5. CASE F!InTheWay(t) = {}
  <2>1. f_flock' = <<F!Lock(t, FALSE, arg[t].type)>> \o m /\ f_asleep' = f_asleep /\ F!Return(t)
    BY <1>2, <1>5 DEF F!Repeat
  <2>2. PICK x \in F!Locks : x = F!Lock(t, FALSE, arg[t].type)
    BY <1>4 DEF F!Lock, F!Locks, F!FlockAssumption
  <2>3. <<x>> \o m \in Seq(F!Locks) /\ Carry(m, <<x>> \o m, {})
    BY PrependLists
  <2>4. PICK n : n = <<x>> \o m
    OBVIOUS
  <2>5. Carry(f_flock, n, {t} \cup {})
    BY <1>3, <2>3, <2>4, CarryTrans
  <2>6. f_flock' \in Seq(F!Locks) /\ Carry(f_flock, f_flock', {t})
    <3>1. {t} \cup {} = {t} /\ f_flock' = n
      BY <2>1, <2>2, <2>4
    <3> QED
      BY <2>3, <2>4, <2>5, <3>1
  <2>7. f_asleep' \subseteq f_asleep /\ f_asleep' \cap {t} \subseteq {t} /\ f_pc[t] # "drain"
    BY <1>1, <2>1
  <2> QED
    BY <1>1, <2>1, <2>6, <2>7, ReturnWakes
<1>6. CASE F!InTheWay(t) # {} /\ ~arg[t].wait
  <2>1. f_flock' = m /\ f_asleep' = f_asleep /\ F!Return(t)
    BY <1>2, <1>6 DEF F!Repeat
  <2>2. /\ f_flock' \in Seq(F!Locks) /\ Carry(f_flock, f_flock', {t}) /\ f_pc[t] # "drain"
        /\ f_asleep' \subseteq f_asleep /\ f_asleep' \cap {t} \subseteq {t}
    BY <1>1, <1>3, <2>1
  <2> QED
    BY <1>1, <2>1, <2>2, ReturnWakes
<1>7. CASE F!InTheWay(t) # {} /\ arg[t].wait
  <2>1. F!BlockOn(t, F!Unqueued(t), F!Min(F!InTheWay(t)), "repeat")
    BY <1>7 DEF F!Repeat
  <2>2. PICK i \in DOMAIN m : i = F!Min(F!InTheWay(t))
    BY <1>3, <1>7, InTheWayParts
  <2>3. PICK n : n = [m EXCEPT ![i].block = @ \cup {t}]
    OBVIOUS
  <2>4. /\ n \in Seq(F!Locks) /\ Carry(m, n, {}) /\ DOMAIN n = DOMAIN m
        /\ n[i] = [m[i] EXCEPT !.block = m[i].block \cup {t}]
    BY <2>3, BlockLists
  <2>5. Carry(f_flock, n, {t} \cup {})
    BY <1>3, <2>4, CarryTrans
  <2>6. PICK w : w = {t}
    OBVIOUS
  <2>7. /\ f_flock' = n /\ f_asleep' = f_asleep \cup {t} /\ f_pc' = [f_pc EXCEPT ![t] = "repeat"]
        /\ arg' = arg /\ f_sig' = f_sig /\ timedout' = timedout /\ open' = open
    BY <1>2, <2>1, <2>2, <2>3 DEF F!BlockOn, F!Goto
  <2>8. f_flock' \in Seq(F!Locks) /\ Carry(f_flock, f_flock', w)
    <3>1. {t} \cup {} = w
      BY <2>6
    <3> QED
      BY <2>4, <2>5, <2>7, <3>1
  <2>9. PICK to \in F!PCs : to = "repeat"
    BY DEF F!PCs
  <2>10. /\ gone' \in [Tasks -> SUBSET Tasks] /\ gone'[t] = {}
         /\ \A u \in Tasks : gone'[u] \subseteq gone[u] /\ gone[u] \ {t} \subseteq gone'[u]
    BY <1>1, <1>4, DrainedParts
  <2>11. f_pc'[t] = "repeat"
    BY <2>7
  <2>12. F!CallOf(t)'
    BY <1>4, <2>7, <2>10, <2>11 DEF F!CallOf
  <2>13. i \in DOMAIN f_flock' /\ t \in f_flock'[i].block /\ F!Awaits(t, f_flock[i])'
    <3>1. PICK x \in F!Locks, y \in F!Locks, z \in F!Locks : x = f_flock[i] /\ y = m[i] /\ z = n[i]
      BY <1>3, <2>4, SMTT(30)
    <3>2. y = [x EXCEPT !.block = x.block \ {t}] /\ z = [y EXCEPT !.block = y.block \cup {t}]
      BY <1>3, <2>4, <3>1
    <3>3. z.lease = x.lease /\ z.file = x.file /\ z.type = x.type /\ t \in z.block
      BY <3>2 DEF F!Locks
    <3>4. x.lease = FALSE /\ x.file # FileOf[t] /\ "WRLCK" \in {arg[t].type, x.type}
      BY <1>7, <2>2, <3>1, InTheWayParts DEF F!flock_locks_conflict
    <3> QED
      BY <2>4, <2>7, <2>11, <3>1, <3>3, <3>4 DEF F!Awaits, F!flock_locks_conflict
  <2>14. f_asleep' \subseteq f_asleep \cup {t} /\ (\A u \in f_asleep' \ {t} : u \notin w)
         /\ f_pc[t] # "drain" /\ f_pc' = [f_pc EXCEPT ![t] = to]
         /\ \A u \in Tasks \ {t} : arg'[u] = arg[u] /\ (f_sig'[u] => f_sig[u])
    BY <1>1, <2>6, <2>7, <2>9
  <2>15. /\ f_sig' \in [Tasks -> BOOLEAN] /\ timedout' \in [Tasks -> BOOLEAN] /\ open' \in SUBSET OpenFiles
         /\ arg' \in [Tasks -> Flocks \cup Opens \cup {None}]
    BY <2>7
  <2> QED
    BY <1>1, <2>8, <2>10, <2>12, <2>13, <2>14, <2>15, StepKeeps
<1> QED
  BY <1>5, <1>6, <1>7

\* Of the leases at the head, where t has to wait it sleeps for one that is being broken.
LEMMA SleepKeeps ==
    ASSUME F!QueueInv, NEW t \in Tasks, t \notin f_asleep, f_pc[t] \in {"get_lease", "broken"}, ~f_sig[t],
           NEW n \in Seq(F!Locks), NEW w, NEW v, Carry(f_flock, n, w), w \subseteq v \cup {t},
           NEW i \in DOMAIN n, n[i].lease, n[i].breaking,
           f_flock' = [n EXCEPT ![i].block = @ \cup {t}], f_asleep' = (f_asleep \ v) \cup {t},
           f_pc' = [f_pc EXCEPT ![t] = "broken"], arg' = arg, f_sig' = f_sig, gone' = gone,
           timedout' \in [Tasks -> BOOLEAN], open' = open
    PROVE  F!QueueInv'
<1> USE QueueParts
<1>1. PICK b : b = [n EXCEPT ![i].block = @ \cup {t}]
  OBVIOUS
<1>2. /\ b \in Seq(F!Locks) /\ Carry(n, b, {}) /\ DOMAIN b = DOMAIN n
      /\ b[i] = [n[i] EXCEPT !.block = n[i].block \cup {t}]
  BY <1>1, BlockLists
<1>3. Carry(f_flock, b, w \cup {})
  BY <1>2, CarryTrans
<1>4. f_flock' \in Seq(F!Locks) /\ Carry(f_flock, f_flock', w)
  <2>1. w \cup {} = w
    OBVIOUS
  <2> QED
    BY <1>1, <1>2, <1>3, <2>1
<1>5. PICK to \in F!PCs : to = "broken"
  BY DEF F!PCs
<1>6. f_pc'[t] = "broken" /\ gone'[t] = {} /\ arg'[t] \in Opens
  BY DEF F!CallOf
<1>7. F!CallOf(t)'
  BY <1>6 DEF F!CallOf
<1>8. i \in DOMAIN f_flock' /\ t \in f_flock'[i].block /\ F!Awaits(t, f_flock[i])'
  <2>1. PICK y \in F!Locks, z \in F!Locks : y = n[i] /\ z = b[i]
    BY <1>2
  <2>2. z = [y EXCEPT !.block = y.block \cup {t}]
    BY <1>2, <2>1
  <2>3. z.lease = y.lease /\ z.breaking = y.breaking /\ t \in z.block
    BY <2>2 DEF F!Locks
  <2> QED
    BY <1>1, <1>2, <1>6, <2>1, <2>3 DEF F!Awaits
<1>9. /\ f_asleep' \subseteq f_asleep \cup {t} /\ (\A u \in f_asleep' \ {t} : u \notin w)
      /\ f_pc[t] # "drain" /\ f_pc' = [f_pc EXCEPT ![t] = to]
      /\ \A u \in Tasks \ {t} : arg'[u] = arg[u] /\ (f_sig'[u] => f_sig[u])
  BY <1>5
<1>10. /\ f_sig' \in [Tasks -> BOOLEAN] /\ timedout' \in [Tasks -> BOOLEAN] /\ open' \in SUBSET OpenFiles
       /\ arg' \in [Tasks -> Flocks \cup Opens \cup {None}] /\ gone' \in [Tasks -> SUBSET Tasks]
       /\ \A u \in Tasks : gone'[u] \subseteq gone[u] /\ gone[u] \ {t} \subseteq gone'[u]
  OBVIOUS
<1> QED
  BY <1>4, <1>7, <1>8, <1>9, <1>10, StepKeeps

\* Where it does not, it goes on to open the file.
LEMMA PassKeeps ==
    ASSUME F!QueueInv, NEW t \in Tasks, t \notin f_asleep, f_pc[t] \in {"get_lease", "broken"}, ~f_sig[t],
           NEW w, NEW v, Carry(f_flock, f_flock', w), w \subseteq v \cup {t},
           f_flock' \in Seq(F!Locks), f_asleep' = f_asleep \ v, F!Goto(t, "opened", FALSE), gone' = gone
    PROVE  F!QueueInv'
<1> USE QueueParts
<1>1. /\ f_pc' = [f_pc EXCEPT ![t] = "opened"] /\ arg' = arg /\ f_sig' = f_sig /\ timedout' = timedout
      /\ open' = open
  BY DEF F!Goto
<1>2. PICK to \in F!PCs : to = "opened"
  BY DEF F!PCs
<1>3. f_pc'[t] = "opened" /\ gone'[t] = {} /\ t \notin f_asleep'
  BY <1>1 DEF F!CallOf
<1>4. F!CallOf(t)'
  BY <1>1, <1>3 DEF F!CallOf
<1>5. /\ f_asleep' \subseteq f_asleep \cup {t} /\ (\A u \in f_asleep' \ {t} : u \notin w)
      /\ f_pc[t] # "drain" /\ f_pc' = [f_pc EXCEPT ![t] = to]
      /\ \A u \in Tasks \ {t} : arg'[u] = arg[u] /\ (f_sig'[u] => f_sig[u])
  BY <1>1, <1>2
<1>6. /\ f_sig' \in [Tasks -> BOOLEAN] /\ timedout' \in [Tasks -> BOOLEAN] /\ open' \in SUBSET OpenFiles
      /\ arg' \in [Tasks -> Flocks \cup Opens \cup {None}] /\ gone' \in [Tasks -> SUBSET Tasks]
      /\ \A u \in Tasks : gone'[u] \subseteq gone[u] /\ gone[u] \ {t} \subseteq gone'[u]
  BY <1>1
<1> QED
  BY <1>3, <1>4, <1>5, <1>6, StepKeeps

\* What __get_lease makes of the leases at the head of n, which t has to wait for.
LEMMA FutureParts ==
    ASSUME NEW n \in Seq(F!Locks), NEW k \in 1 .. Len(n), \A i \in 1 .. k : n[i].lease, NEW t,
           F!Future(t, n[1])[2], arg[t].write \in BOOLEAN
    PROVE  \E type \in {"RDLCK", "WRLCK", "UNLCK"} :
              /\ F!Future(t, n[1]) = Asked(type)
              /\ arg[t].write => type = "UNLCK"
              /\ ~arg[t].write => (n[1].breaking /\ type = n[1].type) \/ (n[1].type = "WRLCK" /\ type = "RDLCK")
<1>1. PICK y \in F!Locks : y = n[1]
  OBVIOUS
<1>2. y.type \in {"RDLCK", "WRLCK", "UNLCK"} /\ y.breaking \in BOOLEAN
  BY FlockFields
<1>3. CASE arg[t].write
  BY <1>3, Zenon DEF F!Future, Asked
<1>4. CASE ~arg[t].write /\ y.breaking
  <2>1. F!Future(t, y) = <<y.type, TRUE>>
    BY <1>4 DEF F!Future
  <2> QED
    BY <1>1, <1>2, <1>4, <2>1 DEF Asked
<1>5. CASE ~arg[t].write /\ ~y.breaking
  <2>1. F!Future(t, y) = <<"RDLCK", y.type = "WRLCK">>
    BY <1>5 DEF F!Future
  <2>2. y.type = "WRLCK"
    <3>1. SUFFICES ASSUME y.type # "WRLCK" PROVE FALSE
      OBVIOUS
    <3>2. F!Future(t, y) = <<"RDLCK", FALSE>>
      BY <2>1, <3>1
    <3>3. F!Future(t, y)[2]
      BY <1>1
    <3> QED
      BY <3>2, <3>3
  <2>3. F!Future(t, y) = <<"RDLCK", TRUE>>
    BY <2>1, <2>2
  <2> QED
    BY <1>1, <1>5, <2>2, <2>3 DEF Asked
<1> QED
  BY <1>2, <1>3, <1>4, <1>5

LEMMA GetLeaseWakes ==
    ASSUME F!FlockAssumption, F!QueueInv, NEW t \in Tasks, F!get_lease(t) PROVE F!QueueInv'
<1> USE QueueParts
<1>1. f_pc[t] = "get_lease" /\ t \notin f_asleep /\ gone' = gone
  BY DEF F!get_lease, F!Runs
<1>2. ~f_sig[t] /\ arg[t] \in Opens /\ gone[t] = {}
  BY <1>1 DEF F!CallOf
<1>3. PICK n \in Seq(F!Locks) : n = F!TimedOut(f_flock).list
  BY TimedOutLists
<1>4. PICK w : w = F!TimedOut(f_flock).woken
  OBVIOUS
<1>5. Carry(f_flock, n, w)
  BY <1>3, <1>4, TimedOutLists
<1>6. PICK k \in 0 .. Len(n) : k = F!Run(n, TRUE) /\ \A i \in 1 .. k : i \in DOMAIN n /\ n[i].lease
  <2>1. PICK p : p = TRUE
    OBVIOUS
  <2>2. F!Run(n, p) \in 0 .. Len(n) /\ \A i \in 1 .. F!Run(n, p) : i \in DOMAIN n /\ n[i].lease = p
    BY RunParts
  <2> QED
    BY <2>1, <2>2
<1>7. PICK b : b = F!Broken(n, k, F!Future(t, n[1]))
  OBVIOUS
<1>8. CASE 1 .. k = {} \/ ~F!Future(t, n[1])[2]
  <2>1. f_flock' = n /\ f_asleep' = f_asleep \ w /\ F!Goto(t, "opened", FALSE)
    BY <1>3, <1>4, <1>6, <1>8 DEF F!get_lease
  <2>2. Carry(f_flock, f_flock', w) /\ f_flock' \in Seq(F!Locks) /\ w \subseteq w \cup {t}
    BY <1>5, <2>1
  <2> QED
    BY <1>1, <1>2, <2>1, <2>2, PassKeeps
<1>9. CASE 1 .. k # {} /\ F!Future(t, n[1])[2]
  <2>1. k \in 1 .. Len(n) /\ arg[t].write \in BOOLEAN
    BY <1>2, <1>9 DEF F!FlockAssumption
  <2>2. PICK type \in {"RDLCK", "WRLCK", "UNLCK"} : F!Future(t, n[1]) = Asked(type)
    BY <1>6, <1>9, <2>1, FutureParts
  <2>4. /\ b \in Seq(F!Locks) /\ Carry(n, b, {}) /\ DOMAIN b = DOMAIN n
        /\ \A i \in 1 .. k : b[i].lease /\ b[i].breaking
    <3>1. \A i \in 1 .. k : n[i].lease
      BY <1>6
    <3>2. b = F!Broken(n, k, Asked(type))
      BY <1>7, <2>2
    <3> QED
      BY <3>1, <3>2, BreakLists
  <2>5. Carry(f_flock, b, w \cup {})
    BY <1>5, <2>4, CarryTrans
  <2>6. Carry(f_flock, b, w)
    <3>1. w \cup {} = w
      OBVIOUS
    <3> QED
      BY <2>5, <3>1
  <2>7. \/ f_flock' = b /\ f_asleep' = f_asleep \ w /\ F!Return(t)
        \/ /\ f_flock' = [b EXCEPT ![1].block = @ \cup {t}]
           /\ f_asleep' = (f_asleep \ w) \cup {t} /\ F!Goto(t, "broken", FALSE)
    BY <1>3, <1>4, <1>6, <1>7, <1>9 DEF F!get_lease
  <2>8. CASE f_flock' = b /\ f_asleep' = f_asleep \ w /\ F!Return(t)
    <3>1. /\ f_flock' \in Seq(F!Locks) /\ Carry(f_flock, f_flock', w) /\ f_pc[t] # "drain"
          /\ f_asleep' \subseteq f_asleep /\ f_asleep' \cap w \subseteq {t}
      BY <1>1, <2>4, <2>6, <2>8
    <3> QED
      BY <1>1, <2>8, <3>1, ReturnWakes
  <2>9. CASE /\ f_flock' = [b EXCEPT ![1].block = @ \cup {t}]
             /\ f_asleep' = (f_asleep \ w) \cup {t} /\ F!Goto(t, "broken", FALSE)
    <3>1. /\ f_pc' = [f_pc EXCEPT ![t] = "broken"] /\ arg' = arg /\ f_sig' = f_sig /\ timedout' = timedout
          /\ open' = open
      BY <2>9 DEF F!Goto
    <3>2. PICK i \in DOMAIN b : i = 1 /\ b[i].lease /\ b[i].breaking
      BY <2>1, <2>4
    <3>3. /\ f_flock' = [b EXCEPT ![i].block = @ \cup {t}] /\ w \subseteq w \cup {t}
          /\ timedout' \in [Tasks -> BOOLEAN]
      BY <2>9, <3>1, <3>2
    <3> QED
      BY <1>1, <1>2, <2>4, <2>6, <2>9, <3>1, <3>2, <3>3, SleepKeeps
  <2> QED
    BY <2>7, <2>8, <2>9
<1> QED
  BY <1>8, <1>9

LEMMA AfterSleepWakes ==
    ASSUME F!QueueInv, NEW t \in Tasks, F!AfterSleep(t) PROVE F!QueueInv'
<1> USE QueueParts
<1>1. f_pc[t] = "broken" /\ t \notin f_asleep /\ ~f_sig[t] /\ gone' = gone
  BY DEF F!AfterSleep, F!Runs
<1>2. PICK m \in Seq(F!Locks) : m = F!Unqueued(t)
  BY UnqueuedLists
<1>3. Carry(f_flock, m, {t})
  BY <1>2, UnqueuedLists
<1>4. PICK now : now = IF timedout[t] THEN F!TimedOut(m) ELSE [list |-> m, woken |-> {}]
  OBVIOUS
<1>5. now.list \in Seq(F!Locks) /\ Carry(m, now.list, now.woken)
  <2>1. CASE timedout[t]
    BY <1>4, <2>1, TimedOutLists
  <2>2. CASE ~timedout[t]
    <3>1. now.list = m /\ now.woken = {}
      BY <1>4, <2>2
    <3> QED
      BY <3>1, CarrySame
  <2> QED
    BY <2>1, <2>2
<1>6. PICK n \in Seq(F!Locks) : n = now.list
  BY <1>5
<1>7. PICK w, v : v = now.woken /\ w = {t} \cup v
  OBVIOUS
<1>8. Carry(f_flock, n, w) /\ w \subseteq v \cup {t}
  BY <1>3, <1>5, <1>6, <1>7, CarryTrans
<1>9. PICK k \in 0 .. Len(n) : k = F!Run(n, TRUE) /\ \A i \in 1 .. k : i \in DOMAIN n /\ n[i].lease
  <2>1. PICK p : p = TRUE
    OBVIOUS
  <2>2. F!Run(n, p) \in 0 .. Len(n) /\ \A i \in 1 .. F!Run(n, p) : i \in DOMAIN n /\ n[i].lease = p
    BY RunParts
  <2> QED
    BY <2>1, <2>2
<1>10. PICK P : P = {i \in 1 .. k : n[i].breaking}
  OBVIOUS
<1>11. IF P = {}
       THEN f_flock' = n /\ f_asleep' = f_asleep \ v /\ F!Goto(t, "opened", FALSE)
       ELSE /\ f_flock' = [n EXCEPT ![F!Min(P)].block = @ \cup {t}]
            /\ f_asleep' = (f_asleep \ v) \cup {t}
            /\ timedout' = [timedout EXCEPT ![t] = FALSE]
            /\ f_pc' = f_pc /\ arg' = arg /\ f_sig' = f_sig /\ open' = open
  <2>1. now = IF timedout[t] THEN F!TimedOut(F!Unqueued(t)) ELSE [list |-> F!Unqueued(t), woken |-> {}]
    BY <1>2, <1>4
  <2>2. P = {i \in 1 .. F!Run(now.list, TRUE) : now.list[i].breaking}
    BY <1>6, <1>9, <1>10
  <2>3. IF P = {}
        THEN f_flock' = now.list /\ f_asleep' = f_asleep \ now.woken /\ F!Goto(t, "opened", FALSE)
        ELSE /\ f_flock' = [now.list EXCEPT ![F!Min(P)].block = @ \cup {t}]
             /\ f_asleep' = (f_asleep \ now.woken) \cup {t}
             /\ timedout' = [timedout EXCEPT ![t] = FALSE]
             /\ f_pc' = f_pc /\ arg' = arg /\ f_sig' = f_sig /\ open' = open
    <3>1. CASE timedout[t]
      <4>1. now = F!TimedOut(F!Unqueued(t))
        BY <2>1, <3>1
      <4> QED
        BY ONLY F!AfterSleep(t), <2>2, <3>1, <4>1, ZenonT(30) DEF F!AfterSleep
    <3>2. CASE ~timedout[t]
      <4>1. now = [list |-> F!Unqueued(t), woken |-> {}]
        BY <2>1, <3>2
      <4>2. now.list = F!Unqueued(t) /\ now.woken = {}
        BY <4>1
      <4> QED
        BY ONLY F!AfterSleep(t), <2>2, <3>2, <4>2 DEF F!AfterSleep
    <3> QED
      BY <3>1, <3>2
  <2> QED
    BY <1>6, <1>7, <2>3
<1>12. CASE P = {}
  <2>1. f_flock' = n /\ f_asleep' = f_asleep \ v /\ F!Goto(t, "opened", FALSE)
    BY <1>11, <1>12
  <2>2. Carry(f_flock, f_flock', w) /\ f_flock' \in Seq(F!Locks)
    BY <1>8, <2>1
  <2> QED
    BY <1>1, <1>8, <2>1, <2>2, PassKeeps
<1>13. CASE P # {}
  <2>1. P \subseteq Nat
    BY <1>10
  <2>2. F!Min(P) \in P
    BY <1>13, <2>1, MinOf, SameMin
  <2>3. PICK i \in DOMAIN n : i = F!Min(P) /\ n[i].lease /\ n[i].breaking
    BY <1>9, <1>10, <2>2
  <2>4. /\ f_flock' = [n EXCEPT ![i].block = @ \cup {t}]
        /\ f_asleep' = (f_asleep \ v) \cup {t}
        /\ timedout' \in [Tasks -> BOOLEAN]
        /\ f_pc' = f_pc /\ arg' = arg /\ f_sig' = f_sig /\ open' = open
    BY <1>11, <1>13, <2>3
  <2>5. f_pc' = [f_pc EXCEPT ![t] = "broken"]
    BY <1>1, <2>4
  <2> QED
    BY <1>1, <1>8, <2>3, <2>4, <2>5, SleepKeeps
<1> QED
  BY <1>12, <1>13

\* What fcntl_setlease does to the list n that time_out_leases has left, with k leases at its head.
Leased(t, n, k, type) ==
    /\ n = F!TimedOut(f_flock).list
    /\ k = F!Run(n, TRUE) /\ k <= Len(n) /\ \A i \in 1 .. k : i \in DOMAIN n /\ n[i].lease
    /\ Renews \/ type = "UNLCK" \/ \A u \in Tasks : f_pc[u] # "broken"
    /\ f_asleep' \subseteq f_asleep /\ f_asleep' \cap F!TimedOut(f_flock).woken = {}
    /\ type = "WRLCK" => f_flock' = n \/ (~(F!Users > 1) /\ \A j \in 1 .. k : n[j].file = FileOf[t])
    /\ \/ f_flock' = n
       \/ \E i \in 1 .. k : /\ n[i].file = FileOf[t] /\ f_flock' = F!lease_modify(n, i, type)
                            /\ f_asleep' \cap n[i].block = {}
       \/ /\ type # "UNLCK" /\ f_flock' = F!InsertAt(n, k + 1, F!Lock(t, TRUE, type))
          /\ \A i \in 1 .. k : n[i].file # FileOf[t]

LEMMA SetleaseParts ==
    ASSUME F!FlockAssumption, f_flock \in Seq(F!Locks), NEW t \in Tasks, F!fcntl_setlease(t)
    PROVE  \E n \in Seq(F!Locks), k \in Nat, type \in {"RDLCK", "WRLCK", "UNLCK"} : Leased(t, n, k, type)
<1>1. PICK n \in Seq(F!Locks) : n = F!TimedOut(f_flock).list
  BY TimedOutLists
<1>2. PICK w : w = F!TimedOut(f_flock).woken
  OBVIOUS
<1>3. PICK k \in Nat : k = F!Run(n, TRUE) /\ k <= Len(n) /\ \A i \in 1 .. k : i \in DOMAIN n /\ n[i].lease
  <2>1. PICK p : p = TRUE
    OBVIOUS
  <2>2. F!Run(n, p) \in 0 .. Len(n) /\ \A i \in 1 .. F!Run(n, p) : i \in DOMAIN n /\ n[i].lease = p
    BY RunParts
  <2>3. F!Run(n, p) \in Nat /\ F!Run(n, p) <= Len(n)
    BY <2>2
  <2> QED
    BY <2>1, <2>2, <2>3
<1>4. PICK M : M = F!MyLeases(t, n)
  OBVIOUS
<1>5. M = {i \in 1 .. k : n[i].file = FileOf[t]}
  BY <1>3, <1>4 DEF F!MyLeases
<1> DEFINE before == IF M = {} THEN k ELSE F!Max(M)
<1>6. PICK type \in Leases :
        /\ Renews \/ type = "UNLCK" \/ \A u \in Tasks : f_pc[u] # "broken"
        /\ f_flock' = IF F!Refused(t, n, type) \/ (M = {} /\ type = "UNLCK") THEN n
                      ELSE IF M # {} THEN F!lease_modify(n, before, type)
                      ELSE F!InsertAt(n, before + 1, F!Lock(t, TRUE, type))
        /\ f_asleep' = f_asleep \ (w \cup IF F!Refused(t, n, type) \/ M = {} THEN {} ELSE n[before].block)
  <2>1. PICK now : now = F!TimedOut(f_flock)
    OBVIOUS
  <2>2. n = now.list /\ w = now.woken /\ M = F!MyLeases(t, now.list) /\ k = F!Run(now.list, TRUE)
    BY <1>1, <1>2, <1>3, <1>4, <2>1
  <2>3. PICK bef : bef = IF F!MyLeases(t, now.list) = {} THEN F!Run(now.list, TRUE) ELSE F!Max(F!MyLeases(t, now.list))
    OBVIOUS
  <2>4. bef = before
    BY <2>2, <2>3
  <2>5. PICK type \in Leases :
        /\ Renews \/ type = "UNLCK" \/ \A u \in Tasks : f_pc[u] # "broken"
        /\ f_flock' = IF F!Refused(t, now.list, type) \/ (F!MyLeases(t, now.list) = {} /\ type = "UNLCK") THEN now.list
                      ELSE IF F!MyLeases(t, now.list) # {} THEN F!lease_modify(now.list, bef, type)
                      ELSE F!InsertAt(now.list, bef + 1, F!Lock(t, TRUE, type))
        /\ f_asleep' = f_asleep \ (now.woken \cup IF F!Refused(t, now.list, type) \/ F!MyLeases(t, now.list) = {} THEN {} ELSE now.list[bef].block)
    BY ONLY F!fcntl_setlease(t), <2>1, <2>3 DEF F!fcntl_setlease
  <2> QED
    BY <2>2, <2>4, <2>5
<1>7. type \in {"RDLCK", "WRLCK", "UNLCK"}
  BY DEF F!FlockAssumption
<1>8. f_asleep' \subseteq f_asleep /\ f_asleep' \cap w = {}
  BY <1>6
<1>9. type = "WRLCK" => F!Refused(t, n, type) \/ (~(F!Users > 1) /\ \A j \in 1 .. k : n[j].file = FileOf[t])
  BY <1>3, <1>4, <1>5 DEF F!Refused
<1>10. F!Refused(t, n, type) => f_flock' = n
  BY <1>6
<1>11. \/ f_flock' = n
       \/ \E i \in 1 .. k : /\ n[i].file = FileOf[t] /\ f_flock' = F!lease_modify(n, i, type)
                            /\ f_asleep' \cap n[i].block = {}
       \/ /\ type # "UNLCK" /\ f_flock' = F!InsertAt(n, k + 1, F!Lock(t, TRUE, type))
          /\ \A i \in 1 .. k : n[i].file # FileOf[t]
  <2>1. CASE F!Refused(t, n, type) \/ (M = {} /\ type = "UNLCK")
    BY <1>6, <2>1
  <2>2. CASE ~F!Refused(t, n, type) /\ M # {}
    <3>1. M \subseteq 0 .. k
      BY <1>5
    <3>2. F!Max(M) \in M
      BY <2>2, <3>1, MaxOf, SameMax
    <3>3. PICK i \in 1 .. k : i = before /\ n[i].file = FileOf[t]
      BY <1>5, <2>2, <3>2
    <3>4. f_flock' = F!lease_modify(n, i, type) /\ f_asleep' \cap n[i].block = {}
      BY <1>6, <2>2, <3>3
    <3> QED
      BY <3>3, <3>4
  <2>3. CASE ~F!Refused(t, n, type) /\ M = {} /\ type # "UNLCK"
    <3>1. f_flock' = F!InsertAt(n, k + 1, F!Lock(t, TRUE, type))
      BY <1>6, <2>3
    <3>2. \A i \in 1 .. k : n[i].file # FileOf[t]
      BY <1>5, <2>3
    <3> QED
      BY <2>3, <3>1, <3>2
  <2> QED
    BY <2>1, <2>2, <2>3
<1>12. Leased(t, n, k, type)
  BY <1>1, <1>2, <1>3, <1>6, <1>8, <1>9, <1>10, <1>11 DEF Leased
<1> QED
  BY <1>7, <1>12

LEMMA SetleaseWakes ==
    ASSUME F!FlockAssumption, F!QueueInv, NEW t \in Tasks, F!fcntl_setlease(t) PROVE F!QueueInv'
<1> USE QueueParts
<1>1. PICK n \in Seq(F!Locks), k \in Nat, type \in {"RDLCK", "WRLCK", "UNLCK"} : Leased(t, n, k, type)
  BY SetleaseParts
<1>2. PICK w : w = F!TimedOut(f_flock).woken
  OBVIOUS
<1>3. Carry(f_flock, n, w)
  BY <1>1, <1>2, TimedOutLists DEF Leased
<1>4. \E v : f_flock' \in Seq(F!Locks) /\ Carry(n, f_flock', v) /\ f_asleep' \cap v = {}
  <2>1. CASE f_flock' = n
    <3>1. f_flock' \in Seq(F!Locks) /\ Carry(n, f_flock', {}) /\ f_asleep' \cap {} = {}
      BY <2>1, CarrySame
    <3> QED
      BY <3>1
  <2>2. CASE \E i \in 1 .. k : f_flock' = F!lease_modify(n, i, type) /\ f_asleep' \cap n[i].block = {}
    <3>1. PICK i \in 1 .. k : f_flock' = F!lease_modify(n, i, type) /\ f_asleep' \cap n[i].block = {}
      BY <2>2
    <3>2. i \in DOMAIN n /\ n[i].lease
      BY <1>1 DEF Leased
    <3>3. F!lease_modify(n, i, type) \in Seq(F!Locks) /\ Carry(n, F!lease_modify(n, i, type), n[i].block)
      BY <3>2, ModifyLists
    <3> QED
      BY <3>1, <3>3
  <2>3. CASE f_flock' = F!InsertAt(n, k + 1, F!Lock(t, TRUE, type))
    <3>1. PICK x \in F!Locks : x = F!Lock(t, TRUE, type)
      BY DEF F!Lock, F!Locks, F!FlockAssumption
    <3>2. k \in 0 .. Len(n)
      <4>1. k <= Len(n)
        BY <1>1, Zenon DEF Leased
      <4>2. Len(n) \in Nat /\ k \in Nat
        OBVIOUS
      <4> QED
        BY ONLY <4>1, <4>2
    <3>3. F!InsertAt(n, k + 1, x) \in Seq(F!Locks) /\ Carry(n, F!InsertAt(n, k + 1, x), {})
      BY <3>2, InsertLists
    <3>4. f_asleep' \cap {} = {}
      OBVIOUS
    <3> QED
      BY <2>3, <3>1, <3>3, <3>4
  <2> QED
    BY <1>1, <2>1, <2>2, <2>3 DEF Leased
<1>5. PICK v : f_flock' \in Seq(F!Locks) /\ Carry(n, f_flock', v) /\ f_asleep' \cap v = {}
  BY <1>4
<1>6. PICK z : z = w \cup v
  OBVIOUS
<1>7. PICK m : m = f_flock'
  OBVIOUS
<1>8. Carry(f_flock, m, z)
  BY <1>3, <1>5, <1>6, <1>7, CarryTrans
<1>9. /\ f_asleep' \subseteq f_asleep /\ f_asleep' \cap z = {} /\ Carry(f_flock, f_flock', z)
  BY <1>1, <1>2, <1>5, <1>6, <1>7, <1>8 DEF Leased
<1>10. f_pc' = f_pc /\ arg' = arg /\ gone' = gone /\ f_sig' = f_sig /\ timedout' = timedout /\ open' = open
  BY DEF F!fcntl_setlease
<1>11. /\ \A u \in Tasks : f_sig'[u] => f_sig[u] \/ u \in f_asleep
       /\ f_sig' \in [Tasks -> BOOLEAN] /\ timedout' \in [Tasks -> BOOLEAN] /\ open' \in SUBSET OpenFiles
  BY <1>10
<1> QED
  BY <1>5, <1>9, <1>10, <1>11, QuietKeeps

\* A signal, the end of a sleep, a break time that passes, and the last close.
LEMMA OtherWakes ==
    ASSUME F!QueueInv,
           \/ \E t \in Tasks : F!Signal(t) \/ F!Timeout(t)
           \/ \E f \in OpenFiles : F!Close(f)
           \/ F!Expire
    PROVE  F!QueueInv'
<1> USE QueueParts
<1>1. CASE \E t \in Tasks : F!Signal(t) \/ F!Timeout(t)
  <2>1. PICK t \in Tasks : F!Signal(t) \/ F!Timeout(t)
    BY <1>1
  <2>2. /\ f_flock' = f_flock /\ f_pc' = f_pc /\ arg' = arg /\ gone' = gone /\ open' = open
        /\ t \in f_asleep /\ f_asleep' = f_asleep \ {t}
        /\ \/ f_sig' = [f_sig EXCEPT ![t] = TRUE] /\ timedout' = timedout
           \/ timedout' = [timedout EXCEPT ![t] = TRUE] /\ f_sig' = f_sig
    BY <2>1 DEF F!Signal, F!Timeout
  <2>3. PICK w : w = {}
    OBVIOUS
  <2>4. f_flock' \in Seq(F!Locks) /\ Carry(f_flock, f_flock', w)
    BY <2>2, <2>3, CarrySame
  <2>5. /\ f_asleep' \subseteq f_asleep /\ f_asleep' \cap w = {}
        /\ \A u \in Tasks : f_sig'[u] => f_sig[u] \/ u \in f_asleep
        /\ f_sig' \in [Tasks -> BOOLEAN] /\ timedout' \in [Tasks -> BOOLEAN] /\ open' \in SUBSET OpenFiles
    BY <2>2, <2>3
  <2> QED
    BY <2>2, <2>4, <2>5, QuietKeeps
<1>2. CASE \E f \in OpenFiles : F!Close(f)
  <2>1. PICK f \in OpenFiles : F!Close(f)
    BY <1>2
  <2>2. PICK l \in Seq(F!Locks) : l = f_flock
    OBVIOUS
  <2>3. PICK out : out = {i \in DOMAIN l : l[i].file = f}
    OBVIOUS
  <2>4. PICK w : w = UNION {l[i].block : i \in out}
    OBVIOUS
  <2>5. /\ f_flock' = F!Without(l, out) /\ f_asleep' = f_asleep \ w /\ open' = open \ {f}
        /\ f_pc' = f_pc /\ arg' = arg /\ gone' = gone /\ f_sig' = f_sig /\ timedout' = timedout
    BY <2>1, <2>2, <2>3, <2>4 DEF F!Close
  <2>6. F!Without(l, out) \in Seq(F!Locks) /\ Carry(l, F!Without(l, out), w)
    BY <2>3, <2>4, WithoutLists
  <2>7. f_flock' \in Seq(F!Locks) /\ Carry(f_flock, f_flock', w)
    BY <2>2, <2>5, <2>6
  <2>8. /\ f_asleep' \subseteq f_asleep /\ f_asleep' \cap w = {}
        /\ \A u \in Tasks : f_sig'[u] => f_sig[u] \/ u \in f_asleep
        /\ f_sig' \in [Tasks -> BOOLEAN] /\ timedout' \in [Tasks -> BOOLEAN] /\ open' \in SUBSET OpenFiles
    BY <2>5
  <2> QED
    BY <2>5, <2>7, <2>8, QuietKeeps
<1>3. CASE F!Expire
  <2>1. PICK l \in Seq(F!Locks) : l = f_flock
    OBVIOUS
  <2>2. PICK i \in DOMAIN l : f_flock' = [l EXCEPT ![i].timer = "over"]
    BY <1>3, <2>1 DEF F!Expire
  <2>3. /\ open' = open /\ f_asleep' = f_asleep
        /\ f_pc' = f_pc /\ arg' = arg /\ gone' = gone /\ f_sig' = f_sig /\ timedout' = timedout
    BY <1>3 DEF F!Expire
  <2>4. PICK m : m = [l EXCEPT ![i].timer = "over"]
    OBVIOUS
  <2>5. PICK x \in F!Locks, y \in F!Locks : x = l[i] /\ y = [x EXCEPT !.timer = "over"]
    <3>1. PICK x \in F!Locks : x = l[i]
      OBVIOUS
    <3>2. [x EXCEPT !.timer = "over"] \in F!Locks
      BY DEF F!Locks
    <3> QED
      BY <3>1, <3>2
  <2>6. m = [l EXCEPT ![i] = y]
    BY <2>4, <2>5
  <2>7. m \in Seq(F!Locks) /\ DOMAIN m = DOMAIN l /\ m[i] = y /\ \A j \in DOMAIN l \ {i} : m[j] = l[j]
    BY <2>6
  <2>8. y.lease = x.lease /\ y.file = x.file /\ y.type = x.type /\ y.breaking = x.breaking /\ y.block = x.block
    BY <2>5 DEF F!Locks
  <2>9. PICK w : w = {}
    OBVIOUS
  <2>10. \A j \in DOMAIN l : Stays(l[j], m[j]) /\ l[j].block \ w \subseteq m[j].block
    BY <2>5, <2>7, <2>8 DEF Stays
  <2>11. Carry(l, m, w)
    BY <2>7, <2>10, CarryPlace
  <2>12. f_flock' \in Seq(F!Locks) /\ Carry(f_flock, f_flock', w)
    BY <2>1, <2>2, <2>4, <2>7, <2>11
  <2>13. /\ f_asleep' \subseteq f_asleep /\ f_asleep' \cap w = {}
         /\ \A u \in Tasks : f_sig'[u] => f_sig[u] \/ u \in f_asleep
         /\ f_sig' \in [Tasks -> BOOLEAN] /\ timedout' \in [Tasks -> BOOLEAN] /\ open' \in SUBSET OpenFiles
    BY <2>3, <2>9
  <2> QED
    BY <2>3, <2>12, <2>13, QuietKeeps
<1> QED
  BY <1>1, <1>2, <1>3

LEMMA QueueInduction ==
    ASSUME F!FlockAssumption, F!QueueInv, [F!Next]_F!vars
    PROVE  F!QueueInv'
<1>1. CASE \E t \in Tasks : F!Step(t)
  <2>1. PICK t \in Tasks : F!Step(t)
    BY <1>1
  <2> QED
    BY <2>1, NothingWakes, UnlockWakes, ChangeWakes, SimpleWakes, RepeatWakes, GetLeaseWakes, AfterSleepWakes,
       InterruptedWakes DEF F!Step
<1>2. CASE \E t \in Tasks : F!sys_flock(t) \/ F!fcntl_setlease(t) \/ F!Open(t)
  BY <1>2, SimpleWakes, SetleaseWakes
<1>3. CASE UNCHANGED F!vars
  BY <1>3 DEF F!vars, F!QueueInv, F!Types, F!CallInv, F!CallOf, F!NoLostWakeup, F!Awaits, F!flock_locks_conflict
<1> QED
  BY <1>1, <1>2, <1>3, OtherWakes DEF F!Next

LEMMA QueueInit == F!FlockAssumption /\ F!Init => F!QueueInv
<1> SUFFICES ASSUME F!FlockAssumption, F!Init PROVE F!QueueInv
  OBVIOUS
<1>1. F!Types
  BY DEF F!Init, F!Types, F!PCs
<1>2. F!CallInv
  BY DEF F!Init, F!CallInv, F!CallOf
<1>3. F!NoLostWakeup
  BY DEF F!Init, F!NoLostWakeup
<1> QED
  BY <1>1, <1>2, <1>3 DEF F!QueueInv

\* Who sleeps in flock or in open, on any list of flocks and leases, is queued behind a lock that is
\* still in his way, or behind one whose owner is about to wake him (locks_wake_up_blocks).
THEOREM FlocksWake == F!FlockAssumption /\ F!Spec => [](F!QueueInv /\ F!NoLostWakeup)
<1> SUFFICES ASSUME F!FlockAssumption PROVE F!Spec => [](F!QueueInv /\ F!NoLostWakeup)
  OBVIOUS
<1>1. F!QueueInv => F!NoLostWakeup
  BY DEF F!QueueInv
<1>2. F!Init => F!QueueInv
  BY QueueInit
<1>3. F!QueueInv /\ [F!Next]_F!vars => F!QueueInv'
  BY QueueInduction
<1> QED
  BY <1>1, <1>2, <1>3, PTL DEF F!Spec

-----------------------------------------------------------------------------
(* flock excludes.                                                         *)

\* m is the lock l, apart from its waiters and its time, and a lease may have been kept as less.
Like(m, l) ==
    /\ m.lease = l.lease /\ m.file = l.file /\ m.type = l.type
    /\ m.breaking => l.breaking
    /\ l.breaking /\ l.type = "UNLCK" => m.breaking

\* Each lock in m is one of l.
Within(m, l) == \E h : Injects(m, l, h) /\ \A j \in DOMAIN m : Like(m[j], l[h[j]])

LEMMA WithinPlace ==
    ASSUME NEW l, NEW m, DOMAIN m = DOMAIN l,
           \A i \in DOMAIN l : Like(m[i], l[i])
    PROVE  Within(m, l)
<1>1. PICK D : D = DOMAIN l /\ D = DOMAIN m
  OBVIOUS
<1>2. PICK h \in [D -> D] : \A i \in D : h[i] = i
  <2>1. [i \in D |-> i] \in [D -> D]
    OBVIOUS
  <2> QED
    BY <2>1
<1>3. h \in [DOMAIN m -> DOMAIN l] /\ \A i, j \in DOMAIN m : h[i] = h[j] => i = j
  BY <1>1, <1>2
<1> QED
  BY <1>1, <1>2, <1>3 DEF Within, Injects

LEMMA WithinWithout ==
    ASSUME NEW l \in Seq(F!Locks), NEW out
    PROVE  Within(F!Without(l, out), l)
<1>1. PICK m \in Seq(F!Locks) : m = F!Without(l, out) /\ Remains(m, l, DOMAIN l \ out)
  BY WithoutParts
<1>2. PICK D, E, K : D = DOMAIN m /\ E = DOMAIN l /\ K = E \ out
  OBVIOUS
<1>3. PICK h \in [D -> K] : (\A i \in D : m[i] = l[h[i]]) /\ \A i, j \in D : h[i] = h[j] => i = j
  <2>1. PICK h \in [DOMAIN m -> DOMAIN l \ out] :
            (\A i \in DOMAIN m : m[i] = l[h[i]]) /\ \A i, j \in DOMAIN m : h[i] = h[j] => i = j
    BY <1>1, Zenon DEF Remains
  <2> QED
    BY <1>2, <2>1
<1>4. h \in [D -> E]
  BY <1>2
<1>5. \A j \in D : Like(m[j], l[h[j]])
  BY <1>3 DEF Like
<1> QED
  BY <1>1, <1>2, <1>3, <1>4, <1>5 DEF Within, Injects

LEMMA WithinTimedOut ==
    ASSUME NEW l \in Seq(F!Locks)
    PROVE  Within(F!TimedOut(l).list, l)
<1>1. PICK m : m = F!TimedOut(l).list
  OBVIOUS
<1>2. PICK h : Injects(m, l, h) /\ \A j \in DOMAIN m : Ended(m[j], l[h[j]])
  BY <1>1, TimedOutParts
<1>3. ASSUME NEW j \in DOMAIN m PROVE Like(m[j], l[h[j]])
  <2>1. h[j] \in DOMAIN l
    BY <1>2 DEF Injects
  <2>2. PICK y \in F!Locks : y = l[h[j]]
    BY <2>1
  <2>3. CASE m[j] = y
    BY <2>2, <2>3 DEF Like
  <2>4. CASE y.type # "UNLCK" /\ m[j] = [y EXCEPT !.breaking = FALSE, !.block = {}]
    <3>1. PICK x : x = m[j]
      OBVIOUS
    <3>2. x.lease = y.lease /\ x.file = y.file /\ x.type = y.type /\ x.breaking = FALSE
      BY <2>4, <3>1 DEF F!Locks
    <3> QED
      BY <2>2, <2>4, <3>1, <3>2 DEF Like
  <2> QED
    BY <1>2, <2>2, <2>3, <2>4 DEF Ended
<1> QED
  BY <1>1, <1>2, <1>3 DEF Within

LEMMA FlockKeeps ==
    ASSUME F!FlockInv, Within(f_flock', f_flock), \A u \in Tasks : f_pc'[u] = "repeat" => f_pc[u] = "repeat"
    PROVE  F!FlockInv'
<1>1. PICK l, m : l = f_flock /\ m = f_flock'
  OBVIOUS
<1>2. PICK D, E : D = DOMAIN m /\ E = DOMAIN l
  OBVIOUS
<1>3. PICK h \in [D -> E] :
         /\ \A i, j \in D : h[i] = h[j] => i = j
         /\ \A j \in D : m[j].lease = l[h[j]].lease /\ m[j].file = l[h[j]].file /\ m[j].type = l[h[j]].type
  <2>1. PICK h : Injects(m, l, h) /\ \A j \in DOMAIN m : Like(m[j], l[h[j]])
    BY <1>1 DEF Within
  <2> QED
    BY <1>2, <2>1 DEF Injects, Like
<1>4. \A j \in D : ~m[j].lease /\ m[j].type # "UNLCK"
  BY <1>1, <1>2, <1>3 DEF F!FlockInv
<1>5. \A i, j \in D : m[i].file # m[j].file => m[i].type = "RDLCK"
  <2>1. \A i, j \in E : l[i].file # l[j].file => l[i].type = "RDLCK"
    BY <1>1, <1>2 DEF F!FlockInv, F!FlockExclusive
  <2> QED
    BY <1>3, <2>1
<1>6. ASSUME F!Unshared
      PROVE  /\ \A i, j \in D : m[i].file = m[j].file => i = j
             /\ \A t \in Tasks : f_pc'[t] = "repeat" => \A i \in D : m[i].file # FileOf[t]
  <2>1. \A i, j \in E : l[i].file = l[j].file => i = j
    BY <1>1, <1>2, <1>6 DEF F!FlockInv, F!OneFlockPerFile
  <2>2. \A t \in Tasks : f_pc[t] = "repeat" => \A i \in E : l[i].file # FileOf[t]
    BY <1>1, <1>2, <1>6 DEF F!FlockInv
  <2> QED
    BY <1>3, <2>1, <2>2
<1>7. F!FlockExclusive'
  BY <1>1, <1>2, <1>5 DEF F!FlockExclusive
<1>8. F!Unshared' => F!Unshared
  BY DEF F!Unshared
<1>9. F!Unshared' => F!OneFlockPerFile'
  BY <1>1, <1>2, <1>6, <1>8 DEF F!OneFlockPerFile
<1> QED
  BY <1>1, <1>2, <1>4, <1>6, <1>7, <1>8, <1>9 DEF F!FlockInv

\* A new flock, which nothing is in the way of.
LEMMA GrantKeeps ==
    ASSUME F!FlockAssumption, F!QueueInv, F!FlockInv, NEW t \in Tasks, f_pc[t] = "repeat", F!InTheWay(t) = {},
           f_flock' = <<F!Lock(t, FALSE, arg[t].type)>> \o F!Unqueued(t), f_pc' = [f_pc EXCEPT ![t] = "idle"]
    PROVE  F!FlockInv'
<1> USE QueueParts
<1>1. PICK l \in Seq(F!Locks) : l = f_flock
  OBVIOUS
<1>2. PICK m \in Seq(F!Locks) : m = F!Unqueued(t)
  BY UnqueuedLists
<1>3. arg[t].type \in {"RDLCK", "WRLCK"}
  BY DEF F!CallOf, F!FlockAssumption
<1>4. PICK x \in F!Locks : x = F!Lock(t, FALSE, arg[t].type)
  BY <1>3 DEF F!Lock, F!Locks, F!FlockAssumption
<1>5. x.lease = FALSE /\ x.file = FileOf[t] /\ x.type = arg[t].type
  BY <1>4 DEF F!Lock
<1>6. DOMAIN m = DOMAIN l /\ \A i \in DOMAIN l : m[i].lease = l[i].lease /\ m[i].file = l[i].file /\ m[i].type = l[i].type
  <2>1. DOMAIN m = DOMAIN l /\ \A i \in DOMAIN l : m[i] = [l[i] EXCEPT !.block = l[i].block \ {t}]
    BY <1>1, <1>2, UnqueuedLists
  <2>2. ASSUME NEW i \in DOMAIN l PROVE m[i].lease = l[i].lease /\ m[i].file = l[i].file /\ m[i].type = l[i].type
    <3>1. PICK y \in F!Locks : y = l[i]
      OBVIOUS
    <3>2. m[i] = [y EXCEPT !.block = y.block \ {t}]
      BY <2>1, <3>1
    <3> QED
      BY <3>1, <3>2 DEF F!Locks
  <2> QED
    BY <2>1, <2>2
<1>7. /\ \A i \in DOMAIN l : ~l[i].lease /\ l[i].type # "UNLCK"
      /\ \A i, j \in DOMAIN l : l[i].file # l[j].file => l[i].type = "RDLCK"
  BY <1>1 DEF F!FlockInv, F!FlockExclusive
<1>8. \A i \in DOMAIN l : l[i].file # FileOf[t] => x.type = "RDLCK" /\ l[i].type = "RDLCK"
  <2>1. PICK p : p = FALSE
    OBVIOUS
  <2>2. \A i \in DOMAIN l : l[i].lease = p
    <3>1. ASSUME NEW i \in DOMAIN l PROVE l[i].lease = p
      <4>1. PICK y \in F!Locks : y = l[i]
        OBVIOUS
      <4>2. y.lease \in BOOLEAN /\ ~y.lease
        BY <1>7, <4>1, FlockFields
      <4> QED
        BY <2>1, <4>1, <4>2
    <3> QED
      BY <3>1
  <2>3. F!Run(l, p) = Len(l)
    BY <2>2, RunParts
  <2>4. 1 .. F!Run(f_flock, FALSE) = DOMAIN l
    <3>1. F!Run(f_flock, FALSE) = Len(l)
      BY <1>1, <2>1, <2>3
    <3>2. DOMAIN l = 1 .. Len(l)
      OBVIOUS
    <3> QED
      BY ONLY <3>1, <3>2
  <2>5. \A i \in DOMAIN l : ~F!flock_locks_conflict(t, l[i])
    BY <1>1, <2>4 DEF F!InTheWay
  <2>6. ASSUME NEW i \in DOMAIN l, l[i].file # FileOf[t] PROVE x.type = "RDLCK" /\ l[i].type = "RDLCK"
    <3>1. PICK y \in F!Locks : y = l[i]
      OBVIOUS
    <3>2. y.type \in {"RDLCK", "WRLCK", "UNLCK"} /\ y.type # "UNLCK"
      BY <1>7, <3>1, FlockFields
    <3> QED
      BY <1>3, <1>5, <2>5, <2>6, <3>1, <3>2 DEF F!flock_locks_conflict
  <2> QED
    BY <2>6
<1>9. PICK n : n = f_flock'
  OBVIOUS
<1>10. /\ n \in Seq(F!Locks) /\ n[1] = x
       /\ \A j \in DOMAIN n : j = 1 \/ (j - 1 \in DOMAIN l /\ n[j] = m[j - 1])
  <2>1. n = <<x>> \o m
    BY <1>2, <1>4, <1>9
  <2> QED
    BY <1>6, <2>1, PrependLists
<1>11. \A j \in DOMAIN n : \/ n[j] = x /\ j = 1
                           \/ /\ j # 1 /\ j - 1 \in DOMAIN l /\ n[j].lease = l[j - 1].lease
                              /\ n[j].file = l[j - 1].file /\ n[j].type = l[j - 1].type
  BY <1>6, <1>10
<1>12. ASSUME NEW j \in DOMAIN n PROVE ~n[j].lease /\ n[j].type # "UNLCK"
  <2>1. CASE n[j] = x
    BY <1>3, <1>5, <2>1
  <2>2. CASE n[j] # x
    <3>1. PICK i \in DOMAIN l : n[j].lease = l[i].lease /\ n[j].type = l[i].type
      BY <1>11, <2>2
    <3>2. ~l[i].lease /\ l[i].type # "UNLCK"
      BY <1>7
    <3> QED
      BY <3>1, <3>2
  <2> QED
    BY <2>1, <2>2
<1>13. \A i, j \in DOMAIN n : n[i].file # n[j].file => n[i].type = "RDLCK"
  BY <1>5, <1>7, <1>8, <1>11
<1>14. ASSUME F!Unshared
       PROVE  /\ \A i, j \in DOMAIN n : n[i].file = n[j].file => i = j
              /\ \A u \in Tasks : f_pc'[u] = "repeat" => \A i \in DOMAIN n : n[i].file # FileOf[u]
  <2>1. \A i, j \in DOMAIN l : l[i].file = l[j].file => i = j
    BY <1>1, <1>7, <1>14 DEF F!FlockInv, F!OneFlockPerFile
  <2>2. \A u \in Tasks : f_pc[u] = "repeat" => \A i \in DOMAIN l : l[i].file # FileOf[u]
    BY <1>1, <1>14 DEF F!FlockInv
  <2>3. ASSUME NEW i \in DOMAIN n, NEW j \in DOMAIN n, n[i].file = n[j].file PROVE i = j
    <3>1. CASE i = 1 \/ j = 1
      BY <1>5, <1>11, <2>2, <2>3, <3>1
    <3>2. CASE i # 1 /\ j # 1
      <4>1. i - 1 = j - 1
        BY <1>11, <2>1, <2>3, <3>2
      <4>2. i \in Int /\ j \in Int
        BY <1>10
      <4> QED
        BY ONLY <4>1, <4>2
    <3> QED
      BY <3>1, <3>2
  <2>4. ASSUME NEW u \in Tasks, f_pc'[u] = "repeat", NEW i \in DOMAIN n PROVE n[i].file # FileOf[u]
    <3>1. u # t /\ f_pc[u] = "repeat"
      BY <2>4
    <3>2. FileOf[u] # FileOf[t]
      BY <1>14, <3>1 DEF F!Unshared
    <3>3. CASE i = 1
      BY <1>5, <1>11, <3>2, <3>3
    <3>4. CASE i # 1
      BY <1>11, <2>2, <3>1, <3>4
    <3> QED
      BY <3>3, <3>4
  <2> QED
    BY <2>3, <2>4
<1>15. F!FlockExclusive'
  BY <1>9, <1>13 DEF F!FlockExclusive
<1>16. F!Unshared' => F!Unshared
  BY DEF F!Unshared
<1>17. F!Unshared' => F!OneFlockPerFile'
  BY <1>9, <1>14, <1>16 DEF F!OneFlockPerFile
<1> QED
  BY <1>9, <1>12, <1>14, <1>15, <1>16, <1>17 DEF F!FlockInv

LEMMA LikeSame == \A x : Like(x, x)
BY DEF Like

LEMMA WithinTrans ==
    ASSUME NEW l, NEW m, NEW n, Within(n, m), Within(m, l)
    PROVE  Within(n, l)
<1>1. PICK A, B, C : A = DOMAIN n /\ B = DOMAIN m /\ C = DOMAIN l
  OBVIOUS
<1>2. PICK g : g \in [A -> B] /\ (\A i, j \in A : g[i] = g[j] => i = j) /\
               \A j \in A : Like(n[j], m[g[j]])
  <2>1. PICK g : Injects(n, m, g) /\
                 \A j \in DOMAIN n : Like(n[j], m[g[j]])
    BY DEF Within
  <2> QED
    BY <1>1, <2>1 DEF Injects
<1>3. PICK h : h \in [B -> C] /\ (\A i, j \in B : h[i] = h[j] => i = j) /\
               \A j \in B : Like(m[j], l[h[j]])
  <2>1. PICK h : Injects(m, l, h) /\
                 \A j \in DOMAIN m : Like(m[j], l[h[j]])
    BY DEF Within
  <2> QED
    BY <1>1, <2>1 DEF Injects
<1>4. PICK f \in [A -> C] : \A j \in A : f[j] = h[g[j]]
  <2>1. [j \in A |-> h[g[j]]] \in [A -> C]
    BY <1>2, <1>3
  <2> QED
    BY <2>1
<1>5. f \in [A -> C] /\ (\A i, j \in A : f[i] = f[j] => i = j) /\
      \A j \in A : Like(n[j], l[f[j]])
  <2>1. (\A j \in A : g[j] \in B) /\ \A i, j \in A : f[i] = f[j] => i = j
    BY <1>2, <1>3, <1>4
  <2>2. ASSUME NEW j \in A PROVE Like(n[j], l[f[j]])
    <3>1. Like(n[j], m[g[j]]) /\ Like(m[g[j]], l[f[j]])
      BY <1>2, <1>3, <1>4, <2>1
    <3> QED
      BY <3>1, Zenon DEF Like
  <2> QED
    BY <2>1, <2>2
<1> QED
  BY <1>1, <1>5 DEF Within, Injects

LEMMA WithinUnqueued ==
    ASSUME f_flock \in Seq(F!Locks), NEW t
    PROVE  Within(F!Unqueued(t), f_flock)
<1>1. PICK l \in Seq(F!Locks), m \in Seq(F!Locks) : l = f_flock /\ m = F!Unqueued(t)
  BY UnqueuedLists
<1>2. DOMAIN m = DOMAIN l /\ \A i \in DOMAIN l : m[i] = [l[i] EXCEPT !.block = l[i].block \ {t}]
  BY <1>1, UnqueuedLists
<1>3. ASSUME NEW i \in DOMAIN l PROVE Like(m[i], l[i])
  <2>1. PICK y \in F!Locks : y = l[i]
    OBVIOUS
  <2>2. m[i] = [y EXCEPT !.block = y.block \ {t}]
    BY <1>2, <2>1
  <2> QED
    BY <2>1, <2>2 DEF F!Locks, Like
<1>4. Within(m, l)
  BY <1>2, <1>3, WithinPlace
<1> QED
  BY <1>1, <1>4

LEMMA WithinBlock ==
    ASSUME NEW l \in Seq(F!Locks), NEW i \in DOMAIN l, NEW t \in Tasks
    PROVE  Within([l EXCEPT ![i].block = @ \cup {t}], l)
<1>1. PICK x \in F!Locks, y \in F!Locks : x = l[i] /\ y = [x EXCEPT !.block = x.block \cup {t}]
  <2>1. PICK x \in F!Locks : x = l[i]
    OBVIOUS
  <2>2. [x EXCEPT !.block = x.block \cup {t}] \in F!Locks
    BY DEF F!Locks
  <2> QED
    BY <2>1, <2>2
<1>2. PICK m : m = [l EXCEPT ![i].block = @ \cup {t}]
  OBVIOUS
<1>3. m = [l EXCEPT ![i] = y]
  BY <1>1, <1>2
<1>4. Like(y, x)
  BY <1>1 DEF F!Locks, Like
<1>5. DOMAIN m = DOMAIN l /\ \A j \in DOMAIN l : Like(m[j], l[j])
  BY <1>1, <1>3, <1>4, LikeSame
<1> QED
  BY <1>2, <1>5, WithinPlace

LEMMA WithinExpire ==
    ASSUME NEW l \in Seq(F!Locks), NEW i \in DOMAIN l
    PROVE  Within([l EXCEPT ![i].timer = "over"], l)
<1>1. PICK x \in F!Locks : x = l[i]
  OBVIOUS
<1>2. PICK y : y = [x EXCEPT !.timer = "over"]
  OBVIOUS
<1>3. PICK m : m = [l EXCEPT ![i].timer = "over"]
  OBVIOUS
<1>4. m = [l EXCEPT ![i] = y]
  BY <1>1, <1>2, <1>3
<1>5. Like(y, x)
  BY <1>2 DEF F!Locks, Like
<1>6. DOMAIN m = DOMAIN l /\ \A j \in DOMAIN l : Like(m[j], l[j])
  BY <1>1, <1>4, <1>5, LikeSame
<1> QED
  BY <1>3, <1>6, WithinPlace

\* A list without leases has no run of leases at its head.
LEMMA NoLeases ==
    ASSUME NEW n \in Seq(F!Locks), \A i \in DOMAIN n : ~n[i].lease
    PROVE  1 .. F!Run(n, TRUE) = {}
<1>1. PICK p : p = TRUE
  OBVIOUS
<1>2. F!Run(n, p) \in 0 .. Len(n) /\ \A i \in 1 .. F!Run(n, p) : i \in DOMAIN n /\ n[i].lease = p
  BY RunParts
<1>3. \A i \in 1 .. F!Run(n, p) : FALSE
  BY <1>1, <1>2
<1> QED
  BY <1>1, <1>3

LEMMA WithinNoLeases ==
    ASSUME NEW l, NEW m, Within(m, l), \A i \in DOMAIN l : ~l[i].lease
    PROVE  \A i \in DOMAIN m : ~m[i].lease
<1>1. PICK h : Injects(m, l, h) /\ \A j \in DOMAIN m : m[j].lease = l[h[j]].lease
  BY DEF Within, Like
<1>2. \A j \in DOMAIN m : h[j] \in DOMAIN l
  BY <1>1 DEF Injects
<1> QED
  BY <1>1, <1>2

LEMMA FlockInduction ==
    ASSUME F!FlockAssumption, Leases = {}, F!QueueInv, F!FlockInv, [F!Next]_F!vars
    PROVE  F!FlockInv'
<1> USE QueueParts
<1>1. PICK l \in Seq(F!Locks) : l = f_flock
  OBVIOUS
<1>2. \A i \in DOMAIN l : ~l[i].lease
  BY <1>1 DEF F!FlockInv
<1>3. f_flock' = f_flock => Within(f_flock', f_flock)
  <2>1. Within(l, l)
    BY LikeSame, WithinPlace
  <2> QED
    BY <1>1, <2>1
<1>4. ASSUME NEW t \in Tasks, NEW to, f_pc' = [f_pc EXCEPT ![t] = to], to # "repeat" \/ f_pc[t] = "repeat"
      PROVE  \A u \in Tasks : f_pc'[u] = "repeat" => f_pc[u] = "repeat"
  BY <1>4
<1>5. ASSUME NEW t \in Tasks, F!Return(t) PROVE \A u \in Tasks : f_pc'[u] = "repeat" => f_pc[u] = "repeat"
  BY <1>4, <1>5 DEF F!Return
<1>6. ASSUME NEW t \in Tasks,
             F!sys_flock(t) \/ F!Nothing(t) \/ F!Drain(t) \/ F!Free(t) \/ F!Open(t) \/ F!Opened(t)
             \/ F!Signal(t) \/ F!Timeout(t)
      PROVE  F!FlockInv'
  <2>1. f_flock' = f_flock
    BY <1>6 DEF F!sys_flock, F!Nothing, F!Drain, F!Free, F!Open, F!Opened, F!Signal, F!Timeout
  <2>2. \A u \in Tasks : f_pc'[u] = "repeat" => f_pc[u] = "repeat"
    BY <1>5, <1>6 DEF F!sys_flock, F!Nothing, F!Drain, F!Free, F!Open, F!Opened, F!Signal, F!Timeout, F!Goto
  <2> QED
    BY <1>3, <2>1, <2>2, FlockKeeps
<1>7. ASSUME NEW t \in Tasks, F!Unlock(t) \/ F!Change(t) PROVE F!FlockInv'
  <2>1. f_flock' = F!Without(f_flock, {F!Mine(t)})
    BY <1>7 DEF F!Unlock, F!Change
  <2>2. \A u \in Tasks : f_pc'[u] = "repeat" => f_pc[u] = "repeat"
    BY <1>5, <1>7 DEF F!Unlock, F!Change, F!Goto
  <2>3. PICK out : out = {F!Mine(t)}
    OBVIOUS
  <2>4. Within(F!Without(l, out), l)
    BY WithinWithout
  <2> QED
    BY <1>1, <2>1, <2>2, <2>3, <2>4, FlockKeeps
<1>8. ASSUME NEW t \in Tasks, F!Interrupted(t) PROVE F!FlockInv'
  <2>1. f_flock' = F!Unqueued(t) /\ F!Return(t)
    BY <1>8 DEF F!Interrupted
  <2> QED
    BY <1>5, <2>1, WithinUnqueued, FlockKeeps
<1>9. ASSUME NEW t \in Tasks, F!Repeat(t) PROVE F!FlockInv'
  <2>1. PICK m \in Seq(F!Locks) : m = F!Unqueued(t) /\ DOMAIN m = DOMAIN l
    BY <1>1, UnqueuedLists
  <2>2. Within(m, l)
    BY <1>1, <2>1, WithinUnqueued
  <2>3. CASE F!InTheWay(t) = {}
    <3>1. /\ f_flock' = <<F!Lock(t, FALSE, arg[t].type)>> \o F!Unqueued(t) /\ f_pc[t] = "repeat"
          /\ f_pc' = [f_pc EXCEPT ![t] = "idle"]
      BY <1>9, <2>3 DEF F!Repeat, F!Return
    <3> QED
      BY <2>3, <3>1, GrantKeeps
  <2>4. CASE F!InTheWay(t) # {} /\ arg[t].wait
    <3>1. F!BlockOn(t, F!Unqueued(t), F!Min(F!InTheWay(t)), "repeat") /\ f_pc[t] = "repeat"
      BY <1>9, <2>4 DEF F!Repeat
    <3>2. PICK i \in DOMAIN m : i = F!Min(F!InTheWay(t))
      BY <1>1, <2>1, <2>4, InTheWayParts
    <3>3. PICK n : n = [m EXCEPT ![i].block = @ \cup {t}]
      OBVIOUS
    <3>4. Within(n, m)
      BY <3>3, WithinBlock
    <3>5. Within(n, l)
      BY <2>2, <3>4, WithinTrans
    <3>6. f_flock' = n /\ f_pc' = [f_pc EXCEPT ![t] = "repeat"]
      BY <2>1, <3>1, <3>2, <3>3 DEF F!BlockOn, F!Goto
    <3>7. \A u \in Tasks : f_pc'[u] = "repeat" => f_pc[u] = "repeat"
      BY <3>1, <3>6
    <3> QED
      BY <1>1, <3>5, <3>6, <3>7, FlockKeeps
  <2>5. CASE F!InTheWay(t) # {} /\ ~arg[t].wait
    <3>1. f_flock' = F!Unqueued(t) /\ F!Return(t)
      BY <1>9, <2>5 DEF F!Repeat
    <3> QED
      BY <1>5, <3>1, WithinUnqueued, FlockKeeps
  <2> QED
    BY <2>3, <2>4, <2>5
<1>10. ASSUME NEW t \in Tasks, F!get_lease(t) PROVE F!FlockInv'
  <2>1. PICK n \in Seq(F!Locks) : n = F!TimedOut(l).list
    BY TimedOutLists
  <2>2. Within(n, l)
    BY <2>1, WithinTimedOut
  <2>3. 1 .. F!Run(n, TRUE) = {}
    BY <1>2, <2>2, WithinNoLeases, NoLeases
  <2>4. f_flock' = n /\ F!Goto(t, "opened", FALSE)
    BY <1>1, <1>10, <2>1, <2>3 DEF F!get_lease
  <2>5. \A u \in Tasks : f_pc'[u] = "repeat" => f_pc[u] = "repeat"
    BY <2>4 DEF F!Goto
  <2> QED
    BY <1>1, <2>2, <2>4, <2>5, FlockKeeps
<1>11. ASSUME NEW t \in Tasks, F!AfterSleep(t) PROVE F!FlockInv'
  <2>1. PICK m \in Seq(F!Locks) : m = F!Unqueued(t)
    BY UnqueuedLists
  <2>2. Within(m, l) /\ \A i \in DOMAIN m : ~m[i].lease
    BY <1>1, <1>2, <2>1, WithinUnqueued, WithinNoLeases
  <2>3. f_pc[t] = "broken" /\ (f_pc' = f_pc \/ F!Goto(t, "opened", FALSE))
    BY <1>11 DEF F!AfterSleep
  <2>4. \A u \in Tasks : f_pc'[u] = "repeat" => f_pc[u] = "repeat"
    BY <2>3 DEF F!Goto
  <2>5. CASE timedout[t]
    <3>1. PICK n \in Seq(F!Locks) : n = F!TimedOut(m).list
      BY TimedOutLists
    <3>2. Within(n, m)
      BY <3>1, WithinTimedOut
    <3>3. 1 .. F!Run(n, TRUE) = {}
      BY <2>2, <3>2, WithinNoLeases, NoLeases
    <3>4. f_flock' = n
      BY <1>11, <2>1, <2>5, <3>1, <3>3 DEF F!AfterSleep
    <3>5. Within(n, l)
      BY <2>2, <3>2, WithinTrans
    <3> QED
      BY <1>1, <2>4, <3>4, <3>5, FlockKeeps
  <2>6. CASE ~timedout[t]
    <3>1. 1 .. F!Run(m, TRUE) = {}
      BY <2>2, NoLeases
    <3>2. f_flock' = m
      BY <1>11, <2>1, <2>6, <3>1 DEF F!AfterSleep
    <3> QED
      BY <1>1, <2>2, <2>4, <3>2, FlockKeeps
  <2> QED
    BY <2>5, <2>6
<1>12. ASSUME NEW t \in Tasks, F!Search(t) PROVE F!FlockInv'
  <2>1. /\ f_flock' = f_flock /\ F!Mine(t) = 0 /\ f_pc' = [f_pc EXCEPT ![t] = "repeat"]
    BY <1>12 DEF F!Search, F!Goto
  <2>2. PICK p : p = FALSE
    OBVIOUS
  <2>3. \A i \in DOMAIN l : l[i].lease = p
    <3>1. ASSUME NEW i \in DOMAIN l PROVE l[i].lease = p
      <4>1. PICK y \in F!Locks : y = l[i]
        OBVIOUS
      <4>2. y.lease \in BOOLEAN /\ ~y.lease
        BY <1>2, <4>1, FlockFields
      <4> QED
        BY <2>2, <4>1, <4>2
    <3> QED
      BY <3>1
  <2>4. F!Run(l, p) = Len(l)
    BY <2>3, RunParts
  <2>5. 1 .. F!Run(f_flock, FALSE) = DOMAIN l
    <3>1. F!Run(f_flock, FALSE) = Len(l)
      BY <1>1, <2>2, <2>4
    <3>2. DOMAIN l = 1 .. Len(l)
      OBVIOUS
    <3> QED
      BY ONLY <3>1, <3>2
  <2>6. \A i \in DOMAIN f_flock : f_flock[i].file # FileOf[t]
    BY <1>1, <2>1, <2>5, MineParts
  <2>7. \A u \in Tasks : f_pc'[u] = "repeat" => u = t \/ f_pc[u] = "repeat"
    BY <2>1
  <2> QED
    BY <2>1, <2>6, <2>7 DEF F!FlockInv, F!FlockExclusive, F!OneFlockPerFile, F!Unshared
<1>13. ASSUME NEW f \in OpenFiles, F!Close(f) PROVE F!FlockInv'
  <2>1. PICK out : out = {i \in DOMAIN l : l[i].file = f}
    OBVIOUS
  <2>2. f_flock' = F!Without(l, out) /\ f_pc' = f_pc
    BY <1>1, <1>13, <2>1 DEF F!Close
  <2>3. Within(F!Without(l, out), l)
    BY WithinWithout
  <2> QED
    BY <1>1, <2>2, <2>3, FlockKeeps
<1>14. ASSUME F!Expire PROVE F!FlockInv'
  <2>1. PICK i \in DOMAIN l : f_flock' = [l EXCEPT ![i].timer = "over"]
    BY <1>1, <1>14 DEF F!Expire
  <2>2. f_pc' = f_pc
    BY <1>14 DEF F!Expire
  <2> QED
    BY <1>1, <2>1, <2>2, WithinExpire, FlockKeeps
<1>15. ASSUME UNCHANGED F!vars PROVE F!FlockInv'
  BY <1>3, <1>15, FlockKeeps DEF F!vars
<1>16. \A t \in Tasks : ~F!fcntl_setlease(t)
  BY DEF F!fcntl_setlease
<1> QED
  BY <1>6, <1>7, <1>8, <1>9, <1>10, <1>11, <1>12, <1>13, <1>14, <1>15, <1>16 DEF F!Next, F!Step

\* As long as no leases are asked for: an exclusive flock excludes the flocks of all other open
\* files; and where no two tasks share an open file, each open file has one flock.
THEOREM FlocksExclude ==
    F!FlockAssumption /\ Leases = {} /\ F!Spec => [](F!FlockExclusive /\ (F!Unshared => F!OneFlockPerFile))
<1> SUFFICES ASSUME F!FlockAssumption, Leases = {}
             PROVE  F!Spec => [](F!FlockExclusive /\ (F!Unshared => F!OneFlockPerFile))
  OBVIOUS
<1>1. F!Init => F!QueueInv /\ F!FlockInv
  <2>1. F!Init => F!FlockInv
    BY DEF F!Init, F!FlockInv, F!FlockExclusive, F!OneFlockPerFile
  <2> QED
    BY <2>1, QueueInit
<1>2. F!QueueInv /\ F!FlockInv /\ [F!Next]_F!vars => (F!QueueInv /\ F!FlockInv)'
  BY QueueInduction, FlockInduction
<1>3. F!FlockInv => F!FlockExclusive /\ (F!Unshared => F!OneFlockPerFile)
  BY DEF F!FlockInv
<1> QED
  BY <1>1, <1>2, <1>3, PTL DEF F!Spec

-----------------------------------------------------------------------------
(* Leases are given back before the file is open.                          *)

LEMMA LeasesWithin ==
    ASSUME NEW l, NEW m, F!LeasesOf(l), Within(m, l)
    PROVE  F!LeasesOf(m)
<1>1. PICK h : Injects(m, l, h) /\ \A j \in DOMAIN m : Like(m[j], l[h[j]])
  BY DEF Within
<1>2. \A i, j \in DOMAIN m : h[i] \in DOMAIN l /\ (h[i] = h[j] => i = j)
  BY <1>1 DEF Injects
<1> SUFFICES ASSUME NEW i \in DOMAIN m
             PROVE  /\ m[i].lease
                    /\ \A j \in DOMAIN m : m[i].file = m[j].file => i = j
                    /\ m[i].type = "WRLCK" =>
                        /\ ~m[i].breaking /\ open \subseteq {m[i].file}
                        /\ \A j \in DOMAIN m : i = j
                        /\ \A t \in Tasks : f_pc[t] # "opened"
                    /\ \A t \in Tasks : f_pc[t] = "broken" =>
                        /\ m[i].type # "WRLCK"
                        /\ arg[t].write => m[i].breaking /\ m[i].type = "UNLCK"
  BY DEF F!LeasesOf
<1>3. PICK k \in DOMAIN l : k = h[i]
  BY <1>2
<1>4. Like(m[i], l[k])
  BY <1>1, <1>3
<1>5. /\ l[k].lease
      /\ \A j \in DOMAIN l : l[k].file = l[j].file => k = j
      /\ l[k].type = "WRLCK" =>
            /\ ~l[k].breaking /\ open \subseteq {l[k].file}
            /\ \A j \in DOMAIN l : k = j
            /\ \A t \in Tasks : f_pc[t] # "opened"
      /\ \A t \in Tasks : f_pc[t] = "broken" =>
            /\ l[k].type # "WRLCK"
            /\ arg[t].write => l[k].breaking /\ l[k].type = "UNLCK"
  BY DEF F!LeasesOf
<1>6. m[i].lease
  BY <1>4, <1>5, Zenon DEF Like
<1>7. ASSUME NEW j \in DOMAIN m, m[i].file = m[j].file PROVE i = j
  BY <1>1, <1>2, <1>3, <1>4, <1>5, <1>7 DEF Like
<1>8. m[i].type = "WRLCK" =>
        /\ ~m[i].breaking /\ open \subseteq {m[i].file}
        /\ \A j \in DOMAIN m : i = j
        /\ \A t \in Tasks : f_pc[t] # "opened"
  BY <1>2, <1>3, <1>4, <1>5 DEF Like
<1>9. ASSUME NEW t \in Tasks, f_pc[t] = "broken"
      PROVE  m[i].type # "WRLCK" /\ (arg[t].write => m[i].breaking /\ m[i].type = "UNLCK")
  BY <1>4, <1>5, <1>9 DEF Like
<1> QED
  BY <1>6, <1>7, <1>8, <1>9

\* A step that leaves the locks of m.
LEMMA LeaseMoves ==
    ASSUME NEW m, F!LeasesOf(m), f_flock' = m,
           \/ \A i \in DOMAIN m : m[i].type # "WRLCK"
           \/ open' \subseteq open /\ \A u \in Tasks : f_pc'[u] = "opened" => f_pc[u] = "opened",
           \A u \in Tasks : f_pc'[u] = "broken" => f_pc[u] = "broken" /\ arg'[u] = arg[u]
    PROVE  F!LeaseInv'
<1> SUFFICES ASSUME NEW i \in DOMAIN m
             PROVE  /\ m[i].lease
                    /\ \A j \in DOMAIN m : m[i].file = m[j].file => i = j
                    /\ m[i].type = "WRLCK" =>
                        /\ ~m[i].breaking /\ open' \subseteq {m[i].file}
                        /\ \A j \in DOMAIN m : i = j
                        /\ \A t \in Tasks : f_pc'[t] # "opened"
                    /\ \A t \in Tasks : f_pc'[t] = "broken" =>
                        /\ m[i].type # "WRLCK"
                        /\ arg'[t].write => m[i].breaking /\ m[i].type = "UNLCK"
  BY DEF F!LeaseInv, F!LeasesOf
<1>1. /\ m[i].lease
      /\ \A j \in DOMAIN m : m[i].file = m[j].file => i = j
      /\ m[i].type = "WRLCK" =>
            /\ ~m[i].breaking /\ open \subseteq {m[i].file}
            /\ \A j \in DOMAIN m : i = j
            /\ \A t \in Tasks : f_pc[t] # "opened"
      /\ \A t \in Tasks : f_pc[t] = "broken" =>
            /\ m[i].type # "WRLCK"
            /\ arg[t].write => m[i].breaking /\ m[i].type = "UNLCK"
  BY DEF F!LeasesOf
<1> QED
  BY <1>1

\* The leases at the head are all there is.
LEMMA AllLeases ==
    ASSUME NEW n \in Seq(F!Locks), F!LeasesOf(n)
    PROVE  F!Run(n, TRUE) = Len(n) /\ 1 .. F!Run(n, TRUE) = DOMAIN n
<1>1. PICK p : p = TRUE
  OBVIOUS
<1>2. \A i \in DOMAIN n : n[i].lease = p
  <2>1. ASSUME NEW i \in DOMAIN n PROVE n[i].lease = p
    <3>1. PICK y \in F!Locks : y = n[i]
      OBVIOUS
    <3>2. y.lease \in BOOLEAN /\ y.lease
      BY <3>1, FlockFields DEF F!LeasesOf
    <3> QED
      BY <1>1, <3>1, <3>2
  <2> QED
    BY <2>1
<1>3. F!Run(n, p) = Len(n)
  BY <1>2, RunParts
<1>4. DOMAIN n = 1 .. Len(n)
  OBVIOUS
<1> QED
  BY <1>1, <1>3, <1>4

LEMMA SameCardinality == ASSUME NEW T PROVE F!Cardinality(T) = Cardinality(T)
BY Zenon DEF F!Cardinality, Cardinality

\* d_count and i_count are 1: the file is open once, and nobody is in open.
LEMMA OneUser ==
    ASSUME IsFiniteSet(Tasks), IsFiniteSet(OpenFiles), open \in SUBSET OpenFiles, NEW f \in open, ~(F!Users > 1)
    PROVE  open = {f} /\ \A t \in Tasks : f_pc[t] \notin {"get_lease", "broken", "opened"}
<1>1. PICK A : A = open
  OBVIOUS
<1>2. PICK B : B = {t \in Tasks : f_pc[t] \in {"get_lease", "broken", "opened"}}
  OBVIOUS
<1>3. IsFiniteSet(A) /\ IsFiniteSet(B) /\ f \in A
  BY <1>1, <1>2, FS_Subset
<1>4. F!Users = Cardinality(A) + Cardinality(B)
  BY <1>1, <1>2, SameCardinality DEF F!Users
<1>5. Cardinality(A) \in Nat /\ Cardinality(B) \in Nat
  BY <1>3, FS_CardinalityType
<1>6. PICK R : R = A \ {f}
  OBVIOUS
<1>7. IsFiniteSet(R) /\ Cardinality(R) = Cardinality(A) - 1
  BY <1>3, <1>6, FS_RemoveElement
<1>8. Cardinality(R) \in Nat
  BY <1>7, FS_CardinalityType
<1>9. Cardinality(R) = 0 /\ Cardinality(B) = 0
  BY <1>4, <1>5, <1>7, <1>8
<1>10. R = {} /\ B = {}
  BY <1>3, <1>7, <1>9, FS_EmptySet
<1> QED
  BY <1>1, <1>2, <1>3, <1>6, <1>10

\* What LeasesRevoked says of the step of t.
Revoked(t) ==
    f_pc[t] # "opened" /\ f_pc'[t] = "opened" =>
        \A i \in DOMAIN f_flock' : ~arg[t].write /\ f_flock'[i].type # "WRLCK"

LEMMA GetLeaseRevokes ==
    ASSUME F!FlockAssumption, F!QueueInv, F!LeaseInv, NEW t \in Tasks, F!get_lease(t)
    PROVE  F!LeaseInv' /\ Revoked(t)
<1> USE QueueParts
<1>1. f_pc[t] = "get_lease" /\ arg[t] \in Opens
  BY DEF F!get_lease, F!CallOf
<1>2. PICK l \in Seq(F!Locks) : l = f_flock
  OBVIOUS
<1>3. PICK n \in Seq(F!Locks) : n = F!TimedOut(l).list
  BY TimedOutLists
<1>4. PICK w : w = F!TimedOut(f_flock).woken
  OBVIOUS
<1>5. F!LeasesOf(n)
  <2>1. F!LeasesOf(l)
    BY <1>2 DEF F!LeaseInv
  <2> QED
    BY <1>3, <2>1, WithinTimedOut, LeasesWithin
<1>6. PICK k \in 0 .. Len(n) : k = F!Run(n, TRUE) /\ k = Len(n) /\ 1 .. k = DOMAIN n
  <2>1. F!Run(n, TRUE) = Len(n) /\ 1 .. F!Run(n, TRUE) = DOMAIN n
    BY <1>5, AllLeases
  <2>2. Len(n) \in 0 .. Len(n)
    <3>1. Len(n) \in Nat
      OBVIOUS
    <3> QED
      BY ONLY <3>1
  <2> QED
    BY <2>1, <2>2
<1>60. 1 .. k # {} => 1 \in DOMAIN n /\ k \in 1 .. Len(n)
  <2>1. PICK c \in Nat : c = Len(n)
    <3>1. Len(n) \in Nat
      OBVIOUS
    <3> QED
      BY ONLY <3>1
  <2>2. k \in Nat /\ k = c
    BY <1>6, <2>1
  <2>3. 1 .. k # {} => 1 \in 1 .. k /\ k \in 1 .. c
    BY ONLY <2>2
  <2> QED
    BY <1>6, <2>1, <2>3
<1>7. arg[t].write \in BOOLEAN
  BY <1>1 DEF F!FlockAssumption
<1>8. CASE 1 .. k = {} \/ ~F!Future(t, n[1])[2]
  <2>1. f_flock' = n /\ F!Goto(t, "opened", FALSE)
    BY <1>2, <1>3, <1>6, <1>8 DEF F!get_lease
  <2>2. \A i \in DOMAIN n : ~arg[t].write /\ n[i].type # "WRLCK"
    <3>1. SUFFICES ASSUME NEW i \in DOMAIN n PROVE ~arg[t].write /\ n[i].type # "WRLCK"
      OBVIOUS
    <3>2. 1 \in DOMAIN n /\ ~F!Future(t, n[1])[2]
      BY <1>6, <1>60, <1>8, <3>1
    <3>3. PICK y \in F!Locks : y = n[1]
      BY <3>2
    <3>4. ~arg[t].write
      <4>1. SUFFICES ASSUME arg[t].write PROVE FALSE
        OBVIOUS
      <4>2. F!Future(t, y) = <<"UNLCK", TRUE>>
        BY <4>1 DEF F!Future
      <4> QED
        BY <3>2, <3>3, <4>2
    <3>5. ~y.breaking
      <4>1. SUFFICES ASSUME y.breaking PROVE FALSE
        OBVIOUS
      <4>2. F!Future(t, y) = <<y.type, TRUE>>
        BY <3>4, <4>1 DEF F!Future
      <4> QED
        BY <3>2, <3>3, <4>2
    <3>6. y.type # "WRLCK"
      <4>1. SUFFICES ASSUME y.type = "WRLCK" PROVE FALSE
        OBVIOUS
      <4>2. F!Future(t, y) = <<"RDLCK", TRUE>>
        BY <3>4, <3>5, <4>1 DEF F!Future
      <4> QED
        BY <3>2, <3>3, <4>2
    <3>7. n[i].type # "WRLCK"
      <4>1. SUFFICES ASSUME n[i].type = "WRLCK" PROVE FALSE
        OBVIOUS
      <4>2. i = 1
        BY <1>5, <3>1, <3>2, <4>1 DEF F!LeasesOf
      <4> QED
        BY <3>3, <3>6, <4>1, <4>2
    <3> QED
      BY <3>4, <3>7
  <2>3. \A u \in Tasks : f_pc'[u] = "broken" => f_pc[u] = "broken" /\ arg'[u] = arg[u]
    BY <2>1 DEF F!Goto
  <2>4. F!LeaseInv'
    BY <1>5, <2>1, <2>2, <2>3, LeaseMoves
  <2> QED
    BY <2>1, <2>2, <2>4 DEF Revoked
<1>9. CASE 1 .. k # {} /\ F!Future(t, n[1])[2]
  <2>1. k \in 1 .. Len(n) /\ (\A i \in 1 .. k : n[i].lease) /\ 1 \in DOMAIN n
    <3>1. k \in 1 .. Len(n) /\ 1 \in DOMAIN n
      BY <1>60, <1>9
    <3> QED
      BY <1>5, <1>6, <3>1 DEF F!LeasesOf
  <2>2. PICK type \in {"RDLCK", "WRLCK", "UNLCK"} :
            /\ F!Future(t, n[1]) = Asked(type)
            /\ arg[t].write => type = "UNLCK"
            /\ ~arg[t].write => (n[1].breaking /\ type = n[1].type) \/ (n[1].type = "WRLCK" /\ type = "RDLCK")
    BY <1>7, <1>9, <2>1, FutureParts
  <2>3. PICK b : b = F!Broken(n, k, Asked(type))
    OBVIOUS
  <2>4. /\ b \in Seq(F!Locks) /\ DOMAIN b = DOMAIN n
        /\ \A i \in DOMAIN n : b[i].lease /\ b[i].breaking /\ b[i].type = type /\ b[i].file = n[i].file
    <3>1. /\ b \in Seq(F!Locks) /\ DOMAIN b = DOMAIN n
          /\ \A i \in 1 .. k : b[i].lease /\ b[i].breaking /\ b[i].type = type
          /\ \A i \in DOMAIN n : b[i].file = n[i].file
      BY <2>1, <2>3, BreakLists
    <3> QED
      BY <1>6, <3>1
  <2>5. type # "WRLCK"
    <3>1. n[1].breaking => n[1].type # "WRLCK"
      BY <1>5, <2>1 DEF F!LeasesOf
    <3> QED
      BY <2>2, <3>1
  <2>6. ASSUME NEW u \in Tasks, f_pc[u] = "broken", arg[u].write PROVE type = "UNLCK"
    <3>1. n[1].type = "UNLCK"
      BY <1>5, <2>1, <2>6 DEF F!LeasesOf
    <3> QED
      BY <2>2, <3>1
  <2>7. PICK m : m = f_flock'
    OBVIOUS
  <2>8. /\ \/ m = b /\ F!Return(t)
           \/ m = [b EXCEPT ![1].block = @ \cup {t}] /\ F!Goto(t, "broken", FALSE)
    BY <1>2, <1>3, <1>6, <1>9, <2>2, <2>3, <2>7 DEF F!get_lease
  <2>9. /\ DOMAIN m = DOMAIN n
        /\ \A i \in DOMAIN n : m[i].lease /\ m[i].breaking /\ m[i].type = type /\ m[i].file = n[i].file
    <3>1. CASE m = b
      BY <2>4, <3>1
    <3>2. CASE m = [b EXCEPT ![1].block = @ \cup {t}]
      <4>1. PICK x \in F!Locks : x = b[1]
        BY <2>1, <2>4
      <4>2. PICK y : y = [x EXCEPT !.block = x.block \cup {t}]
        OBVIOUS
      <4>3. m = [b EXCEPT ![1] = y]
        BY <3>2, <4>1, <4>2
      <4>4. y.lease = x.lease /\ y.breaking = x.breaking /\ y.type = x.type /\ y.file = x.file
        BY <4>2 DEF F!Locks
      <4>5. DOMAIN m = DOMAIN b /\ m[1] = y /\ \A i \in DOMAIN b \ {1} : m[i] = b[i]
        BY <2>1, <2>4, <4>3
      <4>6. ASSUME NEW i \in DOMAIN n
            PROVE  m[i].lease /\ m[i].breaking /\ m[i].type = type /\ m[i].file = n[i].file
        <5>1. b[i].lease /\ b[i].breaking /\ b[i].type = type /\ b[i].file = n[i].file
          BY <2>4
        <5>2. CASE i = 1
          BY <4>1, <4>4, <4>5, <5>1, <5>2
        <5>3. CASE i # 1
          BY <2>4, <4>5, <5>1, <5>3
        <5> QED
          BY <5>2, <5>3
      <4> QED
        BY <2>4, <4>5, <4>6
    <3> QED
      BY <2>8, <3>1, <3>2
  <2>10. f_pc'[t] \in {"idle", "broken"} /\ \A u \in Tasks \ {t} : f_pc'[u] = f_pc[u] /\ arg'[u] = arg[u]
    BY <2>8 DEF F!Return, F!Goto
  <2>11. f_pc'[t] = "broken" => arg'[t] = arg[t]
    BY <2>8 DEF F!Return, F!Goto
  <2>12. ASSUME NEW u \in Tasks, f_pc'[u] = "broken", arg'[u].write PROVE type = "UNLCK"
    <3>1. CASE u = t
      BY <2>2, <2>11, <2>12, <3>1
    <3>2. CASE u # t
      BY <2>6, <2>10, <2>12, <3>2
    <3> QED
      BY <3>1, <3>2
  <2>13. \A i, j \in DOMAIN m : m[i].file = m[j].file => i = j
    BY <1>5, <2>9 DEF F!LeasesOf
  <2>14. F!LeaseInv'
    BY <2>5, <2>7, <2>9, <2>12, <2>13 DEF F!LeaseInv, F!LeasesOf
  <2> QED
    BY <2>10, <2>14 DEF Revoked
<1> QED
  BY <1>8, <1>9

LEMMA AfterSleepRevokes ==
    ASSUME F!QueueInv, F!LeaseInv, NEW t \in Tasks, F!AfterSleep(t)
    PROVE  F!LeaseInv' /\ Revoked(t)
<1> USE QueueParts
<1>1. f_pc[t] = "broken"
  BY DEF F!AfterSleep
<1>2. PICK m \in Seq(F!Locks) : m = F!Unqueued(t)
  BY UnqueuedLists
<1>3. F!LeasesOf(m)
  <2>1. PICK l : l = f_flock
    OBVIOUS
  <2>2. F!LeasesOf(l) /\ Within(m, l)
    BY <1>2, <2>1, WithinUnqueued DEF F!LeaseInv
  <2> QED
    BY <2>2, LeasesWithin
<1>4. PICK now : now = IF timedout[t] THEN F!TimedOut(m) ELSE [list |-> m, woken |-> {}]
  OBVIOUS
<1>5. now.list \in Seq(F!Locks) /\ F!LeasesOf(now.list)
  <2>1. CASE timedout[t]
    <3>1. PICK n \in Seq(F!Locks) : n = F!TimedOut(m).list
      BY TimedOutLists
    <3>2. Within(n, m)
      BY <3>1, WithinTimedOut
    <3>3. F!LeasesOf(n)
      BY <1>3, <3>2, LeasesWithin
    <3>4. n = now.list
      BY <1>4, <2>1, <3>1
    <3> QED
      BY <3>3, <3>4
  <2>2. CASE ~timedout[t]
    <3>1. now.list = m
      BY <1>4, <2>2
    <3> QED
      BY <1>3, <3>1
  <2> QED
    BY <2>1, <2>2
<1>6. PICK n \in Seq(F!Locks) : n = now.list
  BY <1>5
<1>7. F!LeasesOf(n) /\ 1 .. F!Run(n, TRUE) = DOMAIN n
  BY <1>5, <1>6, AllLeases
<1>8. PICK P : P = {i \in DOMAIN n : n[i].breaking}
  OBVIOUS
<1>9. \/ P = {} /\ f_flock' = n /\ F!Goto(t, "opened", FALSE)
      \/ /\ P # {} /\ f_flock' = [n EXCEPT ![F!Min(P)].block = @ \cup {t}]
         /\ f_pc' = f_pc /\ arg' = arg /\ open' = open
  <2>1. now = IF timedout[t] THEN F!TimedOut(F!Unqueued(t)) ELSE [list |-> F!Unqueued(t), woken |-> {}]
    BY <1>2, <1>4
  <2>2. P = {i \in 1 .. F!Run(now.list, TRUE) : now.list[i].breaking}
    BY <1>6, <1>7, <1>8
  <2>3. IF P = {}
        THEN f_flock' = now.list /\ f_asleep' = f_asleep \ now.woken /\ F!Goto(t, "opened", FALSE)
        ELSE /\ f_flock' = [now.list EXCEPT ![F!Min(P)].block = @ \cup {t}]
             /\ f_pc' = f_pc /\ arg' = arg /\ open' = open
    <3>1. CASE timedout[t]
      <4>1. now = F!TimedOut(F!Unqueued(t))
        BY <2>1, <3>1
      <4> QED
        BY ONLY F!AfterSleep(t), <2>2, <3>1, <4>1, ZenonT(30) DEF F!AfterSleep
    <3>2. CASE ~timedout[t]
      <4>1. now = [list |-> F!Unqueued(t), woken |-> {}]
        BY <2>1, <3>2
      <4>2. now.list = F!Unqueued(t) /\ now.woken = {}
        BY <4>1
      <4> QED
        BY ONLY F!AfterSleep(t), <2>2, <3>2, <4>2 DEF F!AfterSleep
    <3> QED
      BY <3>1, <3>2
  <2> QED
    BY <1>6, <2>3
<1>10. \A i \in DOMAIN n : n[i].type # "WRLCK" /\ (arg[t].write => n[i].breaking)
  BY <1>1, <1>7 DEF F!LeasesOf
<1>11. CASE P = {} /\ f_flock' = n /\ F!Goto(t, "opened", FALSE)
  <2>1. \A i \in DOMAIN n : ~arg[t].write
    BY <1>8, <1>10, <1>11
  <2>2. \A u \in Tasks : f_pc'[u] = "broken" => f_pc[u] = "broken" /\ arg'[u] = arg[u]
    BY <1>11 DEF F!Goto
  <2>3. F!LeaseInv'
    BY <1>7, <1>10, <1>11, <2>2, LeaseMoves
  <2> QED
    BY <1>10, <1>11, <2>1, <2>3 DEF Revoked
<1>12. CASE /\ P # {} /\ f_flock' = [n EXCEPT ![F!Min(P)].block = @ \cup {t}]
            /\ f_pc' = f_pc /\ arg' = arg /\ open' = open
  <2>1. P \subseteq Nat
    BY <1>8
  <2>2. F!Min(P) \in P
    BY <1>12, <2>1, MinOf, SameMin
  <2>3. PICK i \in DOMAIN n : i = F!Min(P)
    BY <1>8, <2>2
  <2>4. PICK c : c = [n EXCEPT ![i].block = @ \cup {t}]
    OBVIOUS
  <2>5. Within(c, n)
    BY <2>4, WithinBlock
  <2>6. F!LeasesOf(c)
    BY <1>7, <2>5, LeasesWithin
  <2>7. /\ f_flock' = c /\ open' \subseteq open /\ \A u \in Tasks : f_pc'[u] = "opened" => f_pc[u] = "opened"
        /\ \A u \in Tasks : f_pc'[u] = "broken" => f_pc[u] = "broken" /\ arg'[u] = arg[u]
    BY <1>12, <2>3, <2>4
  <2>8. F!LeaseInv'
    BY <2>6, <2>7, LeaseMoves
  <2> QED
    BY <1>12, <2>8 DEF Revoked
<1> QED
  BY <1>9, <1>11, <1>12

LEMMA SetleaseKeeps ==
    ASSUME F!FlockAssumption, ~Renews, IsFiniteSet(Tasks), IsFiniteSet(OpenFiles), F!QueueInv, F!LeaseInv,
           NEW t \in Tasks, F!fcntl_setlease(t)
    PROVE  F!LeaseInv'
<1> USE QueueParts
<1>1. PICK n \in Seq(F!Locks), k \in Nat, type \in {"RDLCK", "WRLCK", "UNLCK"} : Leased(t, n, k, type)
  BY SetleaseParts
<1>2. FileOf[t] \in open /\ f_pc' = f_pc /\ arg' = arg /\ open' = open
  BY DEF F!fcntl_setlease
<1>3. F!LeasesOf(n)
  <2>1. PICK l \in Seq(F!Locks) : l = f_flock
    OBVIOUS
  <2>2. F!LeasesOf(l) /\ n = F!TimedOut(l).list
    BY <1>1, <2>1 DEF F!LeaseInv, Leased
  <2> QED
    BY <2>2, WithinTimedOut, LeasesWithin
<1>4. k = Len(n) /\ 1 .. k = DOMAIN n
  BY <1>1, <1>3, AllLeases DEF Leased
<1>5. /\ open' \subseteq open /\ \A u \in Tasks : f_pc'[u] = "opened" => f_pc[u] = "opened"
      /\ \A u \in Tasks : f_pc'[u] = "broken" => f_pc[u] = "broken" /\ arg'[u] = arg[u]
  BY <1>2
<1>6. CASE f_flock' = n
  BY <1>3, <1>5, <1>6, LeaseMoves
<1>7. CASE type = "UNLCK" /\ \E i \in 1 .. k : f_flock' = F!lease_modify(n, i, type)
  <2>1. PICK i \in 1 .. k : f_flock' = F!lease_modify(n, i, type)
    BY <1>7
  <2>2. PICK out : out = {i}
    OBVIOUS
  <2>3. PICK m : m = F!Without(n, out)
    OBVIOUS
  <2>4. F!LeasesOf(m)
    BY <1>3, <2>3, WithinWithout, LeasesWithin
  <2>5. f_flock' = m
    BY <1>7, <2>1, <2>2, <2>3 DEF F!lease_modify
  <2> QED
    BY <1>5, <2>4, <2>5, LeaseMoves
\* An exclusive lease is granted to the only user of the file.
<1>8. ASSUME f_flock' # n, type = "WRLCK"
      PROVE  open = {FileOf[t]} /\ (\A j \in DOMAIN n : n[j].file = FileOf[t]) /\ \A u \in Tasks : f_pc[u] # "opened"
  <2>1. ~(F!Users > 1) /\ \A j \in 1 .. k : n[j].file = FileOf[t]
    BY <1>1, <1>8 DEF Leased
  <2> QED
    BY <1>2, <1>4, <2>1, OneUser
<1>9. CASE /\ f_flock' # n /\ type # "UNLCK"
           /\ \E i \in 1 .. k : n[i].file = FileOf[t] /\ f_flock' = F!lease_modify(n, i, type)
  <2>1. PICK i \in DOMAIN n : n[i].file = FileOf[t] /\ f_flock' = F!lease_modify(n, i, type)
    BY <1>4, <1>9
  <2>2. n[i].lease
    BY <1>3 DEF F!LeasesOf
  <2>3. PICK m : m = F!lease_modify(n, i, type)
    OBVIOUS
  <2>4. /\ DOMAIN m = DOMAIN n /\ \A j \in DOMAIN n : j # i => m[j] = n[j]
        /\ m[i].lease = n[i].lease /\ m[i].file = n[i].file /\ m[i].type = type /\ ~m[i].breaking
    <3>1. Modified(m, n, i, type)
      BY <1>9, <2>2, <2>3, ModifyLists
    <3> QED
      BY <3>1 DEF Modified
  <2>5. \A u \in Tasks : f_pc[u] # "broken"
    BY <1>1, <1>9 DEF Leased
  <2>6. ASSUME NEW j \in DOMAIN m
        PROVE  /\ m[j].lease
               /\ \A h \in DOMAIN m : m[j].file = m[h].file => j = h
               /\ m[j].type = "WRLCK" =>
                    /\ ~m[j].breaking /\ open \subseteq {m[j].file}
                    /\ \A h \in DOMAIN m : j = h
                    /\ \A u \in Tasks : f_pc[u] # "opened"
    <3>1. \A h \in DOMAIN n : m[h].file = n[h].file
      BY <2>4
    <3>2. \A g, h \in DOMAIN n : n[g].file = n[h].file => g = h
      BY <1>3 DEF F!LeasesOf
    <3>3. m[j].lease
      <4>1. n[j].lease
        BY <1>3, <2>4 DEF F!LeasesOf
      <4>2. CASE j = i
        BY <2>4, <4>1, <4>2
      <4>3. CASE j # i
        BY <2>4, <4>1, <4>3
      <4> QED
        BY <4>2, <4>3
    <3>4. CASE j = i
      <4>1. m[j].type = "WRLCK" => type = "WRLCK"
        BY <2>4, <3>4
      <4>2. m[j].type = "WRLCK" =>
                open \subseteq {m[j].file} /\ (\A h \in DOMAIN m : j = h) /\ \A u \in Tasks : f_pc[u] # "opened"
        BY <1>8, <1>9, <2>1, <2>4, <3>1, <3>2, <3>4, <4>1
      <4> QED
        BY <2>4, <3>1, <3>2, <3>3, <3>4, <4>2
    <3>5. CASE j # i
      <4>1. n[j].type # "WRLCK"
        BY <1>3, <2>4, <3>5 DEF F!LeasesOf
      <4> QED
        BY <2>4, <3>1, <3>2, <3>3, <3>5, <4>1
    <3> QED
      BY <3>4, <3>5
  <2>7. F!LeasesOf(m)
    BY <2>5, <2>6 DEF F!LeasesOf
  <2> QED
    BY <1>5, <2>1, <2>3, <2>7, LeaseMoves
<1>10. CASE /\ f_flock' # n /\ type # "UNLCK" /\ f_flock' = F!InsertAt(n, k + 1, F!Lock(t, TRUE, type))
            /\ \A i \in 1 .. k : n[i].file # FileOf[t]
  <2>1. PICK x \in F!Locks : x = F!Lock(t, TRUE, type)
    BY DEF F!Lock, F!Locks, F!FlockAssumption
  <2>2. x.lease = TRUE /\ x.file = FileOf[t] /\ x.type = type /\ x.breaking = FALSE
    BY <2>1 DEF F!Lock
  <2>3. PICK m : m = F!InsertAt(n, k + 1, x)
    OBVIOUS
  <2>4. DOMAIN m = 1 .. k + 1 /\ m[k + 1] = x /\ \A i \in 1 .. k : m[i] = n[i]
    <3>1. k \in 0 .. Len(n)
      BY <1>4
    <3> QED
      BY <1>4, <2>3, <3>1, InsertLists
  <2>5. \A j \in DOMAIN m : (j = k + 1 /\ m[j] = x) \/ (j \in DOMAIN n /\ j # k + 1 /\ m[j] = n[j])
    <3>1. \A j \in 1 .. k + 1 : j = k + 1 \/ (j \in 1 .. k /\ j # k + 1)
      OBVIOUS
    <3> QED
      BY <1>4, <2>4, <3>1
  <2>6. \A u \in Tasks : f_pc[u] # "broken"
    BY <1>1, <1>10 DEF Leased
  <2>7. \A j \in DOMAIN n : n[j].file # FileOf[t] /\ n[j].type # "WRLCK"
    BY <1>2, <1>3, <1>4, <1>10 DEF F!LeasesOf
  <2>8. type = "WRLCK" => DOMAIN n = {} /\ open = {FileOf[t]} /\ \A u \in Tasks : f_pc[u] # "opened"
    BY <1>8, <1>10, <2>7
  <2>9. ASSUME NEW j \in DOMAIN m
        PROVE  /\ m[j].lease
               /\ \A h \in DOMAIN m : m[j].file = m[h].file => j = h
               /\ m[j].type = "WRLCK" =>
                    /\ ~m[j].breaking /\ open \subseteq {m[j].file}
                    /\ \A h \in DOMAIN m : j = h
                    /\ \A u \in Tasks : f_pc[u] # "opened"
    <3>1. \A g, h \in DOMAIN n : n[g].file = n[h].file => g = h
      BY <1>3 DEF F!LeasesOf
    <3>2. \A h \in DOMAIN m : m[j].file = m[h].file => j = h
      BY <2>2, <2>5, <2>7, <3>1
    <3>3. CASE j = k + 1
      BY <2>2, <2>5, <2>8, <3>2, <3>3
    <3>4. CASE j # k + 1
      <4>1. j \in DOMAIN n /\ m[j] = n[j]
        BY <2>5, <3>4
      <4>2. n[j].lease
        BY <1>3, <4>1 DEF F!LeasesOf
      <4> QED
        BY <2>7, <3>2, <4>1, <4>2
    <3> QED
      BY <3>3, <3>4
  <2>10. F!LeasesOf(m)
    BY <2>6, <2>9 DEF F!LeasesOf
  <2> QED
    BY <1>5, <1>10, <2>1, <2>3, <2>10, LeaseMoves
<1> QED
  BY <1>1, <1>6, <1>7, <1>9, <1>10 DEF Leased

LEMMA LeaseInduction ==
    ASSUME F!FlockAssumption, Flocks = {}, ~Renews, IsFiniteSet(Tasks), IsFiniteSet(OpenFiles),
           F!QueueInv, F!LeaseInv, [F!Next]_F!vars
    PROVE  F!LeaseInv' /\ \A t \in Tasks : Revoked(t)
<1> USE QueueParts
<1>1. PICK l \in Seq(F!Locks) : l = f_flock
  OBVIOUS
<1>2. F!LeasesOf(l)
  BY <1>1 DEF F!LeaseInv
\* Nobody opens the file in the other steps.
<1>3. ASSUME NEW m, Within(m, l), f_flock' = m, open' \subseteq open,
             \A u \in Tasks : f_pc'[u] \in {"opened", "broken"} => f_pc'[u] = f_pc[u] /\ arg'[u] = arg[u]
      PROVE  F!LeaseInv' /\ \A u \in Tasks : Revoked(u)
  <2>1. F!LeasesOf(m)
    BY <1>2, <1>3, LeasesWithin
  <2>2. /\ \A u \in Tasks : f_pc'[u] = "opened" => f_pc[u] = "opened"
        /\ \A u \in Tasks : f_pc'[u] = "broken" => f_pc[u] = "broken" /\ arg'[u] = arg[u]
    BY <1>3
  <2>3. F!LeaseInv'
    BY <1>3, <2>1, <2>2, LeaseMoves
  <2> QED
    BY <2>2, <2>3 DEF Revoked
<1>4. Within(l, l)
  BY LikeSame, WithinPlace
<1>5. ASSUME NEW t \in Tasks, F!Open(t) \/ F!Signal(t) \/ F!Timeout(t)
      PROVE  F!LeaseInv' /\ \A u \in Tasks : Revoked(u)
  <2>1. /\ f_flock' = l /\ open' \subseteq open
        /\ \A u \in Tasks : f_pc'[u] \in {"opened", "broken"} => f_pc'[u] = f_pc[u] /\ arg'[u] = arg[u]
    BY <1>1, <1>5 DEF F!Open, F!Signal, F!Timeout
  <2> QED
    BY <1>3, <1>4, <2>1
<1>6. ASSUME NEW t \in Tasks, F!Interrupted(t) PROVE F!LeaseInv' /\ \A u \in Tasks : Revoked(u)
  <2>1. PICK m : m = F!Unqueued(t)
    OBVIOUS
  <2>2. Within(m, l)
    BY <1>1, <2>1, WithinUnqueued
  <2>3. /\ f_flock' = m /\ open' \subseteq open
        /\ \A u \in Tasks : f_pc'[u] \in {"opened", "broken"} => f_pc'[u] = f_pc[u] /\ arg'[u] = arg[u]
    BY <1>6, <2>1 DEF F!Interrupted, F!Return
  <2> QED
    BY <1>3, <2>2, <2>3
<1>7. ASSUME NEW f \in OpenFiles, F!Close(f) PROVE F!LeaseInv' /\ \A u \in Tasks : Revoked(u)
  <2>1. PICK out : out = {i \in DOMAIN l : l[i].file = f}
    OBVIOUS
  <2>2. PICK m : m = F!Without(l, out)
    OBVIOUS
  <2>3. Within(m, l)
    BY <2>2, WithinWithout
  <2>4. /\ f_flock' = m /\ open' \subseteq open
        /\ \A u \in Tasks : f_pc'[u] \in {"opened", "broken"} => f_pc'[u] = f_pc[u] /\ arg'[u] = arg[u]
    BY <1>1, <1>7, <2>1, <2>2 DEF F!Close
  <2> QED
    BY <1>3, <2>3, <2>4
<1>8. ASSUME F!Expire PROVE F!LeaseInv' /\ \A u \in Tasks : Revoked(u)
  <2>1. PICK i \in DOMAIN l : f_flock' = [l EXCEPT ![i].timer = "over"]
    BY <1>1, <1>8 DEF F!Expire
  <2>2. PICK m : m = [l EXCEPT ![i].timer = "over"]
    OBVIOUS
  <2>3. Within(m, l)
    BY <2>2, WithinExpire
  <2>4. /\ f_flock' = m /\ open' \subseteq open
        /\ \A u \in Tasks : f_pc'[u] \in {"opened", "broken"} => f_pc'[u] = f_pc[u] /\ arg'[u] = arg[u]
    BY <1>8, <2>1, <2>2 DEF F!Expire
  <2> QED
    BY <1>3, <2>3, <2>4
<1>9. ASSUME UNCHANGED F!vars PROVE F!LeaseInv' /\ \A u \in Tasks : Revoked(u)
  <2>1. /\ f_flock' = l /\ open' \subseteq open
        /\ \A u \in Tasks : f_pc'[u] \in {"opened", "broken"} => f_pc'[u] = f_pc[u] /\ arg'[u] = arg[u]
    BY <1>1, <1>9 DEF F!vars
  <2> QED
    BY <1>3, <1>4, <2>1
<1>10. ASSUME NEW t \in Tasks, F!Opened(t) PROVE F!LeaseInv' /\ \A u \in Tasks : Revoked(u)
  <2>1. /\ f_pc[t] = "opened" /\ f_flock' = l
        /\ f_pc' = [f_pc EXCEPT ![t] = "idle"] /\ arg' = [arg EXCEPT ![t] = None]
    BY <1>1, <1>10 DEF F!Opened
  <2>2. \A i \in DOMAIN l : l[i].type # "WRLCK"
    BY <1>2, <2>1 DEF F!LeasesOf
  <2>3. \A u \in Tasks : f_pc'[u] = "broken" => f_pc[u] = "broken" /\ arg'[u] = arg[u]
    BY <2>1
  <2>4. F!LeaseInv'
    BY <1>2, <2>1, <2>2, <2>3, LeaseMoves
  <2>5. \A u \in Tasks : f_pc'[u] = "opened" => f_pc[u] = "opened"
    BY <2>1
  <2> QED
    BY <2>4, <2>5 DEF Revoked
<1>11. ASSUME NEW t \in Tasks, F!get_lease(t) \/ F!AfterSleep(t)
       PROVE  F!LeaseInv' /\ \A u \in Tasks : Revoked(u)
  <2>1. F!LeaseInv' /\ Revoked(t)
    BY <1>11, GetLeaseRevokes, AfterSleepRevokes
  <2>2. \A u \in Tasks \ {t} : f_pc'[u] = f_pc[u]
    BY <1>11 DEF F!get_lease, F!AfterSleep, F!Goto, F!Return
  <2> QED
    BY <2>1, <2>2 DEF Revoked
<1>12. ASSUME NEW t \in Tasks, F!fcntl_setlease(t) PROVE F!LeaseInv' /\ \A u \in Tasks : Revoked(u)
  <2>1. F!LeaseInv'
    BY <1>12, SetleaseKeeps
  <2>2. f_pc' = f_pc
    BY <1>12 DEF F!fcntl_setlease
  <2> QED
    BY <2>1, <2>2 DEF Revoked
\* Nobody is in flock.
<1>13. ASSUME NEW t \in Tasks
       PROVE  ~(F!sys_flock(t) \/ F!Nothing(t) \/ F!Unlock(t) \/ F!Change(t) \/ F!Drain(t) \/ F!Free(t)
                \/ F!Search(t) \/ F!Repeat(t))
  <2>1. f_pc[t] \notin {"search", "drain", "repeat"}
    BY DEF F!CallOf
  <2> QED
    BY <2>1 DEF F!sys_flock, F!Nothing, F!Unlock, F!Change, F!Drain, F!Free, F!Search, F!Repeat
<1> QED
  BY <1>5, <1>6, <1>7, <1>8, <1>9, <1>10, <1>11, <1>12, <1>13 DEF F!Next, F!Step

\* As long as there are no flocks in the list, and nobody asks for a new lease while an open waits
\* for the old ones: an open for writing gets past __get_lease only when no lease is left, and one
\* for reading only when no exclusive lease is left.
THEOREM LeasesAreRevoked ==
    F!FlockAssumption /\ Flocks = {} /\ ~Renews /\ IsFiniteSet(Tasks) /\ IsFiniteSet(OpenFiles) /\ F!Spec
        => F!LeasesRevoked
<1> SUFFICES ASSUME F!FlockAssumption, Flocks = {}, ~Renews, IsFiniteSet(Tasks), IsFiniteSet(OpenFiles)
             PROVE  F!Spec => F!LeasesRevoked
  OBVIOUS
<1>1. F!Init => F!QueueInv /\ F!LeaseInv
  <2>1. F!Init => F!LeaseInv
    BY DEF F!Init, F!LeaseInv, F!LeasesOf
  <2> QED
    BY <2>1, QueueInit
<1>2. F!QueueInv /\ F!LeaseInv /\ [F!Next]_F!vars => (F!QueueInv /\ F!LeaseInv)'
  BY QueueInduction, LeaseInduction
<1>3. F!QueueInv /\ F!LeaseInv /\ [F!Next]_F!vars =>
        [\A t \in Tasks : f_pc[t] # "opened" /\ f_pc'[t] = "opened" =>
           \A i \in DOMAIN f_flock' : f_flock'[i].lease => ~arg[t].write /\ f_flock'[i].type # "WRLCK"]_F!vars
  BY LeaseInduction DEF Revoked
<1> QED
  BY <1>1, <1>2, <1>3, PTL DEF F!Spec, F!LeasesRevoked
=============================================================================
