SPECIFICATION MCSpec
CONSTANTS
    NR_CPUS = 2
    Tasks = {t1, t2}
    Movers = {t1}
    Schedulers = {t1}
    Syncers = {t2}
    Mortals = {t2}
    MaxLoad = 2
    None = None
    w1 = w1
    w2 = w2
    c1 = c1
    c2 = c2
    c3 = c3
    k1 = k1
    s1 = s1
    u1 = u1
    p1 = p1
    p2 = p2
    work = work
INVARIANTS
    RunsOnce
    QueuesExact
    NoLockCycle
    CompletionSound
    TimersSound
    KeventdSound
PROPERTIES
    ImplementsTaskSched
    NeverEarly
CHECK_DEADLOCK FALSE
