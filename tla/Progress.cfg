SPECIFICATION MCSpec
CONSTANTS
    None = None
    c1 = c1
    c2 = c2
    a = a
    t1 = t1
    t2 = t2
    f1 = f1
    f2 = f2
    init = init
    e1 = e1
    e2 = e2
    e3 = e3
PROPERTIES
    ScheduledRuns
    WorkSpreads
    OpensEnd
    ExecEnds
CHECK_DEADLOCK FALSE
