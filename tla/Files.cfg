SPECIFICATION MCSpec
CONSTANTS
    Procs = {p1, p2}
    OFFSET_MAX = 3
    Requests <- InnerRanges
    Accesses <- NoAccess
    Closes = FALSE
    NoMemory = FALSE
    None = None
    Setups = {"ranges", "close", "chains", "mandatory", "flock", "fork", "lease"}
    p1 = p1
    p2 = p2
    p3 = p3
    t1 = t1
    t2 = t2
    t3 = t3
    f1 = f1
    f2 = f2
    f3 = f3
SYMMETRY Symmetry
INVARIANTS
    NoDeadlock
    FileLocksSound
PROPERTY
    ImplementsByteLocks
