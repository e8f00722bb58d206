SPECIFICATION Spec
CONSTANTS
    Tasks = {t1, t2, t3, t4}
    NoTask = NoTask
SYMMETRY Symmetry
INVARIANTS
    MutualExclusion
    CountAccounting
    WakeTargetAlive
    NoUseAfterReturn
PROPERTY
    ImplementsRwLock
