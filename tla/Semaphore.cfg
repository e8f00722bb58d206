SPECIFICATION FairSpec
CONSTANTS
    Tasks = {t1, t2, t3}
    NoTask = NoTask
    Permits = 1
    Signalled = {t1}
INVARIANTS
    AtMostPermits
    CountBalance
    NoLostWakeup
PROPERTY
    WaitersServed
