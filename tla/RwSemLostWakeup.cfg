SPECIFICATION Spec
CONSTANTS
    Tasks = {t1, t2, t3}
    NoTask = NoTask
SYMMETRY Symmetry
INVARIANT
    NoLostWakeup
