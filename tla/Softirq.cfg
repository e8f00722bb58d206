SPECIFICATION MCSpec
CONSTANTS
    a = a
    b = b
    Cpus = {c1, c2}
    Tasklets = {a, b}
    Hi = {a, b}
    Bhs = {a, b}
    Ops = {}
    None = None
SYMMETRY Symmetry
INVARIANTS
    OnePlace
    RunsAsPromised
    NoStrandedSoftirq
PROPERTY
    ImplementsPromise
