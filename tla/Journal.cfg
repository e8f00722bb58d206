SPECIFICATION Spec
CONSTANTS
    h1 = h1
    h2 = h2
    inode = inode
    ind = ind
    v1 = v1
    v2 = v2
    Zeroed = Zeroed
    None = None
    Setups = {"long", "crash", "restart"}
SYMMETRY Symmetry
INVARIANTS
    Recoverable
    LogSuffices
CHECK_DEADLOCK FALSE
