SPECIFICATION MCSpec
CONSTANTS
    Tasks = {init, a, b, c}
    Reaper = init
    NoTask = NoTask
    Modes = {"child", "thread"}
    Waiters = {init, a}
    Ignorers = {}
    Execs = {}
    Tracers = {a}
    Faults = TRUE
    a = a
    More = {d}
    Setups = {"trace", "family", "exec", "ignore", "zone", "local"}
    q1 = q1
    q2 = q2
    NoBlock = NoBlock
SYMMETRY Symmetry
CHECK_DEADLOCK FALSE
INVARIANTS
    FamiliesLive
    ChildrenReaped
    BuddySound
