SPECIFICATION MCSpec
CONSTANTS
    Tasks = {t1, t2, t3}
    Msgs = {m1, m2}
    Types = {1, 2}
    Sizes = {0, 1, 2}
    Sends <- SomeSends
    Receives <- SomeReceives
    Settings <- SomeSettings
    MaxSeq = 2
    None = None
    Pair = {u1, u2}
    Setups = {"messages", "undo", "both", "pipe", "fault", "fifo"}
SYMMETRY Symmetry
CHECK_DEADLOCK FALSE
INVARIANTS
    OnePlace
    SleepersSafe
    SemsSound
    PipeSound
