SPECIFICATION MCSpec
CONSTANTS
    s = s
    t = t
    other = other
    a = a
    b = b
    m1 = m1
    m2 = m2
    m3 = m3
    Threads = {s, t, other, a, b}
    Mms = {m1, m2, m3}
    Mm <- MCMm
    Pages = {p1, p2, p3}
    Num = 5
    Swapping = {m3}
    Unmapping = {m3}
    None = None
    Setups = {"shared", "remapped"}
SYMMETRY Symmetry
INVARIANTS
    WakeupsKept
    NoUseAfterReturn
    NoLostWakeupInCore
