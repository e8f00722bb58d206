SPECIFICATION MCSpec
CONSTANTS
    s = s
    t = t
    other = other
    a = a
    b = b
    m1 = m1
    m2 = m2
    m3 = m3
    Threads = {s, t}
    Mms = {m1, m2, m3}
    Mm <- MCMm
    Pages = {p1, p2, p3, p4}
    Num = 4
    Swapping = {m1, m2}
    Unmapping = {}
    None = None
    Setups = {"shared"}
SYMMETRY Symmetry
INVARIANT
    NoLostWakeup
