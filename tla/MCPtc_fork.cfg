\* A forking thread and another one.
CONSTANTS
    b1 = b1
    b2 = b2
    b3 = b3
    m1 = m1
    m2 = m2
    t1 = t1
    t2 = t2
    NoOne = NoOne
    Bufs = {b1, b2, b3}
    Mags = {m1, m2}
    Threads = {t1, t2}
    Forker = t1
    Cachers = {t2}
    CAPACITY = 1
    MAGSIZES <- OneThenTwo
    HOOKS = TRUE
    EXITS = 1
SPECIFICATION Spec
SYMMETRY Symmetry
INVARIANTS
    BuffersKept
    MagCheck
PROPERTIES
    ImplementsAllocator
