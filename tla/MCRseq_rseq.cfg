\* Two threads on two CPUs, preempted anywhere, with a resize.
CONSTANTS
    b1 = b1
    b2 = b2
    m1 = m1
    m2 = m2
    c1 = c1
    c2 = c2
    t1 = t1
    t2 = t2
    NoOne = NoOne
    Bufs = {b1, b2}
    Mags = {m1, m2}
    Threads = {t1, t2}
    CPUs = {c1, c2}
    MAGSIZES <- OneThenTwo
    RETRIES = 2
    CALLS = 3
SPECIFICATION Spec
SYMMETRY Symmetry
INVARIANTS
    OneShellOwner
    RoundsSound
