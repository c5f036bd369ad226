\* Magazines, the depot, a resize, reaps and magazines held outside the depot.
CONSTANTS
    b1 = b1
    b2 = b2
    b3 = b3
    m1 = m1
    m2 = m2
    m3 = m3
    c1 = c1
    c2 = c2
    t1 = t1
    t2 = t2
    NoOne = NoOne
    Bufs = {b1, b2, b3}
    Mags = {m1, m2, m3}
    Threads = {t1, t2}
    CPUs = {c1, c2}
    MAGSIZES <- OneThenTwo
    PERCPU_MAX = 1
    CONFIGS <- Caches
SPECIFICATION Spec
SYMMETRY Symmetry
INVARIANTS
    OneShellOwner
    OneHome
    MagazinesFit
    ReturnedClean
PROPERTIES
    ImplementsAllocator
