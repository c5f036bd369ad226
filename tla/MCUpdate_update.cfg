\* Requests, reaps, cache destruction, update threads, and a fork.
CONSTANTS
    c1 = c1
    c2 = c2
    t1 = t1
    t2 = t2
    w1 = w1
    w2 = w2
    Caches = {c1, c2}
    Threads = {t1, t2}
    Workers = {w1, w2}
    NoOne = NoOne
    KINDS = {"MAGAZINE_RESIZE", "REAP"}
    FORKS = 1
    NESTED = FALSE
    PROGRAMS <- Programs
SPECIFICATION FairSpec
INVARIANTS
    UpdateStates
    NoRequestLost
    OutOfReach
PROPERTIES
    ReapEnds
    DestroyEnds
    RequestServed
