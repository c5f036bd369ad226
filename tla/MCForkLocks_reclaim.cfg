\* A fork while a reclaim pass gives slabs back.
CONSTANTS
    t1 = t1
    t2 = t2
    w = w
    Worker = w
    Threads = {t1}
    FORKING = {t1}
    STALE = FALSE
    RELEASES = TRUE
SPECIFICATION Spec
INVARIANTS
    NoDeadlock
