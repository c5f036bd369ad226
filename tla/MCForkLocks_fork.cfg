\* A fork against the update thread, or with inline updates.
CONSTANTS
    t1 = t1
    t2 = t2
    w = w
    Worker = w
    Threads = {t1}
    FORKING = {t1}
    STALE = FALSE
    RELEASES = FALSE
SPECIFICATION Spec
INVARIANTS
    NoDeadlock
    
    OrderRespected
