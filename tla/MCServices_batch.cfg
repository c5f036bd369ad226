\* Batch calls on a debugged cache.
CONSTANTS
    t1 = t1
    t2 = t2
    t3 = t3
    h1 = h1
    h2 = h2
    c1 = c1
    b1 = b1
    b2 = b2
    b3 = b3
    COMPONENTS = {"batch"}
    BATCH_CONFIGS <- DebugBatches
SPECIFICATION Spec
INVARIANTS
    Constructed
