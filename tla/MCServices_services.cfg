\* The services around the allocator's core.
CONSTANTS
    t1 = t1
    t2 = t2
    t3 = t3
    h1 = h1
    h2 = h2
    c1 = c1
    b1 = b1
    b2 = b2
    b3 = b3
    COMPONENTS = {"hooks", "own", "break", "inspect", "budget", "profile", "caches", "buftag", "log", "batch", "partition", "arena"}
    BATCH_CONFIGS <- BatchConfigs
SPECIFICATION Spec
INVARIANTS
    
    
    
    BudgetSound
    
    
    ArenaSound
