CONSTANTS
    Threads = {t1, t2}
    Pages = {1, 2, 3, 4, 5}
    Nobody = Nobody
    VMEM_SPAN_MAX = 2
    BOOTSTRAP_MAX = 2
    MAX_LIBC_PTRS = 1
    CONFIGS <- AllConfigs
SYMMETRY Symmetry
SPECIFICATION Spec
INVARIANTS
    Routed
    AnswerExact
    
