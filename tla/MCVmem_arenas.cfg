SPECIFICATION Spec
CONSTANTS
    Threads = {t1, t2}
    CONFIGS <- AllConfigs
SYMMETRY Symmetry
INVARIANTS
    SegmentsSound
    
    SegsSuffice
