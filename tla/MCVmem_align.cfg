SPECIFICATION Spec
CONSTANTS
    Threads = {t1, t2}
    CONFIGS <- AlignedConfigs
SYMMETRY Symmetry
INVARIANTS
    InsideSpan
