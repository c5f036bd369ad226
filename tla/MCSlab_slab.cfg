\* The slab layer, with and without UMF_HASH and reclaim.
CONSTANTS
    s1 = s1
    s2 = s2
    s3 = s3
    t1 = t1
    t2 = t2
    SLABS = {s1, s2, s3}
    Threads = {t1, t2}
    CHUNKS = 2
    RECLAIM_DELAY = 2
    REAP_INTERVAL = 1
SPECIFICATION FairSpec
INVARIANTS
    RefcntExact
    HeldBacked
    FreelistSound
    ReclaimStable
    SpanAccounted
    BooksExact
PROPERTIES
    ImplementsAllocator
    EmptySlabReturned
