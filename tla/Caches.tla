------------------------------- MODULE Caches --------------------------------
(***************************************************************************)
(* What umem_init() builds from the options (umem.c): the arenas, the      *)
(* internal caches in their order, the caches behind umem_alloc(), the     *)
(* size table and the bins of the per-thread caches; then caches the       *)
(* program creates and destroys, and the slabs of any of them.             *)
(*                                                                         *)
(* Sizes are scaled down; every #define they come from is a constant.      *)
(* Arithmetic on sizes is modulo ULONG.                                    *)
(***************************************************************************)
EXTENDS Options, FiniteSetsExt

CONSTANTS
    PAGE, LINE,             \* pagesize and the coherency granularity
    UMEM_SECOND_ALIGN, UMEM_VOID_FRACTION,
    UMEM_MIN_SLAB_OBJECTS, UMEM_MIN_SLAB_CEILING, UMEM_MIN_QCACHE_SLAB,
    NQCACHE,                \* quantum caches of umem_va
    LITE_MAXALIGN,          \* umem_lite_maxalign
    SLAB_T, BUFTAG_T, BUFCTL_T, AUDIT_T, PTC_T, POINTER,    \* sizeof
    AUDIT_ALIGN,            \* UMEM_BUFCTL_AUDIT_ALIGN
    MAGTYPES,               \* umem_magtype: [magsize, align, minbuf]
    PTC_CLASSES,            \* ptc_size_classes
    REQUESTS                \* what the program creates: [bufsize, align, cflags]

VARIABLES
    phase,                  \* of umem_init()
    arenas,                 \* the arenas created
    caches,                 \* the caches of umem_cache_init(), in order
    app,                    \* the program's cache, or NoCache
    umem_alloc_table,       \* index -> position in caches; 0: umem_null_cache
    umem_ptc_bin_real,      \* index -> bin, 0: none
    blocks,                 \* what is allocated from umem_cache_arena and umem_hash_arena
    slab,                   \* the last slab made: [cache, color], or NoSlab
    faults                  \* allocations of the library that may still fail

cacheVars == <<phase, arenas, caches, app, umem_alloc_table, umem_ptc_bin_real, blocks,
               slab, faults>>

NoCache == [errno |-> "none"]
NoSlab == [color |-> 0]
Indices == 1..(UMEM_MAXBUF \div UMEM_ALIGN)

InitCachesState ==
    /\ phase = 1
    /\ arenas = {} /\ caches = <<>> /\ app = NoCache
    /\ umem_alloc_table = [i \in Indices |-> 0]
    /\ umem_ptc_bin_real = [i \in Indices |-> 0]
    /\ blocks = {} /\ slab = NoSlab /\ faults = environment.faults

-----------------------------------------------------------------------------
(* umem_cache_create(): the flags.                                         *)

BUFTAG == {"DEADBEEF", "REDZONE"}
TOUCH == BUFTAG \cup {"LITE", "CONTENTS"}
RANDOM == TOUCH \cup {"AUDIT", "NOMAGAZINE"}
DEBUG == RANDOM \cup {"FIREWALL"}
RandomBits == <<"AUDIT", "DEADBEEF", "REDZONE", "CONTENTS", "NOMAGAZINE", "LITE">>

P2ROUNDUP(n, align) == RoundUp(n, align) % ULONG

\* UMF_RANDOMIZE: each cache gets the next subset of the debugging flags, and
\* the other flags are gone.
Randomized(flags) ==
    LET clear == {i \in DOMAIN RandomBits : RandomBits[i] \notin flags}
        kept == {RandomBits[i] : i \in {j \in DOMAIN RandomBits : j > Min(clear)}} \cap flags
    IN (flags \ (DEBUG \cup {"CHECKSIGNAL", "CHECKNULL"}))
       \cup (IF clear = {} THEN {} ELSE {RandomBits[Min(clear)]} \cup kept)
NextFlags == IF "RANDOMIZE" \in umem_flags THEN Randomized(umem_flags) ELSE umem_flags

Aligned(r) ==
    IF r.align = 0
    THEN IF P2ROUNDUP(r.bufsize, UMEM_ALIGN) >= UMEM_SECOND_ALIGN
         THEN UMEM_SECOND_ALIGN ELSE UMEM_ALIGN
    ELSE IF r.align < UMEM_ALIGN /\ "NOTOUCH" \notin r.cflags THEN UMEM_ALIGN
    ELSE r.align

Lite(f, r, align) ==
    IF "LITE" \notin f THEN f
    ELSE IF align <= LITE_MAXALIGN /\ r.bufsize % LITE_MAXALIGN # 0
    THEN (f \cup BUFTAG) \ {"AUDIT", "FIREWALL"}
    ELSE f \ DEBUG

\* What the cache's own flags take away and add.
ByCflags(f, r) ==
    LET a == IF "QCACHE" \in r.cflags /\ "AUDIT" \in f THEN f \cup {"NOMAGAZINE"} ELSE f
        b == IF "NODEBUG" \in r.cflags THEN a \ DEBUG ELSE a
        c == IF "NOTOUCH" \in r.cflags THEN b \ TOUCH ELSE b
        d == IF "NOHASH" \in r.cflags THEN c \ {"AUDIT", "FIREWALL"} ELSE c
        e == IF "NOMAGAZINE" \in r.cflags THEN d \cup {"NOMAGAZINE"} ELSE d
    IN IF "AUDIT" \in e /\ "NOTOUCH" \notin r.cflags THEN e \cup {"REDZONE"} ELSE e

\* Until umem_cache_init() makes the default arena, the internal one is it.
umem_default_arena == IF "default" \in arenas THEN "default" ELSE "internal"

\* Only the default arena has a firewalled counterpart.
MinFirewall == IF target["umem_minfirewall"] = 0 THEN ULONG - 1
               ELSE target["umem_minfirewall"]
Firewalled(f, r) ==
    LET big == /\ f \cap BUFTAG # {} /\ r.bufsize >= MinFirewall
               /\ "LITE" \notin f /\ "NOHASH" \notin r.cflags
        g == IF big THEN f \cup {"FIREWALL"} ELSE f
    IN IF r.arena # umem_default_arena \/ "firewall" \notin arenas THEN g \ {"FIREWALL"}
       ELSE IF "FIREWALL" \in g THEN (g \ BUFTAG) \cup {"NOMAGAZINE"} ELSE g

CacheFlags(r) == Firewalled(ByCflags(Lite(NextFlags, r, Aligned(r)), r), r)

-----------------------------------------------------------------------------
(* umem_cache_create(): the geometry.                                      *)

\* The buffer, its tag after it, rounded up to the alignment.
Tagged(f) == f \cap BUFTAG # {}
Chunk(r, f, align) ==
    LET aligned == IF align >= UMEM_ALIGN THEN P2ROUNDUP(r.bufsize, UMEM_ALIGN) ELSE r.bufsize
        tagged == IF Tagged(f) THEN (aligned + BUFTAG_T) % ULONG ELSE aligned
        maxverify == IF target["umem_maxverify"] = 0 THEN ULONG - 1
                     ELSE target["umem_maxverify"]
        bufctl == IF Tagged(f) THEN aligned
                  ELSE IF align >= UMEM_ALIGN THEN (aligned + ULONG - UMEM_ALIGN) % ULONG ELSE 0
        buftag == IF Tagged(f) THEN aligned ELSE 0
    IN [chunksize |-> P2ROUNDUP(tagged, align),
        bufctl |-> bufctl, buftag |-> buftag,
        verify |-> IF "DEADBEEF" \notin f THEN 0
                   ELSE Min({buftag, maxverify} \cup
                            IF "LITE" \in f THEN {UMEM_ALIGN} ELSE {}),
        contents |-> Min({bufctl, target["umem_content_maxsave"]})]

\* The slab that wastes least per chunk, of those for up to
\* UMEM_VOID_FRACTION chunks.
SlabFor(chunk, n) == P2ROUNDUP((chunk * n) % ULONG, PAGE)
Overflows(chunk) == \E n \in 1..UMEM_VOID_FRACTION : SlabFor(chunk, n) \div n < chunk
Waste(chunk, size) == (size % chunk) \div (size \div chunk)
BestFit(chunk) ==
    LET sizes == {SlabFor(chunk, n) : n \in 1..UMEM_VOID_FRACTION}
        least == Min({Waste(chunk, s) : s \in sizes})
    IN Min({s \in sizes : Waste(chunk, s) = least})

PowerAbove(n) == Min({m \in {2^k : k \in 0..16} : m > n})
Floored(chunk, size) ==
    LET want == SlabFor(chunk, UMEM_MIN_SLAB_OBJECTS)
    IN IF /\ size \div chunk < UMEM_MIN_SLAB_OBJECTS
          /\ want \div chunk >= UMEM_MIN_SLAB_OBJECTS
          /\ want <= UMEM_MIN_SLAB_CEILING
       THEN want ELSE size

SlabSize(chunk, cflags) ==
    IF "QCACHE" \in cflags
    THEN Max({PowerAbove(3 * NQCACHE * PAGE), LINE, UMEM_MIN_QCACHE_SLAB})
    ELSE Floored(chunk, BestFit(chunk))

\* The slab's size, the range of its colours, and whether its buffers are
\* found through the hash table; or the error.
Firewall(chunk) ==
    LET size == P2ROUNDUP(chunk, PAGE)
    IN [errno |-> "none", slabsize |-> size, mincolor |-> (size + ULONG - chunk) % ULONG,
        maxcolor |-> (size + ULONG - chunk) % ULONG, hash |-> TRUE]
OnePage(chunk) ==
    [errno |-> IF chunk + SLAB_T > PAGE THEN "EINVAL" ELSE "none",
     slabsize |-> PAGE, mincolor |-> 0, maxcolor |-> (PAGE - SLAB_T) % chunk, hash |-> FALSE]
Hashed(chunk, cflags) ==
    IF Overflows(chunk)
    THEN [errno |-> "ENOMEM", slabsize |-> 0, mincolor |-> 0, maxcolor |-> 0, hash |-> TRUE]
    ELSE [errno |-> "none", slabsize |-> SlabSize(chunk, cflags), mincolor |-> 0,
          maxcolor |-> SlabSize(chunk, cflags) % chunk, hash |-> TRUE]

Slabs(chunk, f, cflags) ==
    IF "FIREWALL" \in f THEN Firewall(chunk)
    ELSE IF \/ "NOHASH" \in cflags
            \/ {"NOTOUCH"} \cap cflags = {} /\ "AUDIT" \notin f
               /\ chunk < PAGE \div UMEM_VOID_FRACTION
    THEN OnePage(chunk)
    ELSE Hashed(chunk, cflags)

Position(name) == IF \E i \in DOMAIN caches : caches[i].name = name
                  THEN CHOOSE i \in DOMAIN caches : caches[i].name = name ELSE 0

\* The cache that the arguments describe, or the error.
Described(r) ==
    LET align == Aligned(r)
        f == CacheFlags(r)
        k == Chunk(r, f, align)
        s == Slabs(k.chunksize, f, r.cflags)
    IN IF k.chunksize < r.bufsize THEN [errno |-> "ENOMEM"]
       ELSE IF s.errno # "none" THEN [errno |-> s.errno]
       ELSE [errno |-> "none", name |-> r.name, bufsize |-> r.bufsize, align |-> align,
             cflags |-> r.cflags, flags |-> f, chunk |-> k, slab |-> s,
             color |-> s.mincolor,
             maxcolor |-> Min({s.maxcolor, PAGE - 1}),
             bufctl_cache |-> IF s.hash THEN Position(IF "AUDIT" \in f THEN <<"bufctl_audit", 0>>
                                                      ELSE <<"bufctl", 0>>) ELSE 0,
             magtype |-> Min({i \in DOMAIN MAGTYPES : k.chunksize > MAGTYPES[i].minbuf})]

Reasonable(r) == /\ r.align \in {0} \cup {2^i : i \in 0..16} /\ r.align <= PAGE
                 /\ ~({"NOHASH", "NOTOUCH"} \subseteq r.cflags)
                 /\ r.bufsize # 0

\* The blocks of a cache: its descriptor, its hash table, its per-CPU arrays.
Block(c, part) == <<c.name, part>>
Needed(c) == {Block(c, "cp")} \cup (IF c.slab.hash THEN {Block(c, "hash")} ELSE {})

\* How umem_cache_create() can end: what it returns, what it leaves allocated,
\* the flags and the faults left.  The descriptor comes before the flags, the
\* hash table last but for the per-CPU arrays, which are done without.
Ends(cache, takes, flags, n) ==
    [cache |-> cache, takes |-> takes, umem_flags |-> flags, faults |-> n]
Outcomes(r) ==
    LET c == Described(r)
        again == [errno |-> "EAGAIN"]
    IN IF ~Reasonable(r) THEN {Ends([errno |-> "EINVAL"], {}, umem_flags, faults)}
       ELSE {Ends(c, IF c.errno = "none" THEN Needed(c) \cup {Block(c, "percpu")} ELSE {},
                  NextFlags, faults)}
            \cup {o \in {Ends(again, {}, umem_flags, faults - 1)} : faults > 0}
            \cup {o \in {Ends(again, {}, NextFlags, faults - 1)} :
                     faults > 0 /\ c.errno = "none" /\ c.slab.hash}
            \cup (IF faults > 0 /\ c.errno = "none"
                  THEN {Ends(c, Needed(c), NextFlags, faults - 1)} ELSE {})

-----------------------------------------------------------------------------
(* umem_init(), after the options: arenas, caches, tables.                 *)

ArenaGroups == <<{"internal"}, {"cache", "hash", "log", "firewall_va"}, {"firewall"},
                 {"oversize", "memalign"}>>
Failed == 99
Ready == 7

\* An arena that could not be created is noticed at the end of its group.
InitArenas ==
    /\ Processed /\ phase \in DOMAIN ArenaGroups
    /\ \/ /\ arenas' = arenas \cup ArenaGroups[phase]
          /\ phase' = phase + 1
          /\ UNCHANGED faults
       \/ /\ faults > 0
          /\ \E a \in ArenaGroups[phase] : arenas' = arenas \cup (ArenaGroups[phase] \ {a})
          /\ phase' = Failed
          /\ faults' = faults - 1
    /\ UNCHANGED <<caches, app, umem_alloc_table, umem_ptc_bin_real, blocks, slab, optionVars>>

\* umem_cache_init(): the caches in the order it creates them.
Request(name, bufsize, align, arena, cflags) ==
    [name |-> name, bufsize |-> bufsize, align |-> align, arena |-> arena, cflags |-> cflags]
Internal(name, bufsize, align, cflags) ==
    Request(name, bufsize, align, "internal", cflags \cup {"INTERNAL"})

\* The audit record holds as many frames as fit: two of them and their tags
\* on one page with the slab.
AuditSize ==
    LET most == (((PAGE - SLAB_T) \div 2 - BUFTAG_T) \div AUDIT_ALIGN) * AUDIT_ALIGN
        size == AUDIT_T + target["umem_stack_depth"] * POINTER
    IN IF size <= most THEN size ELSE AUDIT_T + ((most - AUDIT_T) \div POINTER) * POINTER

Backend == IF choice.backend \in {{}, {"mmap"}, {"mmap", "sbrk"}} THEN "mmap" ELSE "sbrk"
Sizes == SubSeq(umem_alloc_sizes, 1,    \* 0 terminates the list
             Max({n \in 0..Len(umem_alloc_sizes) : \A i \in 1..n : umem_alloc_sizes[i] # 0}))

AllocRequest(size) ==
    Request(<<"alloc", size>>, size,
            IF size % PAGE = 0 THEN PAGE ELSE IF size % LINE = 0 THEN LINE ELSE 0,
            umem_default_arena, {"INTERNAL"})

CreationOrder ==
    [i \in DOMAIN MAGTYPES |-> Internal(<<"mag", i>>, (MAGTYPES[i].magsize + 1) * POINTER,
                                        MAGTYPES[i].align, {"NOHASH"})]
    \o <<Internal(<<"slab", 0>>, SLAB_T, 0, {"NOHASH"}),
         Internal(<<"bufctl", 0>>, BUFCTL_T, 0, {"NOHASH"}),
         Internal(<<"ptc", 0>>, PTC_T, LINE, {}),
         Internal(<<"bufctl_audit", 0>>, AuditSize, 0, {"NOHASH"})>>
    \o [i \in 1..(IF Backend = "mmap" THEN NQCACHE ELSE 0) |->
           Request(<<"va", i>>, i * PAGE, PAGE, "va", {"QCACHE", "NOTOUCH"})]
    \o [i \in 1..Len(Sizes) |-> AllocRequest(Sizes[i])]

Creating == Processed /\ phase = 5 /\ Len(caches) < Len(CreationOrder)
Internals == Len(MAGTYPES) + 4

\* umem_va and umem_default, after the internal caches.
InitDefaultArena ==
    /\ Creating /\ Len(caches) = Internals /\ "default" \notin arenas
    /\ \/ arenas' = arenas \cup {"va", "default"} /\ UNCHANGED <<phase, faults>>
       \/ /\ faults > 0 /\ faults' = faults - 1 /\ phase' = Failed
          /\ UNCHANGED arenas
    /\ UNCHANGED <<caches, app, umem_alloc_table, umem_ptc_bin_real, blocks, slab, optionVars>>

\* The next cache.  A quantum cache that cannot be created is done without;
\* any other ends the initialisation.
umem_cache_init ==
    /\ Creating /\ (Len(caches) = Internals => "default" \in arenas)
    /\ LET r == CreationOrder[Len(caches) + 1]
       IN \E o \in Outcomes(r) :
             /\ faults' = o.faults
             /\ umem_flags' = o.umem_flags
             /\ blocks' = blocks \cup o.takes
             /\ caches' = Append(caches, o.cache @@ [name |-> r.name])
             /\ phase' = IF o.cache.errno # "none" /\ "QCACHE" \notin r.cflags
                         THEN Failed ELSE phase
    /\ UNCHANGED <<arenas, app, umem_alloc_table, umem_ptc_bin_real, slab, environment,
                   collected, interrupted, applied, items, target, umem_alloc_sizes, choice>>

\* The size table is filled cache by cache, each up to its own size.
Serves(i) == Sizes[Min({k \in DOMAIN Sizes : Sizes[k] >= i * UMEM_ALIGN})]

Publish ==
    /\ Processed /\ phase = 5 /\ Len(caches) = Len(CreationOrder)
    /\ umem_alloc_table' = [i \in Indices |-> Position(<<"alloc", Serves(i)>>)]
    /\ phase' = 6
    /\ UNCHANGED <<arenas, caches, app, umem_ptc_bin_real, blocks, slab, faults, optionVars>>

\* umem_ptc_init(): a bin for every index whose cache has a bin of exactly
\* its size, unless that cache is debugged.
PtcDebug == {"AUDIT", "DEADBEEF", "REDZONE"}
ClassDebugged(size) ==
    LET i == umem_alloc_table[RoundUp(size, UMEM_ALIGN) \div UMEM_ALIGN]
    IN i # 0 /\ caches[i].flags \cap PtcDebug # {}
BinOf(size) ==
    IF \E b \in DOMAIN PTC_CLASSES : PTC_CLASSES[b] = size /\ ~ClassDebugged(size)
    THEN CHOOSE b \in DOMAIN PTC_CLASSES : PTC_CLASSES[b] = size ELSE 0

umem_ptc_init ==
    /\ Processed /\ phase = 6
    /\ umem_ptc_bin_real' =
          [i \in Indices |->
              IF \/ target["umem_ptc_enabled"] = 0
                 \/ i * UMEM_ALIGN > target["umem_ptc_maxsize"]
                 \/ caches[umem_alloc_table[i]].bufsize > target["umem_ptc_maxsize"]
              THEN 0 ELSE BinOf(caches[umem_alloc_table[i]].bufsize)]
    /\ phase' = Ready
    /\ UNCHANGED <<arenas, caches, app, umem_alloc_table, blocks, slab, faults, optionVars>>

-----------------------------------------------------------------------------
(* The program's cache, and slabs.                                         *)

\* An interrupted collection of the options has come back; it changes nothing
\* that these steps read.
Settled == env_state = "DONE" /\ interrupted \in {"nowhere", "resumed"}

umem_cache_create ==
    /\ phase = Ready /\ Settled /\ app = NoCache /\ slab = NoSlab
    /\ \E q \in REQUESTS : \E o \in Outcomes(Request(<<"app", 0>>, q.bufsize, q.align,
                                                     umem_default_arena, q.cflags)) :
          /\ app' = o.cache
          /\ umem_flags' = o.umem_flags
          /\ blocks' = blocks \cup o.takes
          /\ faults' = o.faults
    /\ UNCHANGED <<phase, arenas, caches, umem_alloc_table, umem_ptc_bin_real, slab, environment,
                   collected, interrupted, applied, items, target, umem_alloc_sizes, choice>>

Created == app # NoCache /\ app.errno = "none"

umem_cache_destroy ==
    /\ Created /\ slab = NoSlab
    /\ blocks' = {b \in blocks : b[1] # app.name}
    /\ app' = [errno |-> "destroyed"]
    /\ UNCHANGED <<phase, arenas, caches, umem_alloc_table, umem_ptc_bin_real, slab, faults,
                   optionVars>>

\* umem_slab_create(): the next colour of the cache; then its chunks.
NextColor(c, color) == IF color + c.align > c.maxcolor THEN c.slab.mincolor ELSE color + c.align

Usable(c) == c.errno = "none"
umem_slab_create ==
    /\ phase = Ready /\ Settled /\ app.errno # "destroyed"
    /\ \/ /\ slab = NoSlab
          /\ \E c \in {d \in {app} \cup ToSet(caches) : Usable(d) /\ d # NoCache} :
                slab' = [cache |-> c, color |-> NextColor(c, c.color)]
       \/ /\ slab # NoSlab
          /\ slab' = [slab EXCEPT !.color = NextColor(slab.cache, @)]
    /\ UNCHANGED <<phase, arenas, caches, app, umem_alloc_table, umem_ptc_bin_real, blocks,
                   faults, optionVars>>

Over == /\ choice.crashed \/ phase \in {Failed, Ready}
        /\ UNCHANGED <<cacheVars, optionVars>>

\* An interrupted collection comes back when the nested umem_init() has ended.
Init == InitOptions /\ InitCachesState

Next ==
    \/ /\ OptionStep /\ (Processed => phase \in {Failed, Ready})
       /\ UNCHANGED cacheVars
    \/ InitArenas \/ InitDefaultArena \/ umem_cache_init \/ Publish \/ umem_ptc_init
    \/ umem_cache_create \/ umem_cache_destroy \/ umem_slab_create
    \/ Over

Spec == Init /\ [][Next]_<<cacheVars, optionVars>>

-----------------------------------------------------------------------------
(* Properties.                                                             *)

\* The slabs of every cache hold together: however the sizes, the alignment,
\* the debugging flags and the overflow checks of umem_cache_create() work
\* out, a slab of any colour has at least one chunk, its chunks and the slab's
\* own record fit in it, each buffer is aligned, its tag and its free-list link
\* lie inside its chunk, what is verified or logged lies inside the buffer, a
\* firewalled buffer ends at the end of the slab, and a hashed slab has the
\* number of objects that umem_impl.h promises.  (An overflow in the firewalled
\* arm, which has no check, gives a slab of size 0: excepted.)
Fits(c, color) ==
    LET room == c.slab.slabsize - color - (IF c.slab.hash THEN 0 ELSE SLAB_T)
        n == room \div c.chunk.chunksize
    IN /\ room >= c.chunk.chunksize
       /\ color % c.align = 0
       /\ c.chunk.chunksize % c.align = 0
       /\ c.bufsize <= c.chunk.chunksize
       /\ Tagged(c.flags) => /\ c.bufsize <= c.chunk.buftag
                             /\ c.chunk.buftag + BUFTAG_T <= c.chunk.chunksize
       /\ ~c.slab.hash /\ ~Tagged(c.flags) =>
             c.chunk.bufctl + UMEM_ALIGN <= c.chunk.chunksize
       /\ c.chunk.verify <= c.chunk.chunksize /\ c.chunk.contents <= c.chunk.chunksize
       /\ "FIREWALL" \in c.flags => color + c.chunk.chunksize = c.slab.slabsize
       /\ c.slab.hash /\ {"FIREWALL", "QCACHE"} \cap (c.flags \cup c.cflags) = {}
             /\ SlabFor(c.chunk.chunksize, UMEM_MIN_SLAB_OBJECTS) \in 1..UMEM_MIN_SLAB_CEILING
             /\ c.chunk.chunksize * UMEM_MIN_SLAB_OBJECTS < ULONG
             => n >= UMEM_MIN_SLAB_OBJECTS
SlabsSound ==
    slab # NoSlab =>
       \/ "FIREWALL" \in slab.cache.flags /\ slab.cache.slab.slabsize = 0
       \/ Fits(slab.cache, slab.color)

\* What umem_init() publishes from the options is right: once it cannot fail
\* any more the size table sends every request to the smallest cache of the
\* table that holds it, whatever size_add, size_remove and size_clear did; a
\* per-thread bin serves only requests whose cache has that bin's size and no
\* debugging; a failed creation and umem_cache_destroy() leave no block behind.
TablesSound ==
    /\ \A i \in Indices :
          LET c == caches[umem_alloc_table[i]]
              b == umem_ptc_bin_real[i]
          IN /\ phase \in {6, Ready} => umem_alloc_table[i] # 0
             /\ umem_alloc_table[i] # 0 =>
                   /\ c.bufsize >= i * UMEM_ALIGN
                   /\ \A s \in ToSet(umem_alloc_sizes) : s >= i * UMEM_ALIGN => s >= c.bufsize
             /\ b # 0 => PTC_CLASSES[b] = c.bufsize /\ c.flags \cap PtcDebug = {}
    /\ {b[1] : b \in blocks} =
          {c.name : c \in {d \in ToSet(caches) : Usable(d)}} \cup (IF Created THEN {app.name} ELSE {})

\* A cache whose objects something allocates has the cache its bufctls come
\* from: "created before it, the first umem_ptc_get() faulted in
\* umem_slab_create on a NULL bufctl cache" (umem_cache_init).  The per-thread
\* cache is allocated from once an index has a bin.
BufctlReady ==
    (phase = Ready /\ \E i \in Indices : umem_ptc_bin_real[i] # 0) =>
       LET c == caches[Position(<<"ptc", 0>>)]
       IN c.slab.hash => c.bufctl_cache # 0

=============================================================================
