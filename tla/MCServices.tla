----------------------------- MODULE MCServices -----------------------------
(* The services around the allocator's core, for TLC.  They share no state  *)
(* with one another, so a behaviour runs one of them, the one `active`      *)
(* names; the variables of the others keep the value Absent.                *)
EXTENDS Integers, Sequences, FiniteSets

CONSTANTS
    t1, t2, t3, h1, h2, c1, b1, b2, b3,     \* threads, hooks, a CPU, buffers
    COMPONENTS,                             \* the services a run chooses from
    BATCH_CONFIGS                           \* the caches of Batch

VARIABLES
    active,
    hook_list_lock, hook_list, hook_active, hook_refcnt, hook_walk_gen, hook_walk_busy,
    hook_walk_gen_next, hook_asleep, call, throughout, visits,
    own_config, ohl_state, ohl_refcount, ohd_borrow_count, ohd_mut_borrow,
    ohd_owner_thread, refs, own_pc,
    brk_config, introspect_once, server, brk_server_valid, brk_lock,
    umem_introspect_break_armed, brk_kind, brk_size, brk_seq, brk_seq_counter,
    brk_leakset, leaksigs, brk_blocks, brk_generation, brk_stopped, alloc, brk_asleep,
    child, sent, freed_dead,
    place, walked_caches, job, at, todo, recs, cap, needed, try, cs, cs_truncated,
    truncated, report, unclassed, since, denied, moves,
    budget_config, parent, used, waiters, live_count, budget_call, unsignalled, memory,
    budget_calls, aborted,
    mode, list, cache_names, rate, stable_intervals, phases, profile_written, out,
    exiting, file, loaded_caches, loaded_phases, cache_to_profile_idx,
    current_phase_idx, converged, cp, walk_idx, samples,
    environment, env_state, env_cur, env_getenv_result, env_func_result, interrupted,
    applied, items, umem_flags, target, umem_alloc_sizes, choice,
    phase, arenas, caches, app, umem_alloc_table, umem_ptc_bin_real, blocks, slab, faults,
    buftag_config, mem, magazine, freelist, held, lost, umem_logging, reporting, wrong,
    buftag_aborted, misuses,
    log_config, lh_base, lh_free, lh_head, lh_tail, lh_lock, clh, clh_lock, entry,
    retired, turns, now, dump,
    batch_config, cpu_cache, cc_lock, depot_full, depot_empty, in_slab, constructed,
    cache_magtype, batch_call, client, resizing, batch_calls,
    how, input, decimal_digits, hp, asked, hash, left, right, looks, answer,
    arena, blocks_out, refused

hookVars == <<hook_list_lock, hook_list, hook_active, hook_refcnt, hook_walk_gen,
    hook_walk_busy, hook_walk_gen_next, hook_asleep, call, throughout, visits>>
ownVars == <<own_config, ohl_state, ohl_refcount, ohd_borrow_count, ohd_mut_borrow,
    ohd_owner_thread, refs, own_pc>>
brkVars == <<brk_config, introspect_once, server, brk_server_valid, brk_lock,
    umem_introspect_break_armed, brk_kind, brk_size, brk_seq, brk_seq_counter,
    brk_leakset, leaksigs, brk_blocks, brk_generation, brk_stopped, alloc,
    brk_asleep, child, sent, freed_dead>>
inspectVars == <<place, walked_caches, job, at, todo, recs, cap, needed, try, cs,
    cs_truncated, truncated, report, unclassed, since, denied, moves>>
budgetVars == <<budget_config, parent, used, waiters, live_count, budget_call,
    unsignalled, memory, budget_calls, aborted>>
profileVars == <<mode, list, cache_names, rate, stable_intervals, phases,
    profile_written, out, exiting, file, loaded_caches, loaded_phases,
    cache_to_profile_idx, current_phase_idx, converged, cp, walk_idx, samples>>
cacheVars == <<environment, env_state, env_cur, env_getenv_result, env_func_result,
    interrupted, applied, items, umem_flags, target, umem_alloc_sizes, choice,
    phase, arenas, caches, app, umem_alloc_table, umem_ptc_bin_real, blocks, slab,
    faults>>
buftagVars == <<buftag_config, mem, magazine, freelist, held, lost, umem_logging,
    reporting, wrong, buftag_aborted, misuses>>
logVars == <<log_config, lh_base, lh_free, lh_head, lh_tail, lh_lock, clh, clh_lock,
    entry, retired, turns, now, dump>>
batchVars == <<batch_config, cpu_cache, cc_lock, depot_full, depot_empty, in_slab,
    constructed, cache_magtype, batch_call, client, resizing, batch_calls>>
partitionVars == <<how, input, decimal_digits, hp, asked, hash, left, right, looks,
    answer>>
arenaVars == <<arena, blocks_out, refused>>

-----------------------------------------------------------------------------
(* Bounds.                                                                 *)

Two == {t1, t2}
Three == {t1, t2, t3}

HookSet == {h1, h2}
REFCNT_MAX == 2
WALKS == 2
H == INSTANCE Hooks WITH Threads <- Three, asleep <- hook_asleep

\* Moving an object that others borrow, in debug mode, is left out: see README.
MAX_REFS == 3
OWN_CONFIGS == [debug : BOOLEAN, shared : BOOLEAN, moves : BOOLEAN]
               \ {[debug |-> TRUE, shared |-> TRUE, moves |-> TRUE]}
O == INSTANCE Own WITH Threads <- Three

COMMANDS == 3
BREAK_CONFIGS == [sigs : BOOLEAN, fork : BOOLEAN]
B == INSTANCE Break WITH Threads <- Two, Sizes <- {1, 2}, asleep <- brk_asleep,
                         blocks <- brk_blocks

CacheOf == [b \in 1..2 |-> b]
UMEM_SNAP_TRIES == 2
UMEM_SNAP_SLACK == 0
MOVES == 2
I == INSTANCE Inspect WITH Buffers <- 1..2, caches <- walked_caches

BudgetSizes == {1, 2}
BUDGET == 3
MAX_RETRIES == 2
BUDGET_CALLS == 3
BUDGET_CONFIGS == [flags : {"WAIT", "NOWAIT", "NOFAIL"}, prealloc : BOOLEAN,
                   family : BOOLEAN]
G == INSTANCE Budget WITH Threads <- Three

Builtin == <<"b1">>
AppCaches == {"a1", "a2"}
UMP_MAX_CACHES == 2
UMP_MAX_PHASES == 2
UMP_STEADY_INTERVALS == 2
SAMPLES == 2
P == INSTANCE Profile
\* A heap whose records and buftags are a few cells large, its word and its
\* unit of 1024 small enough that the largest sizes an option can give wrap.
ULONG == 4096
UINT == 64
KILO == 8
UMEM_ALIGN == 2
UMEM_MAXBUF == 32
DEFAULT_SIZES == <<4, 16, 32, 0, 0>>
DEFAULTS == [umem_ptc_enabled |-> 1, umem_ptc_maxsize |-> 64, umem_minfirewall |-> 0,
             umem_maxverify |-> 0, umem_stack_depth |-> 3, umem_content_maxsave |-> 4]
PAGE == 64
LINE == 8
UMEM_SECOND_ALIGN == 4
UMEM_VOID_FRACTION == 4
UMEM_MIN_SLAB_OBJECTS == 6
UMEM_MIN_SLAB_CEILING == 256
UMEM_MIN_QCACHE_SLAB == 256
NQCACHE == 1
LITE_MAXALIGN == 16
SLAB_T == 8
BUFTAG_T == 4
BUFCTL_T == 6
AUDIT_T == 8
PTC_T == 80
POINTER == 2
AUDIT_ALIGN == 4
MAGTYPES == <<[magsize |-> 1, align |-> 2, minbuf |-> 16],
              [magsize |-> 3, align |-> 4, minbuf |-> 0]>>
PTC_CLASSES == <<4, 8, 16, 32>>
Create(bufsize, align, cflags) == [bufsize |-> bufsize, align |-> align, cflags |-> cflags]
REQUESTS ==
    {Create(1, 0, {}), Create(1, 1, {"NOTOUCH"}), Create(5, 0, {"NODEBUG"}),
     Create(5, 3, {}), Create(30, 8, {"NOHASH"}), Create(40, 0, {}),
     Create(40, 64, {"NOTOUCH"}), Create(70, 0, {"NOMAGAZINE"}), Create(70, 0, {"NOHASH"}),
     Create(1000, 8, {}), Create(2047, 0, {}), Create(4090, 0, {}), Create(4095, 64, {}),
     Create(0, 0, {}), Create(9, 0, {"NOHASH", "NOTOUCH"})}

\* What the three environment variables and the program's functions say.
Plain(name) == [name |-> name, arg |-> [is |-> "none"]]
Word(name, w) == [name |-> name, arg |-> [is |-> "word", word |-> w]]
Number(name, n, unit) ==
    [name |-> name, arg |-> [is |-> "number", n |-> n, unit |-> unit, junk |-> FALSE]]
Unset == <<Plain("missing")>>
Env(debug, options, logging, func, secure, fails) ==
    [getenv |-> [UMEM_DEBUG |-> debug, UMEM_OPTIONS |-> options, UMEM_LOGGING |-> logging],
     func |-> [UMEM_DEBUG |-> func, UMEM_OPTIONS |-> Unset, UMEM_LOGGING |-> Unset],
     secure |-> secure, faults |-> fails]
DebugDefault == <<Plain("default")>>
Firewall == <<Plain("guards"), Number("firewall", 16, 0)>>
Lite == <<Plain("lite"), Plain("guards")>>
Audit == <<Number("audit", 2, 0), Plain("nosignal"), Plain("verbose")>>
Deep == <<Number("audit", 99, 0), Plain("contents")>>
Random == <<Plain("random"), Number("maxverify", 2, 1), Plain("noabort")>>
Resized == <<Plain("size_clear"), Number("size_add", 5, 0), Number("size_remove", 32, 0)>>
Crowded == <<Number("size_add", 9, 0), Number("size_add", 11, 0), Number("size_add", 14, 0),
             Number("size_remove", 16, 0), Word("backend", "sbrk")>>
Uncached == <<Number("tcache_max", 16, 0), Plain("nomagazines"), Number("concurrency", 0, 0),
              Word("profile", "record"), Plain("bogus")>>
Tuned == <<Number("tcache", 0, 0), Word("allocator", "best"), Number("reap_interval", 0, 0),
           Word("backend", "mmap"), Word("backend", "sbrk")>>
Transactions == <<Plain("transaction"), Number("fail", 3, 1)>>
ENVIRONMENTS ==
    {Env(Unset, Unset, Unset, Unset, FALSE, 0),
     Env(DebugDefault, Resized, Unset, Unset, FALSE, 0),
     Env(Unset, Resized, Transactions, <<Plain("guards")>>, FALSE, 1),
     Env(Firewall, Crowded, Unset, Unset, FALSE, 0),
     Env(Lite, Uncached, Unset, Unset, TRUE, 0),
     Env(Audit, Tuned, Unset, Unset, TRUE, 0), Env(Audit, Resized, Unset, Unset, FALSE, 1),
     Env(Random, Tuned, Unset, Unset, FALSE, 0), Env(Random, Unset, Unset, Unset, TRUE, 0),
     Env(Deep, Crowded, Unset, Unset, FALSE, 0)}
C == INSTANCE Caches

BUFSIZE == 2
MISUSES == 1
BUFTAG_CONFIGS ==
    [verify : {0, 2}, hash : BOOLEAN, fails : {TRUE}, umem_abort : {FALSE}]
    \cup {[verify |-> 1, hash |-> FALSE, fails |-> TRUE, umem_abort |-> TRUE]}
T == INSTANCE Buftag WITH Threads <- Two, Buffers <- {b1, b2}

CPUS == 2
PER_CPU == 2
CHUNK == 2
RECORDS == 3
SHOWN == 2
LOG_CONFIGS == [size : {1, 3}]
L == INSTANCE Log WITH Threads <- Two

BATCH == 2
MAGSIZES == <<1, 2>>
BATCH_CALLS == 3
BatchConfigs == {[debug |-> FALSE, batches |-> TRUE, fails |-> TRUE],
                 [debug |-> TRUE, batches |-> FALSE, fails |-> FALSE]}
DebugBatches == {[debug |-> TRUE, batches |-> TRUE, fails |-> FALSE]}
Q == INSTANCE Batch WITH Threads <- Two, CPUs <- {c1}, Buffers <- {b1, b2, b3}

HASH_MAX == 10
MAX_CLAIMANTS == 4
NotFinite == -1
Amounts == {NotFinite, 3, 16}
N == INSTANCE Partition

SIZE_MAX == 63
ARENA_PAGE == 8
ARENA_ALIGN == 4
ARENA_CAPACITIES == {1, 17, 57}
ARENA_SIZES == {1, 4, 7, 16, 48, 56, 60, 61, 63}
A == INSTANCE Arena

-----------------------------------------------------------------------------
(* One service at a time.                                                  *)

Absent == "absent"

HooksAbsent ==
    /\ hook_list_lock = Absent /\ hook_list = Absent /\ hook_active = Absent
    /\ hook_refcnt = Absent /\ hook_walk_gen = Absent /\ hook_walk_busy = Absent
    /\ hook_walk_gen_next = Absent /\ hook_asleep = Absent /\ call = Absent
    /\ throughout = Absent /\ visits = Absent
OwnAbsent ==
    /\ own_config = Absent /\ ohl_state = Absent /\ ohl_refcount = Absent
    /\ ohd_borrow_count = Absent /\ ohd_mut_borrow = Absent
    /\ ohd_owner_thread = Absent /\ refs = Absent /\ own_pc = Absent
BreakAbsent ==
    /\ brk_config = Absent /\ introspect_once = Absent /\ server = Absent
    /\ brk_server_valid = Absent /\ brk_lock = Absent
    /\ umem_introspect_break_armed = Absent /\ brk_kind = Absent
    /\ brk_size = Absent /\ brk_seq = Absent /\ brk_seq_counter = Absent
    /\ brk_leakset = Absent /\ leaksigs = Absent /\ brk_blocks = Absent
    /\ brk_generation = Absent /\ brk_stopped = Absent /\ alloc = Absent
    /\ brk_asleep = Absent /\ child = Absent /\ sent = Absent /\ freed_dead = Absent
InspectAbsent ==
    /\ place = Absent /\ walked_caches = Absent /\ job = Absent /\ at = Absent
    /\ todo = Absent /\ recs = Absent /\ cap = Absent /\ needed = Absent
    /\ try = Absent /\ cs = Absent /\ cs_truncated = Absent /\ truncated = Absent
    /\ report = Absent /\ unclassed = Absent /\ since = Absent /\ denied = Absent
    /\ moves = Absent
BudgetAbsent ==
    /\ budget_config = Absent /\ parent = Absent /\ used = Absent
    /\ waiters = Absent /\ live_count = Absent /\ budget_call = Absent
    /\ unsignalled = Absent /\ memory = Absent /\ budget_calls = Absent
    /\ aborted = Absent
ProfileAbsent ==
    /\ mode = Absent /\ list = Absent /\ cache_names = Absent /\ rate = Absent
    /\ stable_intervals = Absent /\ phases = Absent /\ profile_written = Absent
    /\ out = Absent /\ exiting = Absent /\ file = Absent /\ loaded_caches = Absent
    /\ loaded_phases = Absent /\ cache_to_profile_idx = Absent
    /\ current_phase_idx = Absent /\ converged = Absent /\ cp = Absent
    /\ walk_idx = Absent /\ samples = Absent
CachesAbsent ==
    /\ environment = Absent /\ env_state = Absent /\ env_cur = Absent
    /\ env_getenv_result = Absent /\ env_func_result = Absent
    /\ interrupted = Absent /\ applied = Absent /\ items = Absent
    /\ umem_flags = Absent /\ target = Absent /\ umem_alloc_sizes = Absent
    /\ choice = Absent /\ phase = Absent /\ arenas = Absent /\ caches = Absent
    /\ app = Absent /\ umem_alloc_table = Absent /\ umem_ptc_bin_real = Absent
    /\ blocks = Absent /\ slab = Absent /\ faults = Absent
BuftagAbsent ==
    /\ buftag_config = Absent /\ mem = Absent /\ magazine = Absent
    /\ freelist = Absent /\ held = Absent /\ lost = Absent /\ umem_logging = Absent
    /\ reporting = Absent /\ wrong = Absent /\ buftag_aborted = Absent
    /\ misuses = Absent
LogAbsent ==
    /\ log_config = Absent /\ lh_base = Absent /\ lh_free = Absent
    /\ lh_head = Absent /\ lh_tail = Absent /\ lh_lock = Absent /\ clh = Absent
    /\ clh_lock = Absent /\ entry = Absent /\ retired = Absent /\ turns = Absent
    /\ now = Absent /\ dump = Absent
BatchAbsent ==
    /\ batch_config = Absent /\ cpu_cache = Absent /\ cc_lock = Absent
    /\ depot_full = Absent /\ depot_empty = Absent /\ in_slab = Absent
    /\ constructed = Absent /\ cache_magtype = Absent /\ batch_call = Absent
    /\ client = Absent /\ resizing = Absent /\ batch_calls = Absent
PartitionAbsent ==
    /\ how = Absent /\ input = Absent /\ decimal_digits = Absent /\ hp = Absent
    /\ asked = Absent /\ hash = Absent /\ left = Absent /\ right = Absent
    /\ looks = Absent /\ answer = Absent
ArenaAbsent ==
    /\ arena = Absent /\ blocks_out = Absent /\ refused = Absent

Init ==
    /\ active \in COMPONENTS
    /\ IF active = "hooks" THEN H!Init ELSE HooksAbsent
    /\ IF active = "own" THEN O!Init ELSE OwnAbsent
    /\ IF active = "break" THEN B!Init ELSE BreakAbsent
    /\ IF active = "inspect" THEN I!Init ELSE InspectAbsent
    /\ IF active = "budget" THEN G!Init ELSE BudgetAbsent
    /\ IF active = "profile" THEN P!Init ELSE ProfileAbsent
    /\ IF active = "caches" THEN C!Init ELSE CachesAbsent
    /\ IF active = "buftag" THEN T!Init ELSE BuftagAbsent
    /\ IF active = "log" THEN L!Init ELSE LogAbsent
    /\ IF active = "batch" THEN Q!Init ELSE BatchAbsent
    /\ IF active = "partition" THEN N!Init ELSE PartitionAbsent
    /\ IF active = "arena" THEN A!Init ELSE ArenaAbsent

\* What the others leave alone.
Rest ==
    /\ UNCHANGED active
    /\ IF active = "hooks" THEN TRUE ELSE UNCHANGED hookVars
    /\ IF active = "own" THEN TRUE ELSE UNCHANGED ownVars
    /\ IF active = "break" THEN TRUE ELSE UNCHANGED brkVars
    /\ IF active = "inspect" THEN TRUE ELSE UNCHANGED inspectVars
    /\ IF active = "budget" THEN TRUE ELSE UNCHANGED budgetVars
    /\ IF active = "profile" THEN TRUE ELSE UNCHANGED profileVars
    /\ IF active = "caches" THEN TRUE ELSE UNCHANGED cacheVars
    /\ IF active = "buftag" THEN TRUE ELSE UNCHANGED buftagVars
    /\ IF active = "log" THEN TRUE ELSE UNCHANGED logVars
    /\ IF active = "batch" THEN TRUE ELSE UNCHANGED batchVars
    /\ IF active = "partition" THEN TRUE ELSE UNCHANGED partitionVars
    /\ IF active = "arena" THEN TRUE ELSE UNCHANGED arenaVars

Next ==
    \/ active = "hooks" /\ H!Next /\ Rest
    \/ active = "own" /\ O!Next /\ Rest
    \/ active = "break" /\ B!Next /\ Rest
    \/ active = "inspect" /\ I!Next /\ Rest
    \/ active = "budget" /\ G!Next /\ Rest
    \/ active = "profile" /\ P!Next /\ Rest
    \/ active = "caches" /\ C!Next /\ Rest
    \/ active = "buftag" /\ T!Next /\ Rest
    \/ active = "log" /\ L!Next /\ Rest
    \/ active = "batch" /\ Q!Next /\ Rest
    \/ active = "partition" /\ N!Next /\ Rest
    \/ active = "arena" /\ A!Next /\ Rest

vars == <<active, hookVars, ownVars, brkVars, inspectVars, budgetVars,
          profileVars, cacheVars, buftagVars, logVars,
          batchVars, partitionVars, arenaVars>>

Spec == Init /\ [][Next]_vars

-----------------------------------------------------------------------------
(* The properties of the services, each in its module.                     *)




\* The memory contexts of umem_palloc.c lose no wakeup and count what they have
\* out, although memory is given back outside their lock.
BudgetSound == active = "budget" => G!BudgetSound


\* The program gets constructed objects, and only raw ones are in the slabs
\* (umem_cache_alloc_batch(): "Magazine objects are pre-constructed").
Constructed == active = "batch" => Q!Constructed


\* umem_arena_alloc: aligned blocks, inside the mapping and apart, and no
\* request refused that fits.
ArenaSound == active = "arena" => A!ArenaSound
=============================================================================
