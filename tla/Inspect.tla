------------------------------ MODULE Inspect ------------------------------
(***************************************************************************)
(* In-process inspection (umem_inspect.c): the collectors, the set of      *)
(* buffers the caching layers retain, and umem_findleaks, run by one       *)
(* thread while the application allocates, frees, reloads its magazines    *)
(* and destroys caches.                                                    *)
(*                                                                         *)
(* A buffer is in the application's hands, on its slab's freelist, in a    *)
(* magazine guarded by the cache's locks (per-CPU, depot), in an rseq      *)
(* magazine (no lock at all), or in a thread's PTC, which no other thread  *)
(* can enumerate.  Every collector runs inside for_each_cache, so the walk *)
(* owns umem_cache_lock from its first cache to its last, and takes each   *)
(* cache's own locks for that cache only.  Between two walks nothing is    *)
(* held: the buffer that receives the records is grown there, and the      *)
(* buffers move.                                                           *)
(*                                                                         *)
(* Names, sizes, stacks, grouping into classes and the output formats are  *)
(* left out: a record is the buffer it is about.                           *)
(***************************************************************************)
EXTENDS Naturals, FiniteSets

CONSTANTS
    Buffers,           \* buffers, as numbers: a walk meets them in order
    CacheOf,           \* [Buffers -> caches]
    UMEM_SNAP_TRIES,
    UMEM_SNAP_SLACK,
    MOVES              \* bound on the application's steps

VARIABLES
    place,             \* where each buffer is
    caches,            \* the caches on umem_null_cache's list
    job,               \* what the inspecting thread runs
    at,                \* where it is in that job
    todo,              \* caches the walk has still to visit
    recs, cap, needed, try,  \* the snapshot being collected
    cs, cs_truncated,  \* the cached set; did it overflow its buffer
    truncated,         \* snap_collect returned -1
    report,            \* the buffers reported
    unclassed,         \* records leak_classify had no memory for
    since,             \* history: the places each buffer has been since the start
    denied,            \* history: an allocation of the inspector failed
    moves

inspectVars == <<place, caches, job, at, todo, recs, cap, needed, try, cs,
                 cs_truncated, truncated, report, unclassed, since, denied, moves>>

Places == {"app", "slab", "mag", "rseq", "ptc", "gone"}
AllCaches == {CacheOf[b] : b \in Buffers}
Of(c) == {b \in Buffers : CacheOf[b] = c}

\* The first n members of S in the order a walk meets them.
FirstOf(n, S) == {b \in S : Cardinality({a \in S : a < b}) < n}

\* A walk owns umem_cache_lock; the locks of the cache being read.
Walking == todo # {}
Locked(c) == at = "cached_rseq" /\ c \in todo /\ \A d \in todo : c <= d

Init ==
    /\ place \in [Buffers -> {"app", "slab", "mag", "rseq", "ptc"}]
    /\ caches = AllCaches
    /\ job = "none" /\ at = "idle" /\ todo = {}
    /\ recs = {} /\ cap = 0 /\ needed = 0 /\ try = 0
    /\ cs = {} /\ cs_truncated = FALSE /\ truncated = FALSE
    /\ report = {} /\ unclassed = {}
    /\ since = [b \in Buffers |-> {}]
    /\ denied = FALSE /\ moves = 0

inspector == <<caches, job, at, todo, recs, cap, needed, try, cs, cs_truncated,
               truncated, report, unclassed, denied>>

----------------------------------------------------------------------------
(* The application. *)

\* Which layers hand a buffer to which: allocation and free through every
\* layer, a reload between the rseq slots and the depot, a reap of the depot.
Routes == {<<"app", p>> : p \in {"slab", "mag", "rseq", "ptc"}}
          \cup {<<p, "app">> : p \in {"slab", "mag", "rseq", "ptc"}}
          \cup {<<"mag", "rseq">>, <<"rseq", "mag">>, <<"mag", "slab">>}

\* A layer guarded by the cache's locks waits while the inspector owns them.
Guarded == {"slab", "mag"}

\* Before the first walk a move leads to another initial state, and after the
\* last one the records are in hand: only the moves between are taken.
Collecting == at \notin {"idle", "emit", "done"}

Move(b, p, q) ==
    /\ moves < MOVES /\ Collecting
    /\ CacheOf[b] \in caches
    /\ place[b] = p /\ <<p, q>> \in Routes
    /\ Locked(CacheOf[b]) => {p, q} \cap Guarded = {}
    /\ place' = [place EXCEPT ![b] = q]
    /\ since' = [since EXCEPT ![b] = @ \cup {q}]
    /\ moves' = moves + 1
    /\ UNCHANGED inspector

\* umem_cache_destroy: the cache leaves the list under umem_cache_lock, after
\* which its magazines and slabs are given back.
CacheDestroy(c) ==
    /\ moves < MOVES /\ Collecting
    /\ ~Walking
    /\ c \in caches
    /\ \A b \in Of(c) : place[b] \notin {"app", "ptc"}
    /\ caches' = caches \ {c}
    /\ place' = [b \in Buffers |-> IF b \in Of(c) THEN "gone" ELSE place[b]]
    /\ since' = [b \in Buffers |-> IF b \in Of(c) THEN since[b] \cup {"gone"} ELSE since[b]]
    /\ moves' = moves + 1
    /\ UNCHANGED <<job, at, todo, recs, cap, needed, try, cs, cs_truncated,
                   truncated, report, unclassed, denied>>

----------------------------------------------------------------------------
(* The inspector. *)

\* The cache for_each_cache visits next.
NextCache(S) == CHOOSE c \in S : \A d \in S : c <= d

\* A step that reads cache c's share S of the records (snap_put,
\* cached_set_add: stored while there is room, counted always) and leaves for
\* the next cache or, after the last one, for `done`.
Put(S) ==
    /\ recs' = recs \cup FirstOf(IF cap > needed THEN cap - needed ELSE 0, S)
    /\ needed' = needed + Cardinality(S)

Begin(j) ==
    /\ at = "idle"
    /\ job' = j
    /\ at' = IF j = "findleaks" THEN "cached" ELSE "allocated"
    /\ todo' = caches
    /\ since' = [b \in Buffers |-> {place[b]}]
    /\ UNCHANGED <<place, caches, recs, cap, needed, try, cs, cs_truncated,
                   truncated, report, unclassed, denied, moves>>

\* cached_set_build_cache, every lock of the cache held: the depot lists and
\* the per-CPU magazines.
CachedLayers(c) == {b \in Of(c) : place[b] = "mag"}

BuildLocked ==
    /\ at = "cached" /\ todo # {}
    /\ Put(CachedLayers(NextCache(todo)))
    /\ at' = "cached_rseq"
    /\ UNCHANGED <<place, caches, job, todo, cap, try, cs, cs_truncated,
                   truncated, report, unclassed, since, denied, moves>>

\* The rseq slots, read under the same locks, which do not stop their owners.
BuildRseq ==
    /\ at = "cached_rseq"
    /\ LET c == NextCache(todo)
       IN  /\ Put({b \in Of(c) : place[b] = "rseq"})
           /\ todo' = todo \ {c}
    /\ at' = "cached"
    /\ UNCHANGED <<place, caches, job, cap, try, cs, cs_truncated,
                   truncated, report, unclassed, since, denied, moves>>

\* Growing the records' buffer, no lock held; on failure the collection ends.
Want == needed + needed \div 4 + UMEM_SNAP_SLACK


Retry(phase) ==
    /\ needed > cap /\ try + 1 < UMEM_SNAP_TRIES
    /\ cap' = Want /\ try' = try + 1
    /\ recs' = {} /\ needed' = 0 /\ todo' = caches
    /\ at' = phase
    /\ UNCHANGED <<cs, cs_truncated, truncated, denied>>

Collected == needed <= cap
GaveUp == needed > cap /\ try + 1 = UMEM_SNAP_TRIES
NoMemory == needed > cap

\* cached_set_build_all: the set is used whatever the last attempt stored.
BuildEnd ==
    /\ at = "cached" /\ todo = {}
    /\ \/ Retry("cached")
       \/ /\ \/ (Collected \/ GaveUp) /\ UNCHANGED denied
             \/ NoMemory /\ denied' = TRUE
          /\ cs' = recs /\ cs_truncated' = ~Collected
          /\ recs' = {} /\ cap' = 0 /\ needed' = 0 /\ try' = 0
          /\ todo' = caches
          /\ at' = "allocated"
          /\ UNCHANGED truncated
    /\ UNCHANGED <<place, caches, job, report, unclassed, since, moves>>

\* collect_allocated_cache finds what left the slab layer and has not come
\* back; collect_freed_cache what is on the slabs' freelists.
Found(c) ==
    IF job = "walk_freed" THEN {b \in Of(c) : place[b] = "slab"}
                          ELSE {b \in Of(c) : place[b] \notin {"slab", "gone"}}

Collect ==
    /\ at = "allocated" /\ todo # {}
    /\ LET c == NextCache(todo)
       IN  Put(Found(c)) /\ todo' = todo \ {c}
    /\ UNCHANGED <<place, caches, job, at, cap, try, cs, cs_truncated,
                   truncated, report, unclassed, since, denied, moves>>

\* snap_collect; umem_findleaks keeps its result, walk_snapshot drops it.
CollectEnd ==
    /\ at = "allocated" /\ todo = {}
    /\ \/ Retry("allocated")
       \/ /\ \/ (Collected \/ GaveUp) /\ UNCHANGED denied
             \/ NoMemory /\ denied' = TRUE
          /\ truncated' = ~Collected
          /\ at' = "emit"
          /\ UNCHANGED <<recs, cap, needed, try, todo, cs, cs_truncated>>
    /\ UNCHANGED <<place, caches, job, report, unclassed, since, moves>>

\* The snapshot is classified (findleaks: less the cached set) or handed to
\* the callback, record by record, no lock held; a class that cannot be
\* allocated is skipped.
Subtracted == IF job = "findleaks" THEN recs \ cs ELSE recs

Classify(lost) ==
    /\ at = "emit"
    /\ lost # {} => job = "findleaks"
    /\ report' = Subtracted \ lost
    /\ unclassed' = lost
    /\ denied' = (denied \/ lost # {})
    /\ at' = "done"
    /\ UNCHANGED <<place, caches, job, todo, recs, cap, needed, try, cs,
                   cs_truncated, truncated, since, moves>>

Stopped == at = "done" /\ UNCHANGED inspectVars

Next ==
    \/ \E b \in Buffers, p, q \in Places : Move(b, p, q)
    \/ \E c \in AllCaches : CacheDestroy(c)
    \/ \E j \in {"findleaks", "walk_allocated", "walk_freed"} : Begin(j)
    \/ BuildLocked \/ BuildRseq \/ BuildEnd
    \/ Collect \/ CollectEnd
    \/ \E lost \in SUBSET Subtracted : Classify(lost)
    \/ Stopped

Spec == Init /\ [][Next]_inspectVars

----------------------------------------------------------------------------
\* What a report says although the buffers moved under it: one the application
\* held from the first lock of the job to the last is in it, or the report is
\* marked incomplete, or its class was dropped for want of memory; one that
\* stayed in one enumerable layer is not, unless the cached set overflowed; a
\* walk of the freelists lists exactly what stayed on them; and where nothing
\* moved and no allocation failed, no attempt is given up.
ReportSound ==
    at = "done" =>
      /\ \A b \in Buffers :
           /\ since[b] = {"app"} /\ job # "walk_freed"
                 => b \in report \cup unclassed \/ truncated
           /\ since[b] \in {{"slab"}, {"mag"}, {"rseq"}} /\ job = "findleaks"
                 => b \notin report \/ cs_truncated
           /\ job = "walk_freed" =>
                 /\ since[b] = {"slab"} => b \in report \/ truncated
                 /\ "slab" \notin since[b] => b \notin report
      /\ (\A b \in Buffers : Cardinality(since[b]) = 1) /\ ~ denied
           => ~ truncated /\ ~ cs_truncated
============================================================================
