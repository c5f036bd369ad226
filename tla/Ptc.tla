-------------------------------- MODULE Ptc --------------------------------
(***************************************************************************)
(* Per-thread caches (umem_ptc.c and the inlined paths of _umem_alloc and  *)
(* _umem_free in umem.c), for one size class: a bin of slots, and behind   *)
(* it a loaded and a previous magazine that the thread exchanges with the  *)
(* depot.  A thread creates its cache on first use and its exit drains it. *)
(*                                                                         *)
(* fork() copies the process in the middle of whatever the other threads   *)
(* do.  In the child those threads are gone, and the child handler drains  *)
(* their caches.  The action Fork turns the process into its child; the    *)
(* parent goes on as if nothing had happened and needs no action.  A push  *)
(* is two stores that the build may order either way, a swap of magazines  *)
(* is several, so a thread that the fork stops is caught between them.     *)
(*                                                                         *)
(* What is abstracted: the layers below are the set of the buffers they    *)
(* have free (modules Magazine and Slab), the rseq layer among them; the   *)
(* depot's stripes are one set per list, and a trylock may fail at any     *)
(* time; slot mangling is left out.                                        *)
(***************************************************************************)
EXTENDS Integers, Sequences, FiniteSets, FiniteSetsExt

CONSTANTS
    Bufs,        \* the objects of the size class
    Mags,        \* memory for magazine shells
    Threads,     \* application threads
    Forker,      \* the thread that may fork
    Cachers,     \* threads that umem_ptc_get has memory for
    NoOne,       \* NULL
    CAPACITY,    \* ptc_bin_capacity of the size class
    MAGSIZES,    \* mt_magsize of the magtypes the cache goes through
    HOOKS,       \* may allocation hooks be switched on and off?
    EXITS        \* bound: how many thread exits are followed

ASSUME PtcConstants ==
    /\ CAPACITY \in Nat \ {0} /\ EXITS \in Nat
    /\ MAGSIZES \in Seq(Nat \ {0}) /\ Len(MAGSIZES) > 0
    /\ Forker \in Threads /\ Cachers \subseteq Threads /\ HOOKS \in BOOLEAN
    /\ NoOne \notin Bufs \cup Mags \cup Threads

VARIABLES
    cache,         \* buffers free in the layers below
    depot,         \* cache_full and cache_empty
    cache_magtype, \* index into MAGSIZES
    mag_type,      \* the magtype a shell was allocated from, 0: none
    mag_round,     \* its slots
    slots, count,  \* the bin of each thread's cache
    mag,           \* its magazines: umem_ptc_mag_t
    fork_busy,     \* is it in the middle of a swap?
    registry,      \* umem_ptc_list
    live,          \* threads with a thread_ptc
    pc, obj, fmp,  \* a thread's place in a call, its buffer and magazine
    held,          \* how many callers have a buffer
    hooked,        \* is umem_ptc_bin_table all -1?
    child,         \* is this the child of a fork?
    drain,         \* caches the child has still to drain
    risk,          \* history: buffers the fork may lose
    exits          \* thread exits so far

ptcVars == <<slots, count, mag, fork_busy>>
shellVars == <<mag_type, mag_round>>
depotVars == <<depot, cache_magtype>>
callVars == <<pc, obj, fmp>>
listVars == <<registry, live>>
forkVars == <<child, drain, risk>>
vars == <<cache, depotVars, shellVars, ptcVars, listVars, callVars, held, hooked,
          forkVars, exits>>

Kinds == {"full", "empty"}
MAXSIZE == MAGSIZES[Len(MAGSIZES)]
NoRounds == [i \in 1..MAXSIZE |-> NoOne]

\* A umem_ptc_mag_t after umem_ptc_get.
NoMags == [loaded |-> NoOne, rounds |-> 0, magsize |-> 0,
           previous |-> NoOne, prounds |-> 0, pmagsize |-> 0]

Init ==
    /\ cache = Bufs
    /\ depot = [k \in Kinds |-> {}] /\ cache_magtype = 1
    /\ mag_type = [m \in Mags |-> 0] /\ mag_round = [m \in Mags |-> NoRounds]
    /\ slots = [t \in Threads |-> [i \in 1..CAPACITY |-> NoOne]]
    /\ count = [t \in Threads |-> 0]
    /\ mag = [t \in Threads |-> NoMags] /\ fork_busy = [t \in Threads |-> FALSE]
    /\ registry = {} /\ live = {}
    /\ pc = [t \in Threads |-> "idle"]
    /\ obj = [t \in Threads |-> NoOne] /\ fmp = [t \in Threads |-> NoOne]
    /\ held = [b \in Bufs |-> 0] /\ hooked = FALSE
    /\ child = FALSE /\ drain = {} /\ risk = {} /\ exits = 0

----------------------------------------------------------------------------
(* Magazines.                                                              *)

\* umem_mag_capacity, and UMEM_MAGAZINE_VALID.
Capacity(m) == MAGSIZES[mag_type[m]]
Valid(m) == mag_type[m] = cache_magtype

\* Threads run until the process becomes the child of a fork.  There only the
\* handler is followed: with the drain done the child is a process like others.
Runs(t) == ~child

Goto(t, s) == pc' = [pc EXCEPT ![t] = s]

\* umem_mag_drain: the first rounds of a magazine, but not more than it holds.
Drained(m, n) == {mag_round[m][i] : i \in 1..Min({n, Capacity(m)})} \ {NoOne}

\* umem_ptc_mag_return and its trylock variant.  A magazine of another magtype
\* is drained and its shell freed; one that is not exactly full is drained and
\* goes on the empty list.
MagReturn(k, m, n) ==
    IF ~Valid(m)
    THEN /\ cache' = cache \cup Drained(m, n)
         /\ mag_type' = [mag_type EXCEPT ![m] = 0]
         /\ UNCHANGED depot
    ELSE LET whole == k = "full" /\ n = Capacity(m) IN
         /\ cache' = IF whole THEN cache ELSE cache \cup Drained(m, n)
         /\ depot' = [depot EXCEPT ![IF whole THEN "full" ELSE "empty"] = @ \cup {m}]
         /\ UNCHANGED mag_type

\* umem_depot_destroy_stale, of a magazine just popped from list k.
DestroyStale(k, m) ==
    /\ cache' = IF k = "full" THEN cache \cup Drained(m, Capacity(m)) ELSE cache
    /\ mag_type' = [mag_type EXCEPT ![m] = 0]

\* umem_depot_alloc_trylock meets a magazine of another magtype.
DepotStale(t, k) ==
    /\ Runs(t) /\ pc[t] = IF k = "full" THEN "depot" ELSE "reload"
    /\ \E m \in depot[k] :
        /\ ~Valid(m)
        /\ depot' = [depot EXCEPT ![k] = @ \ {m}]
        /\ DestroyStale(k, m)
    /\ UNCHANGED <<cache_magtype, mag_round, ptcVars, listVars, callVars, held, hooked,
                   forkVars, exits>>

\* The update thread: a resize publishes the next magtype, and a reap destroys
\* a magazine of the depot (umem_depot_ws_reap; the destructor is no matter here).
Resize ==
    /\ ~child /\ cache_magtype < Len(MAGSIZES)
    /\ cache_magtype' = cache_magtype + 1
    /\ UNCHANGED <<cache, depot, shellVars, ptcVars, listVars, callVars, held, hooked,
                   forkVars, exits>>

Reap(k) ==
    /\ ~child
    /\ \E m \in depot[k] :
        /\ depot' = [depot EXCEPT ![k] = @ \ {m}]
        /\ DestroyStale(k, m)
    /\ UNCHANGED <<cache_magtype, mag_round, ptcVars, listVars, callVars, held, hooked,
                   forkVars, exits>>

\* umem_hooks_sync: umem_ptc_bin_publish writes -1 to every entry of the bin
\* table, or the bins again.
HooksSync ==
    /\ HOOKS /\ ~child
    /\ hooked' = ~hooked
    /\ UNCHANGED <<cache, depotVars, shellVars, ptcVars, listVars, callVars, held,
                   forkVars, exits>>

----------------------------------------------------------------------------
(* The thread's cache.                                                     *)

Register(t) == registry' = registry \cup {t}
Unregister(t) == registry' = registry \ {t}

\* umem_ptc_get builds a cache for the thread and registers it.
PtcGet(t) ==
    /\ slots' = [slots EXCEPT ![t] = [i \in 1..CAPACITY |-> NoOne]]
    /\ count' = [count EXCEPT ![t] = 0] /\ mag' = [mag EXCEPT ![t] = NoMags]
    /\ fork_busy' = [fork_busy EXCEPT ![t] = FALSE]
    /\ Register(t) /\ live' = live \cup {t}

\* umem_ptc_get has no memory, or pthread_setspecific fails: the call goes to
\* the cache layer.
PtcGetFails == UNCHANGED <<ptcVars, listVars>>

\* A call reads the bin table, and gets the thread's cache or does without.
Enter(t, top, below) ==
    /\ Runs(t) /\ pc[t] = "idle"
    /\ \/ hooked /\ Goto(t, below) /\ PtcGetFails
       \/ ~hooked /\ t \in live /\ Goto(t, top) /\ UNCHANGED <<ptcVars, listVars>>
       \/ ~hooked /\ t \notin live /\ t \in Cachers /\ Goto(t, top) /\ PtcGet(t)
       \/ ~hooked /\ t \notin live /\ Goto(t, below) /\ PtcGetFails
    /\ UNCHANGED <<cache, depotVars, shellVars, fmp, hooked, forkVars, exits>>

CallAlloc(t) == Enter(t, "alloc", "cache_alloc") /\ UNCHANGED <<obj, held>>

CallFree(t) ==
    /\ \E b \in Bufs : /\ held[b] > 0
                       /\ obj' = [obj EXCEPT ![t] = b]
                       /\ held' = [held EXCEPT ![b] = @ - 1]
    /\ Enter(t, "free", "cache_free")

\* The caller has the buffer, the call is over.
Return(t, b) ==
    /\ held' = [held EXCEPT ![b] = @ + 1]
    /\ Goto(t, "idle")

\* _umem_cache_alloc, which finds none only when there is none; also the way
\* through the rseq layer.
CacheAlloc(t) ==
    /\ Runs(t) /\ pc[t] \in {"cache_alloc", "depot"}
    /\ \/ \E b \in cache : cache' = cache \ {b} /\ Return(t, b)
       \/ /\ pc[t] = "cache_alloc" /\ cache = {}
          /\ Goto(t, "idle") /\ UNCHANGED <<cache, held>>
    /\ UNCHANGED <<depotVars, shellVars, ptcVars, listVars, obj, fmp, hooked, forkVars,
                   exits>>

CacheFree(t) ==
    /\ Runs(t) /\ pc[t] \in {"cache_free", "flush"}
    /\ cache' = cache \cup {obj[t]}
    /\ obj' = [obj EXCEPT ![t] = NoOne] /\ Goto(t, "idle")
    /\ UNCHANGED <<depotVars, shellVars, ptcVars, listVars, fmp, held, hooked, forkVars,
                   exits>>

\* Mutant: the count is not lowered.
BinPopKept(t) == UNCHANGED count

\* --b->count, and the slot above it is left as it is.
BinPop(t) == count' = [count EXCEPT ![t] = @ - 1]

\* Allocation from the bin, or from the loaded magazine.  A thread stopped
\* inside has the buffer in a register: it is out of the bin.
AllocBin(t) ==
    /\ Runs(t) /\ pc[t] = "alloc" /\ count[t] > 0
    /\ BinPop(t)
    /\ Return(t, slots[t][count[t]])
    /\ UNCHANGED <<cache, depotVars, shellVars, slots, mag, fork_busy, listVars, obj, fmp,
                   hooked, forkVars, exits>>

AllocLoaded(t) ==
    /\ Runs(t) /\ pc[t] \in {"alloc", "popmag"}
    /\ pc[t] = "alloc" => count[t] = 0
    /\ mag[t].rounds > 0
    /\ mag' = [mag EXCEPT ![t].rounds = @ - 1]
    /\ Return(t, mag_round[mag[t].loaded][mag[t].rounds])
    /\ UNCHANGED <<cache, depotVars, shellVars, slots, count, fork_busy, listVars, obj,
                   fmp, hooked, forkVars, exits>>

\* ptc->fork_busy = 1.
MarkBusy(t) == fork_busy' = [fork_busy EXCEPT ![t] = TRUE]

\* The swap of loaded and previous: for a moment both name one magazine.
SwapBegin(t) ==
    /\ Runs(t)
    /\ \/ /\ pc[t] = "alloc" /\ count[t] = 0 /\ mag[t].rounds = 0 /\ mag[t].prounds > 0
          /\ Goto(t, "swap_alloc")
       \/ /\ pc[t] = "free" /\ count[t] = CAPACITY
          /\ ~(mag[t].loaded # NoOne /\ mag[t].rounds < mag[t].magsize)
          /\ mag[t].previous # NoOne /\ mag[t].prounds < mag[t].pmagsize
          /\ Goto(t, "swap_free")
    /\ MarkBusy(t)
    /\ mag' = [mag EXCEPT ![t].loaded = mag[t].previous, ![t].rounds = mag[t].prounds]
    /\ fmp' = [fmp EXCEPT ![t] = mag[t].loaded]
    /\ UNCHANGED <<cache, depotVars, shellVars, slots, count, listVars, obj, held, hooked,
                   forkVars, exits>>

\* The other half.  The rounds of the magazine that was loaded are none for an
\* allocation and all it holds for a free; one that is NULL has none.
SwapEnd(t) ==
    /\ Runs(t) /\ pc[t] \in {"swap_alloc", "swap_free"}
    /\ LET m == fmp[t]
           old == IF m # NoOne /\ pc[t] = "swap_free" THEN mag[t].magsize ELSE 0
       IN  mag' = [mag EXCEPT ![t].previous = m, ![t].prounds = old,
                              ![t].magsize = mag[t].pmagsize,
                              ![t].pmagsize = mag[t].magsize]
    /\ fmp' = [fmp EXCEPT ![t] = NoOne]
    /\ fork_busy' = [fork_busy EXCEPT ![t] = FALSE]
    /\ Goto(t, IF pc[t] = "swap_alloc" THEN "popmag" ELSE "pushmag")
    /\ UNCHANGED <<cache, depotVars, shellVars, slots, count, listVars, obj, held, hooked,
                   forkVars, exits>>

\* Both magazines are empty: go to the depot, by way of the rseq layer.
AllocMiss(t) ==
    /\ Runs(t) /\ pc[t] = "alloc"
    /\ count[t] = 0 /\ mag[t].rounds = 0 /\ mag[t].prounds = 0
    /\ Goto(t, "depot")
    /\ UNCHANGED <<cache, depotVars, shellVars, ptcVars, listVars, obj, fmp, held, hooked,
                   forkVars, exits>>

\* umem_depot_alloc_trylock gives a full magazine, or none.
DepotFull(t) ==
    /\ Runs(t) /\ pc[t] = "depot"
    /\ \/ \E m \in depot["full"] :
            /\ Valid(m)
            /\ depot' = [depot EXCEPT !["full"] = @ \ {m}]
            /\ fmp' = [fmp EXCEPT ![t] = m] /\ Goto(t, "retire")
       \/ Goto(t, "cache_alloc") /\ UNCHANGED <<depot, fmp>>
    /\ UNCHANGED <<cache, cache_magtype, shellVars, ptcVars, listVars, obj, held, hooked,
                   forkVars, exits>>

\* The previous magazine goes back to the depot, where there is one.
Retire(t) ==
    /\ Runs(t) /\ pc[t] = "retire"
    /\ MarkBusy(t)
    /\ IF mag[t].loaded # NoOne /\ mag[t].previous # NoOne
       THEN MagReturn("empty", mag[t].previous, mag[t].prounds)
       ELSE UNCHANGED <<cache, depot, mag_type>>
    /\ Goto(t, "load")
    /\ UNCHANGED <<cache_magtype, mag_round, slots, count, mag, listVars, obj, fmp, held,
                   hooked, forkVars, exits>>

\* Mutant: the capacity is the cache's, not the magazine's.
CacheCapacity(m) == MAGSIZES[cache_magtype]

\* What the thread notes down as the capacity of a magazine it loads.
NotedCapacity(m) == Capacity(m)

\* The full magazine is loaded, the loaded one becomes the previous one.
Load(t) ==
    /\ Runs(t) /\ pc[t] = "load"
    /\ LET old == mag[t] IN
       mag' = [mag EXCEPT ![t] =
                [loaded |-> fmp[t], rounds |-> NotedCapacity(fmp[t]),
                 magsize |-> NotedCapacity(fmp[t]),
                 previous |-> IF old.loaded # NoOne THEN old.loaded ELSE old.previous,
                 prounds |-> IF old.loaded # NoOne THEN old.rounds ELSE old.prounds,
                 pmagsize |-> IF old.loaded # NoOne THEN old.magsize ELSE old.pmagsize]]
    /\ fmp' = [fmp EXCEPT ![t] = NoOne]
    /\ fork_busy' = [fork_busy EXCEPT ![t] = FALSE]
    /\ Goto(t, "popmag")
    /\ UNCHANGED <<cache, depotVars, shellVars, slots, count, listVars, obj, held, hooked,
                   forkVars, exits>>

----------------------------------------------------------------------------
(* Free.                                                                   *)

\* A push on the bin: the count and the slot are stored in either order.  (Only
\* a snapshot can tell; the forking thread does not fork in the middle of a push.)
PushBin(t) ==
    /\ Runs(t) /\ pc[t] = "free" /\ count[t] < CAPACITY
    /\ \/ /\ t # Forker
          /\ count' = [count EXCEPT ![t] = @ + 1] /\ UNCHANGED slots
          /\ Goto(t, "bin_slot")
       \/ /\ slots' = [slots EXCEPT ![t][count[t] + 1] = obj[t]] /\ UNCHANGED count
          /\ Goto(t, "bin_count")
    /\ UNCHANGED <<cache, depotVars, shellVars, mag, fork_busy, listVars, obj, fmp, held,
                   hooked, forkVars, exits>>

PushBinEnd(t) ==
    /\ Runs(t)
    /\ \/ pc[t] = "bin_slot" /\ UNCHANGED count
          /\ slots' = [slots EXCEPT ![t][count[t]] = obj[t]]
       \/ pc[t] = "bin_count" /\ UNCHANGED slots
          /\ count' = [count EXCEPT ![t] = @ + 1]
    /\ obj' = [obj EXCEPT ![t] = NoOne] /\ Goto(t, "idle")
    /\ UNCHANGED <<cache, depotVars, shellVars, mag, fork_busy, listVars, fmp, held,
                   hooked, forkVars, exits>>

\* A push on the loaded magazine, which has room, in either order again.
PushLoaded(t) ==
    /\ Runs(t) /\ pc[t] \in {"free", "pushmag"}
    /\ pc[t] = "free" => count[t] = CAPACITY
    /\ mag[t].loaded # NoOne /\ mag[t].rounds < mag[t].magsize
    /\ \/ /\ t # Forker
          /\ mag' = [mag EXCEPT ![t].rounds = @ + 1] /\ UNCHANGED mag_round
          /\ Goto(t, "mag_slot")
       \/ /\ mag_round' = [mag_round EXCEPT ![mag[t].loaded][mag[t].rounds + 1] = obj[t]]
          /\ UNCHANGED mag /\ Goto(t, "mag_count")
    /\ UNCHANGED <<cache, depotVars, mag_type, slots, count, fork_busy, listVars, obj,
                   fmp, held, hooked, forkVars, exits>>

PushLoadedEnd(t) ==
    /\ Runs(t)
    /\ \/ pc[t] = "mag_slot" /\ UNCHANGED mag
          /\ mag_round' = [mag_round EXCEPT ![mag[t].loaded][mag[t].rounds] = obj[t]]
       \/ pc[t] = "mag_count" /\ UNCHANGED mag_round
          /\ mag' = [mag EXCEPT ![t].rounds = @ + 1]
    /\ obj' = [obj EXCEPT ![t] = NoOne] /\ Goto(t, "idle")
    /\ UNCHANGED <<cache, depotVars, mag_type, slots, count, fork_busy, listVars, fmp,
                   held, hooked, forkVars, exits>>

\* Both magazines are full, or there are none: try the rseq layer (CacheFree),
\* then give the loaded one to the depot.
FreeMiss(t) ==
    /\ Runs(t) /\ pc[t] = "free" /\ count[t] = CAPACITY
    /\ ~(mag[t].loaded # NoOne /\ mag[t].rounds < mag[t].magsize)
    /\ ~(mag[t].previous # NoOne /\ mag[t].prounds < mag[t].pmagsize)
    /\ Goto(t, "flush")
    /\ UNCHANGED <<cache, depotVars, shellVars, ptcVars, listVars, obj, fmp, held, hooked,
                   forkVars, exits>>

Flush(t) ==
    /\ Runs(t) /\ pc[t] = "flush"
    /\ MarkBusy(t)
    /\ IF mag[t].loaded # NoOne
       THEN MagReturn("full", mag[t].loaded, mag[t].rounds)
       ELSE UNCHANGED <<cache, depot, mag_type>>
    /\ Goto(t, "reload")
    /\ UNCHANGED <<cache_magtype, mag_round, slots, count, mag, listVars, obj, fmp, held,
                   hooked, forkVars, exits>>

\* An empty magazine from the depot, or a new one (umem_ptc_mag_prime), is loaded
\* and takes the buffer.  Where there is none the buffer goes to the cache layer.
Reload(t) ==
    /\ Runs(t) /\ pc[t] = "reload"
    /\ \/ \E m \in Mags :
            /\ \/ /\ m \in depot["empty"] /\ Valid(m)
                  /\ depot' = [depot EXCEPT !["empty"] = @ \ {m}]
                  /\ UNCHANGED shellVars
               \/ /\ mag_type[m] = 0
                  /\ mag_type' = [mag_type EXCEPT ![m] = cache_magtype]
                  /\ mag_round' = [mag_round EXCEPT ![m] = NoRounds]
                  /\ UNCHANGED depot
            /\ fmp' = [fmp EXCEPT ![t] = m]
            /\ Goto(t, "fill")
            /\ mag' = [mag EXCEPT ![t].loaded = NoOne, ![t].rounds = 0]
            /\ UNCHANGED fork_busy
       \/ /\ mag' = [mag EXCEPT ![t].loaded = NoOne, ![t].rounds = 0]
          /\ fork_busy' = [fork_busy EXCEPT ![t] = FALSE]
          /\ Goto(t, "cache_free")
          /\ UNCHANGED <<depot, shellVars, fmp>>
    /\ UNCHANGED <<cache, cache_magtype, slots, count, listVars, obj, held, hooked,
                   forkVars, exits>>

Fill(t) ==
    /\ Runs(t) /\ pc[t] = "fill"
    /\ mag' = [mag EXCEPT ![t].loaded = fmp[t], ![t].rounds = 0,
                          ![t].magsize = NotedCapacity(fmp[t])]
    /\ fmp' = [fmp EXCEPT ![t] = NoOne]
    /\ fork_busy' = [fork_busy EXCEPT ![t] = FALSE]
    /\ Goto(t, "pushmag")
    /\ UNCHANGED <<cache, depotVars, shellVars, slots, count, listVars, obj, held, hooked,
                   forkVars, exits>>

----------------------------------------------------------------------------
(* Exit and fork.                                                          *)

\* umem_ptc_cleanup takes the cache of an exiting thread off the registry.
Exit(t) ==
    /\ Runs(t) /\ pc[t] = "idle" /\ t \in live /\ exits < EXITS
    /\ Unregister(t)
    /\ Goto(t, "exit") /\ exits' = exits + 1
    /\ UNCHANGED <<cache, depotVars, shellVars, ptcVars, live, obj, fmp, held, hooked,
                   forkVars>>

\* Who drains the cache of p: the thread itself when it exits, or the child
\* handler on behalf of a thread that is no more.
Drains(p) == (Runs(p) /\ pc[p] = "exit") \/ (p \in drain /\ pc[Forker] = "drain")

\* umem_ptc_mag_flush_all: each magazine is offered to the full list.
FlushLoaded(p) ==
    /\ Drains(p) /\ mag[p].loaded # NoOne
    /\ MagReturn("full", mag[p].loaded, mag[p].rounds)
    /\ mag' = [mag EXCEPT ![p].loaded = NoOne, ![p].rounds = 0]
    /\ UNCHANGED <<cache_magtype, mag_round, slots, count, fork_busy, listVars, callVars,
                   held, hooked, forkVars, exits>>

FlushPrevious(p) ==
    /\ Drains(p) /\ mag[p].loaded = NoOne /\ mag[p].previous # NoOne
    /\ MagReturn("full", mag[p].previous, mag[p].prounds)
    /\ mag' = [mag EXCEPT ![p].previous = NoOne, ![p].prounds = 0]
    /\ UNCHANGED <<cache_magtype, mag_round, slots, count, fork_busy, listVars, callVars,
                   held, hooked, forkVars, exits>>

\* umem_ptc_bin_flush_all: umem_cache_free_batch takes the whole bin.
ExitFlush(p) == count[p]

\* umem_ptc_destroy ends: the bin goes to the cache layer, the cache is freed.
\* Then thread_ptc is NULL, or the child handler turns to the next cache.
DestroyPtc(p) ==
    /\ Drains(p) /\ mag[p].loaded = NoOne /\ mag[p].previous = NoOne
    /\ cache' = cache \cup {slots[p][i] : i \in (count[p] - ExitFlush(p) + 1)..count[p]}
    /\ slots' = [slots EXCEPT ![p] = [i \in 1..CAPACITY |-> NoOne]]
    /\ count' = [count EXCEPT ![p] = 0] /\ mag' = [mag EXCEPT ![p] = NoMags]
    /\ live' = live \ {p} /\ drain' = drain \ {p}
    /\ pc' = CASE pc[p] = "exit" /\ p \notin drain -> [pc EXCEPT ![p] = "idle"]
               [] drain = {p} -> [pc EXCEPT ![Forker] = "idle"]
               [] OTHER -> pc
    /\ UNCHANGED <<depotVars, shellVars, fork_busy, registry, obj, fmp, held, hooked,
                   child, risk, exits>>

\* Where a thread's cache says its objects are.
BinPlaces(t) == {<<"bin", t, i>> : i \in 1..count[t]}
MagPlaces(t) ==
    {<<"mag", mag[t].loaded, i>> : i \in IF mag[t].loaded = NoOne THEN {} ELSE 1..mag[t].rounds}
    \cup {<<"mag", mag[t].previous, i>> :
          i \in IF mag[t].previous = NoOne THEN {} ELSE 1..mag[t].prounds}
At(p) == IF p[1] = "bin" THEN slots[p[2]][p[3]] ELSE mag_round[p[2]][p[3]]

\* What the drain of a stopped thread's cache may not find again: everything if
\* it is in the middle of a swap or was exiting, otherwise the top entries.
MayLose(t) ==
    IF fork_busy[t] \/ t \notin registry
    THEN {At(p) : p \in BinPlaces(t) \cup MagPlaces(t)}
    ELSE {slots[t][i] : i \in {count[t]} \ {0}}
         \cup {At(p) : p \in {q \in MagPlaces(t) :
                    \/ q[2] = mag[t].loaded /\ q[3] = mag[t].rounds
                    \/ q[2] = mag[t].previous /\ q[3] = mag[t].prounds}}

\* Buffers in the hands of a stopped thread, or in a magazine in its hands.
InHand(t) == ({obj[t]} \cup (IF fmp[t] = NoOne THEN {} ELSE Drained(fmp[t], MAXSIZE))) \ {NoOne}

\* Mutant: the top entries are drained like the others.
KeepTops(ps) == UNCHANGED <<count, mag>>

\* umem_ptc_fork_release_child drops the top entry of the bin and of both
\* magazines: it may be stale, under a count that is one too high.
DropTops(ps) ==
    /\ count' = [t \in Threads |-> IF t \in ps /\ count[t] > 0 THEN count[t] - 1
                                   ELSE count[t]]
    /\ mag' = [t \in Threads |->
                IF t \notin ps THEN mag[t]
                ELSE [mag[t] EXCEPT
                        !.rounds = IF mag[t].loaded # NoOne /\ @ > 0 THEN @ - 1 ELSE @,
                        !.prounds = IF mag[t].previous # NoOne /\ @ > 0 THEN @ - 1 ELSE @]]

\* The child handler leaves a cache caught in the middle of a swap alone.
Drainable(t) == ~fork_busy[t]

\* fork(), seen from the child: the other threads are gone.  The registry keeps
\* the forking thread's cache, and the others' are to be drained.
Fork ==
    /\ ~child /\ pc[Forker] = "idle"
    /\ child' = TRUE
    /\ LET lost == Threads \ {Forker}
           ps == {t \in registry \ {Forker} : Drainable(t)}
       IN  /\ drain' = ps
           /\ DropTops(ps)
           /\ registry' = registry \cap {Forker}
           /\ pc' = [t \in Threads |-> IF t # Forker THEN "gone"
                                       ELSE IF ps = {} THEN "idle" ELSE "drain"]
           /\ risk' = UNION {MayLose(t) \cup InHand(t) : t \in lost}
    /\ UNCHANGED <<cache, depotVars, shellVars, slots, fork_busy, live, obj, fmp, held,
                   hooked, exits>>

\* The child's handler is done.
ChildReady == child /\ drain = {} /\ UNCHANGED vars

----------------------------------------------------------------------------
ThreadStep(t) ==
    \/ CallAlloc(t) \/ CallFree(t) \/ CacheAlloc(t) \/ CacheFree(t)
    \/ AllocBin(t) \/ AllocLoaded(t) \/ SwapBegin(t) \/ SwapEnd(t)
    \/ AllocMiss(t) \/ DepotFull(t) \/ Retire(t) \/ Load(t)
    \/ PushBin(t) \/ PushBinEnd(t) \/ PushLoaded(t) \/ PushLoadedEnd(t)
    \/ FreeMiss(t) \/ Flush(t) \/ Reload(t) \/ Fill(t)
    \/ Exit(t) \/ FlushLoaded(t) \/ FlushPrevious(t) \/ DestroyPtc(t)

Next ==
    \/ \E t \in Threads : ThreadStep(t)
    \/ \E t \in Threads, k \in Kinds : DepotStale(t, k)
    \/ \E k \in Kinds : Reap(k)
    \/ Resize \/ HooksSync \/ Fork \/ ChildReady

Spec == Init /\ [][Next]_vars

----------------------------------------------------------------------------
(* Correctness.                                                            *)

\* The magazines a thread answers for, and how many of their slots.  While it
\* swaps them, or after it has given one to the depot, its mag is out of date.
Custody(t) ==
    LET c == mag[t]
        own(m, n) == IF m = NoOne THEN {} ELSE {<<m, n>>}
    IN  CASE pc[t] = "swap_alloc" -> own(c.loaded, c.rounds) \cup own(fmp[t], 0)
          [] pc[t] = "swap_free" -> own(c.loaded, c.rounds) \cup own(fmp[t], c.magsize)
          [] pc[t] = "retire" -> own(c.loaded, c.rounds) \cup own(c.previous, c.prounds)
                                 \cup own(fmp[t], MAXSIZE)
          [] pc[t] = "load" -> own(c.loaded, c.rounds) \cup own(fmp[t], MAXSIZE)
                \cup (IF c.loaded # NoOne THEN {} ELSE own(c.previous, c.prounds))
          [] pc[t] = "reload" -> own(c.previous, c.prounds)
          [] pc[t] = "mag_slot" -> own(c.loaded, c.rounds - 1) \cup own(c.previous, c.prounds)
          [] OTHER -> own(c.loaded, c.rounds) \cup own(c.previous, c.prounds)

\* Threads whose caches still count: all but those the fork has lost.
Counted == IF child THEN {Forker} \cup drain ELSE Threads

\* The magazine slots that count as occupied.
FullSlots ==
    {<<m, i>> \in Mags \X (1..MAXSIZE) :
        \/ m \in depot["full"] /\ i <= Capacity(m)
        \/ \E t \in Counted : \E o \in Custody(t) :
                o[1] = m /\ i <= Min({o[2], Capacity(m)})}

\* In how many places a buffer is: free below, with a caller, in the hands of a
\* thread, in a bin, in a magazine.
Homes(b) ==
    (IF b \in cache THEN 1 ELSE 0) + held[b]
    + Cardinality({t \in Counted : obj[t] = b /\ pc[t] # "gone"})
    + Cardinality({<<t, i>> \in Counted \X (1..CAPACITY) :
                    /\ slots[t][i] = b
                    /\ i <= IF pc[t] = "bin_slot" THEN count[t] - 1 ELSE count[t]})
    + Cardinality({s \in FullSlots : mag_round[s[1]][s[2]] = b})

\* The type invariant.
TypeOK ==
    /\ cache \subseteq Bufs /\ depot \in [Kinds -> SUBSET Mags]
    /\ mag_type \in [Mags -> 0..Len(MAGSIZES)]
    /\ count \in [Threads -> 0..CAPACITY]
    /\ registry \subseteq live /\ live \subseteq Threads /\ drain \subseteq Threads

\* In a process that has not forked every buffer is in exactly one place.  So the
\* exit of a thread strands nothing in its bin or its magazines, also when the
\* cache was resized while it held them or the hooks went on in between, and no
\* push, swap, retirement or flush loses or doubles one (P1.3a and P1.3c in the
\* source).
NothingStranded == ~child => \A b \in Bufs : Homes(b) = 1

\* In the child of a fork no buffer is in two places, although the threads whose
\* caches it drains were stopped between any two stores.  Only what the snapshot
\* cannot tell is given up: the top entries, what was in a lost thread's hands,
\* and a cache caught in the middle of a swap or of its own exit.
ChildSound ==
    child => \A b \in Bufs : Homes(b) <= 1 /\ (b \notin risk => Homes(b) = 1)

\* No buffer is lost or in two places, before a fork and after it.
BuffersKept == NothingStranded /\ ChildSound

\* umem_ptc_mag_check: the capacity a thread has noted for a magazine is that of
\* the magazine, whatever the cache has been resized to since, and the count of
\* rounds is within it.
MagCheck ==
    \A t \in live : ~fork_busy[t] =>
        LET c == mag[t] IN
        /\ c.loaded # NoOne => c.magsize = Capacity(c.loaded) /\ c.rounds \in 0..c.magsize
        /\ c.previous # NoOne => /\ c.pmagsize = Capacity(c.previous)
                                 /\ c.prounds \in 0..c.pmagsize
        /\ c.loaded = NoOne => c.rounds = 0
        /\ c.loaded # NoOne => c.loaded # c.previous

\* The layer hands out a buffer only while nobody has it, also in a child.
Contract == INSTANCE Allocator WITH owned <- held
ImplementsAllocator == Contract!Spec
=============================================================================
