-------------------------------- MODULE Slab --------------------------------
(***************************************************************************)
(* The slab layer of one cache (umem.c): slab creation and destruction,    *)
(* allocation and freeing of raw buffers, the background reclaim pass of   *)
(* the update thread and the drain of umem_cache_destroy().                *)
(*                                                                         *)
(* Every critical section of cache_lock is one action: nothing inside one  *)
(* blocks or calls out.  A slab is identified with its span, so the same   *)
(* identifier comes back when the arena hands the address out again.       *)
(*                                                                         *)
(* The slab list threaded through cache_nullslab is cut in two at          *)
(* cache_freelist: "before" holds the slabs in front of the pointer,       *)
(* "avail" those at and behind it.  "rank" orders the slabs of "avail":    *)
(* cache_freelist is the one of least rank, or the null slab when "avail"  *)
(* is empty.  The order of "before" is never looked at.                    *)
(***************************************************************************)
EXTENDS Integers, FiniteSets

CONSTANTS
    SLABS,           \* the spans the cache's arena can hand out
    Threads,         \* threads that reach the slab layer
    CHUNKS,          \* slab_chunks: buffers in a slab
    RECLAIM_DELAY,   \* umem_reclaim_delay
    REAP_INTERVAL    \* umem_reap_interval

ASSUME SlabConstants ==
    /\ IsFiniteSet(SLABS)
    /\ CHUNKS \in Nat \ {0}
    /\ RECLAIM_DELAY \in Nat
    /\ REAP_INTERVAL \in Nat
    /\ "update" \notin Threads
    /\ "destroyer" \notin Threads

VARIABLES
    hash,            \* UMF_HASH: slab and bufctl structures are allocated
    reclaim,         \* umem_reclaim_enabled
    pc,              \* per thread: where it is in umem_slab_alloc
    building,        \* per thread: the slab it is creating (none or one)
    arena,           \* spans the arena has free
    avail,           \* slabs at and behind cache_freelist
    before,          \* slabs in front of cache_freelist
    rank,            \* list order of the slabs in avail
    slab_head,       \* per slab: chunks on its free list
    slab_refcnt,     \* per slab: outstanding buffers, as counted
    slab_state,      \* per slab: ACTIVE, DIRTY, CLEAN, RECLAIMING
    slab_idle_time,  \* per slab: time it has been empty
    buftotal,        \* cache_buftotal
    meta,            \* per slab: slab and bufctl objects allocated for it
    held,            \* per buffer: how often handed out and not yet freed
    upd,             \* where umem_cache_reclaim_pages is
    to_advise,       \* slabs of reclaim_list not yet advised
    reclaim_list,    \* slabs collected for the madvise
    destroy_list,    \* per process: unlinked slabs it is about to destroy
    life             \* progress of umem_cache_destroy

config == <<hash, reclaim>>
listVars == <<avail, before, rank>>
slabVars == <<slab_head, slab_refcnt, slab_state, slab_idle_time>>
threadVars == <<pc, building>>
updVars == <<upd, to_advise, reclaim_list>>
vars == <<hash, reclaim, pc, building, arena, avail, before, rank, slab_head, slab_refcnt,
          slab_state, slab_idle_time, buftotal, meta, held, upd, to_advise,
          reclaim_list, destroy_list, life>>

Procs == Threads \cup {"update", "destroyer"}
Chunks == 1 .. CHUNKS
Buffers == SLABS \X Chunks

\* Every slab reachable from cache_nullslab.
Linked == avail \cup before

\* Mutant: discarding pages is taken to be harmless for every cache.
KeepsNoMetadata == FALSE

\* umem_slab_keeps_metadata: discarding pages would take free-list links
\* along.  (Buffer tags, the other reason the code has, are not modelled.)
KeepsMetadata == ~hash

\* umem_cache_create; the two settings never change afterwards.
Init ==
    /\ hash \in BOOLEAN
    /\ reclaim \in BOOLEAN
    /\ pc = [t \in Threads |-> "idle"]
    /\ building = [t \in Threads |-> {}]
    /\ arena = SLABS
    /\ avail = {}
    /\ before = {}
    /\ rank \in [SLABS -> 1 .. Cardinality(SLABS)]
    /\ \A r, s \in SLABS : rank[r] = rank[s] => r = s
    /\ slab_head = [s \in SLABS |-> {}]
    /\ slab_refcnt = [s \in SLABS |-> 0]
    /\ slab_state = [s \in SLABS |-> "ACTIVE"]
    /\ slab_idle_time = [s \in SLABS |-> 0]
    /\ buftotal = 0
    /\ meta = [s \in SLABS |-> 0]
    /\ held = [b \in Buffers |-> 0]
    /\ upd = "idle"
    /\ to_advise = {}
    /\ reclaim_list = {}
    /\ destroy_list = [p \in Procs |-> {}]
    /\ life = "live"

-----------------------------------------------------------------------------
(* Helpers on the slab list.                                               *)

\* The slab of S that comes first in the list.
IsFirst(s, S) == s \in S /\ \A r \in S : rank[s] <= rank[r]

\* The order after s has been linked in front of cache_freelist.
RankToFront(s) ==
    [r \in SLABS |-> IF r = s THEN 1
                     ELSE IF rank[r] < rank[s] THEN rank[r] + 1 ELSE rank[r]]

\* Mutant: RECLAIMING slabs are not skipped.
UsableWhileReclaimed == {s \in avail : slab_head[s] # {}}

\* Slabs the walk over RECLAIMING slabs stops at.
Usable == {s \in avail : slab_state[s] # "RECLAIMING" /\ slab_head[s] # {}}

\* cache_freelist has a buffer and some slab from it on can be used.
FreelistServes ==
    /\ \E f \in avail : IsFirst(f, avail) /\ slab_head[f] # {}
    /\ Usable # {}

\* The objects that are freed with a slab: the bufctls on its free list and
\* its slab structure.
ObjectsOf(s) == Cardinality(slab_head[s]) + 1

\* Mutant: slab_head is not advanced.
NotPopped(sp, i) == slab_head[sp]

\* The free list of sp once buffer i is taken off it.
Popped(sp, i) == slab_head[sp] \ {i}

\* The tail of umem_slab_alloc: reactivate sp and pop a buffer; when it was
\* the last one cache_freelist moves to the slab behind sp.  av, rk: the
\* list as this critical section has left it so far.
TakeFrom(sp, av, rk) ==
    /\ slab_state' = [slab_state EXCEPT ![sp] = "ACTIVE"]
    /\ slab_idle_time' = [slab_idle_time EXCEPT ![sp] = 0]
    /\ slab_refcnt' = [slab_refcnt EXCEPT ![sp] = @ + 1]
    /\ rank' = rk
    /\ \E i \in slab_head[sp] :
         /\ slab_head' = [slab_head EXCEPT ![sp] = Popped(sp, i)]
         /\ held' = [held EXCEPT ![<<sp, i>>] = @ + 1]
         /\ IF slab_head[sp] = {i}
            THEN /\ avail' = {s \in av : rk[s] > rk[sp]}
                 /\ before' = before \cup {s \in av : rk[s] <= rk[sp]}
            ELSE /\ avail' = av
                 /\ before' = before

-----------------------------------------------------------------------------
(* umem_slab_alloc and umem_slab_create.                                   *)

\* A slab with a free buffer is found under cache_lock.
SlabAlloc(t) ==
    /\ pc[t] = "idle"
    /\ life = "live"
    /\ FreelistServes
    /\ \E sp \in Usable : IsFirst(sp, Usable) /\ TakeFrom(sp, avail, rank)
    /\ UNCHANGED <<pc, building, arena, buftotal, meta, updVars,
                   destroy_list, life>>

\* None is: the lock is dropped and a slab is created.
SlabAllocMiss(t) ==
    /\ pc[t] = "idle"
    /\ life = "live"
    /\ ~FreelistServes
    /\ pc' = [pc EXCEPT ![t] = "vmem"]
    /\ UNCHANGED <<building, arena, listVars, slabVars, buftotal, meta, held,
                   updVars, destroy_list, life>>

\* The arena hands out a span; a cache without UMF_HASH carves it up at once.
VmemAlloc(t) ==
    /\ pc[t] = "vmem"
    /\ \E s \in arena :
         /\ arena' = arena \ {s}
         /\ building' = [building EXCEPT ![t] = {s}]
         /\ slab_state' = [slab_state EXCEPT ![s] = "ACTIVE"]
         /\ slab_idle_time' = [slab_idle_time EXCEPT ![s] = 0]
         /\ slab_refcnt' = [slab_refcnt EXCEPT ![s] = 0]
         /\ slab_head' = [slab_head EXCEPT ![s] = IF hash THEN {} ELSE Chunks]
    /\ pc' = [pc EXCEPT ![t] = IF hash THEN "slab_cache" ELSE "insert"]
    /\ UNCHANGED <<listVars, buftotal, meta, held, updVars, destroy_list,
                   life>>

\* umem_slab_cache gives the slab structure.
SlabObject(t) ==
    /\ pc[t] = "slab_cache"
    /\ \E s \in building[t] : meta' = [meta EXCEPT ![s] = @ + 1]
    /\ pc' = [pc EXCEPT ![t] = "bufctl"]
    /\ UNCHANGED <<building, arena, listVars, slabVars, buftotal, held,
                   updVars, destroy_list, life>>

\* The bufctl just made is the last one.
LastChunk(n) == n = CHUNKS

\* cache_bufctl_cache gives the bufctl of the next chunk.
Bufctl(t) ==
    /\ pc[t] = "bufctl"
    /\ \E s \in building[t] :
         LET n == Cardinality(slab_head[s]) + 1 IN
         /\ meta' = [meta EXCEPT ![s] = @ + 1]
         /\ slab_head' = [slab_head EXCEPT ![s] = @ \cup {n}]
         /\ pc' = [pc EXCEPT ![t] = IF LastChunk(n) THEN "insert"
                                     ELSE "bufctl"]
    /\ UNCHANGED <<building, arena, listVars, slab_refcnt, slab_state,
                   slab_idle_time, buftotal, held, updVars, destroy_list,
                   life>>

\* Mutant: a failure after the slab structure does not reach vmem_free.
GivenBackEarly(t) == IF pc[t] = "bufctl" THEN {} ELSE building[t]

\* The span the error path returns with vmem_free, if there is one.
GivenBack(t) == building[t]

\* An allocation of umem_slab_create fails: what the slab has so far goes
\* back and umem_slab_alloc returns NULL.
SlabCreateFails(t) ==
    /\ pc[t] \in {"vmem", "slab_cache", "bufctl"}
    /\ pc' = [pc EXCEPT ![t] = "idle"]
    /\ building' = [building EXCEPT ![t] = {}]
    /\ arena' = arena \cup GivenBack(t)
    /\ meta' = [s \in SLABS |->
                  IF s \in building[t] /\ pc[t] = "bufctl"
                  THEN meta[s] - ObjectsOf(s)
                  ELSE meta[s]]
    /\ slab_head' = [s \in SLABS |->
                       IF s \in building[t] THEN {} ELSE slab_head[s]]
    /\ UNCHANGED <<listVars, slab_refcnt, slab_state, slab_idle_time,
                   buftotal, held, updVars, destroy_list, life>>

\* The lock is taken again, the slab linked in front of cache_freelist, and
\* the first buffer popped.
SlabInsert(t) ==
    /\ pc[t] = "insert"
    /\ pc' = [pc EXCEPT ![t] = "idle"]
    /\ building' = [building EXCEPT ![t] = {}]
    /\ buftotal' = buftotal + CHUNKS
    /\ \E s \in building[t] : TakeFrom(s, avail \cup {s}, RankToFront(s))
    /\ UNCHANGED <<arena, meta, updVars, destroy_list, life>>

-----------------------------------------------------------------------------
(* umem_slab_free and umem_slab_destroy.                                   *)

\* Mutant: the slab is relinked at its last buffer, not at its first.
OffFreelistAtLast(s) == slab_refcnt[s] = 1

\* A slab without a free buffer is in front of cache_freelist.
OffFreelist(s) == slab_head[s] = {}

\* Mutant: the count is compared one too early.
LastOutEarly(s) == slab_refcnt[s] <= 2

\* The buffer that comes back to s is the last one out.
LastOut(s) == slab_refcnt[s] = 1

\* A slab whose last buffer comes back is kept as DIRTY or, with reclaim
\* off, unlinked and left for the caller to destroy without the lock.
SlabFree(t) ==
    /\ pc[t] = "idle"
    /\ life = "live"
    /\ \E b \in {c \in Buffers : held[c] > 0} :
         LET s == b[1]
             relink == OffFreelist(s)
             last == LastOut(s)
             av == IF relink THEN avail \cup {s} ELSE avail
             bf == IF relink THEN before \ {s} ELSE before
         IN
         /\ held' = [held EXCEPT ![b] = @ - 1]
         /\ slab_head' = [slab_head EXCEPT ![s] = @ \cup {b[2]}]
         /\ slab_refcnt' = [slab_refcnt EXCEPT ![s] = @ - 1]
         /\ rank' = IF relink THEN RankToFront(s) ELSE rank
         /\ IF last /\ ~reclaim
            THEN /\ avail' = av \ {s}
                 /\ before' = bf \ {s}
                 /\ buftotal' = buftotal - CHUNKS
                 /\ destroy_list' = [destroy_list EXCEPT ![t] = {s}]
                 /\ pc' = [pc EXCEPT ![t] = "destroy"]
                 /\ UNCHANGED <<slab_state, slab_idle_time>>
            ELSE /\ avail' = av
                 /\ before' = bf
                 /\ slab_state' = IF last
                                  THEN [slab_state EXCEPT ![s] = "DIRTY"]
                                  ELSE slab_state
                 /\ slab_idle_time' = IF last
                                      THEN [slab_idle_time EXCEPT ![s] = 0]
                                      ELSE slab_idle_time
                 /\ UNCHANGED <<buftotal, destroy_list, pc>>
    /\ UNCHANGED <<building, arena, meta, updVars, life>>

\* umem_slab_destroy, by the process p that unlinked the slab: the objects
\* on its free list, its slab structure, then the span.
SlabDestroy(p, s) ==
    /\ s \in destroy_list[p]
    /\ destroy_list' = [destroy_list EXCEPT ![p] = @ \ {s}]
    /\ meta' = [meta EXCEPT
                  ![s] = IF hash THEN @ - ObjectsOf(s) ELSE @]
    /\ slab_head' = [slab_head EXCEPT ![s] = {}]
    /\ arena' = arena \cup {s}
    /\ UNCHANGED <<listVars, slab_refcnt, slab_state, slab_idle_time,
                   buftotal, held>>

ThreadDestroys(t) ==
    /\ pc[t] = "destroy"
    /\ \E s \in destroy_list[t] : SlabDestroy(t, s)
    /\ pc' = [pc EXCEPT ![t] = "idle"]
    /\ UNCHANGED <<building, updVars, life>>

-----------------------------------------------------------------------------
(* umem_cache_reclaim_pages, run by the update thread.                     *)

\* Mutant: slab_idle_time is never advanced.
NotAged(s) == slab_idle_time[s]

\* The age of an empty slab after one more pass.
Aged(s) == slab_idle_time[s] + REAP_INTERVAL

ToReclaim == {s \in Linked : /\ slab_refcnt[s] = 0
                             /\ slab_state[s] = "DIRTY"
                             /\ Aged(s) >= RECLAIM_DELAY}

ToDestroy == {s \in Linked : /\ slab_refcnt[s] = 0
                             /\ slab_state[s] = "CLEAN"
                             /\ Aged(s) >= 2 * RECLAIM_DELAY}

\* cache_buftotal once the slabs of S are unlinked.
TotalWithout(S) == buftotal - CHUNKS * Cardinality(S)

\* The walk: ages every empty slab, marks the DIRTY ones that are due and
\* unlinks the CLEAN ones that are; then drops the lock.
ReclaimWalk ==
    /\ reclaim
    /\ life = "live"
    /\ upd = "idle"
    /\ upd' = "advise"
    /\ slab_idle_time' =
         [s \in SLABS |->
            IF /\ s \in Linked
               /\ slab_refcnt[s] = 0
               /\ slab_state[s] \in {"DIRTY", "CLEAN"}
            THEN Aged(s) ELSE slab_idle_time[s]]
    /\ slab_state' = [s \in SLABS |-> IF s \in ToReclaim THEN "RECLAIMING"
                                      ELSE slab_state[s]]
    /\ reclaim_list' = ToReclaim
    /\ to_advise' = ToReclaim
    /\ avail' = avail \ ToDestroy
    /\ before' = before \ ToDestroy
    /\ buftotal' = TotalWithout(ToDestroy)
    /\ destroy_list' = [destroy_list EXCEPT !["update"] = ToDestroy]
    /\ UNCHANGED <<threadVars, arena, rank, slab_head, slab_refcnt, meta,
                   held, life>>

\* The free lists after the kernel has dropped the pages of s: they read as
\* zero, so links kept inside the buffers are gone.
HeadsWithout(s) == IF hash THEN slab_head ELSE [slab_head EXCEPT ![s] = {}]

\* umem_slab_reclaim, one slab of reclaim_list.
ReclaimAdvise ==
    /\ upd = "advise"
    /\ \E s \in to_advise :
         /\ to_advise' = to_advise \ {s}
         /\ slab_head' = IF KeepsMetadata THEN slab_head ELSE HeadsWithout(s)
    /\ UNCHANGED <<threadVars, arena, listVars, slab_refcnt, slab_state,
                   slab_idle_time, buftotal, meta, held, upd, reclaim_list,
                   destroy_list, life>>

ReclaimDestroy ==
    /\ upd = "advise"
    /\ to_advise = {}
    /\ \E s \in destroy_list["update"] : SlabDestroy("update", s)
    /\ UNCHANGED <<threadVars, updVars, life>>

\* The lock is taken again and the advised slabs become CLEAN.
ReclaimPublish ==
    /\ upd = "advise"
    /\ to_advise = {}
    /\ destroy_list["update"] = {}
    /\ upd' = "idle"
    /\ slab_state' = [s \in SLABS |-> IF s \in reclaim_list THEN "CLEAN"
                                      ELSE slab_state[s]]
    /\ reclaim_list' = {}
    /\ UNCHANGED <<threadVars, arena, listVars, slab_head, slab_refcnt,
                   slab_idle_time, buftotal, meta, held, to_advise,
                   destroy_list, life>>

-----------------------------------------------------------------------------
(* umem_cache_destroy, as far as it concerns the slabs.                    *)

\* Mutant: umem_cache_lock is not waited for.
CacheUnlinkAtOnce ==
    /\ life = "live"
    /\ \A t \in Threads : pc[t] = "idle"
    /\ life' = "unlinked"
    /\ UNCHANGED <<threadVars, arena, listVars, slabVars, buftotal, meta,
                   held, updVars, destroy_list>>

\* The cache leaves the global list under umem_cache_lock, which a reclaim
\* pass holds from end to end.  The caller has stopped using the cache.
CacheUnlink ==
    /\ life = "live"
    /\ upd = "idle"
    /\ \A t \in Threads : pc[t] = "idle"
    /\ life' = "unlinked"
    /\ UNCHANGED <<threadVars, arena, listVars, slabVars, buftotal, meta,
                   held, updVars, destroy_list>>

Empty == {s \in Linked : slab_refcnt[s] = 0}

\* umem_cache_drain_slabs collects every empty slab ...
DrainCollect ==
    /\ life = "unlinked"
    /\ avail' = avail \ Empty
    /\ before' = before \ Empty
    /\ buftotal' = TotalWithout(Empty)
    /\ destroy_list' = [destroy_list EXCEPT !["destroyer"] = Empty]
    /\ life' = "draining"
    /\ UNCHANGED <<threadVars, arena, rank, slabVars, meta, held, updVars>>

\* ... and destroys them without the lock.
DrainDestroy ==
    /\ life = "draining"
    /\ \E s \in destroy_list["destroyer"] : SlabDestroy("destroyer", s)
    /\ UNCHANGED <<threadVars, updVars, life>>

DrainDone ==
    /\ life = "draining"
    /\ destroy_list["destroyer"] = {}
    /\ life' = "gone"
    /\ UNCHANGED <<threadVars, arena, listVars, slabVars, buftotal, meta,
                   held, updVars, destroy_list>>

\* Nothing happens to a cache that is gone.
Gone == life = "gone" /\ UNCHANGED vars

-----------------------------------------------------------------------------
ThreadStep(t) ==
    \/ SlabAlloc(t)
    \/ SlabAllocMiss(t)
    \/ VmemAlloc(t)
    \/ SlabObject(t)
    \/ Bufctl(t)
    \/ SlabCreateFails(t)
    \/ SlabInsert(t)
    \/ SlabFree(t)
    \/ ThreadDestroys(t)

UpdateStep ==
    \/ ReclaimWalk
    \/ ReclaimAdvise
    \/ ReclaimDestroy
    \/ ReclaimPublish

DrainStep ==
    \/ CacheUnlink
    \/ DrainCollect
    \/ DrainDestroy
    \/ DrainDone

Next ==
    /\ \/ \E t \in Threads : ThreadStep(t)
       \/ UpdateStep
       \/ DrainStep
       \/ Gone
    /\ UNCHANGED config

Spec == Init /\ [][Next]_vars

\* The update thread runs a pass every umem_reap_interval and finishes the
\* pass it has begun; umem_cache_destroy and umem_slab_free finish what they
\* have begun.  Nothing obliges a caller to allocate, free or destroy.
Fairness ==
    /\ WF_vars(UpdateStep /\ UNCHANGED config)
    /\ WF_vars((DrainCollect \/ DrainDestroy \/ DrainDone) /\ UNCHANGED config)
    /\ \A t \in Threads : WF_vars(ThreadDestroys(t) /\ UNCHANGED config)

FairSpec == Spec /\ Fairness
-----------------------------------------------------------------------------
(* Properties.                                                             *)

\* The type invariant: every variable has its range, and the list order is
\* strict.
TypeOK ==
    /\ pc \in [Threads -> {"idle", "vmem", "slab_cache", "bufctl", "insert",
                           "destroy"}]
    /\ building \in [Threads -> SUBSET SLABS]
    /\ arena \subseteq SLABS
    /\ avail \subseteq SLABS
    /\ before \subseteq SLABS
    /\ rank \in [SLABS -> Nat \ {0}]
    /\ \A r, s \in SLABS : rank[r] = rank[s] => r = s
    /\ slab_head \in [SLABS -> SUBSET Chunks]
    /\ slab_refcnt \in [SLABS -> Int]
    /\ slab_state \in [SLABS -> {"ACTIVE", "DIRTY", "CLEAN", "RECLAIMING"}]
    /\ slab_idle_time \in [SLABS -> Nat]
    /\ buftotal \in Int
    /\ meta \in [SLABS -> Int]
    /\ held \in [Buffers -> Nat]
    /\ upd \in {"idle", "advise"}
    /\ to_advise \subseteq SLABS
    /\ reclaim_list \subseteq SLABS
    /\ destroy_list \in [Procs -> SUBSET SLABS]
    /\ life \in {"live", "unlinked", "draining", "gone"}

HeldOf(s) == {i \in Chunks : held[<<s, i>>] > 0}

\* The counts umem_slab_alloc and umem_slab_free assert: on every linked
\* slab the free list and the buffers outstanding are complementary, and
\* slab_refcnt counts the latter exactly.
RefcntExact ==
    \A s \in Linked : /\ slab_head[s] = Chunks \ HeldOf(s)
                      /\ slab_refcnt[s] = Cardinality(HeldOf(s))

\* No buffer in a caller's hands lies in a span that is back in the arena,
\* being built or waiting to be destroyed: the reclaim pass, the drain and
\* umem_slab_free never take a slab from under a live buffer.
HeldBacked == \A b \in Buffers : held[b] > 0 => b[1] \in Linked

\* From cache_freelist on every slab has a free buffer, so umem_slab_alloc
\* never pops from an empty list; and in front of it no slab that is partly
\* used is ever left behind, whatever RECLAIMING slabs an allocation skipped.
FreelistSound ==
    /\ \A s \in avail : slab_head[s] # {}
    /\ \A s \in before : slab_head[s] # {} => slab_refcnt[s] = 0

\* What umem_cache_reclaim_pages asserts when it takes the lock back: a slab
\* it marked RECLAIMING is still linked, still RECLAIMING and still empty;
\* no other slab is RECLAIMING.
ReclaimStable ==
    /\ \A s \in reclaim_list : s \in Linked /\ slab_refcnt[s] = 0
    /\ \A s \in SLABS :
         s \in Linked => (s \in reclaim_list <=> slab_state[s] = "RECLAIMING")

\* Every span is in exactly one place: free in the arena, under
\* construction, linked, or with the one process that will destroy it.  No
\* error path of umem_slab_create and no destroyer loses or doubles one.
SpanAccounted ==
    \A s \in SLABS :
      /\ \/ s \in arena \cup Linked
         \/ \E t \in Threads : s \in building[t]
         \/ \E p \in Procs : s \in destroy_list[p]
      /\ ~(s \in avail /\ s \in before)
      /\ ~(s \in arena /\ s \in Linked)
      /\ \A t \in Threads : s \in building[t] =>
           /\ s \notin arena \cup Linked
           /\ \A u \in Threads \ {t} : s \notin building[u]
           /\ \A p \in Procs : s \notin destroy_list[p]
      /\ \A p \in Procs : s \in destroy_list[p] =>
           /\ s \notin arena \cup Linked
           /\ \A q \in Procs \ {p} : s \notin destroy_list[q]

\* The slab structure and the bufctls of a UMF_HASH cache exist exactly while
\* their slab does: a span in the arena has none, a linked one all of them.
MetadataExact ==
    /\ \A s \in arena : meta[s] = 0
    /\ \A s \in Linked : meta[s] = IF hash THEN CHUNKS + 1 ELSE 0

\* cache_buftotal, from which the hash rescale and the leak report of
\* umem_cache_destroy are computed, counts the buffers of the linked slabs.
BuftotalExact == buftotal = CHUNKS * Cardinality(Linked)

\* What umem_cache_drain_slabs asserts: once the cache is off the list no
\* reclaim pass is under way on it; and when the drain is over the slabs
\* left are those with outstanding buffers.
DrainClean ==
    /\ life # "live" => /\ reclaim_list = {}
                        /\ \A s \in Linked : slab_state[s] # "RECLAIMING"
    /\ life = "gone" => \A s \in SLABS : s \in arena \/ HeldOf(s) # {}

\* The three accounts of the slab layer, of metadata, of buffers and of what a
\* destroyed cache leaves behind, balance between any two critical sections.
BooksExact == MetadataExact /\ BuftotalExact /\ DrainClean

\* The slab layer implements the allocator contract: umem_slab_alloc returns
\* a buffer nobody holds.
Contract == INSTANCE Allocator WITH Bufs <- Buffers, owned <- held
ImplementsAllocator == Contract!Spec

\* With reclaim on, a slab that stays empty is in the end given back to the
\* arena: the DIRTY, RECLAIMING, CLEAN, destroyed progression never stalls,
\* also for slabs an allocation skipped over.
EmptySlabReturned ==
    \A s \in SLABS :
        (reclaim /\ s \in Linked /\ slab_refcnt[s] = 0)
            ~> (s \in arena \/ slab_refcnt[s] # 0)

=============================================================================
