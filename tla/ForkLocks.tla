----------------------------- MODULE ForkLocks -----------------------------
(***************************************************************************)
(* The locks of the allocator: in which order its paths take them, and     *)
(* fork(), whose handlers take all of them (umem_fork.c, with the lock     *)
(* operations of umem.c, vmem.c, vmem_sbrk.c and umem_update_thread.c).    *)
(*                                                                         *)
(* A path is the sequence of the lock operations one execution of it makes *)
(* and an operation of the library is the set of its paths; the operators  *)
(* below mirror the call graph.  Locks of one kind that no path nests are  *)
(* one lock: the vm_locks of all arenas, the cc_locks, and the maglist     *)
(* locks of one cache; libc_ptr_lock stands for the interposer's two       *)
(* locks.  Two caches matter: one the program created ("user") and the     *)
(* older internal ones that hold magazines, bufctls and slab structures    *)
(* ("internal").                                                           *)
(***************************************************************************)
EXTENDS Integers, Sequences, FiniteSets, SequencesExt

CONSTANTS
    Threads,   \* application threads
    Worker,    \* the update thread
    FORKING,   \* the threads that may call fork()
    STALE,     \* magazines of an earlier size may be met in the depot
    RELEASES   \* an update pass may find slabs to give back to the arena

ASSUME ForkConstants ==
    /\ Worker \notin Threads
    /\ FORKING \subseteq Threads
    /\ {STALE, RELEASES} \subseteq BOOLEAN

VARIABLES
    reclaim,   \* umem_reclaim_enabled
    holder,    \* per lock: the processes that hold it (at most one)
    path,      \* per process: the lock operations it has still to make
    alive,     \* processes of the address space that is followed
    snapshot   \* what other processes held when the last fork() happened

vars == <<reclaim, holder, path, alive, snapshot>>

Procs == Threads \cup {Worker}

\* Mutant: the order the fork handlers used to have.
CacheLocksReversed(c) ==
    <<<<"cache_lock", c>>, <<"ml_lock", c>>, <<"cc_lock", c>>>>

\* The order umem_lockup takes the locks in, the caches newest first.
CacheLocks(c) == <<<<"cc_lock", c>>, <<"ml_lock", c>>, <<"cache_lock", c>>>>

LockOrder ==
    <<<<"libc_ptr_lock", "">>, <<"umem_ptc_list_lock", "">>,
      <<"umem_init_lock", "">>, <<"vmem_list_lock", "">>,
      <<"vmem_nosleep_lock", "">>, <<"vm_lock", "">>,
      <<"vmem_segfree_lock", "">>, <<"sbrk_lock", "">>,
      <<"sbrk_faillock", "">>, <<"umem_cache_lock", "">>,
      <<"umem_update_lock", "">>, <<"umem_flags_lock", "">>>>
    \o CacheLocks("user") \o CacheLocks("internal")
    \o <<<<"clh_lock", "">>, <<"lh_lock", "">>>>

Locks == ToSet(LockOrder)

-----------------------------------------------------------------------------
(* Paths, and how they are put together.                                   *)

Lock(l) == <<[op |-> "lock", lock |-> l]>>
Unlock(l) == <<[op |-> "unlock", lock |-> l]>>
ForkHere == <<[op |-> "fork"]>>
Either(paths) == <<[op |-> "either", paths |-> paths]>>

Under(l, a) == Lock(l) \o a \o Unlock(l)
Touch(l) == Under(l, <<>>)
Maybe(a) == Either({a, <<>>})

-----------------------------------------------------------------------------
(* vmem.c: an operation never holds the vm_locks of two arenas.  reap is   *)
(* what a failing allocation does about it: the path of umem_reap in the   *)
(* process that allocates.                                                 *)

Arena == Touch(<<"vm_lock", "">>)

VmemFree == Arena

\* vmem_sbrk_alloc: the heap arena has no room, the break is moved.
SbrkAlloc ==
    Arena \o Maybe(Touch(<<"sbrk_faillock", "">>)) \o Touch(<<"sbrk_lock", "">>)
    \o Arena \o Maybe(Touch(<<"sbrk_faillock", "">>))

\* Mutant: vmem_reap is called before vmem_nosleep_lock is released.
PopulateReapsLocked(reap) ==
    LET segments == Under(<<"vm_lock", "">>, Touch(<<"vmem_segfree_lock", "">>))
    IN  segments
        \o Under(<<"vmem_nosleep_lock", "">>,
                 Arena \o Either({<<>>, reap, Arena \o segments}))

\* vmem_populate for one arena: the global segment list, and a new batch of
\* segments, for which vm_lock is dropped.  No reap under vmem_nosleep_lock.
Populate(reap) ==
    LET segments == Under(<<"vm_lock", "">>, Touch(<<"vmem_segfree_lock", "">>))
        batch == Either({Arena, SbrkAlloc})
    IN  segments
        \o Either({Under(<<"vmem_nosleep_lock", "">>, batch \o Arena) \o segments,
                   Under(<<"vmem_nosleep_lock", "">>, batch) \o reap \o Arena})

\* vmem_alloc: vmem_xalloc's ways to a segment, and its failure.
VmemAlloc(reap) ==
    Either({Arena, Populate(reap), SbrkAlloc, Arena \o reap \o Arena})

\* umem_reap up to the wake-up of the update thread.
RequestReap ==
    Touch(<<"umem_update_lock", "">>)
    \o Under(<<"umem_cache_lock", "">>, Touch(<<"umem_update_lock", "">>))
    \o Touch(<<"umem_update_lock", "">>)

\* umem_reap returns at once in a process that is doing updates.
ReapInUpdate == <<>>

\* vmem_update: hash tables are resized with vmem_list_lock held.
VmemUpdate ==
    Under(<<"vmem_list_lock", "">>,
          Maybe(VmemAlloc(ReapInUpdate) \o Arena \o VmemFree))

-----------------------------------------------------------------------------
(* The slab layer.                                                         *)

\* umem_log_enter, for a cache with UMF_AUDIT.
LogEnter == Under(<<"clh_lock", "">>, Maybe(Touch(<<"lh_lock", "">>)))

\* A critical section of umem_slab_alloc or umem_slab_free that logs.
Logged(c) == Under(<<"cache_lock", c>>, Maybe(LogEnter))

\* umem_slab_alloc of cache c; a miss runs umem_slab_create, which takes
\* cache_lock for the colour, allocates the span and the metadata, and may
\* fail.
SlabAllocOf(reap, c, metadata) ==
    LET looked == Touch(<<"cache_lock", c>>)
        colour == Touch(<<"cache_lock", c>>)
    IN  Either({Logged(c),
                looked \o colour \o VmemAlloc(reap) \o metadata
                \o Either({Logged(c), VmemFree, <<>>})})

\* The caches of magazines, bufctls and slab structures keep no metadata
\* outside their slabs.
InternalAlloc(reap) ==
    Under(<<"cc_lock", "internal">>, Maybe(Touch(<<"ml_lock", "internal">>)))
    \o Maybe(SlabAllocOf(reap, "internal", <<>>))

\* _umem_cache_free to one of those caches: a new magazine may be needed, or
\* the buffer goes to the slab layer.
InternalFree(reap) ==
    Under(<<"cc_lock", "internal">>, Maybe(Touch(<<"ml_lock", "internal">>)))
    \o Either({<<>>,
               InternalAlloc(reap)
               \o Under(<<"cc_lock", "internal">>, Touch(<<"ml_lock", "internal">>)),
               Touch(<<"cache_lock", "internal">>)
               \o IF reclaim THEN <<>> ELSE Maybe(VmemFree)})

\* umem_slab_alloc of the user cache, hashed or not.
SlabAlloc(reap) ==
    SlabAllocOf(reap, "user",
                Either({<<>>, InternalAlloc(reap),
                        InternalAlloc(reap) \o InternalFree(reap)}))

\* umem_slab_destroy: the bufctls and the slab structure of a hashed cache
\* go back to their caches, the span to the arena.
SlabDestroy(reap, c) ==
    (IF c = "user" THEN Maybe(InternalFree(reap)) ELSE <<>>) \o VmemFree

\* umem_slab_free: an empty slab is destroyed at once unless pages are
\* reclaimed by the update thread.
SlabFree(reap) ==
    Logged("user") \o IF reclaim THEN <<>> ELSE Maybe(SlabDestroy(reap, "user"))

-----------------------------------------------------------------------------
(* The depot and the per-CPU caches.                                       *)

\* umem_depot_alloc; a stale magazine is destroyed by whoever pops it.
DepotAlloc(reap) ==
    Touch(<<"ml_lock", "user">>)
    \o IF STALE THEN Maybe(SlabFree(reap) \o InternalFree(reap)) ELSE <<>>

\* _umem_cache_alloc: a round of the loaded magazine or of one from the
\* depot, or else a buffer of the slab layer.
CacheAlloc(reap) ==
    Under(<<"cc_lock", "user">>, Maybe(DepotAlloc(reap)))
    \o Maybe(SlabAlloc(reap)) \o Maybe(LogEnter)

\* _umem_cache_free: into the loaded magazine or an empty one of the depot,
\* into a new magazine, or to the slab layer.
CacheFree(reap) ==
    Maybe(LogEnter)
    \o Under(<<"cc_lock", "user">>, Maybe(DepotAlloc(reap)))
    \o Either({<<>>, SlabFree(reap),
               InternalAlloc(reap)
               \o Under(<<"cc_lock", "user">>, Touch(<<"ml_lock", "user">>))})

-----------------------------------------------------------------------------
(* Updates, by the update thread or by a thread that reaps without one.    *)

\* umem_cache_reclaim_pages: cache_lock is dropped for the slabs to destroy.
ReclaimPages(c) ==
    Touch(<<"cache_lock", c>>)
    \o (IF RELEASES THEN Maybe(SlabDestroy(ReapInUpdate, c)) ELSE <<>>)
    \o Touch(<<"cache_lock", c>>)

\* umem_cache_update of one cache, umem_cache_lock being held by the walk.
CacheUpdate(c) ==
    Touch(<<"cache_lock", c>>) \o Touch(<<"ml_lock", c>>)
    \o Maybe(Touch(<<"umem_update_lock", "">>))
    \o IF reclaim THEN ReclaimPages(c) ELSE <<>>

\* One periodic pass: vmem_update, then every cache, oldest first.
GlobalUpdate ==
    VmemUpdate
    \o Under(<<"umem_cache_lock", "">>,
             CacheUpdate("internal") \o CacheUpdate("user"))

\* umem_process_updates for the user cache: its hash table, its magazines,
\* its depot.
ProcessUpdates ==
    LET rescale == VmemAlloc(ReapInUpdate) \o Touch(<<"cache_lock", "user">>)
                   \o VmemFree
        magazine == SlabFree(ReapInUpdate) \o InternalFree(ReapInUpdate)
    IN  Touch(<<"umem_update_lock", "">>)
        \o Either({rescale, Touch(<<"cc_lock", "user">>) \o magazine,
                   Touch(<<"ml_lock", "user">>) \o magazine})
        \o Touch(<<"umem_update_lock", "">>)

\* umem_reap in a thread that is not doing updates: without an update thread
\* it does them itself (umem_st_update).
Reap ==
    RequestReap
    \o IF Worker \in alive THEN <<>> ELSE Maybe(GlobalUpdate \o ProcessUpdates)

-----------------------------------------------------------------------------
(* Other operations of the program.                                        *)

\* umem_cache_create, then umem_cache_magazine_enable.
CacheCreate(reap) ==
    VmemAlloc(reap) \o Touch(<<"umem_flags_lock", "">>) \o VmemAlloc(reap)
    \o Touch(<<"umem_cache_lock", "">>) \o Touch(<<"cc_lock", "user">>)

\* free() of the interposer; a thread's first use of its cache; hooks.
Interposed == Touch(<<"libc_ptr_lock", "">>)
PtcRegister == Touch(<<"umem_ptc_list_lock", "">>)
HooksSync == Touch(<<"umem_cache_lock", "">>)

-----------------------------------------------------------------------------
(* fork(): the prepare handler, the instant of the fork, and the release.  *)


\* umem_lockup.
Lockup == FlattenSeq([i \in DOMAIN LockOrder |-> Lock(LockOrder[i])])

\* The order umem_do_release gives the locks back in: the reverse one, but
\* for vmem_release.
ReleaseOrder ==
    <<<<"lh_lock", "">>, <<"clh_lock", "">>>>
    \o Reverse(CacheLocks("internal")) \o Reverse(CacheLocks("user"))
    \o <<<<"umem_flags_lock", "">>, <<"umem_update_lock", "">>,
         <<"umem_cache_lock", "">>, <<"sbrk_faillock", "">>,
         <<"sbrk_lock", "">>, <<"vmem_nosleep_lock", "">>, <<"vm_lock", "">>,
         <<"vmem_segfree_lock", "">>, <<"vmem_list_lock", "">>,
         <<"umem_init_lock", "">>, <<"umem_ptc_list_lock", "">>,
         <<"libc_ptr_lock", "">>>>

Released == FlattenSeq([i \in DOMAIN ReleaseOrder |-> Unlock(ReleaseOrder[i])])

ForkPath == Lockup \o ForkHere \o Released

-----------------------------------------------------------------------------

\* What a process may start when it is in none of the allocator's paths.
Operations(p) ==
    IF p = Worker THEN {GlobalUpdate, ProcessUpdates}
    ELSE {CacheAlloc(Reap), CacheFree(Reap), CacheCreate(Reap), Reap,
          Interposed, PtcRegister, HooksSync}
         \cup (IF p \in FORKING THEN {ForkPath} ELSE {})

\* umem_init has tried to create the update thread.
Init ==
    /\ holder = [l \in Locks |-> {}]
    /\ path = [p \in Procs |-> <<>>]
    /\ alive \in {Procs, Threads}
    /\ reclaim \in BOOLEAN
    /\ snapshot = {}

Start(p) ==
    /\ path[p] = <<>>
    /\ \E s \in Operations(p) : path' = [path EXCEPT ![p] = s]
    /\ UNCHANGED <<holder, alive, snapshot>>

\* The operation p makes next, when it is a kind of operation.
At(p, kind) == path[p] # <<>> /\ Head(path[p]).op = kind
Wanted(p) == Head(path[p]).lock

Choose(p) ==
    /\ At(p, "either")
    /\ \E s \in Head(path[p]).paths :
           path' = [path EXCEPT ![p] = s \o Tail(@)]
    /\ UNCHANGED <<holder, alive, snapshot>>

\* mutex_lock.
Acquire(p) ==
    /\ At(p, "lock")
    /\ holder[Wanted(p)] = {}
    /\ holder' = [holder EXCEPT ![Wanted(p)] = {p}]
    /\ path' = [path EXCEPT ![p] = Tail(@)]
    /\ UNCHANGED <<alive, snapshot>>

\* mutex_unlock.
Drop(p) ==
    /\ At(p, "unlock")
    /\ holder' = [holder EXCEPT ![Wanted(p)] = {}]
    /\ path' = [path EXCEPT ![p] = Tail(@)]
    /\ UNCHANGED <<alive, snapshot>>

\* The fork itself, followed into the parent or into the child, which has
\* the forking thread and, in time, an update thread of its own.
Forked(p, processes) ==
    /\ At(p, "fork")
    /\ snapshot' = {l \in Locks : holder[l] \ {p} # {}}
    /\ alive' = processes
    /\ path' = [q \in Procs |-> IF q = p THEN Tail(path[p])
                                ELSE IF q \in processes THEN path[q]
                                ELSE <<>>]
    /\ UNCHANGED holder

ForkParent(p) == Forked(p, alive)
ForkChild(p) == Forked(p, {p})

\* The child's umem_do_release ends by creating an update thread.
NewWorker(p) ==
    /\ alive = {p}
    /\ path[p] = <<>>
    /\ alive' = {p, Worker}
    /\ UNCHANGED <<holder, path, snapshot>>

Next ==
    /\ \E p \in alive :
          \/ Start(p)
          \/ Choose(p)
          \/ Acquire(p)
          \/ Drop(p)
          \/ ForkParent(p)
          \/ ForkChild(p)
          \/ NewWorker(p)
    /\ UNCHANGED reclaim

Spec == Init /\ [][Next]_vars

-----------------------------------------------------------------------------
(* Properties.                                                             *)

\* The type invariant: a lock has at most one holder.
TypeOK ==
    /\ \A l \in Locks : Cardinality(holder[l]) <= 1 /\ holder[l] \subseteq Procs
    /\ DOMAIN holder = Locks
    /\ DOMAIN path = Procs
    /\ alive \in SUBSET Procs /\ alive # {}
    /\ snapshot \subseteq Locks

\* The process p has to wait for, if any.
WaitsFor(p) ==
    IF At(p, "lock") THEN holder[Wanted(p)] ELSE {}

\* Processes p waits for directly or through others.
Ahead(p) ==
    LET RECURSIVE Reach(_)
        Reach(S) == LET T == S \cup UNION {WaitsFor(q) : q \in S}
                    IN  IF T = S THEN S ELSE Reach(T)
    IN  Reach(WaitsFor(p))

\* No process ever waits for itself, through however many others, or for a
\* process that did not survive the fork: no two paths of the allocator, nor
\* a path and the fork handlers, deadlock.
NoDeadlock == \A p \in alive : p \notin Ahead(p) /\ Ahead(p) \subseteq alive


Rank(l) == CHOOSE i \in 1..Len(LockOrder) : LockOrder[i] = l

\* "Every lock below is acquired in this order, by the fork handlers and by
\* ordinary allocation paths alike": a process that is about to take a lock
\* holds none that comes after it.
OrderRespected ==
    \A p \in alive :
        At(p, "lock") =>
            \A l \in Locks : p \in holder[l] => Rank(l) < Rank(Wanted(p))

=============================================================================
