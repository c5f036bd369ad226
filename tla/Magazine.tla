------------------------------ MODULE Magazine ------------------------------
(***************************************************************************)
(* The magazine layer of one object cache (umem.c): the per-CPU caches of  *)
(* _umem_cache_alloc and _umem_cache_free, the depot of full and of empty  *)
(* magazines, the working-set reap, and the purge with which the update    *)
(* thread changes the cache's magazine size and umem_cache_destroy empties *)
(* the cache.                                                              *)
(*                                                                         *)
(* A magazine does not record how many rounds it holds.  The CPU cache     *)
(* that loaded it keeps the count, and in the depot the list it is on says *)
(* it: capacity on the full list, none on the empty one.  A slot is not    *)
(* cleared when its round is popped, so a wrong count hands out a buffer   *)
(* twice or loses it.  mag_round keeps those leftovers.                    *)
(*                                                                         *)
(* What is abstracted: the per-CPU stripes of a depot list and the global  *)
(* list behind them are one set, from which umem_depot_alloc may return    *)
(* any magazine, or none although there is one (a stripe whose lock is     *)
(* busy is skipped, and the emptiness check is made without the lock).     *)
(* The slab layer is the set of the buffers it has free (module Slab).     *)
(* Slot mangling is left out.  Freeing a drained magazine's rounds to the  *)
(* slab layer is one step: the rounds are reachable from nowhere else.     *)
(***************************************************************************)
EXTENDS Integers, Sequences, FiniteSets, FiniteSetsExt

CONSTANTS
    Bufs,        \* the objects of the cache
    Mags,        \* memory for magazine shells
    Threads,     \* allocating and freeing threads
    CPUs,        \* indices of cache_cpu[]
    NoOne,       \* NULL, and the owner of a free lock
    MAGSIZES,    \* umem_magtype[].mt_magsize from the cache's first type on
    PERCPU_MAX,  \* UMEM_DEPOT_PERCPU_MAX
    CONFIGS      \* the caches: [bufs, threads, cpus] of the sets above; jobs: what
                 \* the update thread and umem_cache_destroy may begin; rseq: do
                 \* threads also take magazines for the rseq layer; ctor_fails:
                 \* may the cache's constructor fail

ASSUME MagazineConstants ==
    /\ MAGSIZES \in Seq(Nat \ {0}) /\ Len(MAGSIZES) > 0
    /\ \A i, j \in 1..Len(MAGSIZES) : i < j => MAGSIZES[i] < MAGSIZES[j]
    /\ IsFiniteSet(Mags)
    /\ PERCPU_MAX \in Nat
    /\ CONFIGS \subseteq [bufs : SUBSET Bufs, threads : SUBSET Threads, cpus : SUBSET CPUs,
                          jobs : SUBSET {"reap", "resize", "destroy"},
                          rseq : BOOLEAN, ctor_fails : BOOLEAN]
    /\ NoOne \notin Bufs \cup Mags \cup Threads \cup CPUs

VARIABLES
    config,        \* the cache of this behaviour
    cc,            \* cache_cpu[]
    depot,         \* cache_full and cache_empty with their stripes
    cache_magtype, \* index into MAGSIZES
    mag_type,      \* the magtype cache a shell was allocated from, 0: none
    mag_round,     \* the slots of a shell
    mag_total,     \* cache_mag_total
    slab,          \* buffers free in the slab layer
    constructed,   \* buffers the constructor has run on, the destructor not
    held,          \* how many callers have a buffer
    pc, op,        \* where a thread is, in which call
    cpu, obj, mag, \* its CPU, the buffer it frees, the magazine in its hands
    mtp,           \* the magtype it read before it dropped cc_lock
    upd,           \* where the update thread (or umem_cache_destroy) is
    why,           \* and what for: "reap", "resize" or "destroy"
    to_purge,      \* CPUs umem_cache_magazine_purge has still to empty
    doomed         \* magazines it is about to destroy

threadVars == <<pc, op, cpu, obj, mag, mtp>>
updateVars == <<upd, why, to_purge, doomed>>
bufferVars == <<slab, constructed, held>>
shellVars == <<mag_type, mag_round, mag_total>>
vars == <<config, cc, depot, cache_magtype, threadVars, updateVars, bufferVars, shellVars>>

Kinds == {"full", "empty"}
Types == 1..Len(MAGSIZES)
MAXSIZE == MAGSIZES[Len(MAGSIZES)]

\* UMEM_MAGAZINE_VALID: is the magazine of the cache's present magtype?
Valid(m) == mag_type[m] = cache_magtype

\* umem_mag_capacity: what the shell itself holds, whatever the cache uses.
Capacity(m) == MAGSIZES[mag_type[m]]

Rounds(m, n) == {mag_round[m][i] : i \in 1..n} \ {NoOne}

----------------------------------------------------------------------------
(* Starting point: umem_cache_create has enabled the cache.                *)

Init ==
    /\ config \in CONFIGS
    /\ cc = [c \in CPUs |-> [lock |-> NoOne, loaded |-> NoOne, rounds |-> -1,
                             ploaded |-> NoOne, prounds |-> -1,
                             magsize |-> MAGSIZES[1]]]
    /\ depot = [k \in Kinds |-> [list |-> {}, min |-> 0, reaplimit |-> 0]]
    /\ cache_magtype = 1
    /\ mag_type = [m \in Mags |-> 0]
    /\ mag_round = [m \in Mags |-> [i \in 1..MAXSIZE |-> NoOne]]
    /\ mag_total = 0
    /\ slab = config.bufs /\ constructed = {} /\ held = [b \in Bufs |-> 0]
    /\ pc = [t \in Threads |-> "idle"] /\ op = [t \in Threads |-> "none"]
    /\ cpu = [t \in Threads |-> NoOne] /\ mtp = [t \in Threads |-> 0]
    /\ obj = [t \in Threads |-> NoOne] /\ mag = [t \in Threads |-> NoOne]
    /\ upd = "idle" /\ why = "none" /\ to_purge = {} /\ doomed = {}

----------------------------------------------------------------------------
(* The depot lists.                                                        *)

\* umem_depot_pop and umem_depot_pop_trylock.
Popped(d, m) ==
    [d EXCEPT !.list = @ \ {m}, !.min = Min({@, Cardinality(d.list) - 1})]

\* umem_depot_push.
Pushed(d, m) == [d EXCEPT !.list = @ \cup {m}]

\* umem_depot_free, which a caller skips for a magazine it does not have.
DepotFree(k, m) ==
    depot' = IF m = NoOne THEN depot ELSE [depot EXCEPT ![k] = Pushed(@, m)]

\* The list this call takes magazines from.
Kind(t) == IF op[t] \in {"alloc", "rseq_alloc"} THEN "full" ELSE "empty"

\* The CPU cache after it is unlocked, where this thread holds it.
Unlocked(t) ==
    [c \in CPUs |-> IF cc[c].lock = t THEN [cc[c] EXCEPT !.lock = NoOne] ELSE cc[c]]

\* umem_depot_alloc pops a magazine: a valid one is returned, one of another
\* magtype has to be destroyed first.
DepotPop(t) ==
    /\ pc[t] = "get"
    /\ \E m \in depot[Kind(t)].list :
        /\ depot' = [depot EXCEPT ![Kind(t)] = Popped(@, m)]
        /\ mag' = [mag EXCEPT ![t] = m]
        /\ pc' = [pc EXCEPT ![t] = IF Valid(m) THEN "got" ELSE "stale"]
    /\ UNCHANGED <<cc, cache_magtype, op, cpu, obj, mtp, updateVars, bufferVars,
                   shellVars>>

\* umem_depot_alloc returns NULL.  The free path reads cache_magtype before it
\* drops cc_lock to allocate a magazine.
DepotNone(t) ==
    /\ pc[t] = "get" /\ op[t] \in {"alloc", "free"}
    /\ pc' = [pc EXCEPT ![t] = IF op[t] = "alloc" THEN "slab_alloc" ELSE "mag_alloc"]
    /\ mtp' = IF op[t] = "free" THEN [mtp EXCEPT ![t] = cache_magtype] ELSE mtp
    /\ cc' = Unlocked(t)
    /\ UNCHANGED <<depot, cache_magtype, op, cpu, obj, mag, updateVars, bufferVars,
                   shellVars>>

NoRounds == [i \in 1..MAXSIZE |-> NoOne]

\* Mutant: the shell is not freed.
ShellLeaked(m) ==
    /\ mag_round' = [mag_round EXCEPT ![m] = NoRounds]
    /\ mag_total' = mag_total - 1
    /\ UNCHANGED mag_type

\* The shell goes back to the magtype cache it came from.  What its slots hold
\* from then on does not matter: umem_mag_init_fast clears them on allocation.
ShellFreed(m) ==
    /\ mag_type' = [mag_type EXCEPT ![m] = 0]
    /\ mag_round' = [mag_round EXCEPT ![m] = NoRounds]
    /\ mag_total' = mag_total - 1

\* The slots of a magazine that umem_depot_destroy_stale frees: all of them for
\* one of the full list, none for one of the empty list.
StaleRounds(k, m) == IF k = "full" THEN Rounds(m, Capacity(m)) ELSE {}

\* umem_depot_destroy_stale: its rounds go to the slab layer, without the
\* destructor.  The scan then goes on.
DestroyStale(t) ==
    /\ pc[t] = "stale"
    /\ slab' = slab \cup StaleRounds(Kind(t), mag[t])
    /\ ShellFreed(mag[t])
    /\ mag' = [mag EXCEPT ![t] = NoOne]
    /\ pc' = [pc EXCEPT ![t] = "get"]
    /\ UNCHANGED <<cc, depot, cache_magtype, constructed, held, op, cpu, obj, mtp,
                   updateVars>>

----------------------------------------------------------------------------
(* The CPU cache.                                                          *)

CanLock(t, c) == cc[c].lock \in {NoOne, t}

\* umem_cpu_reload.
Reload(ccp, m, n) ==
    [ccp EXCEPT !.ploaded = ccp.loaded, !.prounds = ccp.rounds,
                !.loaded = m, !.rounds = n]

Exchanged(ccp) == Reload(ccp, ccp.ploaded, ccp.prounds)

\* Mutant: cc_rounds is not lowered.
PopRoundUncounted(t, ccp) ==
    /\ cc' = [cc EXCEPT ![cpu[t]] = [ccp EXCEPT !.lock = NoOne]]
    /\ held' = [held EXCEPT ![mag_round[ccp.loaded][ccp.rounds]] = @ + 1]

\* Take the last round of the loaded magazine; cc_lock is dropped.
PopRound(t, ccp) ==
    /\ cc' = [cc EXCEPT ![cpu[t]] =
                [ccp EXCEPT !.rounds = @ - 1, !.lock = NoOne]]
    /\ held' = [held EXCEPT ![mag_round[ccp.loaded][ccp.rounds]] = @ + 1]

\* Put the buffer on top of the loaded magazine; cc_lock is dropped.
PushRound(t, ccp) ==
    /\ cc' = [cc EXCEPT ![cpu[t]] =
                [ccp EXCEPT !.rounds = @ + 1, !.lock = NoOne]]
    /\ mag_round' = [mag_round EXCEPT ![ccp.loaded][ccp.rounds + 1] = obj[t]]

\* The call returns; its locals are gone.
Finish(t) ==
    /\ pc' = [pc EXCEPT ![t] = "idle"] /\ op' = [op EXCEPT ![t] = "none"]
    /\ cpu' = [cpu EXCEPT ![t] = NoOne] /\ mtp' = [mtp EXCEPT ![t] = 0]
    /\ obj' = [obj EXCEPT ![t] = NoOne] /\ mag' = [mag EXCEPT ![t] = NoOne]

\* A caller enters umem_cache_alloc, or umem_cache_free with a buffer it has,
\* on the CPU it runs on.
CallAlloc(t) ==
    /\ pc[t] = "idle" /\ why # "destroy"
    /\ pc' = [pc EXCEPT ![t] = "top"] /\ op' = [op EXCEPT ![t] = "alloc"]
    /\ \E c \in config.cpus : cpu' = [cpu EXCEPT ![t] = c]
    /\ UNCHANGED <<cc, depot, cache_magtype, obj, mag, mtp, updateVars, bufferVars,
                   shellVars>>

CallFree(t) ==
    /\ pc[t] = "idle" /\ why # "destroy"
    /\ pc' = [pc EXCEPT ![t] = "top"] /\ op' = [op EXCEPT ![t] = "free"]
    /\ \E c \in config.cpus : cpu' = [cpu EXCEPT ![t] = c]
    /\ \E b \in Bufs : /\ held[b] > 0
                       /\ obj' = [obj EXCEPT ![t] = b]
                       /\ held' = [held EXCEPT ![b] = @ - 1]
    /\ UNCHANGED <<cc, depot, cache_magtype, mag, mtp, slab, constructed, updateVars,
                   shellVars>>

\* Can this CPU serve the call from the two magazines it has loaded?
\* cc_rounds is compared unsigned, so that -1 is not below any magsize.
Serves(t, ccp) ==
    IF op[t] = "alloc" THEN ccp.rounds > 0 \/ ccp.prounds > 0
    ELSE ccp.rounds \in 0..(ccp.magsize - 1) \/ ccp.prounds = 0

\* The loaded magazine has a round to give.
AllocHit(t) ==
    /\ pc[t] = "top" /\ op[t] = "alloc" /\ CanLock(t, cpu[t])
    /\ LET ccp == cc[cpu[t]] IN
        /\ Serves(t, ccp)
        /\ PopRound(t, IF ccp.rounds > 0 THEN ccp ELSE Exchanged(ccp))
    /\ Finish(t)
    /\ UNCHANGED <<depot, cache_magtype, slab, constructed, updateVars,
                   shellVars>>

\* The loaded magazine has room.
FreeHit(t) ==
    /\ pc[t] = "top" /\ op[t] = "free" /\ CanLock(t, cpu[t])
    /\ LET ccp == cc[cpu[t]] IN
        /\ Serves(t, ccp)
        /\ PushRound(t, IF ccp.rounds \in 0..(ccp.magsize - 1) THEN ccp
                        ELSE Exchanged(ccp))
    /\ Finish(t)
    /\ UNCHANGED <<depot, cache_magtype, bufferVars, mag_type, mag_total,
                   updateVars>>

\* Neither magazine serves: go to the depot with cc_lock held, or to the slab
\* layer where the magazine layer is off.
Miss(t) ==
    /\ pc[t] = "top" /\ CanLock(t, cpu[t])
    /\ ~Serves(t, cc[cpu[t]])
    /\ IF cc[cpu[t]].magsize = 0
       THEN /\ cc' = Unlocked(t)
            /\ pc' = [pc EXCEPT ![t] = IF op[t] = "alloc" THEN "slab_alloc"
                                       ELSE "slab_free"]
       ELSE /\ cc' = [cc EXCEPT ![cpu[t]].lock = t]
            /\ pc' = [pc EXCEPT ![t] = "get"]
    /\ UNCHANGED <<depot, cache_magtype, op, cpu, obj, mag, mtp, updateVars, bufferVars,
                   shellVars>>

\* A full magazine: the empty ploaded goes to the depot, the full one is loaded
\* and serves the call.
AllocReload(t) ==
    /\ pc[t] = "got" /\ op[t] = "alloc"
    /\ LET ccp == cc[cpu[t]] IN
        /\ DepotFree("empty", ccp.ploaded)
        /\ PopRound(t, Reload(ccp, mag[t], ccp.magsize))
    /\ Finish(t)
    /\ UNCHANGED <<cache_magtype, slab, constructed, updateVars, shellVars>>

\* An empty magazine: the full ploaded goes to the depot, the empty one is
\* loaded and takes the buffer.
FreeReload(t) ==
    /\ pc[t] = "got" /\ op[t] = "free"
    /\ LET ccp == cc[cpu[t]] IN
        /\ DepotFree("full", ccp.ploaded)
        /\ PushRound(t, Reload(ccp, mag[t], 0))
    /\ Finish(t)
    /\ UNCHANGED <<cache_magtype, bufferVars, mag_type, mag_total,
                   updateVars>>

\* No empty magazine in the depot: allocate a shell, with no lock held.
MagAlloc(t) ==
    /\ pc[t] = "mag_alloc"
    /\ \/ \E m \in Mags :
            /\ mag_type[m] = 0
            /\ mag_type' = [mag_type EXCEPT ![m] = mtp[t]]
            /\ mag' = [mag EXCEPT ![t] = m]
       \/ UNCHANGED <<mag_type, mag>>
    /\ pc' = [pc EXCEPT ![t] = "relock"]
    /\ UNCHANGED <<cc, depot, cache_magtype, op, cpu, obj, mtp, mag_round, mag_total,
                   updateVars, bufferVars>>

\* Did the magazine size change while cc_lock was not held?
SizeChanged(t) == cc[cpu[t]].magsize # MAGSIZES[mtp[t]]

\* The shell is of the right size: it goes to the depot and the loop starts
\* over, cc_lock still held.
MagDonate(t) ==
    /\ pc[t] = "relock" /\ CanLock(t, cpu[t])
    /\ mag[t] # NoOne /\ ~SizeChanged(t)
    /\ mag_total' = mag_total + 1
    /\ mag_round' = [mag_round EXCEPT ![mag[t]] = NoRounds]
    /\ DepotFree("empty", mag[t])
    /\ cc' = [cc EXCEPT ![cpu[t]].lock = t]
    /\ mag' = [mag EXCEPT ![t] = NoOne]
    /\ pc' = [pc EXCEPT ![t] = "top"]
    /\ UNCHANGED <<cache_magtype, op, cpu, obj, mtp, mag_type, updateVars, bufferVars>>

\* The size changed: the shell is freed with cc_lock dropped, and the loop
\* starts over.
MagDiscard(t) ==
    /\ pc[t] = "relock" /\ CanLock(t, cpu[t])
    /\ mag[t] # NoOne /\ SizeChanged(t)
    /\ mag_type' = [mag_type EXCEPT ![mag[t]] = 0]
    /\ mag' = [mag EXCEPT ![t] = NoOne]
    /\ pc' = [pc EXCEPT ![t] = "top"]
    /\ UNCHANGED <<cc, depot, cache_magtype, op, cpu, obj, mtp, mag_round, mag_total,
                   updateVars, bufferVars>>

\* There was no memory for a shell: the buffer goes to the slab layer.
MagNone(t) ==
    /\ pc[t] = "relock" /\ CanLock(t, cpu[t])
    /\ mag[t] = NoOne
    /\ pc' = [pc EXCEPT ![t] = "slab_free"]
    /\ UNCHANGED <<cc, depot, cache_magtype, op, cpu, obj, mag, mtp, updateVars,
                   bufferVars, shellVars>>

\* umem_slab_alloc and the constructor.  A failed constructor gives the buffer
\* back to the slab layer.
SlabAlloc(t) ==
    /\ pc[t] = "slab_alloc"
    /\ \/ \E b \in slab :
            /\ slab' = slab \ {b} /\ held' = [held EXCEPT ![b] = @ + 1]
            /\ constructed' = constructed \cup {b}
       \/ (slab = {} \/ config.ctor_fails) /\ UNCHANGED bufferVars
    /\ Finish(t)
    /\ UNCHANGED <<cc, depot, cache_magtype, updateVars, shellVars>>

\* The destructor and umem_slab_free.
SlabFree(t) ==
    /\ pc[t] = "slab_free"
    /\ slab' = slab \cup {obj[t]}
    /\ constructed' = constructed \ {obj[t]}
    /\ Finish(t)
    /\ UNCHANGED <<cc, depot, cache_magtype, held, updateVars, shellVars>>

----------------------------------------------------------------------------
(* The rseq layer, as far as it uses the depot: umem_rseq_alloc_slowpath   *)
(* and umem_rseq_free_slowpath pull a magazine with no lock held, and when *)
(* umem_rseq_reload cannot publish it (the thread migrates every time)     *)
(* they put it back on the list it came from.                              *)

RseqPull(t) ==
    /\ config.rseq
    /\ pc[t] = "idle" /\ why # "destroy"
    /\ pc' = [pc EXCEPT ![t] = "get"]
    /\ \E o \in {"rseq_alloc", "rseq_free"} : op' = [op EXCEPT ![t] = o]
    /\ UNCHANGED <<cc, depot, cache_magtype, cpu, obj, mag, mtp, updateVars, bufferVars,
                   shellVars>>

\* The magazine goes back; there is none where the depot had none.
RseqGiveBack(t) ==
    /\ pc[t] \in {"get", "got"} /\ op[t] \in {"rseq_alloc", "rseq_free"}
    /\ DepotFree(Kind(t), mag[t])
    /\ Finish(t)
    /\ UNCHANGED <<cc, cache_magtype, updateVars, bufferVars, shellVars>>

----------------------------------------------------------------------------
(* The update thread, one job at a time, and umem_cache_destroy.           *)

\* Mutant: ml_min is not restarted from the list's length.
WsUpdatedHalf ==
    [k \in Kinds |-> [depot[k] EXCEPT !.reaplimit = depot[k].min]]

\* umem_maglist_ws_update, for both lists.
WsUpdated ==
    [k \in Kinds |-> [depot[k] EXCEPT !.reaplimit = depot[k].min,
                                      !.min = Cardinality(depot[k].list)]]

\* umem_depot_ws_update in umem_cache_update's periodic pass.
WsUpdate ==
    /\ "reap" \in config.jobs
    /\ upd = "idle" /\ why # "destroy"
    /\ depot' = WsUpdated
    /\ UNCHANGED <<cc, cache_magtype, threadVars, updateVars, bufferVars, shellVars>>

\* Resizes stop at the last magtype: its mt_maxbuf is zero.
MayGrow == cache_magtype < Len(MAGSIZES)

\* The update thread begins a UMU_REAP or a UMU_MAGAZINE_RESIZE.  A caller that
\* has freed everything begins umem_cache_destroy.
StartJob(w) ==
    /\ w \in config.jobs
    /\ upd = "idle" /\ why # "destroy"
    /\ w = "resize" => MayGrow
    /\ w = "destroy" => /\ \A b \in Bufs : held[b] = 0
                        /\ \A t \in Threads : pc[t] = "idle"
    /\ why' = w
    /\ upd' = IF w = "reap" THEN "reap_full" ELSE "purge"
    /\ to_purge' = IF w = "reap" THEN {} ELSE config.cpus
    /\ UNCHANGED <<cc, depot, cache_magtype, doomed, threadVars, bufferVars, shellVars>>

Doomed(m, n, checked) == [mag |-> m, rounds |-> n, checked |-> checked]

\* Mutant: cc_magsize is left as it is.
EmptiedOn(c) == [lock |-> NoOne, loaded |-> NoOne, rounds |-> -1,
                 ploaded |-> NoOne, prounds |-> -1, magsize |-> cc[c].magsize]

\* A CPU cache after the purge: nothing loaded, and turned off.
Emptied(c) == [lock |-> NoOne, loaded |-> NoOne, rounds |-> -1,
               ploaded |-> NoOne, prounds |-> -1, magsize |-> 0]

\* umem_cache_magazine_purge takes both magazines from a CPU.
PurgeCpu(c) ==
    /\ upd = "purge" /\ doomed = {} /\ c \in to_purge
    /\ cc[c].lock = NoOne
    /\ cc' = [cc EXCEPT ![c] = Emptied(c)]
    /\ doomed' = {d \in {Doomed(cc[c].loaded, cc[c].rounds, FALSE),
                         Doomed(cc[c].ploaded, cc[c].prounds, FALSE)} :
                  d.mag # NoOne}
    /\ to_purge' = to_purge \ {c}
    /\ UNCHANGED <<depot, cache_magtype, upd, why, threadVars, bufferVars, shellVars>>

\* umem_magazine_destroy, or umem_depot_destroy_stale for a reaped magazine of
\* another magtype: the first runs the destructor, the second does not.
DestroyMag(d) ==
    /\ d \in doomed
    /\ LET stale == d.checked /\ ~Valid(d.mag)
           bufs == IF stale THEN StaleRounds(IF d.rounds > 0 THEN "full" ELSE "empty",
                                             d.mag)
                   ELSE Rounds(d.mag, d.rounds)
       IN  /\ slab' = slab \cup bufs
           /\ constructed' = IF stale THEN constructed ELSE constructed \ bufs
    /\ ShellFreed(d.mag)
    /\ doomed' = doomed \ {d}
    /\ UNCHANGED <<cc, depot, cache_magtype, held, threadVars, upd, why, to_purge>>

\* The two working-set updates that make everything on the lists reapable.
PurgeWsUpdate ==
    /\ \/ upd = "purge" /\ to_purge = {} /\ doomed = {} /\ upd' = "ws_again"
       \/ upd = "ws_again" /\ upd' = "reap_full"
    /\ depot' = WsUpdated
    /\ UNCHANGED <<cc, cache_magtype, why, to_purge, doomed, threadVars, bufferVars,
                   shellVars>>

\* What umem_maglist_ws_reap takes off a list, which may be all there is.
ReapCount(d) == Min({d.reaplimit, d.min, Cardinality(d.list)})

\* umem_maglist_ws_reap: off the list under ml_lock, destroyed after.
\* umem_depot_reap_pop leaves ml_min alone.
WsReap(k) ==
    /\ upd = (IF k = "full" THEN "reap_full" ELSE "reap_empty") /\ doomed = {}
    /\ \E ms \in SUBSET depot[k].list :
        /\ Cardinality(ms) = ReapCount(depot[k])
        /\ depot' = [depot EXCEPT ![k].list = @ \ ms]
        /\ doomed' = {Doomed(m, IF k = "full" THEN MAGSIZES[cache_magtype] ELSE 0,
                             TRUE) : m \in ms}
    /\ upd' = IF k = "full" THEN "reap_empty" ELSE "mark"
    /\ UNCHANGED <<cc, cache_magtype, why, to_purge, threadVars, bufferVars, shellVars>>

\* umem_maglist_mark_excess, and on to what the job does after the reap.
MarkExcess ==
    /\ upd = "mark" /\ doomed = {}
    /\ depot' = [k \in Kinds |->
                    LET total == Cardinality(depot[k].list) IN
                    IF total > PERCPU_MAX
                    THEN [depot[k] EXCEPT !.reaplimit = Max({@, total - PERCPU_MAX})]
                    ELSE depot[k]]
    /\ upd' = CASE why = "reap" -> "idle"
                [] why = "resize" -> "set_magtype"
                [] why = "destroy" -> "gone"
    /\ why' = IF why = "reap" THEN "none" ELSE why
    /\ UNCHANGED <<cc, cache_magtype, to_purge, doomed, threadVars, bufferVars, shellVars>>

\* umem_cache_magazine_resize publishes the next magtype ...
SetMagtype ==
    /\ upd = "set_magtype"
    /\ cache_magtype' = cache_magtype + 1
    /\ upd' = "enable" /\ to_purge' = config.cpus
    /\ UNCHANGED <<cc, depot, why, doomed, threadVars, bufferVars, shellVars>>

\* ... and umem_cache_magazine_enable turns the CPUs on again, one by one.
Enable(c) ==
    /\ upd = "enable" /\ c \in to_purge
    /\ cc[c].lock = NoOne
    /\ cc' = [cc EXCEPT ![c].magsize = MAGSIZES[cache_magtype]]
    /\ to_purge' = to_purge \ {c}
    /\ upd' = IF to_purge = {c} THEN "idle" ELSE upd
    /\ why' = IF to_purge = {c} THEN "none" ELSE why
    /\ UNCHANGED <<depot, cache_magtype, doomed, threadVars, bufferVars, shellVars>>

\* A destroyed cache is used no more.
Gone == upd = "gone" /\ UNCHANGED vars

----------------------------------------------------------------------------
ThreadStep(t) ==
    \/ CallAlloc(t) \/ CallFree(t)
    \/ DepotPop(t) \/ DepotNone(t) \/ DestroyStale(t)
    \/ AllocHit(t) \/ FreeHit(t) \/ Miss(t) \/ AllocReload(t) \/ FreeReload(t)
    \/ MagAlloc(t) \/ MagDonate(t) \/ MagDiscard(t) \/ MagNone(t)
    \/ SlabAlloc(t) \/ SlabFree(t)
    \/ RseqPull(t) \/ RseqGiveBack(t)

UpdateStep ==
    \/ WsUpdate \/ PurgeWsUpdate \/ MarkExcess \/ SetMagtype
    \/ \E w \in {"reap", "resize", "destroy"} : StartJob(w)
    \/ \E c \in CPUs : PurgeCpu(c) \/ Enable(c)
    \/ \E d \in doomed : DestroyMag(d)
    \/ \E k \in Kinds : WsReap(k)

Next ==
    /\ (\E t \in config.threads : ThreadStep(t)) \/ UpdateStep \/ Gone
    /\ UNCHANGED config

Spec == Init /\ [][Next]_vars

----------------------------------------------------------------------------
(* Correctness.                                                            *)

Shells == {m \in Mags : mag_type[m] # 0}

\* The type invariant: counts within a magazine's capacity, working-set counts
\* within the number of shells there are.
TypeOK ==
    /\ cc \in [CPUs -> [lock : Threads \cup {NoOne},
                        loaded : Mags \cup {NoOne}, rounds : -1..MAXSIZE,
                        ploaded : Mags \cup {NoOne}, prounds : -1..MAXSIZE,
                        magsize : {0} \cup {MAGSIZES[i] : i \in Types}]]
    /\ depot \in [Kinds -> [list : SUBSET Mags, min : 0..Cardinality(Mags),
                            reaplimit : 0..Cardinality(Mags)]]
    /\ cache_magtype \in Types
    /\ mag_type \in [Mags -> {0} \cup Types]
    /\ mag_round \in [Mags -> [1..MAXSIZE -> Bufs \cup {NoOne}]]
    /\ mag_total \in 0..Cardinality(Mags)
    /\ slab \subseteq Bufs /\ constructed \subseteq Bufs
    /\ held \in [Bufs -> Nat]
    /\ obj \in [Threads -> Bufs \cup {NoOne}] /\ mag \in [Threads -> Mags \cup {NoOne}]
    /\ mtp \in [Threads -> {0} \cup Types] /\ cpu \in [Threads -> CPUs \cup {NoOne}]
    /\ to_purge \subseteq CPUs

\* Who answers for a shell, and for how many of its slots.
Custody ==
    {[who |-> <<"loaded", c>>, mag |-> cc[c].loaded, rounds |-> cc[c].rounds] : c \in CPUs}
    \cup {[who |-> <<"ploaded", c>>, mag |-> cc[c].ploaded, rounds |-> cc[c].prounds] :
          c \in CPUs}
    \cup {[who |-> <<"depot", "full">>, mag |-> m, rounds |-> Capacity(m)] :
          m \in depot["full"].list}
    \cup {[who |-> <<"depot", "empty">>, mag |-> m, rounds |-> 0] :
          m \in depot["empty"].list}
    \cup {[who |-> <<"thread", t>>, mag |-> mag[t],
           rounds |-> IF mag[t] # NoOne /\ Kind(t) = "full" THEN Capacity(mag[t]) ELSE 0] :
          t \in Threads}
    \cup {[who |-> <<"doomed", d.rounds>>, mag |-> d.mag,
           rounds |-> IF d.checked /\ d.rounds > 0 THEN Capacity(d.mag) ELSE d.rounds] :
          d \in doomed}

\* Every shell is in exactly one place: a CPU's loaded or previous magazine, one
\* depot list, one thread's hands or the update thread's.  No interleaving of
\* reload, give-back, reap, purge and resize loses a shell or leaves it in two.
OneShellOwner ==
    \A m \in Mags : Cardinality({k \in Custody : k.mag = m}) = IF m \in Shells THEN 1 ELSE 0

\* The slots that count as occupied, by the counts and the lists.
Slots(b) == {s \in [m : Shells, i : 1..MAXSIZE] :
                /\ mag_round[s.m][s.i] = b
                /\ \E k \in Custody : k.mag = s.m /\ s.i <= k.rounds}

\* Every buffer is in exactly one place: free in the slab layer, with a caller,
\* on its way into a magazine, or one occupied slot of one magazine.  So the
\* leftovers in popped slots are never taken for rounds, and no magazine is
\* dropped with rounds in it (P1.3c in the source).
OneHome ==
    \A b \in config.bufs :
        Cardinality(Slots(b)) + Cardinality({t \in Threads : obj[t] = b})
        + (IF b \in slab THEN 1 ELSE 0) + held[b] = 1

\* The depot's contract that umem_depot_ws_reap and umem_rseq_alloc_slowpath rely
\* on: each slot of a magazine on the full list holds a buffer.
FullIsFull ==
    \A m \in depot["full"].list : \A i \in 1..Capacity(m) : mag_round[m][i] # NoOne

\* What a CPU's cc_magsize says is the capacity of both its magazines, also
\* while the update thread is between two CPUs of a resize; nothing is indexed
\* past its end.
MagsizeMatches ==
    \A c \in CPUs : \A m \in {cc[c].loaded, cc[c].ploaded} \ {NoOne} :
        Capacity(m) = cc[c].magsize

\* The assertions of umem_cpu_reload, where the depot has given a magazine: it
\* has the size the CPU expects, and the one it replaces is used up or full.
ReloadSound ==
    \A t \in Threads : pc[t] = "got" /\ op[t] \in {"alloc", "free"} =>
        LET ccp == cc[cpu[t]]
            rounds == IF op[t] = "alloc" THEN ccp.magsize ELSE 0
        IN  /\ ccp.lock = t
            /\ ccp.magsize > 0 /\ ccp.magsize = Capacity(mag[t])
            /\ \/ ccp.loaded = NoOne /\ ccp.rounds = -1
               \/ ccp.loaded # NoOne /\ ccp.rounds + rounds = ccp.magsize

\* A magazine is what the place it is in says it is: full on the full list, of
\* the CPU's size in a CPU, used up when umem_cpu_reload replaces it.
MagazinesFit == TypeOK /\ FullIsFull /\ MagsizeMatches /\ ReloadSound

\* umem_cache_destroy, called with every buffer freed, gets every buffer back
\* into the slab layer and frees every shell.
DestroyClean == upd = "gone" => slab = config.bufs /\ Shells = {}

\* A buffer in the slab layer has been through the destructor as often as
\* through the constructor, if no magazine is outside the depot while it is
\* resized (umem_depot_destroy_stale runs no destructor).
DestructorRan == ~config.rseq => slab \cap constructed = {}

\* What comes back to the slab layer comes back whole and destructed.
ReturnedClean == DestroyClean /\ DestructorRan

\* The magazine layer hands out a buffer only while nobody has it.
Contract == INSTANCE Allocator WITH owned <- held
ImplementsAllocator == Contract!Spec
=============================================================================
