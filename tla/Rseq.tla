-------------------------------- MODULE Rseq --------------------------------
(***************************************************************************)
(* The restartable-sequence layer of one object cache: cache_rseq[], the   *)
(* critical sections of umem_rseq_x86_64.S that serve it without a lock,   *)
(* and the reload with which umem.c changes a CPU's magazine.              *)
(*                                                                         *)
(* The kernel sends a thread that is preempted, migrated or signalled      *)
(* inside a critical section to the section's abort handler.  It does not  *)
(* undo the stores the section has made.  So a section is modelled store   *)
(* by store, and Preempt may come between any two of them.                 *)
(*                                                                         *)
(* Outside a section a thread may be moved between any two instructions,   *)
(* so its CPU matters in two places only: where it reads its CPU number    *)
(* (any CPU) and inside a section (on[t], a CPU no other thread is on).    *)
(*                                                                         *)
(* What is abstracted: the loads of a section are one step with its CPU    *)
(* check, since no other thread can write that CPU's slot before the next  *)
(* preemption; the depot lists are sets, as in module Magazine; the rounds *)
(* of a drained magazine go to the set of the buffers the layers below     *)
(* have free.  Slot mangling and the statistics counters are left out.     *)
(***************************************************************************)
EXTENDS Integers, Sequences, FiniteSets

CONSTANTS
    Bufs,      \* the objects of the cache
    Mags,      \* memory for magazine shells
    Threads,
    CPUs,      \* indices of cache_rseq[]
    NoOne,     \* NULL
    MAGSIZES,  \* umem_magtype[].mt_magsize from the cache's first type on
    RETRIES,   \* UMEM_RSEQ_RELOAD_RETRIES
    CALLS      \* bound: calls of the layer

ASSUME RseqConstants ==
    /\ MAGSIZES \in Seq(Nat \ {0}) /\ Len(MAGSIZES) > 0
    /\ \A i, j \in 1..Len(MAGSIZES) : i < j => MAGSIZES[i] < MAGSIZES[j]
    /\ RETRIES \in Nat \ {0} /\ CALLS \in Nat
    /\ NoOne \notin Bufs \cup Mags \cup Threads \cup CPUs

VARIABLES
    rseq,          \* cache_rseq[]: loaded_mag, rounds, magsize
    mag_type,      \* the magtype a shell was allocated from, 0: no shell yet, -1: freed
    mag_round,     \* the slots of a shell
    cache_magtype, \* index into MAGSIZES
    depot,         \* cache_full and cache_empty
    below,         \* buffers free in the layers below
    held,          \* buffers with the callers
    destroyed,     \* umem_cache_destroy has run
    calls,         \* calls so far
    on,            \* the CPU a thread inside a section is on
    pc, op,        \* where a thread is, in which call
    cpu,           \* the CPU number it read
    reload_cpu,    \* and the one umem_rseq_reload works on
    buf,           \* the buffer it frees, or has popped
    nrounds,       \* the round count in its register
    reg_mag,       \* and the magazine
    nmp,           \* the magazine it wants to publish
    old, old_rounds, \* what it detached
    tries,         \* of the reload
    armed          \* has the slow path been taken?

slotVars == <<rseq, mag_type, mag_round>>
depotVars == <<cache_magtype, depot, below>>
callVars == <<op, cpu, reload_cpu, buf, nrounds, reg_mag, nmp, old, old_rounds, tries, armed>>
vars == <<slotVars, depotVars, held, destroyed, calls, on, pc, callVars>>

Kinds == {"full", "empty"}
MAXSIZE == MAGSIZES[Len(MAGSIZES)]
Goto(t, l) == pc' = [pc EXCEPT ![t] = l]

\* The call returns; its locals are dead.
Done(t) ==
    /\ Goto(t, "idle")
    /\ op' = [op EXCEPT ![t] = "none"]
    /\ cpu' = [cpu EXCEPT ![t] = NoOne] /\ reload_cpu' = [reload_cpu EXCEPT ![t] = NoOne]
    /\ buf' = [buf EXCEPT ![t] = NoOne] /\ nrounds' = [nrounds EXCEPT ![t] = 0]
    /\ reg_mag' = [reg_mag EXCEPT ![t] = NoOne]
    /\ nmp' = [nmp EXCEPT ![t] = NoOne] /\ old' = [old EXCEPT ![t] = NoOne]
    /\ old_rounds' = [old_rounds EXCEPT ![t] = 0]
    /\ tries' = [tries EXCEPT ![t] = 0] /\ armed' = [armed EXCEPT ![t] = FALSE]

\* umem_mag_capacity, UMEM_MAGAZINE_VALID and the rounds umem_mag_drain frees.
Capacity(m) == MAGSIZES[mag_type[m]]
Valid(m) == mag_type[m] = cache_magtype
Rounds(m, n) == {mag_round[m][i] : i \in 1..n} \ {NoOne}

\* umem_mag_drain empties the slots it frees from.
Cleared(m, n) ==
    [mag_round EXCEPT ![m] = [i \in 1..MAXSIZE |-> IF i <= n THEN NoOne ELSE @[i]]]

Init ==
    /\ rseq = [c \in CPUs |-> [loaded_mag |-> NoOne, rounds |-> 0, magsize |-> 0]]
    /\ mag_type = [m \in Mags |-> 0]
    /\ mag_round = [m \in Mags |-> [i \in 1..MAXSIZE |-> NoOne]]
    /\ cache_magtype = 1
    /\ depot = [k \in Kinds |-> {}]
    /\ below = Bufs /\ held = {} /\ destroyed = FALSE /\ calls = 0
    /\ on = [t \in Threads |-> NoOne]
    /\ pc = [t \in Threads |-> "idle"] /\ op = [t \in Threads |-> "none"]
    /\ cpu = [t \in Threads |-> NoOne] /\ reload_cpu = [t \in Threads |-> NoOne]
    /\ buf = [t \in Threads |-> NoOne]
    /\ nrounds = [t \in Threads |-> 0] /\ reg_mag = [t \in Threads |-> NoOne]
    /\ nmp = [t \in Threads |-> NoOne]
    /\ old = [t \in Threads |-> NoOne] /\ old_rounds = [t \in Threads |-> 0]
    /\ tries = [t \in Threads |-> 0] /\ armed = [t \in Threads |-> FALSE]

----------------------------------------------------------------------------
(* The kernel.                                                             *)

\* A thread that enters a section is on some CPU with no other thread on it.
Running(t, c) == \A u \in Threads \ {t} : on[u] # c

\* The check each section begins with: is the thread, on CPU c, still on the CPU
\* whose slot it was called for?
SameCPU(c, id) == c = id

FastSections == {"alloc_commit", "free_store", "free_commit"}
AttachSections == {"attach_rounds", "attach_magsize", "attach_commit"}
Sections == FastSections \cup AttachSections \cup {"detach_commit"}

\* The slot the thread's call is for.
Slot(t) == IF pc[t] \in FastSections \cup {"alloc", "free"} THEN cpu[t] ELSE reload_cpu[t]

\* Steps of two threads are interleaved only where one may see the other's: a
\* section works on one slot and the magazine in it, which no step outside the
\* sections of that slot reads or writes.
Interleaves(t) ==
    \A u \in Threads \ {t} : pc[u] \in Sections =>
        /\ pc[t] \in Sections \cup {"alloc", "free", "detach", "attach"}
        /\ Slot(t) = Slot(u)

\* The thread is preempted inside a section and will resume in its abort handler.
\* What it had in registers is lost.
Preempt(t) ==
    /\ pc[t] \in Sections
    /\ on' = [on EXCEPT ![t] = NoOne]
    /\ Goto(t, CASE pc[t] \in FastSections -> "missed"
                 [] pc[t] \in AttachSections -> "unpublished"
                 [] OTHER -> "retry")
    /\ nrounds' = [nrounds EXCEPT ![t] = 0]
    /\ reg_mag' = [reg_mag EXCEPT ![t] = NoOne]
    /\ buf' = [buf EXCEPT ![t] = IF pc[t] = "alloc_commit" THEN NoOne ELSE @]
    /\ UNCHANGED <<slotVars, depotVars, held, destroyed, calls, op, cpu, reload_cpu, nmp, old,
                   old_rounds, tries, armed>>

----------------------------------------------------------------------------
(* umem_rseq_ptc_alloc and umem_rseq_ptc_free.                             *)

\* The call reads its CPU number and tries the fast path.
CallAlloc(t) ==
    /\ ~destroyed /\ pc[t] = "idle" /\ calls < CALLS
    /\ calls' = calls + 1
    /\ op' = [op EXCEPT ![t] = "alloc"]
    /\ \E c \in CPUs : cpu' = [cpu EXCEPT ![t] = c]
    /\ armed' = [armed EXCEPT ![t] = FALSE]
    /\ Goto(t, "alloc")
    /\ UNCHANGED <<slotVars, depotVars, held, destroyed, on, reload_cpu, buf, nrounds, reg_mag,
                   nmp, old, old_rounds, tries>>

CallFree(t) ==
    /\ ~destroyed /\ pc[t] = "idle" /\ calls < CALLS
    /\ calls' = calls + 1
    /\ op' = [op EXCEPT ![t] = "free"]
    /\ \E b \in held : held' = held \ {b} /\ buf' = [buf EXCEPT ![t] = b]
    /\ \E c \in CPUs : cpu' = [cpu EXCEPT ![t] = c]
    /\ armed' = [armed EXCEPT ![t] = FALSE]
    /\ Goto(t, "free")
    /\ UNCHANGED <<slotVars, depotVars, destroyed, on, reload_cpu, nrounds, reg_mag, nmp, old,
                   old_rounds, tries>>

\* The fast path returned NULL, or -1: the slow path, once.  After it the layer
\* has not served the call and the caller turns to the depot and the slabs.
Missed(t) ==
    /\ pc[t] = "missed"
    /\ IF armed[t]
       THEN /\ Done(t)
            /\ below' = IF op[t] = "free" THEN below \cup {buf[t]} ELSE below
       ELSE Goto(t, "slow") /\ UNCHANGED <<below, callVars>>
    /\ UNCHANGED <<slotVars, cache_magtype, depot, held, destroyed, calls, on>>

\* A caller the layer did not serve gets its buffer from the layers below.
AllocBelow ==
    /\ ~destroyed
    /\ \E b \in below : below' = below \ {b} /\ held' = held \cup {b}
    /\ UNCHANGED <<slotVars, cache_magtype, depot, destroyed, calls, on, pc, callVars>>

----------------------------------------------------------------------------
(* umem_rseq_alloc_fastpath and umem_rseq_free_fastpath.                   *)

\* Which slot the section pops: mag_round[rounds - 1], the r-th.
Popped(r) == r

\* The section starts: the CPU check, then the loads.
AllocStart(t) ==
    /\ pc[t] = "alloc"
    /\ LET r == rseq[cpu[t]] IN
       \E c \in CPUs :
        /\ Running(t, c)
        /\ IF ~SameCPU(c, cpu[t]) \/ r.rounds <= 0 \/ r.loaded_mag = NoOne
           THEN Goto(t, "missed") /\ UNCHANGED <<on, buf, nrounds>>
           ELSE /\ on' = [on EXCEPT ![t] = c]
                /\ nrounds' = [nrounds EXCEPT ![t] = r.rounds - 1]
                /\ buf' = [buf EXCEPT ![t] = mag_round[r.loaded_mag][Popped(r.rounds)]]
                /\ Goto(t, "alloc_commit")
    /\ UNCHANGED <<slotVars, depotVars, held, destroyed, calls, op, cpu, reload_cpu, reg_mag, nmp,
                   old, old_rounds, tries, armed>>

\* Its one store, the round count, and the return with the buffer.
AllocCommit(t) ==
    /\ pc[t] = "alloc_commit"
    /\ rseq' = [rseq EXCEPT ![cpu[t]].rounds = nrounds[t]]
    /\ held' = held \cup {buf[t]}
    /\ on' = [on EXCEPT ![t] = NoOne]
    /\ Done(t)
    /\ UNCHANGED <<mag_type, mag_round, depotVars, destroyed, calls>>

FreeStart(t) ==
    /\ pc[t] = "free"
    /\ LET r == rseq[cpu[t]] IN
       \E c \in CPUs :
        /\ Running(t, c)
        /\ IF ~SameCPU(c, cpu[t]) \/ r.loaded_mag = NoOne \/ r.rounds >= r.magsize
           THEN Goto(t, "missed") /\ UNCHANGED <<on, nrounds, reg_mag>>
           ELSE /\ on' = [on EXCEPT ![t] = c]
                /\ nrounds' = [nrounds EXCEPT ![t] = r.rounds + 1]
                /\ reg_mag' = [reg_mag EXCEPT ![t] = r.loaded_mag]
                /\ Goto(t, "free_store")
    /\ UNCHANGED <<slotVars, depotVars, held, destroyed, calls, op, cpu, reload_cpu, buf, nmp, old,
                   old_rounds, tries, armed>>

\* Mutant: the round count is stored before the round.
FreeStoreCount(t) ==
    /\ pc[t] = "free_store"
    /\ rseq' = [rseq EXCEPT ![cpu[t]].rounds = nrounds[t]]
    /\ mag_round' = [mag_round EXCEPT ![reg_mag[t]][nrounds[t]] = buf[t]]
    /\ Goto(t, "free_commit")
    /\ UNCHANGED <<mag_type, depotVars, held, destroyed, calls, on, callVars>>

\* The first store, to a slot no one reads while the count is not raised.
FreeStore(t) ==
    /\ pc[t] = "free_store"
    /\ mag_round' = [mag_round EXCEPT ![reg_mag[t]][nrounds[t]] = buf[t]]
    /\ Goto(t, "free_commit")
    /\ UNCHANGED <<rseq, mag_type, depotVars, held, destroyed, calls, on, callVars>>

FreeCommit(t) ==
    /\ pc[t] = "free_commit"
    /\ rseq' = [rseq EXCEPT ![cpu[t]].rounds = nrounds[t]]
    /\ on' = [on EXCEPT ![t] = NoOne]
    /\ Done(t)
    /\ UNCHANGED <<mag_type, mag_round, depotVars, held, destroyed, calls>>

----------------------------------------------------------------------------
(* umem_rseq_alloc_slowpath, umem_rseq_free_slowpath, umem_rseq_reload.    *)

SlowKind(t) == IF op[t] = "alloc" THEN "full" ELSE "empty"

\* What a published magazine's slot says it holds at most.
ArmedMagsize(t) == Capacity(nmp[t])

\* And the rounds it starts with: a full magazine holds its own capacity.
ArmedRounds(t) == IF op[t] = "alloc" THEN Capacity(nmp[t]) ELSE 0

\* umem_depot_alloc returns a magazine of the cache's magtype, or NULL.
Slow(t) ==
    /\ pc[t] = "slow"
    /\ armed' = [armed EXCEPT ![t] = TRUE]
    /\ tries' = [tries EXCEPT ![t] = 0]
    /\ reload_cpu' = [reload_cpu EXCEPT ![t] = cpu[t]]
    /\ \/ \E m \in depot[SlowKind(t)] :
            /\ Valid(m)
            /\ depot' = [depot EXCEPT ![SlowKind(t)] = @ \ {m}]
            /\ nmp' = [nmp EXCEPT ![t] = m]
            /\ Goto(t, "detach")
       \/ Goto(t, "missed") /\ UNCHANGED <<depot, nmp>>
    /\ UNCHANGED <<slotVars, cache_magtype, below, held, destroyed, calls, on, op, cpu, buf,
                   nrounds, reg_mag, old, old_rounds>>

\* umem_rseq_reload_detach: the loads, with the stores to the caller's memory.
DetachStart(t) ==
    /\ pc[t] = "detach"
    /\ \E c \in CPUs :
        /\ Running(t, c)
        /\ IF ~SameCPU(c, reload_cpu[t])
           THEN Goto(t, "retry") /\ UNCHANGED <<on, old, old_rounds>>
           ELSE /\ on' = [on EXCEPT ![t] = c]
                /\ old' = [old EXCEPT ![t] = rseq[reload_cpu[t]].loaded_mag]
                /\ old_rounds' = [old_rounds EXCEPT ![t] = rseq[reload_cpu[t]].rounds]
                /\ Goto(t, "detach_commit")
    /\ UNCHANGED <<slotVars, depotVars, held, destroyed, calls, op, cpu, reload_cpu, buf, nrounds, reg_mag, nmp, tries,
                   armed>>

DetachCommit(t) ==
    /\ pc[t] = "detach_commit"
    /\ rseq' = [rseq EXCEPT ![reload_cpu[t]].loaded_mag = NoOne]
    /\ on' = [on EXCEPT ![t] = NoOne]
    /\ Goto(t, "attach")
    /\ UNCHANGED <<mag_type, mag_round, depotVars, held, destroyed, calls, callVars>>

\* Mutant: a slot another thread has filled meanwhile is filled again.
OccupiedIgnored(c) == FALSE

\* The slot is not NULL: another thread attached first.
Occupied(c) == rseq[c].loaded_mag # NoOne

\* umem_rseq_reload_attach.
AttachStart(t) ==
    /\ pc[t] = "attach"
    /\ \E c \in CPUs :
        /\ Running(t, c)
        /\ IF ~SameCPU(c, reload_cpu[t]) \/ Occupied(reload_cpu[t])
           THEN Goto(t, "unpublished") /\ UNCHANGED on
           ELSE on' = [on EXCEPT ![t] = c] /\ Goto(t, "attach_rounds")
    /\ UNCHANGED <<slotVars, depotVars, held, destroyed, calls, callVars>>

AttachRounds(t) ==
    /\ pc[t] = "attach_rounds"
    /\ rseq' = [rseq EXCEPT ![reload_cpu[t]].rounds = ArmedRounds(t)]
    /\ Goto(t, "attach_magsize")
    /\ UNCHANGED <<mag_type, mag_round, depotVars, held, destroyed, calls, on, callVars>>

AttachMagsize(t) ==
    /\ pc[t] = "attach_magsize"
    /\ rseq' = [rseq EXCEPT ![reload_cpu[t]].magsize = ArmedMagsize(t)]
    /\ Goto(t, "attach_commit")
    /\ UNCHANGED <<mag_type, mag_round, depotVars, held, destroyed, calls, on, callVars>>

AttachCommit(t) ==
    /\ pc[t] = "attach_commit"
    /\ rseq' = [rseq EXCEPT ![reload_cpu[t]].loaded_mag = nmp[t]]
    /\ nmp' = [nmp EXCEPT ![t] = NoOne]
    /\ on' = [on EXCEPT ![t] = NoOne]
    /\ Goto(t, "published")
    /\ UNCHANGED <<mag_type, mag_round, depotVars, held, destroyed, calls, op, cpu, reload_cpu, buf, nrounds, reg_mag,
                   old, old_rounds, tries, armed>>

\* umem_ptc_mag_return(cp, &cp->cache_full, m, n).
MagReturn(m, n) ==
    LET whole == n = Capacity(m) IN
    IF m = NoOne THEN UNCHANGED <<below, depot, mag_type, mag_round>>
    ELSE IF ~Valid(m)
    THEN /\ below' = below \cup Rounds(m, n)
         /\ mag_round' = Cleared(m, MAXSIZE)
         /\ mag_type' = [mag_type EXCEPT ![m] = -1]
         /\ UNCHANGED depot
    ELSE /\ below' = IF whole THEN below ELSE below \cup Rounds(m, n)
         /\ mag_round' = IF whole THEN mag_round ELSE Cleared(m, n)
         /\ depot' = [depot EXCEPT ![IF whole THEN "full" ELSE "empty"] = @ \cup {m}]
         /\ UNCHANGED mag_type

\* The magazine that was in the slot goes to the depot, whether or not the new
\* one was published.
ReturnOld(t) ==
    /\ pc[t] \in {"published", "unpublished"}
    /\ MagReturn(old[t], old_rounds[t])
    /\ old' = [old EXCEPT ![t] = NoOne] /\ old_rounds' = [old_rounds EXCEPT ![t] = 0]
    /\ Goto(t, IF pc[t] = "published" THEN op[t] ELSE "retry")
    /\ UNCHANGED <<rseq, cache_magtype, held, destroyed, calls, on, op, cpu, reload_cpu, buf,
                   nrounds, reg_mag, nmp, tries, armed>>

\* Is there another attempt after this one?
More(t) == tries[t] + 1 < RETRIES

\* Once more on the CPU the thread is on by now, or the magazine is given back.
Retry(t) ==
    /\ pc[t] = "retry"
    /\ old' = [old EXCEPT ![t] = NoOne] /\ old_rounds' = [old_rounds EXCEPT ![t] = 0]
    /\ IF More(t)
       THEN /\ tries' = [tries EXCEPT ![t] = @ + 1]
            /\ \E c \in CPUs : reload_cpu' = [reload_cpu EXCEPT ![t] = c]
            /\ Goto(t, "detach")
            /\ UNCHANGED <<depot, nmp>>
       ELSE /\ depot' = [depot EXCEPT ![SlowKind(t)] = @ \cup {nmp[t]}]
            /\ nmp' = [nmp EXCEPT ![t] = NoOne]
            /\ Goto(t, "missed")
            /\ UNCHANGED <<reload_cpu, tries>>
    /\ UNCHANGED <<slotVars, cache_magtype, below, held, destroyed, calls, on, op, cpu, buf,
                   nrounds, reg_mag, armed>>

----------------------------------------------------------------------------
(* The rest of the cache, as far as it meets the layer.                    *)

\* The CPU caches put a magazine they filled, or an empty one, into the depot
\* (_umem_cache_free).  A freed shell's memory is not used for another one.
FeedDepot(k) ==
    /\ ~destroyed
    /\ \E m \in Mags : \E fill \in [1..MAGSIZES[cache_magtype] -> below] :
        /\ mag_type[m] = 0
        /\ \A i, j \in DOMAIN fill : fill[i] = fill[j] => i = j
        /\ mag_type' = [mag_type EXCEPT ![m] = cache_magtype]
        /\ depot' = [depot EXCEPT ![k] = @ \cup {m}]
        /\ IF k = "full"
           THEN /\ below' = below \ {fill[i] : i \in DOMAIN fill}
                /\ mag_round' = [mag_round EXCEPT ![m] =
                                   [i \in 1..MAXSIZE |-> IF i \in DOMAIN fill THEN fill[i]
                                                         ELSE NoOne]]
           ELSE UNCHANGED <<below, mag_round>>
    /\ UNCHANGED <<rseq, cache_magtype, held, destroyed, calls, on, pc, callVars>>

\* umem_depot_destroy_stale and umem_depot_ws_reap destroy a magazine.
DestroyMagazine(k) ==
    /\ ~destroyed
    /\ \E m \in depot[k] :
        /\ depot' = [depot EXCEPT ![k] = @ \ {m}]
        /\ mag_type' = [mag_type EXCEPT ![m] = -1]
        /\ mag_round' = Cleared(m, MAXSIZE)
        /\ below' = IF k = "full" THEN below \cup Rounds(m, Capacity(m)) ELSE below
    /\ UNCHANGED <<rseq, cache_magtype, held, destroyed, calls, on, pc, callVars>>

\* umem_cache_magazine_resize: the purge leaves cache_rseq[] alone.
Resize ==
    /\ ~destroyed /\ cache_magtype < Len(MAGSIZES)
    /\ cache_magtype' = cache_magtype + 1
    /\ UNCHANGED <<slotVars, depot, below, held, destroyed, calls, on, pc, callVars>>

\* The rounds of a CPU's slot, which umem_cache_destroy frees by the slot's count.
DestroyedRounds(c) == Rounds(rseq[c].loaded_mag, rseq[c].rounds)

\* umem_cache_destroy, when no one uses the cache any more: the slots' magazines
\* are destroyed, then the purge empties the depot.
Destroy ==
    LET slots == {c \in CPUs : rseq[c].loaded_mag # NoOne}
    IN
    /\ ~destroyed /\ held = {} /\ \A t \in Threads : pc[t] = "idle"
    /\ destroyed' = TRUE
    /\ rseq' = [c \in CPUs |-> [rseq[c] EXCEPT !.loaded_mag = NoOne, !.rounds = 0]]
    /\ below' = below \cup (UNION {DestroyedRounds(c) : c \in slots})
                      \cup (UNION {Rounds(m, Capacity(m)) : m \in depot["full"]})
    /\ mag_type' = [m \in Mags |-> IF m \in depot["full"] \cup depot["empty"]
                                        \/ \E c \in slots : rseq[c].loaded_mag = m
                                   THEN -1 ELSE mag_type[m]]
    /\ depot' = [k \in Kinds |-> {}]
    /\ UNCHANGED <<mag_round, cache_magtype, held, calls, on, pc, callVars>>

\* The cache is gone, or the bound on calls is reached.
Stopped ==
    /\ destroyed \/ calls = CALLS
    /\ \A t \in Threads : pc[t] = "idle"
    /\ UNCHANGED vars

ThreadStep(t) ==
    \/ Missed(t) \/ AllocStart(t) \/ AllocCommit(t)
    \/ FreeStart(t) \/ FreeStore(t) \/ FreeCommit(t)
    \/ Slow(t) \/ ReturnOld(t) \/ Retry(t)
    \/ DetachStart(t) \/ DetachCommit(t)
    \/ AttachStart(t) \/ AttachRounds(t) \/ AttachMagsize(t) \/ AttachCommit(t)

Next ==
    \/ \E t \in Threads :
        /\ Interleaves(t)
        /\ ThreadStep(t) \/ Preempt(t) \/ CallAlloc(t) \/ CallFree(t)
    \/ /\ \A t \in Threads : pc[t] \notin Sections
       /\ \/ \E k \in Kinds : FeedDepot(k) \/ DestroyMagazine(k)
          \/ AllocBelow \/ Resize \/ Destroy \/ Stopped

Spec == Init /\ [][Next]_vars

----------------------------------------------------------------------------
(* Properties.                                                             *)

\* A thread owns what it detached until it has returned it.
Detached(t) == pc[t] \in {"attach", "attach_rounds", "attach_magsize", "attach_commit",
                          "published", "unpublished"}

\* Who has a magazine, and with how many rounds.
Owners(m) ==
    {<<"rseq", c, rseq[c].rounds>> : c \in {c \in CPUs : rseq[c].loaded_mag = m}}
    \cup {<<"depot", k, IF k = "full" THEN Capacity(m) ELSE 0>>
            : k \in {k \in Kinds : m \in depot[k]}}
    \cup {<<"new", t, ArmedRounds(t)>> : t \in {t \in Threads : nmp[t] = m}}
    \cup {<<"old", t, old_rounds[t]>> : t \in {t \in Threads : old[t] = m /\ Detached(t)}}

\* Where a buffer is: with the layers below, with a caller, in a call that frees
\* it, or in a magazine below the round count its owner goes by.
Homes(b) ==
    {"below" : x \in {b} \cap below} \cup {"held" : x \in {b} \cap held}
    \cup {<<"call", t>> : t \in {t \in Threads : op[t] = "free" /\ buf[t] = b}}
    \cup UNION {UNION {{<<m, i>> : i \in {i \in 1..o[3] : mag_round[m][i] = b}}
                       : o \in Owners(m)} : m \in Mags}

\* A magazine is in one slot, in one depot list or in one thread's hands, wherever
\* a reload is aborted and however often it is retried (the aliasing that the two
\* sections umem_rseq_reload_detach and _attach are there to prevent).
OneShellOwner ==
    \A m \in Mags : Cardinality(Owners(m)) = IF mag_type[m] <= 0 THEN 0 ELSE 1

\* A buffer is in exactly one place.  An aborted umem_rseq_alloc_fastpath has not
\* taken the buffer it returns NULL for, an aborted umem_rseq_free_fastpath has not
\* cached the buffer its caller will free elsewhere, a reload and the destruction
\* of the cache lose none.
OneHome == \A b \in Bufs : Cardinality(Homes(b)) = 1

\* A published slot is bounded by its own magazine's capacity, also when the
\* cache's magazine size changed between the depot and the attach (magsize is
\* written with the magazine by umem_rseq_reload_attach).
SlotSound ==
    \A c \in CPUs : rseq[c].loaded_mag # NoOne =>
        /\ rseq[c].magsize = Capacity(rseq[c].loaded_mag)
        /\ rseq[c].rounds \in 0..rseq[c].magsize

\* Buffers and slots survive an abort anywhere in a critical section: no buffer
\* is lost or doubled, and no slot counts past its magazine.
RoundsSound == OneHome /\ SlotSound
=============================================================================
