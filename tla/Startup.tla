------------------------------- MODULE Startup -------------------------------
(***************************************************************************)
(* umem_init(): one thread builds the allocator, the others wait for it,   *)
(* and code called on the way may come back into the allocator.  Above the *)
(* heap of SpanTable, _umem_alloc() of one object per page (umem.c).       *)
(***************************************************************************)
EXTENDS SpanTable

VARIABLES
    umem_ready,             \* STARTUP, INITING, READY or INIT_FAILED
    umem_init_thr,          \* the thread inside umem_init(), or Nobody
    umem_init_env_ready,    \* the environment has been read
    umem_alloc_table,       \* the size table names real caches
    builds,                 \* how often the arenas have been built
    owner,                  \* page -> who mapped it
    live,                   \* the pages with an allocated umem object
    faults                  \* failures left to the environment

startVars == <<umem_ready, umem_init_thr, umem_init_env_ready, umem_alloc_table, builds>>
heapVars == <<owner, live>>

-----------------------------------------------------------------------------
(* umem_init().  It returns 1 when the allocator may be used.              *)

\* The first thread in becomes the initialiser; one that finds another at
\* work waits for umem_init_cv.
InitEnter(t) ==
    /\ At(t, "init", "start")
    /\ umem_init_thr # t
    /\ IF umem_ready = "STARTUP"
       THEN /\ umem_ready' = "INITING"
            /\ umem_init_thr' = t
            /\ stack' = Goto(t, "env")
       ELSE /\ stack' = Goto(t, "wait")
            /\ UNCHANGED <<umem_ready, umem_init_thr>>
    /\ UNCHANGED <<ret, umem_init_env_ready, umem_alloc_table, builds,
                   heapVars, faults, spanVars>>

InitWait(t) ==
    /\ At(t, "init", "wait")
    /\ umem_ready # "INITING"
    /\ Return(t, IF umem_ready = "READY" THEN 1 ELSE 0)
    /\ UNCHANGED <<startVars, heapVars, faults, spanVars>>

\* umem_setup_envvars() can recurse: the nested call finishes the work and
\* the outer one notices that the environment has been read.
EnvDone == umem_init_env_ready

InitEnv(t) ==
    /\ At(t, "init", "env")
    /\ IF EnvDone
       THEN /\ Return(t, IF umem_ready = "READY" THEN 1 ELSE 0)
            /\ UNCHANGED umem_init_env_ready
       ELSE /\ umem_init_env_ready' = TRUE
            /\ stack' = Goto(t, "build")
            /\ UNCHANGED ret
    /\ UNCHANGED <<umem_ready, umem_init_thr, umem_alloc_table, builds,
                   heapVars, faults, spanVars>>

\* The initialiser comes back: it takes over while the environment is being
\* read, and panics after that.
InitRecurse(t) ==
    /\ At(t, "init", "start")
    /\ umem_init_thr = t
    /\ IF umem_init_env_ready
       THEN /\ stack' = Goto(t, "panic")
            /\ UNCHANGED umem_init_env_ready
       ELSE /\ umem_init_env_ready' = TRUE
            /\ stack' = Goto(t, "build")
    /\ UNCHANGED <<ret, umem_ready, umem_init_thr, umem_alloc_table, builds,
                   heapVars, faults, spanVars>>

\* The heap grows at the highest page it can have; the lowest unmapped page
\* is the next one of everybody else.
Mappable == {p \in Pages : owner[p] \in {"none", "top"}}
Highest == {p \in Mappable : \A q \in Mappable : q <= p}
Unmapped == {p \in Pages : owner[p] = "none"}
Lowest == {p \in Unmapped : \A q \in Unmapped : p <= q}

\* The system has no memory: by a fault, or because every page is taken.
Fails ==
    /\ faults > 0 \/ Mappable = {}
    /\ faults' = IF faults > 0 THEN faults - 1 ELSE 0

\* vmem_heap_init() and the arenas: the heap gets its first span.
InitBuild(t) ==
    /\ At(t, "init", "build")
    /\ builds' = builds + 1
    /\ \/ /\ vm_lock = Nobody
          /\ \E p \in Highest :
                /\ owner' = [owner EXCEPT ![p] = "span"]
                /\ stack' = Call(t, "built", "insert", p)
          /\ vm_lock' = t
          /\ UNCHANGED faults
       \/ /\ Fails
          /\ stack' = Goto(t, "failed")
          /\ UNCHANGED <<owner, vm_lock>>
    /\ UNCHANGED <<ret, live, umem_ready, umem_init_thr, umem_init_env_ready,
                   umem_alloc_table, vmem_heap_lo, vmem_heap_hi, vmem_span_tab,
                   vmem_span_cnt, vmem_span_seq, vmem_span_saturated, span_cache>>

\* umem_cache_init(): from here allocations of other threads succeed.
InitCaches(t) ==
    /\ At(t, "init", "built")
    /\ vm_lock' = Nobody
    /\ umem_alloc_table' = TRUE
    /\ stack' = Goto(t, "rest")
    /\ UNCHANGED <<ret, umem_ready, umem_init_thr, umem_init_env_ready, builds,
                   heapVars, faults, vmem_heap_lo, vmem_heap_hi, vmem_span_tab,
                   vmem_span_cnt, vmem_span_seq, vmem_span_saturated, span_cache>>

\* Publish the outcome under umem_init_lock and wake the waiters.
InitEnd(t) ==
    /\ At(t, "init", "rest") \/ At(t, "init", "failed")
    /\ umem_ready' = IF Frame(t).pc = "rest" THEN "READY" ELSE "INIT_FAILED"
    /\ umem_init_thr' = Nobody
    /\ Return(t, IF Frame(t).pc = "rest" THEN 1 ELSE 0)
    /\ UNCHANGED <<umem_init_env_ready, umem_alloc_table, builds, heapVars,
                   faults, spanVars>>

-----------------------------------------------------------------------------
(* _umem_alloc() and _umem_free().                                         *)

\* The null cache sends the caller to umem_init() (umem_alloc_retry).
AllocCache(t) ==
    /\ At(t, "umem", "start")
    /\ stack' = IF umem_alloc_table THEN Goto(t, "take")
                ELSE Call(t, "retry", "init", 0)
    /\ UNCHANGED <<ret, startVars, heapVars, faults, spanVars>>

AllocRetry(t) ==
    /\ At(t, "umem", "retry")
    /\ IF ret[t] = 1
       THEN stack' = Goto(t, "start") /\ ret' = [ret EXCEPT ![t] = 0]
       ELSE Return(t, 0)
    /\ UNCHANGED <<startVars, heapVars, faults, spanVars>>

\* An object of a span the heap has, or of a new one, or none.
AllocTake(t) ==
    /\ At(t, "umem", "take")
    /\ \/ /\ \E p \in {q \in Pages : owner[q] = "span"} \ live :
                /\ live' = live \cup {p}
                /\ Return(t, p)
          /\ UNCHANGED <<owner, faults, vm_lock>>
       \/ /\ vm_lock = Nobody
          /\ vm_lock' = t
          /\ \E p \in Highest :
                /\ owner' = [owner EXCEPT ![p] = "new"]
                /\ stack' = [Call(t, "grown", "insert", p) EXCEPT ![t][2].ptr = p]
          /\ UNCHANGED <<ret, live, faults>>
       \/ /\ Fails
          /\ Return(t, 0)
          /\ UNCHANGED <<heapVars, vm_lock>>
    /\ UNCHANGED <<startVars, vmem_heap_lo, vmem_heap_hi, vmem_span_tab, vmem_span_cnt,
                   vmem_span_seq, vmem_span_saturated, span_cache>>

AllocGrown(t) ==
    LET p == Frame(t).ptr
    IN /\ At(t, "umem", "grown")
       /\ vm_lock' = Nobody
       /\ owner' = [owner EXCEPT ![p] = "span"]
       /\ live' = live \cup {p}
       /\ Return(t, p)
       /\ UNCHANGED <<startVars, faults, vmem_heap_lo, vmem_heap_hi, vmem_span_tab,
                      vmem_span_cnt, vmem_span_seq, vmem_span_saturated, span_cache>>

\* The object goes back to its cache, or its span goes back to the top arena:
\* out of the table first.  (What a false yes about another library's page
\* leads to is not modelled.)
FreeObject(t) ==
    LET p == Frame(t).ptr
    IN /\ At(t, "ufree", "accept")
       /\ live' = live \ {p}
       /\ \/ Return(t, 0) /\ UNCHANGED <<owner, vm_lock>>
          \/ /\ vm_lock = Nobody /\ p \in live
             /\ vm_lock' = t
             /\ owner' = [owner EXCEPT ![p] = "old"]
             /\ stack' = Call(t, "shrunk", "remove", p)
             /\ UNCHANGED ret
       /\ UNCHANGED <<startVars, faults, vmem_heap_lo, vmem_heap_hi, vmem_span_tab,
                      vmem_span_cnt, vmem_span_seq, vmem_span_saturated, span_cache>>

FreeShrunk(t) ==
    /\ At(t, "ufree", "shrunk")
    /\ vm_lock' = Nobody
    /\ owner' = [owner EXCEPT ![Frame(t).ptr] = "top"]
    /\ Return(t, 0)
    /\ UNCHANGED <<live, startVars, faults, vmem_heap_lo, vmem_heap_hi, vmem_span_tab,
                   vmem_span_cnt, vmem_span_seq, vmem_span_saturated, span_cache>>

StartStep(t) ==
    \/ /\ In(t, {"init"})
       /\ \/ InitEnter(t) \/ InitWait(t) \/ InitEnv(t) \/ InitRecurse(t)
          \/ InitBuild(t) \/ InitCaches(t) \/ InitEnd(t)
    \/ /\ In(t, {"umem", "ufree"})
       /\ \/ AllocCache(t) \/ AllocRetry(t) \/ AllocTake(t) \/ AllocGrown(t)
          \/ FreeObject(t) \/ FreeShrunk(t)

=============================================================================
