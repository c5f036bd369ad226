------------------------------- MODULE Malloc --------------------------------
(***************************************************************************)
(* malloc(), free() and their kin over four sources of memory: the static  *)
(* buffer for dlsym, bootstrap mappings, libc (memalign before umem is     *)
(* ready) and umem (malloc.c, malloc_interpose.c), on top of Startup and   *)
(* SpanTable.  An allocation is one page; a page the system took back may  *)
(* be given to another source.                                             *)
(***************************************************************************)
EXTENDS Startup, FiniteSets

CONSTANTS
    BOOTSTRAP_MAX,      \* entries of the registry of bootstrap mappings
    MAX_LIBC_PTRS,      \* entries of the table of libc allocations
    CONFIGS             \* [ready, calls, faults, allocs]: where the run begins, and
                        \* the calls, failures and allocating functions it may have

VARIABLES
    interpose_state,    \* UNINIT, BOOTSTRAP or READY
    umem_init_attempted,
    bootstrap_ptrs, bootstrap_live, bootstrap_pages,    \* registry, gate, filter
    libc_ptrs,          \* the recorded libc allocations
    memaligned,         \* the pages whose header says memalign
    held,               \* the allocations the application has and may free
    allocs,             \* the allocating functions it calls
    direct,             \* the objects it got from umem_alloc() itself
    calls               \* calls the application may still make

bootVars == <<bootstrap_ptrs, bootstrap_live, bootstrap_pages>>
appVars == <<held, allocs, direct, calls>>
mallocVars == <<interpose_state, umem_init_attempted, bootVars, libc_ptrs,
                memaligned, appVars>>
vars == <<stack, ret, spanVars, startVars, heapVars, faults, mallocVars>>

Static == 90            \* a piece of the static buffer, below no page
Own == [unknown |-> 0, static |-> 1, bootstrap |-> 2, libc |-> 3, umem |-> 4]

\* Either the process starts, holding an allocation of libc that predates the
\* library, or it runs: one umem object, one bootstrap and one libc allocation.
\* Page 3 is another library's mapping, handed to free() by mistake.
Init ==
    /\ stack = [t \in Threads |-> <<>>]
    /\ ret = [t \in Threads |-> 0]
    /\ direct = {} /\ memaligned = {} /\ umem_init_attempted = FALSE
    /\ \E c \in CONFIGS :
          /\ calls = c.calls /\ faults = c.faults /\ allocs = c.allocs
          /\ IF c.ready
             THEN /\ vmem_heap_lo = 1 /\ vmem_heap_hi = 2
                  /\ vmem_span_tab = [i \in 1 .. VMEM_SPAN_MAX |->
                                         IF i = 1 THEN 1 ELSE 0]
                  /\ vmem_span_cnt = 1 /\ vmem_span_seq = 2
                  /\ vmem_span_saturated = FALSE /\ vm_lock = Nobody
                  /\ span_cache = [t \in Threads |-> NoCache]
                  /\ umem_ready = "READY" /\ umem_init_thr = Nobody
                  /\ umem_init_env_ready = TRUE /\ umem_alloc_table = TRUE
                  /\ builds = 1 /\ interpose_state = "READY"
                  /\ owner = [p \in Pages |-> CASE p = 1 -> "span"
                                 [] p = 2 -> "bootstrap" [] p = 3 -> "foreign"
                                 [] p = 4 -> "libc" [] OTHER -> "none"]
                  /\ live = {1} /\ held = {1, 2, 3, 4}
                  /\ bootstrap_ptrs = {2} /\ bootstrap_pages = {2}
                  /\ bootstrap_live = 1 /\ libc_ptrs = {4}
             ELSE /\ SpanInit
                  /\ umem_ready = "STARTUP" /\ umem_init_thr = Nobody
                  /\ umem_init_env_ready = FALSE /\ umem_alloc_table = FALSE
                  /\ builds = 0 /\ interpose_state = "UNINIT"
                  /\ owner = [p \in Pages |-> IF p = 3 THEN "foreign" ELSE "none"]
                  /\ live = {} /\ held = {3}
                  /\ bootstrap_ptrs = {} /\ bootstrap_pages = {}
                  /\ bootstrap_live = 0 /\ libc_ptrs = {}

-----------------------------------------------------------------------------
(* The application.  A call is a frame "user" below the frame of the       *)
(* function called; code that the library calls may call back.             *)

Reenters(t) ==
    \/ stack[t] = <<>>
    \/ At(t, "init", "env") \/ At(t, "init", "rest") \/ At(t, "umem", "take")

\* umem_interpose_init(), the constructor of the library: dlsym() allocates
\* from the static buffer.
Constructor(t) ==
    /\ interpose_state = "UNINIT"
    /\ stack[t] = <<>>
    /\ interpose_state' = "BOOTSTRAP"
    /\ held' = held \cup {Static}
    /\ UNCHANGED <<stack, ret, umem_init_attempted, bootVars, libc_ptrs, memaligned,
                   allocs, direct, calls, spanVars, startVars, heapVars, faults>>

\* Before the constructor has run there is one thread.
Started(t) ==
    interpose_state = "UNINIT" => \A u \in Threads \ {t} : stack[u] = <<>>

UserCalls(t, op, ptr) ==
    /\ calls > 0
    /\ Reenters(t)
    /\ Started(t)
    /\ calls' = calls - 1
    /\ stack' = [stack EXCEPT ![t] = <<FrameOf(op, ptr),
                    [FrameOf("user", ptr) EXCEPT !.pc = op]>> \o @]
    /\ held' = held \ {ptr}
    /\ UNCHANGED <<ret, interpose_state, umem_init_attempted, bootVars, libc_ptrs,
                   memaligned, allocs, direct, spanVars, startVars, heapVars, faults>>

\* Reading the environment may bring the initialiser back into umem_alloc();
\* what runs later in umem_init() calls malloc() only.
UserAllocs(t) ==
    \E op \in allocs :
       /\ op = "umem" => stack[t] = <<>> \/ At(t, "init", "env")
       /\ UserCalls(t, op, 0)

UserFrees(t) ==
    /\ stack[t] = <<>>
    /\ \E p \in held, op \in {"free", "realloc"} : UserCalls(t, op, p)

\* The application gets its pointer; after a failed realloc() it still has
\* the old one.
UserReturns(t) ==
    LET f == Frame(t)
        got == IF f.pc = "realloc" /\ ret[t] = 0 THEN {f.ptr} ELSE {ret[t]} \ {0}
    IN /\ stack[t] # <<>> /\ f.op = "user"
       /\ held' = IF f.pc = "umem" THEN held ELSE held \cup got
       /\ direct' = IF f.pc = "umem" THEN direct \cup got ELSE direct
       /\ Return(t, 0)
       /\ UNCHANGED <<interpose_state, umem_init_attempted, bootVars, libc_ptrs,
                      memaligned, allocs, calls, spanVars, startVars, heapVars, faults>>

-----------------------------------------------------------------------------
(* malloc() and calloc().                                                  *)

\* Before umem is ready the first call starts umem_init(), once.
MallocStart(t) ==
    /\ At(t, "malloc", "start")
    /\ stack' = IF /\ interpose_state = "BOOTSTRAP"
                   /\ umem_ready = "STARTUP" /\ ~ umem_init_attempted
                THEN Goto(t, "attempt")
                ELSE Goto(t, "promote")
    /\ UNCHANGED <<ret, mallocVars, spanVars, startVars, heapVars, faults>>

MallocAttempt(t) ==
    /\ At(t, "malloc", "attempt")
    /\ umem_init_attempted' = TRUE
    /\ stack' = Call(t, "promote", "init", 0)
    /\ UNCHANGED <<ret, interpose_state, bootVars, libc_ptrs, memaligned, appVars,
                   spanVars, startVars, heapVars, faults>>

MayPromote == umem_ready = "READY"

MallocPromote(t) ==
    /\ At(t, "malloc", "promote")
    /\ interpose_state' = IF interpose_state = "BOOTSTRAP" /\ MayPromote
                          THEN "READY" ELSE interpose_state
    /\ stack' = Goto(t, "route")
    /\ UNCHANGED <<ret, umem_init_attempted, bootVars, libc_ptrs, memaligned, appVars,
                   spanVars, startVars, heapVars, faults>>

\* umem_malloc() itself falls back to a bootstrap mapping when umem is not
\* ready, and when this thread is already inside it.
Inside(t) ==
    \E i \in 2 .. Len(stack[t]) : stack[t][i].op = "malloc" /\ stack[t][i - 1].op = "umem"

MallocRoute(t) ==
    /\ At(t, "malloc", "route")
    /\ stack' = IF /\ interpose_state = "READY"
                   /\ umem_ready = "READY" /\ ~ Inside(t)
                THEN Call(t, "done", "umem", 0)
                ELSE Call(t, "done", "boot", 0)
    /\ ret' = [ret EXCEPT ![t] = 0]
    /\ UNCHANGED <<mallocVars, spanVars, startVars, heapVars, faults>>

\* A recursive calloc() of the same thread takes a bootstrap mapping.
Calloc(t) ==
    /\ At(t, "calloc", "start")
    /\ stack' = IF \E i \in 2 .. Len(stack[t]) : stack[t][i].op = "calloc"
                THEN Call(t, "done", "boot", 0)
                ELSE Call(t, "done", "malloc", 0)
    /\ UNCHANGED <<ret, mallocVars, spanVars, startVars, heapVars, faults>>

\* The header of a umem object says which function made it.
AllocDone(t) ==
    /\ \E op \in {"malloc", "calloc", "memalign"} : At(t, op, "done")
    /\ memaligned' = IF Frame(t).op = "memalign" /\ ret[t] \in live
                     THEN memaligned \cup {ret[t]} ELSE memaligned
    /\ Return(t, ret[t])
    /\ UNCHANGED <<interpose_state, umem_init_attempted, bootVars, libc_ptrs, appVars,
                   spanVars, startVars, heapVars, faults>>

-----------------------------------------------------------------------------
(* memalign(): umem, libc with a record, or a bootstrap mapping.           *)

Memalign(t) ==
    /\ At(t, "memalign", "start")
    /\ \/ /\ interpose_state = "READY"
          /\ stack' = Call(t, "done", "umem", 0)
          /\ UNCHANGED <<ret, owner>>
       \/ /\ interpose_state = "UNINIT"
          /\ stack' = Call(t, "done", "boot", 0)
          /\ UNCHANGED <<ret, owner>>
       \/ /\ interpose_state = "BOOTSTRAP"
          /\ \E p \in Lowest :
                /\ owner' = [owner EXCEPT ![p] = "libc"]
                /\ stack' = Becomes(t, [Frame(t) EXCEPT !.pc = "track", !.ptr = p])
          /\ UNCHANGED ret
       \/ /\ interpose_state = "BOOTSTRAP"
          /\ Return(t, 0)
          /\ UNCHANGED owner
    /\ UNCHANGED <<mallocVars, live, spanVars, startVars, faults>>

LibcRoom == Cardinality(libc_ptrs) < MAX_LIBC_PTRS

\* track_libc_ptr(): what the table cannot hold goes straight back to libc.
TrackLibcPtr(t) ==
    LET p == Frame(t).ptr
    IN /\ At(t, "memalign", "track")
       /\ IF LibcRoom
          THEN /\ libc_ptrs' = libc_ptrs \cup {p}
               /\ Return(t, p)
               /\ UNCHANGED owner
          ELSE /\ owner' = [owner EXCEPT ![p] = "none"]
               /\ Return(t, 0)
               /\ UNCHANGED libc_ptrs
       /\ UNCHANGED <<interpose_state, umem_init_attempted, bootVars, memaligned, appVars,
                      live, spanVars, startVars, faults>>

-----------------------------------------------------------------------------
(* The bootstrap mappings.                                                 *)

BootMap(t) ==
    /\ At(t, "boot", "start")
    /\ \/ /\ \E p \in Lowest :
                /\ owner' = [owner EXCEPT ![p] = "bootstrap"]
                /\ stack' = Becomes(t, [Frame(t) EXCEPT !.pc = "register", !.ptr = p])
          /\ UNCHANGED ret
       \/ Return(t, 0) /\ UNCHANGED owner
    /\ UNCHANGED <<mallocVars, live, spanVars, startVars, faults>>

\* bootstrap_register(), under bootstrap_lock: the gate counts the mapping
\* before it can be found; a full table fails the allocation.
BootRegister(t) ==
    LET p == Frame(t).ptr
    IN /\ At(t, "boot", "register")
       /\ IF Cardinality(bootstrap_ptrs) < BOOTSTRAP_MAX
          THEN /\ bootstrap_ptrs' = bootstrap_ptrs \cup {p}
               /\ bootstrap_live' = bootstrap_live + 1
               /\ bootstrap_pages' = bootstrap_pages \cup {p}
               /\ Return(t, p)
               /\ UNCHANGED owner
          ELSE /\ owner' = [owner EXCEPT ![p] = "none"]
               /\ Return(t, 0)
               /\ UNCHANGED bootVars
       /\ UNCHANGED <<interpose_state, umem_init_attempted, libc_ptrs, memaligned,
                      appVars, live, spanVars, startVars, faults>>


\* bootstrap_free(): out of the registry, unmapped, and only then uncounted.
BootFree(t) ==
    LET p == Frame(t).ptr
    IN /\ \/ /\ At(t, "bfree", "start")
             /\ IF p \in bootstrap_ptrs
                THEN /\ bootstrap_ptrs' = bootstrap_ptrs \ {p}
                     /\ stack' = Goto(t, "munmap")
                     /\ UNCHANGED ret
                ELSE Return(t, 0) /\ UNCHANGED bootstrap_ptrs
             /\ UNCHANGED <<owner, bootstrap_live>>
          \/ /\ At(t, "bfree", "munmap")
             /\ owner' = [owner EXCEPT ![p] = "none"]
             /\ stack' = Goto(t, "count")
             /\ UNCHANGED <<ret, bootstrap_ptrs, bootstrap_live>>
          \/ /\ At(t, "bfree", "count")
             /\ bootstrap_live' = bootstrap_live - 1
             /\ Return(t, 0)
             /\ UNCHANGED <<owner, bootstrap_ptrs>>
       /\ UNCHANGED <<bootstrap_pages, interpose_state, umem_init_attempted, libc_ptrs,
                      memaligned, appVars, live, spanVars, startVars, faults>>

\* bootstrap_pointer_p(): the count and the page filter answer no for nearly
\* every pointer; the registry decides.
MaybeBootstrap(p) == bootstrap_live > 0 /\ p \in bootstrap_pages

-----------------------------------------------------------------------------
(* free() and interpose_owner_of().                                        *)

FreeStart(t) ==
    LET p == Frame(t).ptr
    IN /\ At(t, "free", "start")
       /\ stack' = IF interpose_state = "READY" /\ p # Static /\ libc_ptrs = {}
                   THEN [stack EXCEPT ![t] =
                            <<[FrameOf("ufree", p) EXCEPT !.free = TRUE]>> \o Tail(@)]
                   ELSE Call(t, "switch", "owner", p)
       /\ UNCHANGED <<ret, mallocVars, spanVars, startVars, heapVars, faults>>

OwnerOf(t) ==
    LET p == Frame(t).ptr
    IN /\ \/ /\ At(t, "owner", "start")
             /\ CASE p = Static -> Return(t, Own.static)
                  [] MaybeBootstrap(p) -> stack' = Goto(t, "registry") /\ UNCHANGED ret
                  [] OTHER -> stack' = Goto(t, "libc") /\ UNCHANGED ret
          \/ /\ At(t, "owner", "registry")
             /\ IF p \in bootstrap_ptrs THEN Return(t, Own.bootstrap)
                ELSE stack' = Goto(t, "libc") /\ UNCHANGED ret
          \/ /\ At(t, "owner", "libc")
             /\ CASE p \in libc_ptrs -> Return(t, Own.libc)
                  [] p \notin libc_ptrs /\ interpose_state = "READY" ->
                        stack' = Call(t, "umem", "ufree", p) /\ UNCHANGED ret
                  [] OTHER -> Return(t, Own.unknown)
          \/ /\ At(t, "owner", "umem")
             /\ Return(t, IF ret[t] = 1 THEN Own.umem ELSE Own.unknown)
       /\ UNCHANGED <<mallocVars, spanVars, startVars, heapVars, faults>>

UnknownToLibc == interpose_state # "READY"

FreeSwitch(t) ==
    LET p == Frame(t).ptr
        Tailcall(op) == [stack EXCEPT ![t] =
                            <<[FrameOf(op, p) EXCEPT !.free = TRUE]>> \o Tail(@)]
    IN /\ At(t, "free", "switch")
       /\ \/ /\ ret[t] = Own.static
             /\ Return(t, 0)
          \/ /\ ret[t] = Own.bootstrap
             /\ stack' = Tailcall("bfree") /\ ret' = [ret EXCEPT ![t] = 0]
          \/ /\ ret[t] = Own.libc
             /\ stack' = Goto(t, "untrack") /\ ret' = [ret EXCEPT ![t] = 0]
          \/ /\ ret[t] = Own.umem \/ (ret[t] = Own.unknown /\ ~ UnknownToLibc)
             /\ stack' = Tailcall("ufree") /\ ret' = [ret EXCEPT ![t] = 0]
          \/ /\ ret[t] = Own.unknown /\ UnknownToLibc
             /\ stack' = Goto(t, "libc") /\ UNCHANGED ret
       /\ UNCHANGED <<mallocVars, spanVars, startVars, heapVars, faults>>

\* The record is released just before the memory: untrack_libc_ptr().
FreeLibc(t) ==
    LET p == Frame(t).ptr
    IN /\ \/ /\ At(t, "free", "untrack")
             /\ libc_ptrs' = libc_ptrs \ {p}
             /\ stack' = Goto(t, "libc")
             /\ UNCHANGED <<ret, owner>>
          \/ /\ At(t, "free", "libc")
             /\ owner' = [owner EXCEPT ![p] = "none"]
             /\ Return(t, 0)
             /\ UNCHANGED libc_ptrs
       /\ UNCHANGED <<interpose_state, umem_init_attempted, bootVars, memaligned, appVars,
                      live, spanVars, startVars, faults>>

\* realloc(): the old allocation is released only once there is a new one.
Realloc(t) ==
    LET p == Frame(t).ptr
    IN /\ \/ /\ At(t, "realloc", "start")
             /\ stack' = Call(t, "owner", "owner", p) /\ UNCHANGED ret
          \/ /\ At(t, "realloc", "owner")
             /\ \/ /\ ret[t] # Own.unknown
                   /\ stack' = Call(t, "allocated", "malloc", 0)
                   /\ ret' = [ret EXCEPT ![t] = 0]
                \/ /\ ret[t] = Own.umem        \* the size it already has
                   /\ Return(t, p)
                \/ /\ ret[t] = Own.unknown     \* EINVAL, or libc's own realloc
                   /\ Return(t, 0)
          \/ /\ At(t, "realloc", "allocated")
             /\ IF ret[t] = 0 THEN Return(t, 0)
                ELSE /\ stack' = [Call(t, "freed", "free", p) EXCEPT ![t][2].ptr = ret[t]]
                     /\ ret' = [ret EXCEPT ![t] = 0]
          \/ /\ At(t, "realloc", "freed")
             /\ Return(t, p)
       /\ UNCHANGED <<mallocVars, spanVars, startVars, heapVars, faults>>

-----------------------------------------------------------------------------
(* umem_malloc_free() and, without free set, process_free(p, 0): bootstrap *)
(* first, then validate before anything is changed.                        *)

InHull(p) == vmem_heap_lo <= p /\ p < vmem_heap_hi

Attempt(t, pc) ==
    /\ stack' = Call(t, pc, "own", Frame(t).ptr)
    /\ UNCHANGED ret
Refuse(t) == Return(t, 0)

UfreeStart(t) ==
    LET p == Frame(t).ptr
        next == IF Frame(t).free THEN "fast" ELSE "slow"
    IN /\ \/ /\ At(t, "ufree", "start")
             /\ stack' = IF MaybeBootstrap(p) THEN Goto(t, "registry") ELSE Goto(t, next)
             /\ UNCHANGED ret
          \/ /\ At(t, "ufree", "registry")
             /\ CASE p \notin bootstrap_ptrs -> stack' = Goto(t, next) /\ UNCHANGED ret
                  [] p \in bootstrap_ptrs /\ Frame(t).free ->
                        /\ stack' = [stack EXCEPT ![t] = <<FrameOf("bfree", p)>> \o Tail(@)]
                        /\ UNCHANGED ret
                  [] OTHER -> Return(t, 1)
       /\ UNCHANGED <<mallocVars, spanVars, startVars, heapVars, faults>>

\* The verdict of the exact test.
OwnedByHull(t) == TRUE
Owned(t) == ret[t] = 1

\* The fast path knows the headers of malloc() only; anything else takes the
\* slow one.  A foreign page may decode as anything.
UfreeFast(t) ==
    LET p == Frame(t).ptr
    IN /\ \/ /\ At(t, "ufree", "fast")
             /\ \/ /\ InHull(p) /\ p \notin memaligned
                   /\ Attempt(t, "fastans")
                \/ /\ ~ InHull(p) \/ p \in memaligned \/ owner[p] = "foreign"
                   /\ stack' = Goto(t, "slow") /\ UNCHANGED ret
          \/ /\ At(t, "ufree", "fastans")
             /\ stack' = Goto(t, IF Owned(t) THEN "poison" ELSE "slow")
             /\ ret' = [ret EXCEPT ![t] = 0]
       /\ UNCHANGED <<mallocVars, spanVars, startVars, heapVars, faults>>

\* process_free_umem(): the hull, the header, then the exact test; a no is
\* asked again with fresh bounds (umem_may_own) before the pointer is refused.
UfreeSlow(t) ==
    LET p == Frame(t).ptr
        ok == IF Frame(t).free THEN stack' = Goto(t, "poison") /\ ret' = [ret EXCEPT ![t] = 0]
              ELSE Return(t, 1)
    IN /\ \/ /\ At(t, "ufree", "slow")
             /\ \/ InHull(p) /\ Attempt(t, "answer")
                \/ (~ InHull(p) \/ owner[p] = "foreign") /\ Refuse(t)
          \/ /\ At(t, "ufree", "answer")
             /\ IF Owned(t) THEN ok
                ELSE IF InHull(p) THEN Attempt(t, "again") ELSE Refuse(t)
          \/ /\ At(t, "ufree", "again")
             /\ IF Owned(t) THEN ok ELSE Refuse(t)
       /\ UNCHANGED <<mallocVars, spanVars, startVars, heapVars, faults>>

\* The header is poisoned before the object is given back.
UfreePoison(t) ==
    /\ At(t, "ufree", "poison")
    /\ memaligned' = memaligned \ {Frame(t).ptr}
    /\ stack' = Goto(t, "accept")
    /\ UNCHANGED <<ret, interpose_state, umem_init_attempted, bootVars, libc_ptrs, appVars,
                   spanVars, startVars, heapVars, faults>>

-----------------------------------------------------------------------------

Quiet == \A t \in Threads : stack[t] = <<>>

Stopped == calls = 0 /\ Quiet /\ UNCHANGED vars

Step(t) ==
    \/ Constructor(t) \/ UserAllocs(t) \/ UserFrees(t) \/ UserReturns(t)
    \/ /\ In(t, {"malloc", "calloc", "memalign"})
       /\ \/ MallocStart(t) \/ MallocAttempt(t) \/ MallocPromote(t) \/ MallocRoute(t)
          \/ Calloc(t) \/ AllocDone(t) \/ Memalign(t) \/ TrackLibcPtr(t)
    \/ In(t, {"boot", "bfree"}) /\ (BootMap(t) \/ BootRegister(t) \/ BootFree(t))
    \/ /\ In(t, {"free", "owner", "realloc"})
       /\ \/ FreeStart(t) \/ OwnerOf(t) \/ FreeSwitch(t) \/ FreeLibc(t) \/ Realloc(t)
    \/ /\ In(t, {"ufree"})
       /\ \/ UfreeStart(t) \/ UfreeFast(t) \/ UfreeSlow(t) \/ UfreePoison(t)

\* A step that touches nothing another thread can see is taken at once.
Local(t) ==
    /\ stack[t] # <<>>
    /\ \/ Frame(t).op \in {"user", "calloc", "realloc"}
       \/ At(t, "malloc", "done") \/ At(t, "memalign", "done")
       \/ At(t, "umem", "retry")
       \/ At(t, "ufree", "fastans") \/ At(t, "owner", "umem")
Runs(t) == Local(t) \/ \A u \in Threads : ~ Local(u)

Next ==
    \/ \E t \in Threads :
          /\ Runs(t)
          /\ \/ Step(t)
             \/ SpanStep(t) /\ UNCHANGED <<startVars, heapVars, faults, mallocVars>>
             \/ StartStep(t) /\ UNCHANGED mallocVars
    \/ Stopped

Spec == Init /\ [][Next]_vars

-----------------------------------------------------------------------------
(* Properties.                                                             *)

\* Every page is given back to the allocator it came from, while it is still
\* allocated: munmap() gets bootstrap mappings, libc's free() what libc
\* allocated, and umem_free() live umem objects (free(), process_free_umem()).
\* Only a table that has overflowed may answer yes for a foreign page.
Routed ==
    \A t \in Threads :
       LET p == Frame(t).ptr
       IN /\ At(t, "bfree", "munmap") => owner[p] = "bootstrap"
          /\ At(t, "free", "libc") => owner[p] \in {"libc", "foreign"}
          /\ At(t, "ufree", "poison") \/ At(t, "ufree", "accept") =>
                \/ owner[p] = "span" /\ p \in live
                \/ owner[p] = "foreign" /\ vmem_span_saturated

\* An answer of the lookup that the reader accepts is right at that moment: a
\* no is never about a live object, a yes from the table or from the cache is
\* always about a span of the heap, whatever the writer did meanwhile
\* (vmem_span_find(), span_owns_cached()).
AnswerExact ==
    \A t \in Threads :
       LET f == Frame(t)
           ofHeap == owner[f.ptr] \in {"span", "new", "old"}
       IN /\ At(t, "own", "search") /\ f.blo >= f.bhi /\ SameGeneration(t) =>
                f.ptr \notin live
          /\ At(t, "own", "found") /\ SameGeneration(t) => ofHeap
          /\ At(t, "own", "start") /\ f.ptr = span_cache[t].page
                /\ vmem_span_seq = span_cache[t].gen => ofHeap

\* No free() of an allocation the library made is refused, and no allocation
\* is dropped by a failing call: at rest what the library has handed out is
\* what the application holds, and the registries list exactly that ("a false
\* no is not" possible, vmem_span_find(); "never live-and-unrecorded").
NothingLost ==
    LET of(w) == {p \in Pages : owner[p] = w}
    IN Quiet => /\ of("bootstrap") = bootstrap_ptrs
                /\ of("libc") = libc_ptrs
                /\ bootstrap_live = Cardinality(bootstrap_ptrs)
                /\ of("bootstrap") \cup of("libc") \cup (live \ direct)
                      = held \ ({Static} \cup of("foreign"))

\* One thread builds the allocator, once, and never recurses into a panic; it
\* is used only once it has been built, and malloc() goes to it only when it
\* is ready (umem_init(), umem_alloc_retry(), malloc()).
InitOnce ==
    /\ builds <= 1
    /\ umem_ready = "INITING" <=> umem_init_thr # Nobody
    /\ umem_ready = "READY" => builds = 1 /\ umem_alloc_table
    /\ interpose_state = "READY" => umem_ready = "READY"
    /\ \A t \in Threads : /\ ~ At(t, "init", "panic")
                          /\ At(t, "umem", "take") => vmem_heap_hi > 0


=============================================================================
