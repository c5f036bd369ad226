-------------------------------- MODULE Vmem --------------------------------
(***************************************************************************)
(* The vmem arenas (vmem.c) and the two backends that grow the outermost   *)
(* one (vmem_mmap.c, vmem_sbrk.c).                                         *)
(*                                                                         *)
(* Four arenas import from one another as vmem_init() and umem_init() set  *)
(* them up: "leaf" (an arena with a quantum below a page, such as          *)
(* umem_memalign) and "seg" (vmem_seg_arena, through vmem_internal) import *)
(* from "heap", and "heap" from "top", which grows by new address space.   *)
(*                                                                         *)
(* An arena is its address-ordered list of segment structures, vm_seg0     *)
(* left out: SPAN markers, the FREE and ALLOC segments that follow each,   *)
(* the ROTOR of next-fit and the WALKER of a reentrant vmem_walk().  The   *)
(* allocated-segment hash is the set of ALLOC segments.  The freelists are *)
(* the FREE ones, and an instant, first or best fit may take any of them   *)
(* that fits.  Segment structures are counted: vm_nsegfree per arena and   *)
(* the global list.                                                        *)
(*                                                                         *)
(* vm_lock is held for the length of one action; an action ends where the  *)
(* code drops it.  A thread's nested calls are frames on its stack, the    *)
(* innermost one first.                                                    *)
(***************************************************************************)
EXTENDS Integers, FiniteSets, SequencesExt

CONSTANTS
    Threads,        \* the threads that use the arenas
    CONFIGS         \* the configurations they may find, records of:
                    \*   backend   "mmap" or "sbrk" (UMEM_OPTIONS=backend=...)
                    \*   nextfit   vmem_allocator is VM_NEXTFIT
                    \*   layout    the pages the system has, in the order in
                    \*             which mmap() hands them out
                    \*   stock     arena -> segment structures it starts with
                    \*   page      the page "leaf" starts with, its two halves
                    \*             allocated; 0 when it starts with none
                    \*   requests  the allocations threads ask of "leaf"
                    \*   calls     bound on the calls made, over all threads
                    \*   inside    bound on the threads that are in a call
                    \*   faults    bound on the requests the system refuses

VARIABLES
    config,         \* the configuration in use
    segs,           \* arena -> its segment list
    vm_nsegfree,    \* arena -> segment structures on its own free list
    vmem_segfree,   \* segment structures on the global free list
    vmpl_thr,       \* the thread inside vmem_populate() (vmem_nosleep_lock)
    stack,          \* thread -> its frames, the innermost first
    ret,            \* thread -> the value last returned to it, 0 for NULL
    held,           \* allocations of "leaf" in threads' hands
    mapped,         \* pages taken from the system
    committed,      \* pages usable as memory
    sbrk_fails,     \* blocks from sbrk() that could not be added to "top"
    calls,          \* calls still to be made
    faults          \* refusals still to come

vars == <<config, segs, vm_nsegfree, vmem_segfree, vmpl_thr, stack,
          ret, held, mapped, committed, sbrk_fails, calls, faults>>

Arenas == {"top", "heap", "seg", "leaf"}
Nobody == "nobody"

backend == config.backend
nextfit == config.nextfit

\* An address is a number of half quanta of "leaf"; 0 is NULL.  A page is two
\* quanta of "leaf", and the quantum of the three other arenas.
PAGE == 4
vm_quantum == [a \in Arenas |-> IF a = "leaf" THEN 2 ELSE PAGE]
vm_source == [a \in Arenas |-> CASE a = "heap" -> "top"
                                 [] a = "top" -> "none"
                                 [] OTHER -> "heap"]

\* The arenas created with VMC_POPULATOR, in creation order.
vmem_populator == <<"top", "heap", "seg">>

VMEM_SEGS_PER_SPAN_CREATE == 2
VMEM_SEGS_PER_ALLOC_MAX == VMEM_SEGS_PER_SPAN_CREATE + 2
VMEM_POPULATE_RESERVE == 4
VMEM_MINFREE == VMEM_POPULATE_RESERVE + VMEM_SEGS_PER_ALLOC_MAX

Least(a, b) == IF a < b THEN a ELSE b
Most(a, b) == IF a < b THEN b ELSE a
RoundUp(x, align) == ((x + align - 1) \div align) * align

\* The least address at or above x that is phase past a multiple of align.
PhaseUp(x, align, phase) == RoundUp(x - phase, align) + phase

\* The pages of [start, end).
PagesOf(start, end) == (start \div PAGE) .. ((end - 1) \div PAGE)

-----------------------------------------------------------------------------
(* Segment lists.  Position 0 and position Len + 1 are both vm_seg0.       *)

Type(list, i) == IF i \in 1 .. Len(list) THEN list[i].type ELSE "SPAN"
Seg(type, start, end, import) ==
    [type |-> type, start |-> start, end |-> end, import |-> import]
Rotor == Seg("ROTOR", 0, 0, FALSE)
Walker == Seg("WALKER", 0, 0, FALSE)
Of(list, types) == {i \in 1 .. Len(list) : list[i].type \in types}
Where(list, type) == CHOOSE i \in Of(list, {type}) : TRUE

\* The segment list with the one at i replaced by the list new.
Splice(list, i, new) ==
    SubSeq(list, 1, i - 1) \o new \o SubSeq(list, i + 1, Len(list))

\* Where a new span goes: non-imported spans of an arena without a source are
\* kept in address order, all others go last.
SpanPlace(a, list, start, import) ==
    IF import \/ vm_source[a] # "none"
    THEN Len(list) + 1
    ELSE LET above == {i \in Of(list, {"SPAN"}) : list[i].start > start}
         IN IF above = {} THEN Len(list) + 1
            ELSE CHOOSE i \in above : \A j \in above : i <= j

\* vmem_span_create(): a marker and one free segment that fills it.
SpanCreate(a, list, start, end, import) ==
    LET i == SpanPlace(a, list, start, import)
    IN [list |-> InsertAt(InsertAt(list, i, Seg("FREE", start, end, import)),
                          i, Seg("SPAN", start, end, FALSE)),
        at |-> i + 1, used |-> VMEM_SEGS_PER_SPAN_CREATE]

\* P2SAMEHIGHBIT(): both numbers have the same highest bit.
SameHighBit(x, y) == \E k \in 0 .. 10 : {x, y} \subseteq 2 ^ k .. 2 ^ (k + 1) - 1

\* vmem_seg_alloc(): the leftovers on either side become free segments.  The
\* structure that carries the import mark becomes the allocated segment,
\* except where the remainder stays on the same freelist: there it keeps the
\* structure, and the allocated segment gets a new one.
SegAllocExact(a, list, i, addr, size) ==
    LET s == list[i]
        right == IF s.end = addr + size THEN <<>>
                 ELSE <<Seg("FREE", addr + size, s.end, FALSE)>>
    IN [list |-> Splice(list, i,
                     <<Seg("ALLOC", addr, addr + size, s.import)>> \o right),
        at |-> i, used |-> Len(right)]
SegAlloc(a, list, i, addr, size) ==
    LET s == list[i]
        addr_end == addr + RoundUp(size, vm_quantum[a])
        keep == addr = s.start /\ SameHighBit(s.end - s.start, s.end - addr_end)
        left == IF s.start = addr THEN <<>>
                ELSE <<Seg("FREE", s.start, addr, FALSE)>>
        right == IF s.end = addr_end THEN <<>>
                 ELSE <<Seg("FREE", addr_end, s.end, keep /\ s.import)>>
    IN [list |-> Splice(list, i,
                     left \o <<Seg("ALLOC", addr, addr + size,
                                   ~keep /\ s.import)>> \o right),
        at |-> i + Len(left), used |-> Len(left) + Len(right)]

\* Segment i absorbs segment j, which is destroyed; i keeps its import mark.
Absorb(list, i, j) ==
    RemoveAt([list EXCEPT ![i].start = Least(@, list[j].start),
                          ![i].end = Most(@, list[j].end)], j)

\* A free segment that fills an imported span: both structures go, and the
\* range goes back to the source.
NoSpan == <<0, 0>>
GiveBack(a, list, i) ==
    IF /\ list[i].import
       /\ vm_source[a] # "none"
       /\ Type(list, i - 1) = "SPAN"
       /\ Type(list, i + 1) = "SPAN"
    THEN [list |-> RemoveAt(RemoveAt(list, i), i - 1),
          span |-> <<list[i].start, list[i].end>>]
    ELSE [list |-> list, span |-> NoSpan]

\* vmem_xfree() of the allocated segment at addr: coalesce with the next one,
\* then with the previous one, then see whether the whole span is free.
Xfree(a, list, addr) ==
    LET i == CHOOSE k \in Of(list, {"ALLOC"}) : list[k].start = addr
        freed == [list EXCEPT ![i].type = "FREE",
                              ![i].end = RoundUp(@, vm_quantum[a])]
        right == IF Type(freed, i + 1) = "FREE"
                 THEN Absorb(freed, i, i + 1) ELSE freed
        both == IF Type(right, i - 1) = "FREE"
                THEN Absorb(right, i - 1, i) ELSE right
    IN GiveBack(a, both, IF Type(right, i - 1) = "FREE" THEN i - 1 ELSE i)

\* vmem_advance() of the marker at w to just after position k of the list
\* without it (k = -1: the walker leaves).  Its old neighbours coalesce, and
\* the free one among them may now be a whole span.
Advance(a, list, w, k) ==
    LET bare == RemoveAt(list, w)
        moved == IF k = -1 THEN bare ELSE InsertAt(bare, k + 1, list[w])
        Now(i) == IF k >= 0 /\ i > k THEN i + 1 ELSE i
        p == Now(w - 1)
        n == Now(w)
        free == {i \in {p, n} : i # 0 /\ Type(moved, i) = "FREE"}
        v == IF p \in free THEN p ELSE n
    IN IF free = {} THEN [list |-> moved, span |-> NoSpan]
       ELSE GiveBack(a, IF free = {p, n} THEN Absorb(moved, p, n) ELSE moved, v)

\* [addr, endaddr) lies between span s and the one before it.
Between(list, s, addr, endaddr) ==
    LET before == {i \in Of(list, {"SPAN"}) : i < s}
    IN /\ before # {}
       /\ list[s].start = endaddr
       /\ list[Max(before)].end = addr

\* vmem_extend_unlocked(): add [addr, endaddr) by joining the two spans it
\* lies between, by growing the span on one side, or as a new span.  The
\* search for a touching span runs from the last span to the first.  The new
\* space joins a free neighbour where there is one.
Extend(a, list, addr, endaddr) ==
    LET spans == Of(list, {"SPAN"})
        touching == {i \in spans : list[i].end = addr \/ list[i].start = endaddr}
        s == Max(touching)
        before == {i \in spans : i < s}
        after == {i \in spans : i > s} \cup {Len(list) + 1}
        joins == Between(list, s, addr, endaddr)
        free == Seg("FREE", addr, endaddr, FALSE)
    IN CASE touching = {} ->
               SpanCreate(a, list, addr, endaddr, FALSE)
         [] touching # {} /\ joins ->
               LET wide == [list EXCEPT ![Max(before)].end = list[s].end,
                                        ![s] = free]
                   right == IF Type(wide, s + 1) = "FREE"
                            THEN Absorb(wide, s, s + 1) ELSE wide
                   left == Type(right, s - 1) = "FREE"
                   join == IF left THEN Absorb(right, s - 1, s) ELSE right
               IN [list |-> join, at |-> IF left THEN s - 1 ELSE s,
                   used |-> Len(join) - Len(list)]
         [] touching # {} /\ ~joins /\ list[s].end = addr ->
               LET e == Min(after)
                   wide == [list EXCEPT ![s].end = endaddr]
               IN IF Type(list, e - 1) = "FREE"
                  THEN [list |-> [wide EXCEPT ![e - 1].end = endaddr],
                        at |-> e - 1, used |-> 0]
                  ELSE [list |-> InsertAt(wide, e, free), at |-> e, used |-> 1]
         [] OTHER ->
               LET wide == [list EXCEPT ![s].start = addr]
               IN IF Type(list, s + 1) = "FREE"
                  THEN [list |-> [wide EXCEPT ![s + 1].start = addr],
                        at |-> s + 1, used |-> 0]
                  ELSE [list |-> InsertAt(wide, s + 1, free), at |-> s + 1,
                        used |-> 1]

-----------------------------------------------------------------------------
(* Requests, frames and the stack.                                         *)

\* A constrained request; plain ones are vmem_alloc()'s.  A limit of 0 means
\* the caller passed NULL.
Request(size, align, phase, nocross, minaddr, maxaddr) ==
    [size |-> size, align |-> align, phase |-> phase, nocross |-> nocross,
     minaddr |-> minaddr, maxaddr |-> maxaddr, plain |-> FALSE]
Plain(a, size) ==
    [Request(size, vm_quantum[a], 0, 0, 0, 0) EXCEPT !.plain = TRUE]
Unlimited(req) == req.nocross = 0 /\ req.minaddr = 0 /\ req.maxaddr = 0

Crosses(addr, size, nocross) ==
    nocross # 0 /\ addr \div nocross # (addr + size - 1) \div nocross

\* The address vmem_xalloc() takes in a free segment, and whether it fits.
FitAddr(s, req) ==
    LET start == Most(s.start, req.minaddr)
        taddr == PhaseUp(start, req.align, req.phase)
    IN IF Crosses(taddr, req.size, req.nocross)
       THEN taddr + RoundUp(RoundUp(taddr, req.nocross) - taddr, req.align)
       ELSE taddr
Fits(s, req) ==
    LET end == IF req.maxaddr = 0 THEN s.end ELSE Least(s.end, req.maxaddr)
    IN FitAddr(s, req) + req.size <= end
Fitting(list, req) == {i \in Of(list, {"FREE"}) : Fits(list[i], req)}

AllocFrame(a, req) ==
    [op |-> "alloc", arena |-> a, req |-> req, pc |-> "lock", buf |-> 0, len |-> 0,
     nseg |-> 0, i |-> 0, old |-> FALSE]
FreeFrame(a, start, end) ==
    [op |-> "free", arena |-> a, req |-> Plain(a, end - start),
     pc |-> IF a = "heap" /\ backend = "mmap" THEN "decommit" ELSE "free",
     buf |-> start, len |-> end - start, nseg |-> 0, i |-> 0, old |-> FALSE]

Frame(t) == Head(stack[t])
At(t, op, pc) == stack[t] # <<>> /\ Frame(t).op = op /\ Frame(t).pc = pc
Becomes(t, f) == [stack EXCEPT ![t] = <<f>> \o Tail(@)]
Goto(t, pc) == Becomes(t, [Frame(t) EXCEPT !.pc = pc])
Calls(t, f, inner) == [stack EXCEPT ![t] = <<inner, f>> \o Tail(@)]

\* Return v to the frame below; the last return hands v to the thread.
Return(t, v) ==
    /\ stack' = [stack EXCEPT ![t] = Tail(@)]
    /\ ret' = [ret EXCEPT ![t] = IF Len(stack[t]) = 1 THEN 0 ELSE v]
    /\ held' = IF Len(stack[t]) = 1 /\ v # 0
               THEN held \cup {[addr |-> v, req |-> Frame(t).req]} ELSE held

\* The segment lists after two allocations from "leaf", the second of which
\* left the rotor behind it.
Primed(start) ==
    LET end == start + PAGE
        mid == start + vm_quantum["leaf"]
        whole == <<Seg("SPAN", start, end, FALSE)>>
        outer(import) == <<Rotor>> \o whole \o <<Seg("ALLOC", start, end, import)>>
    IN [a \in Arenas |->
           CASE a = "top" -> outer(FALSE)
             [] a = "heap" -> outer(TRUE)
             [] a = "seg" -> <<Rotor>>
             [] a = "leaf" -> whole \o <<Seg("ALLOC", start, mid, TRUE),
                                        Seg("ALLOC", mid, end, FALSE), Rotor>>]

Init ==
    /\ config \in CONFIGS
    /\ segs = IF config.page = 0 THEN [a \in Arenas |-> <<Rotor>>]
              ELSE Primed(config.page * PAGE)
    /\ vm_nsegfree = config.stock
    /\ vmem_segfree = 0
    /\ vmpl_thr = Nobody
    /\ stack = [t \in Threads |-> <<>>]
    /\ ret = [t \in Threads |-> 0]
    /\ held = IF config.page = 0 THEN {}
              ELSE {[addr |-> config.page * PAGE + k, req |-> Plain("leaf", 2)] :
                       k \in {0, vm_quantum["leaf"]}}
    /\ mapped = {config.page} \ {0}
    /\ committed = mapped
    /\ sbrk_fails = {}
    /\ calls = config.calls
    /\ faults = config.faults

-----------------------------------------------------------------------------
(* Clients.                                                                *)

\* t is outside the library and may call it.
MayCall(t) ==
    /\ stack[t] = <<>>
    /\ Cardinality({u \in Threads : stack[u] # <<>>}) < config.inside

CallAlloc(t) ==
    /\ MayCall(t)
    /\ calls > 0
    /\ calls' = calls - 1
    /\ \E req \in config.requests :
          stack' = [stack EXCEPT ![t] = <<AllocFrame("leaf", req)>>]
    /\ UNCHANGED <<config, segs, vm_nsegfree, vmem_segfree, vmpl_thr,
                   ret, held, mapped, committed, sbrk_fails, faults>>

CallFree(t) ==
    /\ MayCall(t)
    /\ \E h \in held :
          /\ held' = held \ {h}
          /\ stack' = [stack EXCEPT ![t] =
                          <<FreeFrame("leaf", h.addr, h.addr + h.req.size)>>]
    /\ UNCHANGED <<config, segs, vm_nsegfree, vmem_segfree, vmpl_thr,
                   ret, mapped, committed, sbrk_fails, calls, faults>>

-----------------------------------------------------------------------------
(* vmem_populate().  At "lock" and "extend" the frame is about to take     *)
(* vm_lock; at "own" it holds a batch of nseg structures and does so too.  *)

\* What the arena gets from the global list, or keeps of the batch.
Taken(t) ==
    LET f == Frame(t)
        want == Most(0, VMEM_MINFREE - vm_nsegfree[f.arena])
    IN IF f.pc = "own" THEN want ELSE Least(vmem_segfree, want)

\* The arena's and the global count once vmem_populate() has returned 1.
Stock(t) == vm_nsegfree[Frame(t).arena] + Taken(t)
Spare(t) == vmem_segfree + Frame(t).nseg - Taken(t)

\* A thread inside vmem_populate() taps the reserve.
EnoughForAll(t) == Stock(t) >= VMEM_MINFREE \/ vmpl_thr # Nobody
Enough(t) == Stock(t) >= VMEM_MINFREE \/ vmpl_thr = t

Ready(t, buf) ==
    /\ stack[t] # <<>>
    /\ Frame(t).op = "alloc"
    /\ Frame(t).pc \in {"lock", "extend", "own"}
    /\ (Frame(t).buf # 0) = buf
    /\ Enough(t)

Starved(t) ==
    /\ At(t, "alloc", "lock") \/ At(t, "alloc", "extend")
    /\ ~Enough(t)
    /\ vm_nsegfree' = [vm_nsegfree EXCEPT ![Frame(t).arena] = Stock(t)]
    /\ vmem_segfree' = Spare(t)
    /\ stack' = Goto(t, "populate")
    /\ UNCHANGED <<config, segs, vmpl_thr, ret, held, mapped,
                   committed, sbrk_fails, calls, faults>>

PopulateBegin(t) ==
    /\ At(t, "alloc", "populate")
    /\ vmpl_thr = Nobody
    /\ vmpl_thr' = t
    /\ stack' = Calls(t, [Frame(t) EXCEPT !.pc = "populating"],
                      AllocFrame("seg", Plain("seg", PAGE)))
    /\ UNCHANGED <<config, segs, vm_nsegfree, vmem_segfree, ret,
                   held, mapped, committed, sbrk_fails, calls, faults>>

\* vmem_alloc() then tries vmem_xalloc(), which populates once more; the
\* other callers fail, and a block that "top" could not take in goes back to
\* the system (mmap) or onto sbrk_fails.
PopulateFail(t) ==
    LET f == Frame(t)
    IN /\ At(t, "alloc", "populating")
       /\ ret[t] = 0
       /\ vmpl_thr' = Nobody
       /\ IF f.buf # 0
          THEN /\ mapped' = IF backend = "mmap"
                            THEN mapped \ PagesOf(f.buf, f.buf + f.len)
                            ELSE mapped
               /\ sbrk_fails' = IF backend = "sbrk"
                                THEN sbrk_fails \cup {<<f.buf, f.len>>}
                                ELSE sbrk_fails
               /\ IF f.old
                  THEN /\ stack' = Becomes(t, [f EXCEPT !.pc = "grow", !.buf = 0,
                                                        !.len = 0, !.old = FALSE])
                       /\ UNCHANGED <<ret, held>>
                  ELSE Return(t, 0)
          ELSE /\ UNCHANGED <<mapped, sbrk_fails>>
               /\ IF f.req.plain /\ ~nextfit
                  THEN /\ stack' = Becomes(t, [f EXCEPT !.pc = "lock",
                                                        !.req.plain = FALSE])
                       /\ UNCHANGED <<ret, held>>
                  ELSE Return(t, 0)
       /\ UNCHANGED <<config, segs, vm_nsegfree, vmem_segfree,
                      committed, calls, faults>>

\* A batch holds what the caller and every populator may need.
Batch == VMEM_MINFREE + Len(vmem_populator) * VMEM_POPULATE_RESERVE

\* Bring the next populator back up to its reserve; after the last one the
\* lock goes and the caller takes its own.
Restock(t) ==
    LET f == Frame(t)
        a == vmem_populator[f.i + 1]
        more == Most(0, VMEM_POPULATE_RESERVE - vm_nsegfree[a])
        nseg == (IF f.i = 0 THEN Batch ELSE f.nseg) - more
        last == f.i + 1 = Len(vmem_populator)
    IN /\ At(t, "alloc", "populating")
       /\ ret[t] # 0
       /\ vm_nsegfree' = [vm_nsegfree EXCEPT ![a] = @ + more]
       /\ stack' = Becomes(t, [f EXCEPT !.nseg = nseg,
                                        !.i = IF last THEN 0 ELSE @ + 1,
                                        !.pc = IF last THEN "own" ELSE @])
       /\ vmpl_thr' = IF last THEN Nobody ELSE vmpl_thr
       /\ ret' = IF last THEN [ret EXCEPT ![t] = 0] ELSE ret
       /\ UNCHANGED <<config, segs, vmem_segfree, held, mapped,
                      committed, sbrk_fails, calls, faults>>

-----------------------------------------------------------------------------
(* vmem_alloc() and vmem_xalloc().                                         *)

\* The counts after a step that used n structures of the frame's arena.
Spend(t, n) ==
    /\ vm_nsegfree' = [vm_nsegfree EXCEPT ![Frame(t).arena] = Stock(t) - n]
    /\ vmem_segfree' = Spare(t)

\* The arena's allocation succeeded.  Memory that "heap" hands out through
\* vmem_mmap_alloc() is committed first, which touches nothing but its own
\* pages, or the system refuses.
Deliver(t, addr) ==
    LET f == Frame(t)
    IN IF f.arena = "heap" /\ backend = "mmap"
       THEN \/ /\ committed' = committed \cup PagesOf(addr, addr + f.req.size)
               /\ Return(t, addr)
               /\ UNCHANGED faults
            \/ /\ faults > 0
               /\ faults' = faults - 1
               /\ stack' = Becomes(t, [f EXCEPT !.pc = "refused", !.buf = addr])
               /\ UNCHANGED <<ret, held, committed>>
       ELSE Return(t, addr) /\ UNCHANGED <<committed, faults>>

\* Allocate a range of segment i, next-fit ones left to NextFit.
Fit(t) ==
    LET f == Frame(t)
        list == segs[f.arena]
    IN /\ Ready(t, FALSE)
       /\ ~(nextfit /\ f.req.plain)
       /\ \E i \in Fitting(list, f.req) :
             LET addr == FitAddr(list[i], f.req)
                 r == SegAlloc(f.arena, list, i, addr, f.req.size)
             IN /\ segs' = [segs EXCEPT ![f.arena] = r.list]
                /\ Spend(t, r.used)
                /\ Deliver(t, addr)
       /\ UNCHANGED <<config, vmpl_thr, mapped, sbrk_fails, calls>>

\* What an import asks of the source, and the structures set aside for it.
ImportSize(f) ==
    RoundUp(f.req.size + f.req.phase,
            Most(f.req.align, vm_quantum[vm_source[f.arena]]))
Reservation(f) ==
    IF ImportSize(f) = f.req.size THEN VMEM_SEGS_PER_SPAN_CREATE
    ELSE VMEM_SEGS_PER_ALLOC_MAX

\* Nothing fits: import from the source, unless the request is limited.
\* "top" has no source; vmem_mmap_top_alloc() or vmem_sbrk_alloc() goes on.
Miss(t) ==
    LET f == Frame(t)
    IN /\ Ready(t, FALSE)
       /\ ~(nextfit /\ f.req.plain)
       /\ Fitting(segs[f.arena], f.req) = {}
       /\ CASE f.arena = "top" ->
                 /\ Spend(t, 0)
                 /\ stack' = Becomes(t, [f EXCEPT !.nseg = 0,
                                 !.pc = IF backend = "sbrk" THEN "tryfail"
                                        ELSE "grow"])
                 /\ UNCHANGED <<ret, held>>
            [] f.arena # "top" /\ Unlimited(f.req) ->
                 /\ Spend(t, Reservation(f))
                 /\ stack' = Calls(t, [f EXCEPT !.pc = "importing", !.nseg = 0],
                                   AllocFrame(vm_source[f.arena],
                                        Plain(vm_source[f.arena], ImportSize(f))))
                 /\ UNCHANGED <<ret, held>>
            [] OTHER -> Spend(t, 0) /\ Return(t, 0)
       /\ UNCHANGED <<config, segs, vmpl_thr, mapped, committed,
                      sbrk_fails, calls, faults>>

\* Back from the source: claim the reservation, make the span, allocate.
Imported(t) ==
    LET f == Frame(t)
        a == f.arena
        span == SpanCreate(a, segs[a], ret[t], ret[t] + ImportSize(f), TRUE)
        addr == PhaseUp(ret[t], f.req.align, f.req.phase)
        r == SegAlloc(a, span.list, span.at, addr, f.req.size)
    IN /\ At(t, "alloc", "importing")
       /\ IF ret[t] = 0
          THEN /\ vm_nsegfree' = [vm_nsegfree EXCEPT ![a] = @ + Reservation(f)]
               /\ Return(t, 0)
               /\ UNCHANGED <<segs, committed, faults>>
          ELSE /\ vm_nsegfree' = [vm_nsegfree EXCEPT
                                    ![a] = @ + Reservation(f) - span.used - r.used]
               /\ segs' = [segs EXCEPT ![a] = r.list]
               /\ Deliver(t, addr)
       /\ UNCHANGED <<config, vmem_segfree, vmpl_thr, mapped,
                      sbrk_fails, calls>>

-----------------------------------------------------------------------------
(* vmem_nextfit_alloc().                                                   *)

\* Allocate the start of segment i and put the rotor right after it, the
\* arena owning n structures.  This may free a span, with vm_lock dropped.
TakeNext(t, list, n, i) ==
    LET f == Frame(t)
        a == f.arena
        addr == list[i].start
        r == SegAlloc(a, list, i, addr, f.req.size)
        w == Where(r.list, "ROTOR")
        m == Advance(a, r.list, w, IF w < r.at THEN r.at - 1 ELSE r.at)
    IN /\ segs' = [segs EXCEPT ![a] = m.list]
       /\ vm_nsegfree' = [vm_nsegfree EXCEPT
                             ![a] = n - (Len(m.list) - Len(list))]
       /\ IF m.span = NoSpan
          THEN Deliver(t, addr)
          ELSE /\ stack' = Calls(t, [f EXCEPT !.pc = "rotated", !.buf = addr],
                                 FreeFrame(vm_source[a], m.span[1], m.span[2]))
               /\ UNCHANGED <<ret, held, committed, faults>>

\* The first free segment at or after the rotor, round the list, that is
\* large enough; 0 when there is none.
Search(list, size) ==
    LET w == Where(list, "ROTOR")
        Far(i) == IF i > w THEN i - w ELSE Len(list) + i - w
        big == {i \in Of(list, {"FREE"}) : list[i].end - list[i].start >= size}
    IN IF big = {} THEN 0
       ELSE CHOOSE i \in big : \A j \in big : Far(i) <= Far(j)

NextFit(t) ==
    LET f == Frame(t)
        list == segs[f.arena]
    IN /\ Ready(t, FALSE)
       /\ nextfit /\ f.req.plain
       /\ Search(list, f.req.size) # 0
       /\ TakeNext(t, list, Stock(t), Search(list, f.req.size))
       /\ vmem_segfree' = Spare(t)
       /\ UNCHANGED <<config, vmpl_thr, mapped, sbrk_fails, calls>>

\* After a full circle the rotor has moved on by one; what is behind it may
\* have become large enough.  If not, vmem_xalloc() handles the request.
Behind(t, list, n) ==
    LET f == Frame(t)
        p == Where(list, "ROTOR") - 1
    IN IF /\ p # 0
          /\ Type(list, p) = "FREE"
          /\ list[p].end - list[p].start >= f.req.size
       THEN TakeNext(t, list, n, p)
       ELSE /\ segs' = [segs EXCEPT ![f.arena] = list]
            /\ vm_nsegfree' = [vm_nsegfree EXCEPT ![f.arena] = n]
            /\ stack' = Becomes(t, [f EXCEPT !.pc = "lock", !.nseg = 0,
                                             !.req.plain = FALSE])
            /\ UNCHANGED <<ret, held, committed, faults>>

FullCircle(t) ==
    LET f == Frame(t)
        list == segs[f.arena]
        w == Where(list, "ROTOR")
        m == Advance(f.arena, list, w, IF w = Len(list) THEN 0 ELSE w)
        n == Stock(t) + Len(list) - Len(m.list)
    IN /\ Ready(t, FALSE)
       /\ nextfit /\ f.req.plain
       /\ Search(list, f.req.size) = 0
       /\ vmem_segfree' = Spare(t)
       /\ IF m.span = NoSpan
          THEN Behind(t, m.list, n)
          ELSE /\ segs' = [segs EXCEPT ![f.arena] = m.list]
               /\ vm_nsegfree' = [vm_nsegfree EXCEPT ![f.arena] = n]
               /\ stack' = Calls(t, [f EXCEPT !.pc = "circled", !.nseg = 0],
                                 FreeFrame(vm_source[f.arena], m.span[1],
                                           m.span[2]))
               /\ UNCHANGED <<ret, held, committed, faults>>
       /\ UNCHANGED <<config, vmpl_thr, mapped, sbrk_fails, calls>>

Circled(t) ==
    /\ At(t, "alloc", "circled")
    /\ Behind(t, segs[Frame(t).arena], vm_nsegfree[Frame(t).arena])
    /\ UNCHANGED <<config, vmem_segfree, vmpl_thr, mapped, sbrk_fails,
                   calls>>

Rotated(t) ==
    /\ At(t, "alloc", "rotated")
    /\ Deliver(t, Frame(t).buf)
    /\ UNCHANGED <<config, segs, vm_nsegfree, vmem_segfree, vmpl_thr,
                   mapped, sbrk_fails, calls>>

-----------------------------------------------------------------------------
(* The backends: vmem_mmap_alloc(), vmem_mmap_top_alloc(),                 *)
(* vmem_sbrk_alloc() and _vmem_extend_alloc().                             *)

\* The system refuses: free the range again and fail.
CommitFail(t) ==
    LET f == Frame(t)
        r == Xfree("heap", segs["heap"], f.buf)
    IN /\ At(t, "alloc", "refused")
       /\ segs' = [segs EXCEPT !["heap"] = r.list]
       /\ vm_nsegfree' = [vm_nsegfree EXCEPT
                             !["heap"] = @ + Len(segs["heap"]) - Len(r.list)]
       /\ IF r.span = NoSpan
          THEN stack' = Becomes(t, [f EXCEPT !.pc = "failed", !.buf = 0])
          ELSE stack' = Calls(t, [f EXCEPT !.pc = "failed", !.buf = 0],
                              FreeFrame("top", r.span[1], r.span[2]))
       /\ UNCHANGED <<config, vmem_segfree, vmpl_thr, ret, held,
                      mapped, committed, sbrk_fails, calls, faults>>

Failed(t) ==
    /\ At(t, "alloc", "failed")
    /\ Return(t, 0)
    /\ UNCHANGED <<config, segs, vm_nsegfree, vmem_segfree, vmpl_thr,
                   mapped, committed, sbrk_fails, calls, faults>>

\* vmem_sbrk_tryfail(): take a large enough block that failed earlier.
TryFail(t) ==
    LET f == Frame(t)
        big == {b \in sbrk_fails : b[2] >= f.req.size}
    IN /\ At(t, "alloc", "tryfail")
       /\ IF big # {}
          THEN \E b \in big :
                  /\ sbrk_fails' = sbrk_fails \ {b}
                  /\ stack' = Becomes(t, [f EXCEPT !.pc = "extend", !.old = TRUE,
                                                   !.buf = b[1], !.len = b[2]])
          ELSE /\ stack' = Goto(t, "grow")
               /\ UNCHANGED sbrk_fails
       /\ UNCHANGED <<config, segs, vm_nsegfree, vmem_segfree,
                      vmpl_thr, ret, held, mapped, committed, calls, faults>>

\* New address space: anywhere from mmap(), above all earlier blocks and at
\* least SBRK_MINALLOC of it from sbrk().
SBRK_MINALLOC == 2 * PAGE
Room(size) ==
    SelectSeq(config.layout,
        LAMBDA p : LET new == PagesOf(p * PAGE, p * PAGE + size)
                   IN /\ new \subseteq Range(config.layout) \ mapped
                      /\ backend = "sbrk" => \A m \in mapped : m < p)

Grow(t) ==
    LET f == Frame(t)
        size == IF backend = "sbrk" THEN Most(f.req.size, SBRK_MINALLOC)
                ELSE f.req.size
        room == Room(size)
    IN /\ At(t, "alloc", "grow")
       /\ \/ /\ room # <<>>
             /\ LET buf == Head(room) * PAGE
                IN /\ mapped' = mapped \cup PagesOf(buf, buf + size)
                   /\ stack' = Becomes(t, [f EXCEPT !.pc = "extend", !.buf = buf,
                                                    !.len = size])
             /\ UNCHANGED <<ret, held, faults>>
          \/ /\ room = <<>> \/ faults > 0
             /\ faults' = IF room = <<>> THEN faults ELSE faults - 1
             /\ Return(t, 0)
             /\ UNCHANGED mapped
       /\ UNCHANGED <<config, segs, vm_nsegfree, vmem_segfree,
                      vmpl_thr, committed, sbrk_fails, calls>>

ExtendAlloc(t) ==
    LET f == Frame(t)
        x == Extend("top", segs["top"], f.buf, f.buf + f.len)
        r == SegAlloc("top", x.list, x.at, x.list[x.at].start, f.req.size)
    IN /\ Ready(t, TRUE)
       /\ segs' = [segs EXCEPT !["top"] = r.list]
       /\ Spend(t, x.used + r.used)
       /\ Return(t, x.list[x.at].start)
       /\ UNCHANGED <<config, vmpl_thr, mapped, committed,
                      sbrk_fails, calls, faults>>

-----------------------------------------------------------------------------
(* vmem_free() and vmem_walk().                                            *)

Decommit(t) ==
    LET f == Frame(t)
    IN /\ At(t, "free", "decommit")
       /\ committed' = committed \ PagesOf(f.buf, f.buf + f.len)
       /\ stack' = Goto(t, "free")
       /\ UNCHANGED <<config, segs, vm_nsegfree, vmem_segfree,
                      vmpl_thr, ret, held, mapped, sbrk_fails, calls, faults>>

\* A wholly free span goes on to the source, after vm_lock is dropped.
Free(t) ==
    LET f == Frame(t)
        r == Xfree(f.arena, segs[f.arena], f.buf)
    IN /\ At(t, "free", "free")
       /\ segs' = [segs EXCEPT ![f.arena] = r.list]
       /\ vm_nsegfree' = [vm_nsegfree EXCEPT
                             ![f.arena] = @ + Len(segs[f.arena]) - Len(r.list)]
       /\ stack' = IF r.span = NoSpan THEN [stack EXCEPT ![t] = Tail(@)]
                   ELSE Becomes(t, FreeFrame(vm_source[f.arena], r.span[1],
                                             r.span[2]))
       /\ UNCHANGED <<config, vmem_segfree, vmpl_thr, ret, held,
                      mapped, committed, sbrk_fails, calls, faults>>

\* A reentrant walk over the allocated segments of "leaf", one at a time: it
\* drops vm_lock at every segment and leaves a walker behind to find its place.
WalkBegin(t) ==
    /\ MayCall(t)
    /\ calls > 0
    /\ Of(segs["leaf"], {"WALKER"}) = {}
    /\ calls' = calls - 1
    /\ segs' = [segs EXCEPT !["leaf"] = <<Walker>> \o @]
    /\ stack' = [stack EXCEPT ![t] =
                    <<[AllocFrame("leaf", Plain("leaf", 0)) EXCEPT !.op = "walk"]>>]
    /\ UNCHANGED <<config, vm_nsegfree, vmem_segfree, vmpl_thr, ret,
                   held, mapped, committed, sbrk_fails, faults>>

WalkStep(t) ==
    LET list == segs["leaf"]
        w == Where(list, "WALKER")
        ahead == {i \in Of(list, {"ALLOC"}) : i > w}
        m == Advance("leaf", list, w, IF ahead = {} THEN -1 ELSE Min(ahead) - 1)
        rest == IF ahead = {} THEN Tail(stack[t]) ELSE stack[t]
    IN /\ At(t, "walk", "lock")
       /\ segs' = [segs EXCEPT !["leaf"] = m.list]
       /\ vm_nsegfree' = [vm_nsegfree EXCEPT
             !["leaf"] = @ + Len(list) - Len(m.list) - (IF ahead = {} THEN 1 ELSE 0)]
       /\ stack' = [stack EXCEPT ![t] =
                       IF m.span = NoSpan THEN rest
                       ELSE <<FreeFrame("heap", m.span[1], m.span[2])>> \o rest]
       /\ UNCHANGED <<config, vmem_segfree, vmpl_thr, ret, held,
                      mapped, committed, sbrk_fails, calls, faults>>

Step(t) ==
    \/ Starved(t) \/ PopulateBegin(t) \/ PopulateFail(t) \/ Restock(t)
    \/ Fit(t) \/ Miss(t) \/ Imported(t)
    \/ NextFit(t) \/ FullCircle(t) \/ Circled(t) \/ Rotated(t)
    \/ CommitFail(t) \/ Failed(t)
    \/ TryFail(t) \/ Grow(t) \/ ExtendAlloc(t)
    \/ Decommit(t) \/ Free(t) \/ WalkStep(t)

\* All calls made and everything given back.
Finished ==
    /\ calls = 0
    /\ held = {}
    /\ \A t \in Threads : stack[t] = <<>>
    /\ UNCHANGED vars

Next ==
    \/ \E t \in Threads :
          CallAlloc(t) \/ CallFree(t) \/ WalkBegin(t) \/ Step(t)
    \/ Finished

Spec == Init /\ [][Next]_vars

-----------------------------------------------------------------------------
Quiet == \A t \in Threads : stack[t] = <<>>
Ranges(a, type) ==
    {<<segs[a][i].start, segs[a][i].end>> : i \in Of(segs[a], {type})}
Covered(ranges) == UNION {PagesOf(r[1], r[2]) : r \in ranges}

\* The segments behind each span marker tile the span exactly, so two
\* allocations of an arena never overlap: vmem_seg_alloc() splitting, the
\* coalescing of vmem_xfree() and vmem_advance(), and the joins of
\* vmem_extend_unlocked() keep every byte of a span in one segment.
Tiled ==
    \A a \in Arenas :
        LET l == SelectSeq(segs[a], LAMBDA s : s.type \notin {"ROTOR", "WALKER"})
            End(i) == RoundUp(l[i].end, vm_quantum[a])
            span(i) == l[Max({j \in 1 .. i : l[j].type = "SPAN"})]
        IN \A i \in 1 .. Len(l) :
              IF l[i].type = "SPAN"
              THEN Type(l, i + 1) # "SPAN" /\ l[i + 1].start = l[i].start
              ELSE /\ l[i].start < l[i].end
                   /\ End(i) = IF Type(l, i + 1) = "SPAN" THEN span(i).end
                               ELSE l[i + 1].start

\* Every span an arena imported is an allocation of its source with the same
\* bounds, no two arenas share one, and once no call is under way nothing is
\* allocated that nobody uses: no span, page or failed block is lost on the
\* failure paths of vmem_xalloc(), vmem_mmap_alloc() and the backends.
Backed ==
    LET below == Ranges("leaf", "SPAN") \cup Ranges("seg", "SPAN")
    IN /\ Ranges("heap", "SPAN") \subseteq Ranges("top", "ALLOC")
       /\ below \subseteq Ranges("heap", "ALLOC")
       /\ Ranges("leaf", "SPAN") \cap Ranges("seg", "SPAN") = {}
       /\ Quiet => /\ Ranges("heap", "SPAN") = Ranges("top", "ALLOC")
                   /\ below = Ranges("heap", "ALLOC")
                   /\ mapped = Covered(Ranges("top", "SPAN") \cup
                                       {<<b[1], b[1] + b[2]>> : b \in sbrk_fails})

\* An allocation in a caller's hands is committed memory: vmem_mmap_free()
\* takes the pages away before the range can be handed out again.
LiveCommitted ==
    backend = "mmap" =>
        \A h \in held : PagesOf(h.addr, h.addr + h.req.size) \subseteq committed


\* A constrained allocation is where its caller asked for it: in phase, clear
\* of the boundary, inside the limits, and a segment of the arena's own.
Honoured ==
    \A h \in held :
        /\ (h.addr - h.req.phase) % h.req.align = 0
        /\ ~Crosses(h.addr, h.req.size, h.req.nocross)
        /\ h.addr >= h.req.minaddr
        /\ h.req.maxaddr # 0 => h.addr + h.req.size <= h.req.maxaddr
        /\ <<h.addr, h.addr + h.req.size>> \in Ranges("leaf", "ALLOC")

\* Free space does not stay in pieces: two free segments meet only where the
\* rotor or a walker stands between them, and the spans of "top" that touch
\* are joined.
Coalesced ==
    /\ \A a \in Arenas : \A i \in Of(segs[a], {"FREE"}) :
          Type(segs[a], i + 1) # "FREE"
    /\ \A r, q \in Ranges("top", "SPAN") : r[2] # q[1]

\* The segments of an arena are its spans cut up exactly, with no two free
\* neighbours left apart, and each caller has the segment it asked for.
SegmentsSound == Tiled /\ Coalesced /\ Honoured

\* The reserve holds: no step finds a free list short of the structures it
\* takes, whoever imports or populates meanwhile, and a batch is large enough
\* for the caller after the populators are restocked.
SegsSuffice ==
    /\ \A a \in Arenas : vm_nsegfree[a] >= 0
    /\ \A t \in Threads :
          At(t, "alloc", "own") => Frame(t).nseg >= VMEM_MINFREE

\* "[addr, addr + size) is a subset": what vmem_xalloc() hands out lies in the
\* spans of its arena.
InsideSpan ==
    \A h \in held :
        PagesOf(h.addr, h.addr + h.req.size) \subseteq Covered(Ranges("leaf", "SPAN"))

\* "If the entire span is free, return it to the source": at rest an imported
\* span is in use, or the rotor or a walker pins it.
SpansReturned ==
    Quiet =>
        \A a \in {"heap", "leaf"} : \A i \in Of(segs[a], {"FREE"}) :
            ~(Type(segs[a], i - 1) = "SPAN" /\ Type(segs[a], i + 1) = "SPAN")

=============================================================================
