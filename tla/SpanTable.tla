------------------------------ MODULE SpanTable ------------------------------
(***************************************************************************)
(* The ownership test of free(): the hull of the heap, the exact table of  *)
(* its spans behind a seqlock (vmem.c), and the lock-free lookup with a    *)
(* per-thread cache (span_owns_cached() in malloc.c).                      *)
(*                                                                         *)
(* A span is one page.  The writer holds vm_lock of the heap and stores    *)
(* one word, or one table entry, at a time; a reader loads one at a time.  *)
(* Threads keep their calls as frames on a stack, the innermost first.     *)
(* Loads and stores take effect in program order.                          *)
(***************************************************************************)
EXTENDS Integers, SequencesExt

CONSTANTS
    Threads,
    Pages,              \* the pages of the address space, 1 .. some number
    Nobody,             \* no thread
    VMEM_SPAN_MAX       \* entries of the table

VARIABLES
    stack,              \* thread -> its frames
    ret,                \* thread -> the value last returned to a frame
    vmem_heap_lo, vmem_heap_hi,     \* the hull, the latter exclusive
    vmem_span_tab,      \* the table, sorted by page
    vmem_span_cnt,      \* its live entries
    vmem_span_seq,      \* the seqlock, odd while the table changes
    vmem_span_saturated,
    vm_lock,            \* the thread that holds the heap's lock, or Nobody
    span_cache          \* thread -> the last span it found, and its generation

spanVars == <<vmem_heap_lo, vmem_heap_hi, vmem_span_tab, vmem_span_cnt,
              vmem_span_seq, vmem_span_saturated, vm_lock, span_cache>>

NoCache == [page |-> 0, gen |-> 0]

-----------------------------------------------------------------------------
(* Frames.                                                                 *)

FrameOf(op, ptr) ==
    [op |-> op, pc |-> "start", ptr |-> ptr, free |-> FALSE, tries |-> 0,
     gen |-> 0, s0 |-> 0, blo |-> 0, bhi |-> 0]

Frame(t) == Head(stack[t])
In(t, ops) == stack[t] # <<>> /\ Frame(t).op \in ops
At(t, op, pc) == stack[t] # <<>> /\ Frame(t).op = op /\ Frame(t).pc = pc
Becomes(t, f) == [stack EXCEPT ![t] = <<f>> \o Tail(@)]
Goto(t, pc) == Becomes(t, [Frame(t) EXCEPT !.pc = pc])
Call(t, pc, op, ptr) ==
    [stack EXCEPT ![t] = <<FrameOf(op, ptr), [Head(@) EXCEPT !.pc = pc]>> \o Tail(@)]
Return(t, v) ==
    /\ stack' = [stack EXCEPT ![t] = Tail(@)]
    /\ ret' = [ret EXCEPT ![t] = IF Len(stack[t]) = 1 THEN 0 ELSE v]

SpanInit ==
    /\ vmem_heap_lo = 99
    /\ vmem_heap_hi = 0
    /\ vmem_span_tab = [i \in 1 .. VMEM_SPAN_MAX |-> 0]
    /\ vmem_span_cnt = 0
    /\ vmem_span_seq = 0
    /\ vmem_span_saturated = FALSE
    /\ vm_lock = Nobody
    /\ span_cache = [t \in Threads |-> NoCache]

-----------------------------------------------------------------------------
(* vmem_span_create() and vmem_span_destroy() of the heap's own spans.  The *)
(* frame holds vm_lock from its start; blo is the entry the writer is at.   *)

\* Publish the bounds first, the lower one before the upper one.
InsertHull(t) ==
    /\ \/ /\ At(t, "insert", "start")
          /\ vmem_heap_lo' = Min({vmem_heap_lo, Frame(t).ptr})
          /\ stack' = Goto(t, "hi")
          /\ UNCHANGED vmem_heap_hi
       \/ /\ At(t, "insert", "hi")
          /\ vmem_heap_hi' = Max({vmem_heap_hi, Frame(t).ptr + 1})
          /\ stack' = Goto(t, "table")
          /\ UNCHANGED vmem_heap_lo
    /\ UNCHANGED <<ret, vmem_span_tab, vmem_span_cnt, vmem_span_seq,
                   vmem_span_saturated, vm_lock, span_cache>>

Live == 1 .. vmem_span_cnt

\* vmem_span_table_insert(): a full table is marked saturated for good;
\* otherwise the writer makes the generation odd.
InsertBegin(t) ==
    LET above == {i \in Live : vmem_span_tab[i] > Frame(t).ptr}
    IN /\ At(t, "insert", "table")
       /\ IF vmem_span_cnt >= VMEM_SPAN_MAX
          THEN /\ vmem_span_saturated' = TRUE
               /\ stack' = [stack EXCEPT ![t] = Tail(@)]
               /\ UNCHANGED vmem_span_seq
          ELSE /\ vmem_span_seq' = vmem_span_seq + 1
               /\ stack' = Becomes(t, [Frame(t) EXCEPT !.pc = "shift",
                              !.bhi = vmem_span_cnt + 1,
                              !.blo = IF above = {} THEN vmem_span_cnt + 1
                                      ELSE Min(above)])
               /\ UNCHANGED vmem_span_saturated
       /\ UNCHANGED <<ret, vmem_heap_lo, vmem_heap_hi, vmem_span_tab,
                      vmem_span_cnt, vm_lock, span_cache>>

\* Move the entries from blo up by one, the last one first, then store.
InsertShift(t) ==
    LET f == Frame(t)
    IN /\ At(t, "insert", "shift")
       /\ vmem_span_tab' = [vmem_span_tab EXCEPT ![f.bhi] =
                               IF f.bhi > f.blo THEN vmem_span_tab[f.bhi - 1]
                               ELSE f.ptr]
       /\ stack' = IF f.bhi > f.blo
                   THEN Becomes(t, [f EXCEPT !.bhi = @ - 1])
                   ELSE Becomes(t, [f EXCEPT !.pc = "count", !.blo = 0, !.bhi = 0])
       /\ UNCHANGED <<ret, vmem_heap_lo, vmem_heap_hi, vmem_span_cnt,
                      vmem_span_seq, vmem_span_saturated, vm_lock, span_cache>>

\* vmem_span_table_remove(): a span the table lost is not found.
RemoveBegin(t) ==
    LET here == {i \in Live : vmem_span_tab[i] = Frame(t).ptr}
    IN /\ At(t, "remove", "start")
       /\ IF here = {}
          THEN /\ stack' = [stack EXCEPT ![t] = Tail(@)]
               /\ UNCHANGED vmem_span_seq
          ELSE /\ vmem_span_seq' = vmem_span_seq + 1
               /\ stack' = Becomes(t, [Frame(t) EXCEPT !.pc = "shift",
                                                       !.blo = Min(here)])
       /\ UNCHANGED <<ret, vmem_heap_lo, vmem_heap_hi, vmem_span_tab,
                      vmem_span_cnt, vmem_span_saturated, vm_lock, span_cache>>

\* Move the entries above blo down by one, the lowest first.
RemoveShift(t) ==
    LET f == Frame(t)
    IN /\ At(t, "remove", "shift")
       /\ IF f.blo < vmem_span_cnt
          THEN /\ vmem_span_tab' = [vmem_span_tab EXCEPT
                                       ![f.blo] = vmem_span_tab[f.blo + 1]]
               /\ stack' = Becomes(t, [f EXCEPT !.blo = @ + 1])
          ELSE /\ stack' = Becomes(t, [f EXCEPT !.pc = "count", !.blo = 0])
               /\ UNCHANGED vmem_span_tab
       /\ UNCHANGED <<ret, vmem_heap_lo, vmem_heap_hi, vmem_span_cnt,
                      vmem_span_seq, vmem_span_saturated, vm_lock, span_cache>>

\* Store the count, then make the generation even again.
WriteEnd(t) ==
    /\ \/ /\ At(t, "insert", "count") \/ At(t, "remove", "count")
          /\ vmem_span_cnt' = vmem_span_cnt + IF Frame(t).op = "insert" THEN 1 ELSE -1
          /\ stack' = Goto(t, "end")
          /\ UNCHANGED vmem_span_seq
       \/ /\ At(t, "insert", "end") \/ At(t, "remove", "end")
          /\ vmem_span_seq' = vmem_span_seq + 1
          /\ stack' = [stack EXCEPT ![t] = Tail(@)]
          /\ UNCHANGED vmem_span_cnt
    /\ UNCHANGED <<ret, vmem_heap_lo, vmem_heap_hi, vmem_span_tab,
                   vmem_span_saturated, vm_lock, span_cache>>

-----------------------------------------------------------------------------
(* The reader: span_owns_cached() around vmem_span_find().  It returns 1   *)
(* for yes and 0 for no.                                                   *)

\* vmem_span_gen(): the generation is read first, and the last span found is
\* good as long as it has not changed.
OwnCached(t) ==
    LET f == Frame(t)
    IN /\ At(t, "own", "start")
       /\ IF /\ vmem_span_seq = span_cache[t].gen
             /\ f.ptr = span_cache[t].page
          THEN Return(t, 1)
          ELSE /\ stack' = Becomes(t, [f EXCEPT !.pc = "find",
                                                !.gen = vmem_span_seq])
               /\ UNCHANGED ret
       /\ UNCHANGED spanVars

\* Wait out a write, then note the generation.
FindBegin(t) ==
    /\ At(t, "own", "find")
    /\ vmem_span_seq % 2 = 0
    /\ stack' = Becomes(t, [Frame(t) EXCEPT !.pc = "count", !.s0 = vmem_span_seq])
    /\ UNCHANGED <<ret, spanVars>>

\* A saturated table falls back to the hull, which already said yes.
FindCount(t) ==
    /\ At(t, "own", "count")
    /\ IF vmem_span_saturated THEN Return(t, 1)
       ELSE /\ stack' = Becomes(t, [Frame(t) EXCEPT !.pc = "search", !.blo = 0,
                                                    !.bhi = vmem_span_cnt])
            /\ UNCHANGED ret
    /\ UNCHANGED spanVars

\* One probe of the binary search over entries blo + 1 .. bhi.
FindProbe(t) ==
    LET f == Frame(t)
        i == f.blo + (f.bhi - f.blo) \div 2 + 1
        page == vmem_span_tab[i]
    IN /\ At(t, "own", "search")
       /\ f.blo < f.bhi
       /\ stack' = Becomes(t,
             CASE f.ptr < page -> [f EXCEPT !.bhi = i - 1]
               [] f.ptr > page -> [f EXCEPT !.blo = i]
               [] OTHER -> [f EXCEPT !.pc = "found", !.blo = 0, !.bhi = 0])
       /\ UNCHANGED <<ret, spanVars>>

\* The answer stands if the generation did not change meanwhile; a span found
\* is cached under the generation read before the search.
CacheSpan(t) ==
    IF At(t, "own", "found") /\ Frame(t).gen % 2 = 0
    THEN [span_cache EXCEPT ![t] = [page |-> Frame(t).ptr, gen |-> Frame(t).gen]]
    ELSE span_cache
AnyGeneration(t) == TRUE
SameGeneration(t) == vmem_span_seq = Frame(t).s0

FindEnd(t) ==
    LET f == Frame(t)
    IN /\ \/ At(t, "own", "found")
          \/ At(t, "own", "search") /\ f.blo >= f.bhi
       /\ IF SameGeneration(t)
          THEN /\ Return(t, IF f.pc = "found" THEN 1 ELSE 0)
               /\ span_cache' = CacheSpan(t)
          ELSE /\ stack' = Becomes(t, [f EXCEPT !.pc = "find", !.blo = 0,
                                                !.bhi = 0, !.s0 = 0])
               /\ UNCHANGED <<ret, span_cache>>
       /\ UNCHANGED <<vmem_heap_lo, vmem_heap_hi, vmem_span_tab, vmem_span_cnt,
                      vmem_span_seq, vmem_span_saturated, vm_lock>>

SpanStep(t) ==
    \/ /\ In(t, {"insert", "remove"})
       /\ \/ InsertHull(t) \/ InsertBegin(t) \/ InsertShift(t)
          \/ RemoveBegin(t) \/ RemoveShift(t) \/ WriteEnd(t)
    \/ /\ In(t, {"own"})
       /\ \/ OwnCached(t) \/ FindBegin(t) \/ FindCount(t) \/ FindProbe(t) \/ FindEnd(t)

=============================================================================
