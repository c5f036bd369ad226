------------------------------- MODULE MCVmem -------------------------------
(* The arenas with two threads, a handful of pages and a few requests.      *)
EXTENDS Vmem, TLC

Symmetry == Permutations(Threads)

\* Plain allocations, one of memalign's kind (just below a page boundary),
\* one confined to part of the address space, and one aligned as
\* umem_alloc_align() does it, above page alignment.
Small == Plain("leaf", 1)
Large == Plain("leaf", 2 * PAGE)
Memalign == Request(2, PAGE, 2, 0, 0, 0)
Confined == Request(2, 2, 0, PAGE, 4 * PAGE, 5 * PAGE - 1)
Aligned == Request(2 * PAGE, 2 * PAGE, 0, 0, 0, 0)

\* The default policy over mmap(), whose blocks join from both sides, with the
\* arenas down to their reserve.
Mmap == [backend |-> "mmap", nextfit |-> FALSE, layout |-> <<2, 4, 3, 1>>,
         stock |-> [a \in Arenas |-> VMEM_POPULATE_RESERVE], page |-> 0,
         requests |-> {Small, Memalign, Confined}, calls |-> 2, inside |-> 2,
         faults |-> 1]

\* Next-fit, whose rotor pins a span that becomes free, with structures at
\* hand; it takes three allocations, one after the other, until the rotor
\* leaves such a span for another one.
Rotating(wanted) == [Mmap EXCEPT !.nextfit = TRUE, !.layout = <<1, 3, 4, 2>>,
                      !.stock = [a \in Arenas |-> VMEM_MINFREE], !.page = 1,
                      !.requests = wanted, !.faults = 0]
RotatingOn == [Rotating({Small}) EXCEPT !.calls = 3, !.inside = 1]

\* sbrk(), where two blocks use up the room and the structures of "top" while
\* "leaf" and "heap" still have theirs: a block may be left over.
Sbrk(wanted, n) == [Mmap EXCEPT !.backend = "sbrk", !.layout = <<1, 2, 3, 4>>,
                     !.stock = [a \in Arenas |->
                                   IF a \in {"leaf", "heap"} THEN VMEM_MINFREE + 2
                                   ELSE IF a = "top" THEN VMEM_MINFREE
                                   ELSE VMEM_POPULATE_RESERVE],
                     !.requests = wanted, !.calls = n, !.faults = 0]

AllConfigs == {Mmap, Rotating({Small}), Rotating({Large}), RotatingOn,
               Sbrk({Small, Large}, 2), Sbrk({Large}, 3)}

\* Alignment above the source's quantum.
AlignedConfigs == {[Mmap EXCEPT !.requests = {Aligned}, !.layout = <<1, 2, 3, 4>>,
                                !.faults = 0]}

=============================================================================
