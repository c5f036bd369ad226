------------------------------ MODULE MCMalloc -------------------------------
(* Malloc at the start of a process and in a running one.                  *)
EXTENDS Malloc

Symmetry == Permutations(Threads)

Running == {[ready |-> TRUE, calls |-> 3, faults |-> 0,
             allocs |-> {"malloc", "memalign"}]}
Starting == {[ready |-> FALSE, calls |-> 3, faults |-> 1,
              allocs |-> {"malloc", "calloc", "memalign", "umem"}]}
AllConfigs == Running \cup Starting

=============================================================================
