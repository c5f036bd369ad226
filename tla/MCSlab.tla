------------------------------- MODULE MCSlab -------------------------------
(* The slab layer for TLC.                                                 *)
EXTENDS Slab, TLC

\* Spans and threads are interchangeable.
Symmetry == Permutations(SLABS) \cup Permutations(Threads)
=============================================================================
