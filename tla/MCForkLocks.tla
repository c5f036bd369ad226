---------------------------- MODULE MCForkLocks ----------------------------
(* Model values for ForkLocks.                                             *)
EXTENDS ForkLocks, TLC

CONSTANTS t1, t2, w

Symmetry == Permutations(Threads)

=============================================================================
