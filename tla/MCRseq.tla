------------------------------- MODULE MCRseq -------------------------------
(* The restartable-sequence layer for TLC.                                 *)
EXTENDS Rseq, TLC

\* Magazines that hold one round, and two after a resize.
OneThenTwo == <<1, 2>>

\* Buffers, shells, threads and CPUs are interchangeable.
Symmetry == Permutations(Bufs) \cup Permutations(Mags) \cup Permutations(Threads)
            \cup Permutations(CPUs)
=============================================================================
