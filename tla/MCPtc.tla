------------------------------- MODULE MCPtc -------------------------------
(* Per-thread caches for TLC.                                              *)
EXTENDS Ptc, TLC

OneThenTwo == <<1, 2>>
Symmetry == Permutations(Bufs) \cup Permutations(Mags)
=============================================================================
