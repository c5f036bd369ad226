----------------------------- MODULE MCMagazine -----------------------------
(* The magazine layer for TLC.                                             *)
EXTENDS Magazine, TLC

\* Magazines that hold one round, and two after a resize.
OneThenTwo == <<1, 2>>

\* Two threads on two CPUs and a cache whose constructor may fail; and one
\* thread with reaps and magazines held outside the depot.
OfSize(S, n) == {T \in SUBSET S : Cardinality(T) = n}
Caches ==
    [bufs : OfSize(Bufs, 2), threads : {Threads}, cpus : {CPUs},
     jobs : {{"resize", "destroy"}}, rseq : {FALSE}, ctor_fails : {TRUE}]
    \cup [bufs : {Bufs}, threads : OfSize(Threads, 1), cpus : OfSize(CPUs, 1),
          jobs : {{"reap", "resize", "destroy"}}, rseq : {TRUE}, ctor_fails : {FALSE}]

\* Buffers, shells, threads and CPUs are interchangeable.
Symmetry == Permutations(Bufs) \cup Permutations(Mags) \cup Permutations(Threads)
            \cup Permutations(CPUs)
=============================================================================
