------------------------------ MODULE MCUpdate ------------------------------
(* The update machinery for TLC.                                           *)
EXTENDS Update

CONSTANTS c1, c2, t1, t2

\* Two threads and two caches; two kinds of work on one cache; and, with one
\* thread, two kinds of work on two caches.
Programs ==
    {[caches |-> {c1, c2}, threads |-> {t1, t2}, kinds |-> {"REAP"}],
     [caches |-> {c1}, threads |-> {t1, t2}, kinds |-> KINDS],
     [caches |-> {c1, c2}, threads |-> {t1}, kinds |-> KINDS]}
=============================================================================
