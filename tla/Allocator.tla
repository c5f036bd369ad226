------------------------------ MODULE Allocator ------------------------------
(***************************************************************************)
(* What every layer of the allocator promises to the one above it: a       *)
(* buffer is handed out only while nobody has it, and comes back only from *)
(* somebody who does.  The slab layer and the magazine layer are shown to  *)
(* implement this specification.                                           *)
(***************************************************************************)
EXTENDS Naturals

CONSTANT Bufs      \* every buffer the layer can hand out

VARIABLE owned     \* how many callers of the layer have a buffer

Init == owned = [b \in Bufs |-> 0]

Alloc == \E b \in Bufs : owned[b] = 0 /\ owned' = [owned EXCEPT ![b] = 1]

Free == \E b \in Bufs : owned[b] = 1 /\ owned' = [owned EXCEPT ![b] = 0]

Next == Alloc \/ Free

Spec == Init /\ [][Next]_owned
=============================================================================
