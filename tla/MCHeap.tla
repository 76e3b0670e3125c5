------------------------------- MODULE MCHeap -------------------------------
(* Instances of Heap: pages of four cells. *)
EXTENDS Heap
=============================================================================
