----------------------------- MODULE MCShootdown -----------------------------
(* Instances of Shootdown: two application processors, a kernel and a user address. *)
EXTENDS Shootdown
=============================================================================
