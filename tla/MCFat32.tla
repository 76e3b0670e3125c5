------------------------------- MODULE MCFat32 -------------------------------
(* Instances of Fat32: two files in the root, a directory and a file in it. *)
EXTENDS Fat32, TLC

MCPath == {<<"e">>, <<"f">>, <<"d">>, <<"d", "g">>}

MCDirs == {<<"d">>}

Handles == Permutations(Handle)

\* No invariant says anything of what follows damage.
Undamaged == ~torn /\ ~aliased
=============================================================================
