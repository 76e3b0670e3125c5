---------------------------- MODULE MCSleepQueue ----------------------------
(* Instances of SleepQueue: unrelated tasks, and a parent p with a child c. *)
EXTENDS SleepQueue

CONSTANTS p, c

NoParents == [x \in Task |-> NULL]
Family == [x \in Task |-> IF x = c THEN p ELSE NULL]
=============================================================================
