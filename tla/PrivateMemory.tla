---------------------------- MODULE PrivateMemory ----------------------------
(***************************************************************************)
(* What fork, execve and exit promise about memory: every process has its  *)
(* own, a child starts with a copy of its parent's, and a store changes    *)
(* one page of the process that makes it.                                  *)
(***************************************************************************)
CONSTANTS Pid, Page, Value,
          NULL,         \* no such process
          Unmapped      \* a page the process does not have

VARIABLE memory         \* what each process would read

Image == [Page -> Value \cup {Unmapped}]

Init == memory = [p \in Pid |-> NULL]

Spawn(c) == memory[c] = NULL /\ memory' = [memory EXCEPT ![c] = [g \in Page |-> Unmapped]]

Fork(p, c) ==
    /\ memory[p] # NULL /\ memory[c] = NULL
    /\ memory' = [memory EXCEPT ![c] = memory[p]]

Store(p, g, v) ==
    /\ memory[p] # NULL /\ memory[p][g] # Unmapped
    /\ memory' = [memory EXCEPT ![p][g] = v]

Replace(p) == memory[p] # NULL /\ memory'[p] \in Image /\ memory' = [memory EXCEPT ![p] = memory'[p]]

Exit(p) == memory' = [memory EXCEPT ![p] = NULL]

Next ==
    \E p \in Pid : \/ Spawn(p) \/ Replace(p) \/ Exit(p)
                   \/ \E c \in Pid : Fork(p, c)
                   \/ \E g \in Page, v \in Value : Store(p, g, v)

Spec == Init /\ [][Next]_memory
=============================================================================
