------------------------------- MODULE MCPipe -------------------------------
(* Instances of Pipe: root is the shell, a and b are its children. *)
EXTENDS Pipe
=============================================================================
