------------------------------ MODULE MCSignals ------------------------------
(* The mixes of programs: with kill alone, and with sleep, fork and exec.    *)
EXTENDS Signals

Base == {"syscall", "sigaction", "sigreturn", "ctrlc"}

AllMixes == {Base \cup M : M \in {{"kill"}, {"kill", "sleep"}, {"sleep", "fork"}, {"kill", "exec"}}}
=============================================================================
