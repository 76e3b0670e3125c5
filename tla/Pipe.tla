-------------------------------- MODULE Pipe --------------------------------
(***************************************************************************)
(* Anonymous pipes and descriptor tables: kernel/core/pipe.c with close,   *)
(* dup, dup2 and vfs_close_all_fds of vfs_core.c and the inheritance of    *)
(* descriptors in sys_fork.  One pipe exists at a time, and one ordinary   *)
(* open file.                                                              *)
(*                                                                         *)
(* Only the boot processor runs tasks and system calls run with interrupts *)
(* off, so a call is one step, except that pipe_read gives up the          *)
(* processor.  READY stands for READY and RUNNING: Tasks has the scheduler.*)
(***************************************************************************)
EXTENDS Integers, Sequences, FiniteSets

CONSTANTS Task, Root, NULL,
          Readers,            \* the tasks that read from the pipe
          Optional,           \* the calls beyond pipe, close, fork, read and write that tasks make
          MaxFd, FirstUserFd, \* MAX_FD and FIRST_USER_FD
          Size, Byte,         \* PIPE_SIZE, the bytes
          MaxIO,              \* bound: the bytes of one read or write
          MaxPipes            \* bound: debug_pipe_count

ASSUME PipeAssumption ==
    /\ IsFiniteSet(Task) /\ Root \in Task /\ Readers \subseteq Task
    /\ NULL \notin Task \cup {"rf", "wf", "file"}
    /\ MaxFd \in Nat /\ FirstUserFd \in 0..MaxFd
    /\ Size \in Nat \ {0} /\ MaxIO \in Nat \ {0} /\ MaxPipes \in Nat

VARIABLES
    fd_table,           \* of each task: the file of each descriptor, or NULL
    refcount,           \* of each file_t
    pipe,               \* the pipe_t
    state, parent,
    reading,            \* the bytes that a task inside pipe_read asked for, or 0
    debug_pipe_count,
    io                  \* the transfer that the last step made, as the caller sees it

vars == <<fd_table, refcount, pipe, state, parent, reading, debug_pipe_count, io>>

Fd == 0..MaxFd - 1

\* The read end and the write end of the pipe, and another file.
File == {"rf", "wf", "file"}

NoPipe == [live |-> FALSE, buffer |-> [i \in 0..Size - 1 |-> NULL], head |-> 0, tail |-> 0, len |-> 0,
           readers |-> 0, writers |-> 0, waiting_task |-> NULL]

NoTransfer == [op |-> "none", asked |-> 0, bytes |-> <<>>]

Init ==
    /\ fd_table = [t \in Task |-> [i \in Fd |-> NULL]]
    /\ refcount = [f \in File |-> 0]
    /\ pipe = NoPipe
    /\ state = [t \in Task |-> IF t = Root THEN "READY" ELSE "NONE"]
    /\ parent = [t \in Task |-> NULL]
    /\ reading = [t \in Task |-> 0]
    /\ debug_pipe_count = 0
    /\ io = NoTransfer
-----------------------------------------------------------------------------
\* What the descriptor operations change, as one value.
World == [fd |-> fd_table, ref |-> refcount, pipe |-> pipe, state |-> state, count |-> debug_pipe_count]

Becomes(w) ==
    /\ fd_table' = w.fd /\ refcount' = w.ref /\ pipe' = w.pipe
    /\ state' = w.state /\ debug_pipe_count' = w.count

Wake(w, t) ==
    IF t \in Task /\ w.state[t] = "WAITING" THEN [w EXCEPT !.state[t] = "READY"] ELSE w

\* pipe_add_reader and pipe_add_writer, by the file's flags.
pipe_add(w, f) ==
    CASE f = "rf"   -> [w EXCEPT !.pipe.readers = @ + 1]
      [] f = "wf"   -> [w EXCEPT !.pipe.writers = @ + 1]
      [] f = "file" -> w

Decrement(n) == IF n > 0 THEN n - 1 ELSE n

Uncounted(w) ==
    IF w.pipe.readers = 0 /\ w.pipe.writers = 0 THEN [w EXCEPT !.count = @ - 1] ELSE w

pipe_remove_reader(w) == Uncounted([w EXCEPT !.pipe.readers = Decrement(@)])

\* Mutant: the last writer leaves without waking the reader.
pipe_remove_writer_Mutant(w) == Uncounted([w EXCEPT !.pipe.writers = Decrement(@)])

\* Mutant: the bytes that are still queued go with the last writer.
pipe_remove_writer_Drop(w) ==
    LET v == [w EXCEPT !.pipe.writers = Decrement(@)]
    IN  Uncounted(IF v.pipe.writers = 0
                  THEN Wake([v EXCEPT !.pipe.len = 0], v.pipe.waiting_task) ELSE v)

pipe_remove_writer(w) ==
    LET v == [w EXCEPT !.pipe.writers = Decrement(@)]
    IN  Uncounted(IF v.pipe.writers = 0 THEN Wake(v, v.pipe.waiting_task) ELSE v)

\* Descriptor i of t refers to f, too.
Share(w, t, i, f) == pipe_add([w EXCEPT !.fd[t][i] = f, !.ref[f] = @ + 1], f)

\* The end of close(): the last descriptor of the last end frees the pipe.
Release(w, f) ==
    IF w.ref[f] = 0 /\ f \in {"rf", "wf"} /\ w.pipe.readers = 0 /\ w.pipe.writers = 0
    THEN [w EXCEPT !.pipe = NoPipe] ELSE w

\* close(), and one turn of the loop of vfs_close_all_fds().
closed(w, t, i) ==
    LET f == w.fd[t][i]
        v == [w EXCEPT !.fd[t][i] = NULL, !.ref[f] = @ - 1]
    IN  IF f = NULL THEN w
        ELSE Release(CASE f = "rf"   -> pipe_remove_reader(v)
                       [] f = "wf"   -> pipe_remove_writer(v)
                       [] f = "file" -> v, f)

vfs_close_all_fds(w, t) ==
    LET turn[n \in 0..MaxFd] == IF n = 0 THEN w ELSE closed(turn[n - 1], t, n - 1)
    IN  turn[MaxFd]
-----------------------------------------------------------------------------
\* A task is running user code.
Calls(t) == state[t] = "READY" /\ reading[t] = 0

\* The free descriptors that pipe, open and dup may take, lowest first.
FreeFds(t) == {i \in FirstUserFd..MaxFd - 1 : fd_table[t][i] = NULL}

Lowest(S) == CHOOSE i \in S : \A j \in S : i <= j

\* pipe(): without two free descriptors the new pipe_t and files are left behind.
pipe_call(t) ==
    /\ Calls(t) /\ ~pipe.live /\ debug_pipe_count < MaxPipes
    /\ debug_pipe_count' = debug_pipe_count + 1
    /\ IF Cardinality(FreeFds(t)) < 2
       THEN UNCHANGED <<fd_table, refcount, pipe>>
       ELSE LET r == Lowest(FreeFds(t))
                w == Lowest(FreeFds(t) \ {r})
            IN  /\ fd_table' = [fd_table EXCEPT ![t][r] = "rf", ![t][w] = "wf"]
                /\ refcount' = [refcount EXCEPT !["rf"] = 1, !["wf"] = 1]
                /\ pipe' = [NoPipe EXCEPT !.live = TRUE, !.readers = 1, !.writers = 1]
    /\ io' = NoTransfer
    /\ UNCHANGED <<state, parent, reading>>

open(t) ==
    /\ "open" \in Optional /\ Calls(t) /\ refcount["file"] = 0 /\ FreeFds(t) # {}
    /\ fd_table' = [fd_table EXCEPT ![t][Lowest(FreeFds(t))] = "file"]
    /\ refcount' = [refcount EXCEPT !["file"] = 1]
    /\ io' = NoTransfer
    /\ UNCHANGED <<pipe, state, parent, reading, debug_pipe_count>>

close(t, i) ==
    /\ Calls(t) /\ fd_table[t][i] # NULL
    /\ Becomes(closed(World, t, i))
    /\ io' = NoTransfer
    /\ UNCHANGED <<parent, reading>>

dup(t, i) ==
    /\ "dup" \in Optional /\ Calls(t) /\ fd_table[t][i] # NULL /\ FreeFds(t) # {}
    /\ Becomes(Share(World, t, Lowest(FreeFds(t)), fd_table[t][i]))
    /\ io' = NoTransfer
    /\ UNCHANGED <<parent, reading>>

\* Mutant: the descriptor that is replaced is not closed.
dup2_Mutant(t, i, j) ==
    /\ "dup2" \in Optional /\ Calls(t) /\ fd_table[t][i] # NULL /\ i # j
    /\ Becomes(Share(World, t, j, fd_table[t][i]))
    /\ io' = NoTransfer
    /\ UNCHANGED <<parent, reading>>

dup2(t, i, j) ==
    /\ "dup2" \in Optional /\ Calls(t) /\ fd_table[t][i] # NULL /\ i # j
    /\ Becomes(Share(closed(World, t, j), t, j, fd_table[t][i]))
    /\ io' = NoTransfer
    /\ UNCHANGED <<parent, reading>>

\* One turn of the loop of sys_fork: c inherits descriptor i of its parent, whose table it is.
Inherited(w, table, c, i) == IF table[i] = NULL THEN w ELSE Share(w, c, i, table[i])

\* The child inherits every descriptor.
sys_fork(t, c) ==
    /\ Calls(t) /\ state[c] = "NONE"
    /\ LET turn[n \in 0..MaxFd] == IF n = 0 THEN [World EXCEPT !.state[c] = "READY"]
                                   ELSE Inherited(turn[n - 1], fd_table[t], c, n - 1)
       IN  Becomes(turn[MaxFd])
    /\ parent' = [parent EXCEPT ![c] = t]
    /\ io' = NoTransfer
    /\ UNCHANGED reading

\* Exit or a fatal signal: the parent is woken, the descriptors stay open.
kill(t) ==
    /\ t # Root /\ state[t] \in {"READY", "WAITING"}
    /\ state' = Wake([World EXCEPT !.state[t] = "ZOMBIE"], parent[t]).state
    /\ io' = NoTransfer
    /\ UNCHANGED <<fd_table, refcount, pipe, parent, reading, debug_pipe_count>>

\* reap_zombies() closes the descriptors and frees the task_t.
reap(t) ==
    /\ state[t] = "ZOMBIE"
    /\ LET w == vfs_close_all_fds(World, t) IN Becomes([w EXCEPT !.state[t] = "NONE"])
    /\ reading' = [reading EXCEPT ![t] = 0]
    /\ parent' = [c \in Task |-> IF c = t \/ parent[c] = t THEN NULL ELSE parent[c]]
    /\ io' = NoTransfer
-----------------------------------------------------------------------------
Least(a, b) == IF a < b THEN a ELSE b

\* The first n bytes from tail.
Oldest(n) == [i \in 1..n |-> pipe.buffer[(pipe.tail + i - 1) % Size]]

\* pipe_read of n bytes by t from the head of its loop.
Read(t, n) ==
    IF pipe.len = 0 /\ pipe.writers > 0
    THEN /\ pipe' = [pipe EXCEPT !.waiting_task = t]
         /\ state' = [state EXCEPT ![t] = "WAITING"]
         /\ reading' = [reading EXCEPT ![t] = n]
         /\ io' = NoTransfer
    ELSE LET k == Least(n, pipe.len)
         IN  /\ pipe' = [pipe EXCEPT !.tail = (@ + k) % Size, !.len = @ - k,
                                     !.waiting_task = IF reading[t] > 0 THEN NULL ELSE @]
             /\ io' = [op |-> "read", asked |-> n, bytes |-> Oldest(k)]
             /\ reading' = [reading EXCEPT ![t] = 0]
             /\ UNCHANGED state

pipe_read(t, n) ==
    /\ t \in Readers /\ Calls(t) /\ \E i \in Fd : fd_table[t][i] = "rf"
    /\ Read(t, n)
    /\ UNCHANGED <<fd_table, refcount, parent, debug_pipe_count>>

\* The task runs again inside pipe_read and goes round the loop.
pipe_read_resume(t) ==
    /\ state[t] = "READY" /\ reading[t] > 0
    /\ Read(t, reading[t])
    /\ UNCHANGED <<fd_table, refcount, parent, debug_pipe_count>>

\* The first k bytes of s go to the buffer from head on.
Stored(s, k) ==
    [pipe EXCEPT !.buffer = [i \in 0..Size - 1 |->
                                LET d == (i - pipe.head) % Size IN IF d < k THEN s[d + 1] ELSE @[i]],
                 !.head = (@ + k) % Size, !.len = @ + k]

Room == Size - pipe.len

\* Without readers a write fails; otherwise it stores what fits and wakes the reader.
pipe_write(t, s) ==
    /\ Calls(t) /\ \E i \in Fd : fd_table[t][i] = "wf"
    /\ IF pipe.readers = 0
       THEN io' = NoTransfer /\ UNCHANGED <<pipe, state>>
       ELSE LET k == Least(Len(s), Room)
            IN  /\ pipe' = Stored(s, k)
                /\ state' = Wake(World, pipe.waiting_task).state
                /\ io' = [op |-> "write", asked |-> Len(s), bytes |-> SubSeq(s, 1, k)]
    /\ UNCHANGED <<fd_table, refcount, parent, reading, debug_pipe_count>>

Call(t) ==
    \/ pipe_call(t) \/ open(t)
    \/ \E i \in Fd : close(t, i) \/ dup(t, i) \/ \E j \in Fd : dup2(t, i, j)
    \/ \E c \in Task : sys_fork(t, c)
    \/ \E n \in 1..MaxIO : pipe_read(t, n)
    \/ \E n \in 0..MaxIO : \E s \in [1..n -> Byte] : pipe_write(t, s)

Next == \E t \in Task : Call(t) \/ kill(t) \/ reap(t) \/ pipe_read_resume(t)

Spec == Init /\ [][Next]_vars

\* Weak fairness of reap and pipe_read_resume: only reap ends a zombie, and a task
\* that is READY inside pipe_read resumes unless it is killed.  These are
\* ZombieReaped and ReadyRuns of Tasks; nothing is assumed of what programs do.
FairSpec ==
    /\ Spec
    /\ \A t \in Task : []<>(state[t] # "ZOMBIE") /\ []<>~(state[t] = "READY" /\ reading[t] > 0)
-----------------------------------------------------------------------------
TypeOK ==
    /\ fd_table \in [Task -> [Fd -> File \cup {NULL}]]
    /\ refcount \in [File -> Nat]
    /\ pipe \in [live : BOOLEAN, buffer : [0..Size - 1 -> Byte \cup {NULL}], head : 0..Size - 1,
                 tail : 0..Size - 1, len : 0..Size, readers : Nat, writers : Nat,
                 waiting_task : Task \cup {NULL}]
    /\ state \in [Task -> {"NONE", "READY", "WAITING", "ZOMBIE"}]
    /\ parent \in [Task -> Task \cup {NULL}]
    /\ reading \in [Task -> 0..MaxIO]
    /\ debug_pipe_count \in 0..MaxPipes

Descriptors(f) == {d \in Task \X Fd : fd_table[d[1]][d[2]] = f}

\* However tasks fork, duplicate, replace, close, die and are reaped, the counts of
\* the files and of the pipe are the numbers of descriptors that refer to them.  The
\* pipe is allocated exactly as long as there are any: it is neither used after close()
\* freed it nor left behind by the last close().
CountsExact ==
    /\ TypeOK
    /\ pipe.live <=> Descriptors("rf") \cup Descriptors("wf") # {}
    /\ \A f \in File : refcount[f] = Cardinality(Descriptors(f))
    /\ pipe.readers = refcount["rf"] /\ pipe.writers = refcount["wf"]

\* A task that is blocked in pipe_read has nothing to read, has a writer to wait
\* for, and is the one that a write or the last close() will wake.
BlockedIsRegistered ==
    \A t \in Task : state[t] = "WAITING" =>
        pipe.len = 0 /\ pipe.writers > 0 /\ pipe.waiting_task = t

\* The ring buffer implements the channel.
queue == Oldest(pipe.len)

C == INSTANCE Channel WITH queue <- queue, writable <- pipe.writers > 0, readable <- pipe.readers > 0

\* Bytes come out in the order they went in, none twice, and none is lost as long as a
\* reader is left, with or without writers; writes are short only when the pipe is
\* full, and a read returns nothing only after the last writer has gone and everything
\* was read.
ImplementsChannel == C!Spec

\* A blocked reader sees the end of file once only zombies hold the write end: their
\* reaping closes it, and the last close wakes the reader, whatever else is forked,
\* closed, killed or reaped meanwhile.
EofReached ==
    \A t \in Readers :
        (state[t] = "WAITING" /\ \A d \in Descriptors("wf") : state[d[1]] = "ZOMBIE")
            ~> (reading[t] = 0 \/ state[t] \in {"ZOMBIE", "NONE"})

\* "If last writer left, wake up reader so they see EOF".
LastWriterWakes == pipe.live /\ pipe.writers = 0 => \A t \in Task : state[t] # "WAITING"

\* The task that pipe_write wakes is a waiting reader ("Wake up waiting reader!").
WaiterReads == pipe.waiting_task # NULL => reading[pipe.waiting_task] > 0

\* Closing every descriptor gives the pipe back ("Pipe count did not return to
\* initial (LEAK detected!)").
NoLeak == Descriptors("rf") \cup Descriptors("wf") = {} => debug_pipe_count = 0
=============================================================================
