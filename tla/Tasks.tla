------------------------------- MODULE Tasks -------------------------------
(***************************************************************************)
(* Process lifecycle and round-robin scheduling (kernel/core/task.c), as   *)
(* the 64-bit kernel runs them: tasks execute on the boot processor only   *)
(* (application processors keep private idle tasks, and task_switch        *)
(* returns at once for those), system calls enter through an interrupt     *)
(* gate and run with interrupts off, so a call that does not block is one  *)
(* step.  Interrupts are taken only where the code enables them: in user   *)
(* code and in the "sti; hlt" loops.  The application processors only wake *)
(* sleepers; the boot processor does not wait for them between their test  *)
(* of a sleeper's state and their store, unless it needs sq_lock itself.   *)
(*                                                                         *)
(* A Task is a heap block holding a task_t.  Blocks are reused, process    *)
(* ids are not.  The sleep queue is abstracted to the set of queued tasks  *)
(* (SleepQueue has the list and the clock) and pending signal bits are     *)
(* left to Signals.                                                        *)
(***************************************************************************)
EXTENDS Integers, FiniteSets, Sequences

CONSTANTS Task,        \* heap blocks that can hold a task_t
          Boot, Idle,  \* the blocks of PID 1 and of PID 2
          NULL,        \* the null task pointer
          MAX_TASKS,   \* task.h
          Calls,       \* the operations that tasks perform in this instance
          Catchers     \* the tasks that install signal handlers in this instance

ASSUME TaskAssumption == Boot \in Task /\ Idle \in Task /\ Boot # Idle /\ NULL \notin Task
ASSUME LimitAssumption == MAX_TASKS \in Nat /\ MAX_TASKS >= 2

VARIABLES
    ready_queue,     \* the circular list, from the task ready_queue points to
    state, parent, id, sigterm_handler,      \* fields of each task_t
    next_pid,
    current_task,
    pc,              \* where each task is in the kernel, or "user"
    irq_depth,       \* of the boot processor
    rq_lock,         \* TRUE when held by a task that will never release it
    cli,             \* PID 1 runs with interrupts off
    sleepers,        \* the tasks on the sleep queue
    waking           \* the sleeper an application processor is about to make READY

vars == <<ready_queue, state, parent, id, sigterm_handler, next_pid,
          current_task, pc, irq_depth, rq_lock, cli, sleepers, waking>>

State == {"FREE", "READY", "RUNNING", "WAITING", "ZOMBIE"}

(***************************************************************************)
(* "wait", "getc" and "dead" are the hlt loops of wait_for_children, of    *)
(* the keyboard read and of a terminated task, "hlt" the one of idle_task, *)
(* "stray" the one after a call number of the legacy range.                *)
(* "found" is wait_for_children about to call reap_zombies, "reap" the     *)
(* inside of reap_zombies.                                                 *)
(***************************************************************************)
Location == {"user", "wait", "getc", "stray", "dead", "hlt", "found", "reap"}

Live == {t \in Task : state[t] # "FREE"}

Init ==
    /\ ready_queue = <<Boot, Idle>>
    /\ state = [t \in Task |-> IF t = Boot THEN "RUNNING" ELSE IF t = Idle THEN "READY" ELSE "FREE"]
    /\ parent = [t \in Task |-> NULL]
    /\ id = [t \in Task |-> IF t = Boot THEN 1 ELSE IF t = Idle THEN 2 ELSE 0]
    /\ sigterm_handler = [t \in Task |-> FALSE]
    /\ next_pid = 3
    /\ current_task = Boot
    /\ pc = [t \in Task |-> "user"]
    /\ irq_depth = 0
    /\ rq_lock = FALSE
    /\ cli = TRUE
    /\ sleepers = {}
    /\ waking = NULL
-----------------------------------------------------------------------------
\* The list q with task c linked in as its i-th element, and without its i-th element.
LinkAt(q, i, c) ==
    [k \in 1..(Len(q) + 1) |-> IF k < i THEN q[k] ELSE IF k = i THEN c ELSE q[k - 1]]

UnlinkAt(q, i) == [k \in 1..(Len(q) - 1) |-> IF k < i THEN q[k] ELSE q[k + 1]]

Position(t) == CHOOSE i \in DOMAIN ready_queue : ready_queue[i] = t

\* The k-th task after current_task on the circular list.
Following(k) ==
    IF Position(current_task) + k <= Len(ready_queue)
    THEN ready_queue[Position(current_task) + k]
    ELSE ready_queue[Position(current_task) + k - Len(ready_queue)]

\* Mutant: the walk starts at the head of the list every time.
round_robin_pick_next_Mutant(st, n) ==
    \E k \in 1..Len(ready_queue) :
        /\ n = ready_queue[k]
        /\ st[n] = "READY" \/ n = current_task
        /\ \A j \in 1..(k - 1) : st[ready_queue[j]] # "READY" /\ ready_queue[j] # current_task

\* n is the first READY task after current_task, or current_task itself.
round_robin_pick_next(st, n) ==
    \E k \in 1..Len(ready_queue) :
        /\ n = Following(k)
        /\ st[n] = "READY" \/ n = current_task
        /\ \A j \in 1..(k - 1) : st[Following(j)] # "READY" /\ Following(j) # current_task

\* Mutant: the outgoing task stays RUNNING.
task_switch_Mutant(st, d) ==
    IF d > 1
    THEN state' = st /\ UNCHANGED current_task
    ELSE /\ ~rq_lock
         /\ \E n \in Task : /\ round_robin_pick_next(st, n)
                            /\ current_task' = n
                            /\ state' = [st EXCEPT ![n] = "RUNNING"]

\* task_switch called at nesting depth d with task states st.  It spins forever
\* when rq_lock is never released, so it is no step then.
task_switch(st, d) ==
    IF d > 1
    THEN state' = st /\ UNCHANGED current_task
    ELSE /\ ~rq_lock
         /\ LET out == [t \in Task |-> IF t = current_task /\ st[t] = "RUNNING" THEN "READY" ELSE st[t]]
            IN  \E n \in Task : /\ round_robin_pick_next(out, n)
                                /\ current_task' = n
                                /\ state' = [out EXCEPT ![n] = "RUNNING"]

\* Mutant: a waiting parent is not woken.
Terminated_Mutant(D) == [t \in Task |-> IF t \in D THEN "ZOMBIE" ELSE state[t]]

\* The task states once the tasks of D are terminated and their parents woken.
Terminated(D) ==
    [t \in Task |-> IF t \in D THEN "ZOMBIE"
                    ELSE IF state[t] = "WAITING" /\ \E d \in D : parent[d] = t THEN "READY"
                    ELSE state[t]]

\* The nesting depth inside a call: PID 1 calls the kernel's functions directly,
\* the others enter through int 0x80.
CallDepth(t) == IF id[t] = 1 THEN 0 ELSE 1

\* current_task performs operation c.
Performs(c) == c \in Calls /\ pc[current_task] = "user" /\ current_task # Idle

\* PID 1 has interrupts off from init_tasking on, and again after a wait that
\* blocked ("sti; hlt; cli"), until its keyboard read turns them on.
InterruptsOn ==
    CASE pc[current_task] = "reap"  -> FALSE
      [] pc[current_task] = "found" -> id[current_task] = 1 /\ ~cli
      [] pc[current_task] = "user"  -> id[current_task] = 1 => ~cli
      [] OTHER -> TRUE
-----------------------------------------------------------------------------
\* The part common to sys_fork and spawn_process: a READY child after current_task.
CreateTask(c) ==
    /\ state[c] = "FREE"
    /\ next_pid <= MAX_TASKS
    /\ ready_queue' = LinkAt(ready_queue, Position(current_task) + 1, c)
    /\ state' = [state EXCEPT ![c] = "READY"]
    /\ parent' = [parent EXCEPT ![c] = current_task]
    /\ id' = [id EXCEPT ![c] = next_pid]
    /\ next_pid' = next_pid + 1
    /\ UNCHANGED <<sigterm_handler, current_task, pc, irq_depth, rq_lock, cli, sleepers, waking>>

sys_fork(c) == Performs("fork") /\ CreateTask(c)

spawn_process(c) == Performs("spawn") /\ id[current_task] = 1 /\ CreateTask(c)

sigaction(h) ==
    /\ Performs("sigaction") /\ current_task \in Catchers /\ id[current_task] > 2
    /\ sigterm_handler' = [sigterm_handler EXCEPT ![current_task] = h]
    /\ UNCHANGED <<ready_queue, state, parent, id, next_pid, current_task, pc, irq_depth, rq_lock, cli, sleepers, waking>>

\* Mutant: the hlt loop of a task that terminates itself keeps the nesting depth.
do_terminate_Mutant(D, Q, locked) ==
    /\ state' = Terminated(D)
    /\ sleepers' = sleepers \ Q
    /\ pc' = [pc EXCEPT ![current_task] = IF current_task \in D THEN "dead" ELSE @]
    /\ irq_depth' = IF current_task \in D THEN CallDepth(current_task) ELSE irq_depth
    /\ rq_lock' = (locked /\ current_task \in D)
    /\ UNCHANGED <<ready_queue, parent, id, sigterm_handler, next_pid, current_task, cli, waking>>

\* do_terminate of the tasks in D, dequeuing the tasks in Q from the sleep queue.
\* A task that terminates itself stays in a hlt loop and never returns to its
\* caller, which is why rq_lock stays held if the caller holds it (locked).
do_terminate(D, Q, locked) ==
    /\ state' = Terminated(D)
    /\ sleepers' = sleepers \ Q
    /\ pc' = [pc EXCEPT ![current_task] = IF current_task \in D THEN "dead" ELSE @]
    /\ irq_depth' = IF current_task \in D THEN 0 ELSE irq_depth
    /\ rq_lock' = (locked /\ current_task \in D)
    /\ UNCHANGED <<ready_queue, parent, id, sigterm_handler, next_pid, current_task, cli, waking>>

exit ==
    /\ Performs("exit") /\ id[current_task] > 2
    /\ do_terminate({current_task}, {current_task}, FALSE)

\* A user-mode fault that is not a copy-on-write fault.
page_fault ==
    /\ Performs("fault") /\ id[current_task] > 2
    /\ do_terminate({current_task}, {}, FALSE)

Fatal(t, sig) ==
    /\ state[t] \notin {"FREE", "ZOMBIE"}
    /\ sig = "SIGKILL" \/ ~sigterm_handler[t]

\* Mutant: PID 2 is not protected.
task_send_signal_Mutant(t, sig) ==
    /\ Performs("signal") /\ ("selfsignal" \in Calls \/ t # current_task)
    /\ Fatal(t, sig)
    /\ do_terminate({t}, {t}, TRUE)

\* The deliveries that terminate their target; a caught signal only sets a bit.
task_send_signal(t, sig) ==
    /\ Performs("signal") /\ ("selfsignal" \in Calls \/ t # current_task)
    /\ id[t] # 2 /\ Fatal(t, sig)
    /\ do_terminate({t}, {t}, TRUE)

\* Ctrl+C, in the keyboard interrupt.  The walk starts at the head of the list
\* and does not get past current_task if that is one of the victims.
task_send_sigint_foreground ==
    /\ "ctrlc" \in Calls /\ InterruptsOn /\ ~rq_lock
    /\ LET all     == {t \in Task : id[t] > 2 /\ Fatal(t, "SIGINT")}
           victims == IF current_task \in all
                      THEN {t \in all : Position(t) <= Position(current_task)}
                      ELSE all
       IN  /\ victims # {}
           /\ "selfsignal" \in Calls \/ current_task \notin victims
           /\ do_terminate(victims, victims, TRUE)
-----------------------------------------------------------------------------
\* UABI_SLEEP with a nonzero duration: the insertion needs sq_lock, and the call ends
\* by switching away.
sleep ==
    /\ Performs("sleep") /\ id[current_task] > 2 /\ waking = NULL
    /\ sleepers' = sleepers \cup {current_task}
    /\ task_switch([state EXCEPT ![current_task] = "WAITING"], irq_depth + 1)
    /\ UNCHANGED <<ready_queue, parent, id, sigterm_handler, next_pid, pc, irq_depth, rq_lock, cli, waking>>

Children(t) == {c \in Live : parent[c] = t}

\* One turn of wait_for_children's outer loop by current_task: return without
\* children, reap zombies and return, or block.
wait_scan ==
    LET zombies == {c \in Children(current_task) : state[c] = "ZOMBIE"}
        to      == IF zombies # {} THEN "found" ELSE IF Children(current_task) # {} THEN "wait" ELSE "user"
    IN  /\ pc' = [pc EXCEPT ![current_task] = to]
        /\ irq_depth' = IF to = "found" THEN CallDepth(current_task) ELSE 0
        /\ state' = IF to = "wait" THEN [state EXCEPT ![current_task] = "WAITING"] ELSE state
        /\ UNCHANGED <<ready_queue, parent, id, sigterm_handler, next_pid, current_task, rq_lock, sleepers, waking>>

wait_for_children == Performs("wait") /\ wait_scan /\ UNCHANGED cli

\* Mutant: the inner loop waits for READY, but the switch has made the task RUNNING.
wait_resume_Mutant ==
    /\ pc[current_task] = "wait" /\ state[current_task] = "READY"
    /\ wait_scan
    /\ cli' = (cli \/ id[current_task] = 1)

\* The inner loop ends once the task runs again and is no longer WAITING.
wait_resume ==
    /\ pc[current_task] = "wait" /\ state[current_task] # "WAITING"
    /\ wait_scan
    /\ cli' = (cli \/ id[current_task] = 1)

wait_reap ==
    /\ pc[current_task] = "found"
    /\ pc' = [pc EXCEPT ![current_task] = "reap"]
    /\ UNCHANGED <<ready_queue, state, parent, id, sigterm_handler, next_pid, current_task, irq_depth, rq_lock, cli, sleepers, waking>>

idle_task ==
    /\ current_task = Idle /\ pc[Idle] = "user"
    /\ pc' = [pc EXCEPT ![Idle] = "reap"]
    /\ UNCHANGED <<ready_queue, state, parent, id, sigterm_handler, next_pid, current_task, irq_depth, rq_lock, cli, sleepers, waking>>

\* Mutant: PID 2 reaps its own children only.
ShouldReap_Mutant(t) == state[t] = "ZOMBIE" /\ (parent[t] = current_task \/ id[current_task] = 1)

ShouldReap(t) == state[t] = "ZOMBIE" /\ (parent[t] = current_task \/ id[current_task] \in {1, 2})

\* Mutant: a freed task may stay on the sleep queue.
FreeTask_Mutant(t) ==
    /\ state' = [state EXCEPT ![t] = "FREE"]
    /\ parent' = [parent EXCEPT ![t] = NULL]
    /\ id' = [id EXCEPT ![t] = 0]
    /\ sigterm_handler' = [sigterm_handler EXCEPT ![t] = FALSE]
    /\ UNCHANGED sleepers

\* The block of t is free; its fields are cleared here, as the next owner finds them.
FreeTask(t) ==
    /\ state' = [state EXCEPT ![t] = "FREE"]
    /\ parent' = [parent EXCEPT ![t] = NULL]
    /\ id' = [id EXCEPT ![t] = 0]
    /\ sigterm_handler' = [sigterm_handler EXCEPT ![t] = FALSE]
    /\ sleepers' = sleepers \ {t}

\* reap_zombies: one turn of its loop, with interrupts off.  It unlinks and frees
\* the first task to reap, or ends; it also ends after reaping the list's head.
reap_zombies ==
    LET done == [pc EXCEPT ![current_task] = IF current_task = Idle THEN "hlt" ELSE "user"]
    IN  /\ pc[current_task] = "reap"
        /\ \/ /\ \A i \in DOMAIN ready_queue : ~ShouldReap(ready_queue[i])
              /\ pc' = done /\ irq_depth' = 0
              /\ UNCHANGED <<ready_queue, state, parent, id, sigterm_handler, sleepers>>
           \/ \E i \in DOMAIN ready_queue :
              LET t == ready_queue[i]
              IN  /\ ShouldReap(t)
                  /\ \A j \in 1..(i - 1) : ~ShouldReap(ready_queue[j])
                  /\ ready_queue' = UnlinkAt(ready_queue, i)
                  /\ FreeTask(t)
                  /\ pc' = [(IF i = 1 THEN done ELSE pc) EXCEPT ![t] = "user"]
                  /\ irq_depth' = IF i = 1 THEN 0 ELSE irq_depth
        /\ UNCHANGED <<next_pid, current_task, rq_lock, cli, waking>>
-----------------------------------------------------------------------------
\* Blocking keyboard read: its hlt loop keeps the call's nesting depth.
getc ==
    /\ IF id[current_task] = 1 THEN Performs("getline") ELSE Performs("getc")
    /\ pc' = [pc EXCEPT ![current_task] = "getc"]
    /\ irq_depth' = CallDepth(current_task)
    /\ cli' = (cli /\ id[current_task] # 1)
    /\ UNCHANGED <<ready_queue, state, parent, id, sigterm_handler, next_pid, current_task, rq_lock, sleepers, waking>>

\* A key arrives and the running reader returns to its program.
key ==
    /\ pc[current_task] = "getc"
    /\ pc' = [pc EXCEPT ![current_task] = "user"]
    /\ irq_depth' = 0
    /\ UNCHANGED <<ready_queue, state, parent, id, sigterm_handler, next_pid, current_task, rq_lock, cli, sleepers, waking>>

\* A call number of the legacy range (0-11): "PANIC: Stray call", and a hlt loop at the
\* call's nesting depth, without end.
legacy_call ==
    /\ Performs("legacy") /\ id[current_task] > 2
    /\ pc' = [pc EXCEPT ![current_task] = "stray"]
    /\ irq_depth' = CallDepth(current_task)
    /\ UNCHANGED <<ready_queue, state, parent, id, sigterm_handler, next_pid, current_task, rq_lock, cli, sleepers, waking>>

\* Mutant: a sleeper is made READY whatever became of it.
Woken_Mutant(W) == [t \in Task |-> IF t \in W THEN "READY" ELSE state[t]]

\* The task states once the tasks of W left the sleep queue.
Woken(W) == [t \in Task |-> IF t \in W /\ state[t] = "WAITING" THEN "READY" ELSE state[t]]

\* The timer interrupt: wake the sleepers whose time has come, then switch.
timer_callback ==
    /\ InterruptsOn /\ waking = NULL
    /\ \E W \in SUBSET sleepers :
          /\ sleepers' = sleepers \ W
          /\ task_switch(Woken(W), irq_depth + 1)
    /\ pc' = [pc EXCEPT ![current_task] = IF @ = "hlt" THEN "user" ELSE @]
    /\ UNCHANGED <<ready_queue, parent, id, sigterm_handler, next_pid, irq_depth, rq_lock, cli, waking>>

\* Mutant: READY is stored whatever the task's state.
ap_timer_callback_Mutant(t) ==
    /\ t \in sleepers /\ waking = NULL
    /\ sleepers' = sleepers \ {t}
    /\ waking' = t
    /\ UNCHANGED <<ready_queue, state, parent, id, sigterm_handler, next_pid, current_task, pc, irq_depth, rq_lock, cli>>

\* The same handler on an application processor, where task_switch returns at once:
\* under sq_lock a task is popped and its state tested.
ap_timer_callback(t) ==
    /\ t \in sleepers /\ waking = NULL
    /\ sleepers' = sleepers \ {t}
    /\ waking' = IF state[t] = "WAITING" THEN t ELSE NULL
    /\ UNCHANGED <<ready_queue, state, parent, id, sigterm_handler, next_pid, current_task, pc, irq_depth, rq_lock, cli>>

\* The store of READY, whatever the boot processor has done to the task since the
\* test.  A store into a freed block is not seen by anyone.
ap_timer_wake ==
    /\ waking # NULL
    /\ state' = [state EXCEPT ![waking] = IF @ = "FREE" THEN @ ELSE "READY"]
    /\ waking' = NULL
    /\ UNCHANGED <<ready_queue, parent, id, sigterm_handler, next_pid, current_task, pc, irq_depth, rq_lock, cli, sleepers>>

Next ==
    \/ \E c \in Task : sys_fork(c) \/ spawn_process(c)
    \/ \E h \in BOOLEAN : sigaction(h)
    \/ exit
    \/ page_fault
    \/ \E t \in Task, sig \in {"SIGKILL", "SIGTERM"} : task_send_signal(t, sig)
    \/ task_send_sigint_foreground
    \/ sleep
    \/ wait_for_children
    \/ wait_resume
    \/ wait_reap
    \/ idle_task
    \/ reap_zombies
    \/ getc
    \/ key
    \/ legacy_call
    \/ timer_callback
    \/ \E t \in Task : ap_timer_callback(t)
    \/ ap_timer_wake

Spec == Init /\ [][Next]_vars

(***************************************************************************)
(* Fairness.  The processor does not stop: with interrupts on the timer    *)
(* keeps firing, with interrupts off reap_zombies ends, and the kernel     *)
(* shell returns to its prompt.  A task that gets the processor again and  *)
(* again executes the few instructions up to its next kernel operation     *)
(* before a tick (20 ms) takes it away.  An application processor ends the *)
(* drain it is in.  Nothing is assumed of user programs, of the keyboard   *)
(* or of Ctrl+C.                                                           *)
(***************************************************************************)
FairSpec ==
    /\ Spec
    /\ WF_vars(timer_callback \/ reap_zombies \/ (cli /\ id[current_task] = 1 /\ getc))
    /\ WF_vars(ap_timer_wake)
    /\ SF_vars(idle_task)
    /\ \A t \in Task \ {Idle} : SF_vars(current_task = t /\ (wait_resume \/ wait_reap))
-----------------------------------------------------------------------------
TypeOK ==
    /\ ready_queue \in Seq(Task)
    /\ state \in [Task -> State]
    /\ parent \in [Task -> Task \cup {NULL}]
    /\ id \in [Task -> Nat]
    /\ sigterm_handler \in [Task -> BOOLEAN]
    /\ next_pid \in Nat
    /\ current_task \in Task
    /\ pc \in [Task -> Location]
    /\ irq_depth \in {0, 1}
    /\ rq_lock \in BOOLEAN
    /\ cli \in BOOLEAN
    /\ sleepers \in SUBSET Task
    /\ waking \in Task \cup {NULL}

\* The circular list holds exactly the allocated tasks, each once: a task that is
\* freed by reap_zombies is off the list (and off the sleep queue), current_task is
\* on it, so task_switch never panics with CURRENT TASK NOT IN READY QUEUE.
QueueSound ==
    /\ \A t \in Task : (\E i \in DOMAIN ready_queue : ready_queue[i] = t) <=> state[t] # "FREE"
    /\ \A i, j \in DOMAIN ready_queue : ready_queue[i] = ready_queue[j] => i = j
    /\ state[current_task] # "FREE"
    /\ \A t \in sleepers : state[t] # "FREE"

\* The idle task can always be picked: it is never killed, never waits, and when
\* it is not READY it is the running task.  task_switch relies on it, since with
\* nothing else READY it would set even a zombie RUNNING again.
IdleRunnable == state[Idle] = "READY" \/ (state[Idle] = "RUNNING" /\ current_task = Idle)

\* Only current_task is RUNNING, and no program executes while the state of its task
\* is ZOMBIE or WAITING: current_task is one of these only inside a hlt loop.
OnlyCurrentRuns ==
    /\ \A t \in Task : state[t] = "RUNNING" => t = current_task
    /\ pc[current_task] \in {"user", "getc", "stray", "hlt", "found", "reap"} => state[current_task] \in {"RUNNING", "READY"}
    /\ state[current_task] = "ZOMBIE" => pc[current_task] = "dead"

\* Every switch finds a task to run, and no program of a blocked or dead task runs.
SwitchSound == IdleRunnable /\ OnlyCurrentRuns

\* No two allocated tasks have the same process id, and none has one that is still to
\* be given.
UniquePids ==
    /\ \A t \in Live : id[t] \in 1..(next_pid - 1)
    /\ \A t, u \in Live : id[t] = id[u] => t = u

\* The nesting counter returns to 0 with the processor: only a keyboard read, a
\* reaping wait or a stray legacy call, all inside a system call, sit at depth 1,
\* whatever switches and hlt loops came in between.  A level leaked by a task that
\* died, waited or was switched away from would stop all later switches.
DepthBalanced ==
    irq_depth = IF pc[current_task] \in {"getc", "stray", "found", "reap"} /\ current_task # Idle
                THEN CallDepth(current_task) ELSE 0

\* A task blocked in wait_for_children has a child that is still to die, so there
\* is somebody left to wake it.
WaiterHasChild ==
    \A t \in Task : pc[t] = "wait" /\ state[t] = "WAITING" =>
        \E c \in Children(t) : state[c] # "ZOMBIE"

\* A terminated task stays one until it is freed, with one exception, which the code
\* has: a task killed between an application processor's test of its state and the
\* store of READY is READY again ("if (t->state == TASK_WAITING) t->state = TASK_READY").
OnlyRaceRevives ==
    [][\A t \in Task : state[t] = "ZOMBIE" =>
          state'[t] \in {"ZOMBIE", "FREE"} \/ (waking = t /\ waking' = NULL /\ state'[t] = "READY")]_vars

\* Nobody has died while it held rq_lock, and user programs do not sit in the keyboard
\* read or in a stray call for ever: the first stops every later task_switch, and during
\* the second no tick switches.
Released ==
    /\ [](state[current_task] = "ZOMBIE" => ~rq_lock)
    /\ <>[](pc[current_task] \in {"getc", "stray"} => irq_depth = 0)

\* No task dies between an application processor's test of its state and its store.
NoRace == [](waking # NULL => state[waking] \notin {"ZOMBIE", "FREE"})

\* Every zombie is eventually freed (idle_task, never one itself, is the reaper of last
\* resort), unless the race of the sleep queue's drain brings a dead task back.
ZombieReaped == Released /\ NoRace => \A t \in Task \ {Idle} : state[t] = "ZOMBIE" ~> state[t] = "FREE"

\* A READY task eventually gets the processor, or is terminated before.
ReadyRuns ==
    Released => \A t \in Task : state[t] = "READY" ~> (current_task = t \/ state[t] \in {"ZOMBIE", "FREE"})

\* A blocked wait_for_children returns once no child is left alive, unless that race
\* brings a child back.
WaitReturns ==
    Released /\ NoRace =>
        \A t \in Task \ {Idle} : (pc[t] = "wait" /\ \A c \in Children(t) : state[c] = "ZOMBIE") ~> pc[t] # "wait"

\* A task that terminated itself yields the processor ("If we just killed the
\* current task, yield away").
KilledYields == (state[current_task] = "ZOMBIE") ~> (state[current_task] # "ZOMBIE")

\* A zombie is freed by its parent, or is an orphan ("cleaned up by their parents
\* or by the global orphan reaper").
ReapedByParent ==
    [][\A t \in Task : state[t] = "ZOMBIE" /\ state'[t] = "FREE" =>
          \/ current_task = parent[t]
          \/ parent[t] = NULL \/ state[parent[t]] \in {"FREE", "ZOMBIE"}]_vars

\* The parent pointer of a task is null or points to a task of the list.
ParentInList == \A t \in Live : parent[t] = NULL \/ parent[t] \in Live

\* Creation is refused only when MAX_TASKS tasks exist.
LimitCountsTasks == next_pid > MAX_TASKS => Cardinality(Live) >= MAX_TASKS
=============================================================================
