------------------------------- MODULE Signals -------------------------------
(***************************************************************************)
(* Caught signals (kernel/core/task.c, syscall_dispatch.c): registering a  *)
(* handler, queueing SIGTERM and SIGINT, redirecting the interrupted frame *)
(* to the handler at the end of a system call, and sigreturn.              *)
(*                                                                         *)
(* A frame is the user context that the kernel will return to: whose code  *)
(* it runs, in which image (exec replaces the image) and where.  The       *)
(* scheduler is any choice of a READY task (Tasks has the policy).  A      *)
(* fatal signal to the running task stops the kernel (see Tasks) and is    *)
(* left out here.                                                          *)
(***************************************************************************)
EXTENDS Integers, FiniteSets

CONSTANTS Task, Idle,
          Mixes,      \* sets of operations: the mixes of programs to consider
          MaxExec     \* bound: the number of exec calls of each task

ASSUME SignalAssumption == Idle \in Task /\ MaxExec \in Nat

VARIABLES
    calls,              \* the operations that the programs of this run perform
    current_task, state,
    sigterm_handler,    \* the image whose handler is registered, or -1
    pending_signals, in_signal,
    saved,              \* saved_eip and saved_esp: a place, or NoPlace
    image,              \* the image each task runs
    frame               \* the user context of each task

vars == <<calls, current_task, state, sigterm_handler, pending_signals, in_signal, saved, image, frame>>

Sig == {"SIGTERM", "SIGINT"}

Place == [of : Task, image : 0..MaxExec, at : {"main", "handler"}]

\* The zeros of a fresh task_t.
NoPlace == [of |-> Idle, image |-> 0, at |-> "nowhere"]

Main(t, i) == [of |-> t, image |-> i, at |-> "main"]

Init ==
    /\ calls \in Mixes
    /\ current_task = Idle
    /\ \E T \in SUBSET (Task \ {Idle}) :
          state = [t \in Task |-> IF t = Idle THEN "RUNNING" ELSE IF t \in T THEN "READY" ELSE "NONE"]
    /\ sigterm_handler = [t \in Task |-> -1]
    /\ pending_signals = [t \in Task |-> {}]
    /\ in_signal = [t \in Task |-> FALSE]
    /\ saved = [t \in Task |-> NoPlace]
    /\ image = [t \in Task |-> 0]
    /\ frame = [t \in Task |-> Main(t, 0)]
-----------------------------------------------------------------------------
\* The signal fields and frames, as one value that a call transforms.
Fields == [handler |-> sigterm_handler, pending |-> pending_signals, in_signal |-> in_signal,
           saved |-> saved, frame |-> frame]

Becomes(s) ==
    /\ sigterm_handler' = s.handler /\ pending_signals' = s.pending /\ in_signal' = s.in_signal
    /\ saved' = s.saved /\ frame' = s.frame

Deliverable(s, t) == ~s.in_signal[t] /\ s.handler[t] # -1 /\ s.pending[t] # {}

\* Mutant: SIGINT goes first.
Taken_Mutant(s, t) == IF "SIGINT" \in s.pending[t] THEN {"SIGINT"} ELSE {"SIGTERM"}

\* The bit that is dispatched: SIGTERM goes first.
Taken(s, t) == IF "SIGTERM" \in s.pending[t] THEN {"SIGTERM"} ELSE {"SIGINT"}

\* task_check_pending_signals with the registers of task r while current_task is t:
\* the signal state is t's, the redirected frame is r's.
task_check_pending_signals(s, r, t) ==
    IF ~Deliverable(s, t) THEN s
    ELSE [s EXCEPT !.pending[t]   = @ \ Taken(s, t),
                   !.saved[t]     = s.frame[r],
                   !.frame[r] = [of |-> t, image |-> s.handler[t], at |-> "handler"],
                   !.in_signal[t] = TRUE]

\* The end of a system call of current_task that did not switch.
Return(s) == Becomes(task_check_pending_signals(s, current_task, current_task))

\* The tasks in the ready queue that signals may reach.
Users == {t \in Task \ {Idle} : state[t] # "NONE"}

Performs(c) == c \in calls /\ current_task # Idle

\* Any call without effect on signals, blocking ones included.
syscall_handler ==
    /\ Performs("syscall")
    /\ Return(Fields)
    /\ UNCHANGED <<current_task, state, image>>

sigaction(registers) ==
    /\ Performs("sigaction")
    /\ Return([Fields EXCEPT !.handler[current_task] = IF registers THEN image[current_task] ELSE -1])
    /\ UNCHANGED <<current_task, state, image>>

\* Mutant: the guard stays set after the handler.
sigreturn_Mutant ==
    /\ Performs("sigreturn") /\ frame[current_task].at = "handler"
    /\ Return(IF in_signal[current_task]
              THEN [Fields EXCEPT !.frame[current_task] = saved[current_task]]
              ELSE Fields)
    /\ UNCHANGED <<current_task, state, image>>

\* The trampoline calls it when the handler returns.
sigreturn ==
    /\ Performs("sigreturn") /\ frame[current_task].at = "handler"
    /\ Return(IF in_signal[current_task]
              THEN [Fields EXCEPT !.frame[current_task] = saved[current_task],
                                  !.in_signal[current_task] = FALSE]
              ELSE Fields)
    /\ UNCHANGED <<current_task, state, image>>

Handled(T) == {t \in T : sigterm_handler[t] # -1}

\* SIGTERM or SIGINT to the tasks T: a bit for those with a handler, death for the others.
Queued(T, sig) ==
    [Fields EXCEPT !.pending = [t \in Task |-> IF t \in Handled(T) THEN @[t] \cup {sig} ELSE @[t]]]

task_deliver_signal(T) ==
    /\ current_task \notin T \ Handled(T)
    /\ state' = [t \in Task |-> IF t \in T \ Handled(T) THEN "ZOMBIE" ELSE state[t]]

task_send_signal(t, sig) ==
    /\ Performs("kill") /\ t \in Users
    /\ task_deliver_signal({t})
    /\ Return(Queued({t}, sig))
    /\ UNCHANGED <<current_task, image>>

\* Ctrl+C, in the keyboard interrupt: there is no check on the way back.
task_send_sigint_foreground ==
    /\ "ctrlc" \in calls
    /\ task_deliver_signal(Users)
    /\ Becomes(Queued(Users, "SIGINT"))
    /\ UNCHANGED <<current_task, image>>

\* Mutant: the saved context is reset, but not the guard.
sys_execve_Mutant ==
    /\ Performs("exec") /\ image[current_task] < MaxExec
    /\ image' = [image EXCEPT ![current_task] = @ + 1]
    /\ Return([Fields EXCEPT !.frame[current_task] = Main(current_task, image[current_task] + 1),
                             !.saved[current_task] = NoPlace])
    /\ UNCHANGED <<current_task, state>>

\* A successful exec: a new image and a new context, nothing else.
sys_execve ==
    /\ Performs("exec") /\ image[current_task] < MaxExec
    /\ image' = [image EXCEPT ![current_task] = @ + 1]
    /\ Return([Fields EXCEPT !.frame[current_task] = Main(current_task, image[current_task] + 1)])
    /\ UNCHANGED <<current_task, state>>

\* The child gets a copy of the parent's frame and a zeroed task_t.
sys_fork(t) ==
    /\ Performs("fork") /\ state[t] = "NONE"
    /\ state' = [state EXCEPT ![t] = "READY"]
    /\ image' = [image EXCEPT ![t] = image[current_task]]
    /\ Return([Fields EXCEPT !.frame[t] = [frame[current_task] EXCEPT !.of = t]])
    /\ UNCHANGED current_task

\* The processor goes to a READY task; the outgoing one is left in state st.
Switch(n, st) ==
    /\ state[n] = "READY" /\ n # current_task
    /\ current_task' = n
    /\ state' = [state EXCEPT ![n] = "RUNNING", ![current_task] = st]

\* UABI_SLEEP: pending signals are checked, schedule() switches, and the end of the
\* system call checks again, with the sleeper's registers and the next task_t.
sleep ==
    /\ Performs("sleep")
    /\ \E n \in Task :
          /\ Switch(n, "WAITING")
          /\ LET c == current_task
                 s == task_check_pending_signals(Fields, c, c)
             IN  Becomes(task_check_pending_signals(s, c, n))
    /\ UNCHANGED image

\* A tick may switch tasks.  There is no check on the way back.
preempt ==
    /\ \/ \E n \in Task : Switch(n, "READY")
       \/ UNCHANGED <<current_task, state>>
    /\ UNCHANGED <<sigterm_handler, pending_signals, in_signal, saved, image, frame>>

\* A sleeper's tick comes, or a child of it dies.
wake(t) ==
    /\ state[t] = "WAITING"
    /\ state' = [state EXCEPT ![t] = "READY"]
    /\ UNCHANGED <<current_task, sigterm_handler, pending_signals, in_signal, saved, image, frame>>

Next ==
    /\ \/ syscall_handler \/ sigreturn \/ sys_execve \/ sleep \/ preempt
       \/ \E r \in BOOLEAN : sigaction(r)
       \/ \E t \in Task, sig \in Sig : task_send_signal(t, sig)
       \/ task_send_sigint_foreground
       \/ \E t \in Task : wake(t) \/ sys_fork(t)
    /\ UNCHANGED calls

Spec == Init /\ [][Next]_vars

\* Every READY task gets its turn (ReadyRuns of Tasks), a program keeps making
\* system calls while it runs, and a handler returns.
FairSpec ==
    /\ Spec
    /\ \A t \in Task : /\ WF_vars(preempt /\ current_task # t /\ current_task' = t /\ UNCHANGED calls)
                      /\ SF_vars(syscall_handler /\ current_task = t /\ UNCHANGED calls)
                      /\ SF_vars(sigreturn /\ current_task = t /\ UNCHANGED calls)
-----------------------------------------------------------------------------
TypeOK ==
    /\ calls \in Mixes
    /\ current_task \in Task
    /\ state \in [Task -> {"NONE", "READY", "RUNNING", "WAITING", "ZOMBIE"}]
    /\ sigterm_handler \in [Task -> -1..MaxExec]
    /\ pending_signals \in [Task -> SUBSET Sig]
    /\ in_signal \in [Task -> BOOLEAN]
    /\ saved \in [Task -> Place \cup {NoPlace}]
    /\ image \in [Task -> 0..MaxExec]
    /\ frame \in [Task -> Place]

\* Programs that do not sleep, fork or exec (the calls after which the signal state
\* and the frame no longer belong together).
Stays == calls \cap {"sleep", "fork", "exec"} = {}

\* The reentrancy guard is set exactly while the task executes its handler
\* ("non-zero while executing a signal handler"), however signals, handlers,
\* switches and returns interleave, and the handler returns to the place of its own
\* task that the signal interrupted.
GuardMeansHandler ==
    /\ TypeOK
    /\ Stays => \A t \in Task :
          /\ in_signal[t] <=> frame[t].at = "handler"
          /\ in_signal[t] => saved[t] = Main(t, image[t])

\* A task runs only its own code, of the image it has.
OwnCode == \A t \in Task : frame[t].of = t /\ frame[t].image = image[t]

\* While the guard is set, no other dispatch overwrites the saved context, whatever
\* the task and the others do: the handler can still return to where it came from.
SavedKept == [][\A t \in Task : in_signal[t] /\ in_signal'[t] => saved'[t] = saved[t]]_vars

\* The signals of t that a step consumes, and that t enters its handler for one of
\* them: the handler of the image that it runs.
Consumed(t) == pending_signals[t] \ pending_signals'[t]
Enters(t) ==
    /\ frame'[t] = [of |-> t, image |-> image'[t], at |-> "handler"]
    /\ Cardinality(Consumed(t)) = 1

\* A queued signal is consumed only by its own task entering its handler ("the
\* kernel will invoke by injecting a frame into the task's stack"), one signal for
\* each entry.
NoLostSignal == [][\A t \in Task : Consumed(t) # {} => Enters(t)]_vars

\* A caught SIGTERM does not stay queued for ever, whichever signals, returns and
\* switches come between: it is dispatched, unless the handler is removed or the task
\* dies first.  (SIGINT has no such promise: it waits behind every SIGTERM.)
TermDispatched ==
    Stays => \A t \in Task \ {Idle} :
        "SIGTERM" \in pending_signals[t]
            ~> \/ "SIGTERM" \notin pending_signals[t]
               \/ sigterm_handler[t] = -1 \/ state[t] = "ZOMBIE"

\* A signal queued for a task is dispatched when the task is next scheduled
\* ("handler will be called on next schedule").
CalledOnSchedule ==
    [][\A t \in Task : current_task # t /\ current_task' = t /\ Deliverable(Fields, t)
          => frame'[t].at = "handler"]_vars
=============================================================================
