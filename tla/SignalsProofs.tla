---------------------------- MODULE SignalsProofs ----------------------------
(***************************************************************************)
(* Caught signals for any number of tasks, any bound on exec and any mix   *)
(* of programs.  Every call ends in task_check_pending_signals, so the     *)
(* proofs rest on what that operator does to the fields of one task and on *)
(* an invariant of the fields: the guard is set only with a saved context  *)
(* to go back to, and, for programs that stay in their image and awake,    *)
(* exactly while the frame is in the handler.                              *)
(***************************************************************************)
EXTENDS Signals, TLAPS

FieldType ==
    [handler : [Task -> -1..MaxExec], pending : [Task -> SUBSET Sig], in_signal : [Task -> BOOLEAN],
     saved : [Task -> Place \cup {NoPlace}], frame : [Task -> Place]]

\* A task with the guard set has a context to return to.
Returnable(s) == \A t \in Task : s.in_signal[t] => s.saved[t] \in Place

\* Between calls, a task that stays is in main or in its handler, as the guard says.
Tidy(s, t) ==
    IF s.in_signal[t] THEN s.frame[t].at = "handler" /\ s.saved[t] = Main(t, image[t])
    ELSE s.frame[t] = Main(t, image[t])

Inv ==
    /\ TypeOK
    /\ Returnable(Fields)
    /\ Stays => \A t \in Task : Tidy(Fields, t)

\* What the end of a call does to the fields, component by component.
LEMMA Check ==
  ASSUME NEW s \in FieldType, NEW r \in Task, NEW t \in Task, Deliverable(s, t),
         NEW u, u = task_check_pending_signals(s, r, t)
  PROVE  /\ u \in FieldType
         /\ u.handler = s.handler
         /\ u.pending = [s.pending EXCEPT ![t] = @ \ Taken(s, t)]
         /\ u.in_signal = [s.in_signal EXCEPT ![t] = TRUE]
         /\ u.saved = [s.saved EXCEPT ![t] = s.frame[r]]
         /\ u.frame = [s.frame EXCEPT ![r] = [of |-> t, image |-> s.handler[t], at |-> "handler"]]
<1> DEFINE p == [s.pending EXCEPT ![t] = @ \ Taken(s, t)]
           g == [s.in_signal EXCEPT ![t] = TRUE]
           v == [s.saved EXCEPT ![t] = s.frame[r]]
           f == [s.frame EXCEPT ![r] = [of |-> t, image |-> s.handler[t], at |-> "handler"]]
<1>1. u = [handler |-> s.handler, pending |-> p, in_signal |-> g, saved |-> v, frame |-> f]
  BY DEF task_check_pending_signals, FieldType
<1>2. p \in [Task -> SUBSET Sig]
  BY DEF FieldType
<1>3. g \in [Task -> BOOLEAN]
  BY DEF FieldType
<1>4. v \in [Task -> Place \cup {NoPlace}]
  BY DEF FieldType
<1>5. s.handler[t] \in 0..MaxExec
  BY SignalAssumption DEF FieldType, Deliverable
<1>6. f \in [Task -> Place]
  BY <1>5 DEF FieldType, Place
<1> HIDE DEF p, g, v, f
<1>7. u \in FieldType
  BY <1>1, <1>2, <1>3, <1>4, <1>6 DEF FieldType
<1> QED BY <1>1, <1>7 DEF p, g, v, f

\* The fields are those of the type invariant.
LEMMA FieldsType == TypeOK <=> /\ Fields \in FieldType
                               /\ calls \in Mixes /\ current_task \in Task
                               /\ state \in [Task -> {"NONE", "READY", "RUNNING", "WAITING", "ZOMBIE"}]
                               /\ image \in [Task -> 0..MaxExec]
  BY DEF TypeOK, Fields, FieldType

\* A value of the fields that the current task takes to the end of its call.
LEMMA Returned ==
  ASSUME NEW s \in FieldType, current_task \in Task, Returnable(s), Return(s)
  PROVE  /\ Fields' \in FieldType
         /\ Returnable(Fields')
         /\ \A t \in Task : Tidy(s, t) /\ image'[t] = image[t] => Tidy(Fields, t)'
         /\ \A t \in Task : s.in_signal[t] => saved'[t] = s.saved[t]
         /\ \A t \in Task : ~s.in_signal[t] /\ in_signal'[t] => saved'[t] = s.frame[t]
<1> DEFINE c == current_task
           u == task_check_pending_signals(s, c, c)
<1>1. Fields' = u /\ c \in Task
  <2>1. u \in FieldType
    <3>1. CASE Deliverable(s, c)
      <4>1. u = task_check_pending_signals(s, c, c) /\ c \in Task
        OBVIOUS
      <4> HIDE DEF u, c
      <4> QED BY <3>1, <4>1, Check, Zenon
    <3>2. CASE ~Deliverable(s, c)
      BY <3>2, Zenon DEF task_check_pending_signals
    <3> QED BY <3>1, <3>2
  <2> HIDE DEF u
  <2> QED BY <2>1 DEF Return, Becomes, Fields, FieldType, u
<1>2. CASE ~Deliverable(s, c)
  <2>1. Fields' = s
    BY <1>1, <1>2 DEF task_check_pending_signals
  <2> QED BY <2>1 DEF Fields, Tidy, FieldType
<1>3. CASE Deliverable(s, c)
  <2>1. /\ Fields' \in FieldType
        /\ Fields'.handler = s.handler
        /\ Fields'.pending = [s.pending EXCEPT ![c] = @ \ Taken(s, c)]
        /\ Fields'.in_signal = [s.in_signal EXCEPT ![c] = TRUE]
        /\ Fields'.saved = [s.saved EXCEPT ![c] = s.frame[c]]
        /\ Fields'.frame = [s.frame EXCEPT ![c] = [of |-> c, image |-> s.handler[c], at |-> "handler"]]
    BY <1>1, <1>3, Check
  <2> HIDE DEF c, u
  <2>2. c \in Task /\ ~s.in_signal[c]
    BY <1>1, <1>3 DEF Deliverable
  <2>3. Returnable(Fields')
    BY <2>1, <2>2 DEF Returnable, FieldType
  <2>4. ASSUME NEW t \in Task, Tidy(s, t), image'[t] = image[t]
        PROVE  Tidy(Fields, t)'
    BY <2>1, <2>2, <2>4 DEF Tidy, FieldType, Main
  <2>5. /\ pending_signals' = Fields'.pending /\ in_signal' = Fields'.in_signal
        /\ saved' = Fields'.saved /\ frame' = Fields'.frame
    BY DEF Fields
  <2> QED BY <2>1, <2>2, <2>3, <2>4, <2>5 DEF FieldType
<1> QED BY <1>2, <1>3
-----------------------------------------------------------------------------
\* What is shown of every step: the invariant is kept, and no saved context in use is
\* overwritten.
Kept == \A t \in Task : in_signal[t] /\ in_signal'[t] => saved'[t] = saved[t]
Good == Inv' /\ Kept

\* A call of the current task that first brings the fields to s.
LEMMA CallStep ==
  ASSUME Inv, NEW s \in FieldType, Return(s),
         Returnable(s),
         Stays => image' = image /\ \A t \in Task : Tidy(s, t),
         \A t \in Task : in_signal[t] => s.saved[t] = saved[t] /\ (s.in_signal[t] \/ s.frame[t] = saved[t]),
         calls' = calls, current_task' \in Task,
         state' \in [Task -> {"NONE", "READY", "RUNNING", "WAITING", "ZOMBIE"}],
         image' \in [Task -> 0..MaxExec]
  PROVE  Good
<1>1. /\ Fields' \in FieldType
      /\ Returnable(Fields')
      /\ \A t \in Task : Tidy(s, t) /\ image'[t] = image[t] => Tidy(Fields, t)'
      /\ \A t \in Task : s.in_signal[t] => saved'[t] = s.saved[t]
      /\ \A t \in Task : ~s.in_signal[t] /\ in_signal'[t] => saved'[t] = s.frame[t]
  BY Returned DEF Inv, TypeOK
<1>2. Inv'
  <2>1. TypeOK'
    <3>1. (Fields \in FieldType)'
      BY <1>1
    <3> QED BY <3>1, FieldsType DEF Inv, TypeOK, Fields, FieldType
  <2>2. (Stays => \A t \in Task : Tidy(Fields, t))'
    BY <1>1 DEF Stays
  <2> QED BY <1>1, <2>1, <2>2 DEF Inv, Returnable
<1>3. Kept
  BY <1>1 DEF Kept
<1> QED BY <1>2, <1>3 DEF Good

\* The fields as they are satisfy what CallStep asks for.
LEMMA FieldsNow ==
  ASSUME Inv
  PROVE  /\ Fields \in FieldType /\ Returnable(Fields)
         /\ Stays => \A t \in Task : Tidy(Fields, t)
         /\ Fields.handler = sigterm_handler /\ Fields.pending = pending_signals
         /\ Fields.in_signal = in_signal /\ Fields.saved = saved /\ Fields.frame = frame
         /\ current_task \in Task
  BY FieldsType DEF Inv, Fields, TypeOK

\* A call without effect on signals.
LEMMA SyscallStep == Inv /\ syscall_handler /\ UNCHANGED calls => Good
<1> SUFFICES ASSUME Inv, syscall_handler, UNCHANGED calls PROVE Good
  OBVIOUS
<1> QED BY CallStep, FieldsNow DEF syscall_handler, Inv, TypeOK

\* Registering a handler, or removing it.
LEMMA SigactionStep ==
  ASSUME Inv, NEW registers \in BOOLEAN, sigaction(registers), UNCHANGED calls
  PROVE  Good
<1> DEFINE h == [sigterm_handler EXCEPT ![current_task] = IF registers THEN image[current_task] ELSE -1]
           s == [handler |-> h, pending |-> pending_signals, in_signal |-> in_signal,
                 saved |-> saved, frame |-> frame]
<1>1. Return(s)
  BY DEF sigaction, Fields
<1>2. h \in [Task -> -1..MaxExec]
  BY SignalAssumption DEF Inv, TypeOK
<1>3. s \in FieldType
  BY <1>2 DEF Inv, TypeOK, FieldType
<1>4. Returnable(s) /\ (Stays => \A t \in Task : Tidy(s, t))
  BY DEF Inv, Returnable, Tidy, Fields
<1> HIDE DEF h
<1> QED BY <1>1, <1>3, <1>4, CallStep DEF sigaction, Inv, TypeOK

\* Return from the handler: the guard and the frame go back together.
LEMMA SigreturnStep == Inv /\ sigreturn /\ UNCHANGED calls => Good
<1> SUFFICES ASSUME Inv, sigreturn, UNCHANGED calls PROVE Good
  OBVIOUS
<1>1. CASE ~in_signal[current_task]
  BY <1>1, CallStep, FieldsNow DEF sigreturn, Inv, TypeOK
<1>2. CASE in_signal[current_task]
  <2> DEFINE c == current_task
             w == [Fields EXCEPT !.frame[c] = saved[c], !.in_signal[c] = FALSE]
  <2>1. Return(w)
    <3>1. Return(IF in_signal[c] THEN w ELSE Fields)
      BY DEF sigreturn
    <3> HIDE DEF w
    <3> QED BY <1>2, <3>1
  <2>2. c \in Task /\ saved[c] \in Place
    BY <1>2 DEF Inv, TypeOK, Returnable, Fields
  <2>3. /\ w \in FieldType
        /\ w.pending = pending_signals /\ w.saved = saved
        /\ w.in_signal = [in_signal EXCEPT ![c] = FALSE]
        /\ w.frame = [frame EXCEPT ![c] = saved[c]]
    <3>1. ASSUME NEW r \in FieldType, r.saved[c] \in Place, c \in Task
          PROVE  LET v == [r EXCEPT !.frame[c] = r.saved[c], !.in_signal[c] = FALSE]
                 IN  /\ v \in FieldType
                     /\ v.pending = r.pending /\ v.saved = r.saved
                     /\ v.in_signal = [r.in_signal EXCEPT ![c] = FALSE]
                     /\ v.frame = [r.frame EXCEPT ![c] = r.saved[c]]
      BY <3>1 DEF FieldType
    <3> QED BY <2>2, <3>1, FieldsNow
  <2> HIDE DEF w, c
  <2>4. Returnable(w)
    BY <2>2, <2>3 DEF Inv, TypeOK, Returnable, Fields
  <2>5. ASSUME Stays, NEW t \in Task PROVE Tidy(w, t)
    BY <1>2, <2>2, <2>3, <2>5 DEF Inv, TypeOK, Tidy, Fields, c
  <2>6. \A t \in Task : in_signal[t] => w.in_signal[t] \/ w.frame[t] = saved[t]
    BY <2>2, <2>3 DEF Inv, TypeOK
  <2> QED BY <2>1, <2>3, <2>4, <2>5, <2>6, CallStep DEF sigreturn, Inv, TypeOK
<1> QED BY <1>1, <1>2

\* Exec replaces image and frame; programs that stay do not call it.
LEMMA ExecveStep == Inv /\ sys_execve /\ UNCHANGED calls => Good
<1> SUFFICES ASSUME Inv, sys_execve, UNCHANGED calls PROVE Good
  OBVIOUS
<1> DEFINE f == [frame EXCEPT ![current_task] = Main(current_task, image[current_task] + 1)]
           s == [handler |-> sigterm_handler, pending |-> pending_signals, in_signal |-> in_signal,
                 saved |-> saved, frame |-> f]
<1>1. Return(s) /\ ~Stays
  BY DEF sys_execve, Fields, Performs, Stays
<1>2. image[current_task] + 1 \in 0..MaxExec /\ image' \in [Task -> 0..MaxExec]
  BY SignalAssumption DEF sys_execve, Inv, TypeOK
<1>3. f \in [Task -> Place]
  BY <1>2 DEF Main, Place, Inv, TypeOK
<1> HIDE DEF f
<1>4. s \in FieldType /\ Returnable(s)
  BY <1>3 DEF Inv, TypeOK, FieldType, Returnable, Fields
<1> QED BY <1>1, <1>2, <1>4, CallStep DEF sys_execve, Inv, TypeOK

\* Fork gives the child a frame and nothing else.
LEMMA ForkStep ==
  ASSUME Inv, NEW t \in Task, sys_fork(t), UNCHANGED calls
  PROVE  Good
<1> DEFINE f == [frame EXCEPT ![t] = [frame[current_task] EXCEPT !.of = t]]
           s == [handler |-> sigterm_handler, pending |-> pending_signals, in_signal |-> in_signal,
                 saved |-> saved, frame |-> f]
<1>1. Return(s) /\ ~Stays
  BY DEF sys_fork, Fields, Performs, Stays
<1>2. /\ image' \in [Task -> 0..MaxExec]
      /\ state' \in [Task -> {"NONE", "READY", "RUNNING", "WAITING", "ZOMBIE"}]
  BY DEF sys_fork, Inv, TypeOK
<1>3. f \in [Task -> Place]
  BY DEF Place, Inv, TypeOK
<1> HIDE DEF f
<1>4. s \in FieldType /\ Returnable(s)
  BY <1>3 DEF Inv, TypeOK, FieldType, Returnable, Fields
<1> QED BY <1>1, <1>2, <1>4, CallStep DEF sys_fork, Inv, TypeOK

\* Queueing a signal adds bits and nothing else.
LEMMA QueuedFields ==
  ASSUME Inv, NEW T \in SUBSET Task, NEW sig \in Sig
  PROVE  /\ Queued(T, sig) \in FieldType
         /\ Queued(T, sig).handler = sigterm_handler /\ Queued(T, sig).in_signal = in_signal
         /\ Queued(T, sig).saved = saved /\ Queued(T, sig).frame = frame
         /\ Returnable(Queued(T, sig))
         /\ Stays => \A t \in Task : Tidy(Queued(T, sig), t)
<1> DEFINE p == [t \in Task |-> IF t \in Handled(T) THEN pending_signals[t] \cup {sig} ELSE pending_signals[t]]
<1>1. Queued(T, sig) = [handler |-> sigterm_handler, pending |-> p, in_signal |-> in_signal,
                        saved |-> saved, frame |-> frame]
  <2>1. Fields.pending = pending_signals
    BY DEF Fields
  <2>2. Queued(T, sig) = [Fields EXCEPT !.pending = p]
    BY <2>1 DEF Queued
  <2> HIDE DEF p
  <2> QED BY <2>2 DEF Fields
<1>2. p \in [Task -> SUBSET Sig]
  BY DEF Inv, TypeOK
<1> HIDE DEF p
<1>3. Queued(T, sig) \in FieldType
  BY <1>1, <1>2 DEF FieldType, Inv, TypeOK
<1> QED BY <1>1, <1>2, <1>3 DEF Inv, Returnable, Tidy, Fields

\* A system call that signals another task, or the caller itself.
LEMMA KillStep ==
  ASSUME Inv, NEW t \in Task, NEW sig \in Sig, task_send_signal(t, sig), UNCHANGED calls
  PROVE  Good
<1>1. state' \in [Task -> {"NONE", "READY", "RUNNING", "WAITING", "ZOMBIE"}]
  BY DEF task_send_signal, task_deliver_signal, Inv, TypeOK
<1> DEFINE s == Queued({t}, sig)
<1>2. /\ s \in FieldType
      /\ s.in_signal = in_signal /\ s.saved = saved
      /\ Returnable(s)
      /\ Stays => \A x \in Task : Tidy(s, x)
  BY QueuedFields
<1>3. Return(s)
  BY DEF task_send_signal
<1> HIDE DEF s
<1> QED BY <1>1, <1>2, <1>3, CallStep DEF task_send_signal, Inv, TypeOK

\* Ctrl+C only queues: nobody's frame or guard changes.
LEMMA SigintStep ==
  ASSUME Inv, task_send_sigint_foreground, UNCHANGED calls
  PROVE  Good
<1> DEFINE s == Queued(Users, "SIGINT")
<1>1. /\ s \in FieldType
      /\ s.handler = sigterm_handler /\ s.in_signal = in_signal
      /\ s.saved = saved /\ s.frame = frame
      /\ Returnable(s)
      /\ Stays => \A t \in Task : Tidy(s, t)
  BY QueuedFields DEF Users, Sig
<1>2. Becomes(s) /\ image' = image /\ current_task' = current_task
  BY DEF task_send_sigint_foreground
<1>3. state' \in [Task -> {"NONE", "READY", "RUNNING", "WAITING", "ZOMBIE"}]
  BY DEF task_send_sigint_foreground, task_deliver_signal, Inv, TypeOK
<1> HIDE DEF s
<1>4. Fields' = s
  BY <1>1, <1>2 DEF Becomes, Fields, FieldType
<1>5. TypeOK'
  <2>1. (Fields \in FieldType)'
    BY <1>1, <1>4
  <2> QED BY <2>1, <1>2, <1>3 DEF Inv, TypeOK, Fields, FieldType
<1>6. Inv'
  <2>1. Stays' => \A t \in Task : Tidy(Fields, t)'
    BY <1>1, <1>2, <1>4 DEF Stays, Tidy
  <2>2. (Stays => \A t \in Task : Tidy(Fields, t))'
    BY <2>1
  <2> QED BY <1>1, <1>4, <1>5, <2>2 DEF Inv, Returnable
<1>7. Kept
  BY <1>1, <1>2 DEF Kept, Becomes
<1> QED BY <1>6, <1>7 DEF Good

\* A check with the registers of r on behalf of t, delivered or not.
LEMMA Checked ==
  ASSUME NEW s \in FieldType, NEW r \in Task, NEW t \in Task, Returnable(s)
  PROVE  LET u == task_check_pending_signals(s, r, t)
         IN  /\ u \in FieldType /\ Returnable(u)
             /\ \A x \in Task : s.in_signal[x] => u.in_signal[x] /\ u.saved[x] = s.saved[x]
<1> DEFINE u == task_check_pending_signals(s, r, t)
<1>1. CASE ~Deliverable(s, t)
  BY <1>1 DEF task_check_pending_signals
<1>2. CASE Deliverable(s, t)
  <2>0. u = task_check_pending_signals(s, r, t)
    OBVIOUS
  <2> HIDE DEF u
  <2>1. /\ u \in FieldType
        /\ u.handler = s.handler
        /\ u.pending = [s.pending EXCEPT ![t] = @ \ Taken(s, t)]
        /\ u.in_signal = [s.in_signal EXCEPT ![t] = TRUE]
        /\ u.saved = [s.saved EXCEPT ![t] = s.frame[r]]
        /\ u.frame = [s.frame EXCEPT ![r] = [of |-> t, image |-> s.handler[t], at |-> "handler"]]
    BY <1>2, <2>0, Check
  <2>2. Returnable(u)
    BY <2>1 DEF Returnable, FieldType
  <2>3. \A x \in Task : s.in_signal[x] => u.in_signal[x] /\ u.saved[x] = s.saved[x]
    BY <1>2, <2>1 DEF FieldType, Deliverable
  <2> QED BY <2>1, <2>2, <2>3 DEF u
<1> QED BY <1>1, <1>2

\* A switch moves the processor between tasks.
LEMMA SwitchType ==
  ASSUME TypeOK, NEW n \in Task, NEW st \in {"READY", "WAITING"}, Switch(n, st)
  PROVE  /\ current_task' \in Task
         /\ state' \in [Task -> {"NONE", "READY", "RUNNING", "WAITING", "ZOMBIE"}]
  BY DEF TypeOK, Switch

\* Sleep checks for the sleeper, and then for the next task with the sleeper's frame:
\* no context that is in use is overwritten even so.
LEMMA SleepStep == Inv /\ sleep /\ UNCHANGED calls => Good
<1> SUFFICES ASSUME Inv, sleep, UNCHANGED calls PROVE Good
  OBVIOUS
<1> DEFINE c == current_task
           s == task_check_pending_signals(Fields, c, c)
<1>1. PICK n \in Task : Switch(n, "WAITING") /\ Becomes(task_check_pending_signals(s, c, n))
  BY DEF sleep
<1> DEFINE u == task_check_pending_signals(s, c, n)
<1>2. /\ s \in FieldType /\ Returnable(s) /\ c \in Task
      /\ \A x \in Task : in_signal[x] => s.in_signal[x] /\ s.saved[x] = saved[x]
  <2>1. Fields \in FieldType /\ Returnable(Fields) /\ c \in Task
    BY FieldsNow
  <2>2. /\ s \in FieldType /\ Returnable(s)
        /\ \A x \in Task : Fields.in_signal[x] => s.in_signal[x] /\ s.saved[x] = Fields.saved[x]
    BY <2>1, Checked
  <2> QED BY <2>1, <2>2, FieldsNow
<1> HIDE DEF s
<1>3. /\ u \in FieldType /\ Returnable(u)
      /\ \A x \in Task : s.in_signal[x] => u.in_signal[x] /\ u.saved[x] = s.saved[x]
  BY <1>2, Checked
<1>4. Becomes(u)
  BY <1>1
<1> HIDE DEF u
<1>5. Fields' = u /\ saved' = u.saved
  BY <1>3, <1>4 DEF Becomes, Fields, FieldType
<1>6. ~Stays' /\ "sleep" \in calls /\ image' = image /\ calls' = calls
  BY DEF sleep, Performs, Stays
<1>7. TypeOK'
  <2>1. (Fields \in FieldType)'
    BY <1>3, <1>5
  <2> QED BY <1>1, <1>6, <2>1, SwitchType DEF Inv, TypeOK, Fields, FieldType
<1>8. Inv'
  BY <1>3, <1>5, <1>6, <1>7 DEF Inv, Returnable
<1>9. Kept
  BY <1>2, <1>3, <1>5 DEF Kept
<1> QED BY <1>8, <1>9 DEF Good

\* Preemption and wakeups leave the fields alone.
LEMMA SchedulerStep ==
  ASSUME Inv, preempt \/ \E t \in Task : wake(t), UNCHANGED calls
  PROVE  Good
<1>1. UNCHANGED <<calls, sigterm_handler, pending_signals, in_signal, saved, image, frame>>
  BY DEF preempt, wake
<1>2. /\ current_task' \in Task
      /\ state' \in [Task -> {"NONE", "READY", "RUNNING", "WAITING", "ZOMBIE"}]
  BY SwitchType DEF preempt, wake, Inv, TypeOK
<1>3. Inv'
  BY <1>1, <1>2 DEF Inv, TypeOK, Returnable, Tidy, Stays, Fields
<1> QED BY <1>1, <1>3 DEF Good, Kept

\* Every step.
LEMMA Step == Inv /\ Next => Good
  BY SyscallStep, SigactionStep, SigreturnStep, ExecveStep, ForkStep, KillStep, SigintStep,
     SleepStep, SchedulerStep DEF Next

\* Nothing happens in a stuttering step.
LEMMA Stutter == Inv /\ UNCHANGED vars => Inv'
  BY DEF vars, Inv, TypeOK, Returnable, Tidy, Stays, Fields

\* Initially every task is in main, without handler, signal or saved context.
LEMMA InitInv == Init => Inv
<1> SUFFICES ASSUME Init PROVE Inv
  OBVIOUS
<1>1. TypeOK
  BY SignalAssumption DEF Init, TypeOK, Main, Place
<1> QED BY <1>1 DEF Init, Inv, Returnable, Tidy, Fields
-----------------------------------------------------------------------------
\* The guard in_signal is set exactly while a task that stays awake and in its image
\* executes its handler, and sigreturn then leads back to where the signal came: for
\* any number of tasks and whatever they do.
THEOREM GuardIsExact == Spec => []GuardMeansHandler
<1>1. Inv => GuardMeansHandler
  <2>1. Inv => TypeOK /\ (Stays => \A t \in Task : Tidy(Fields, t))
    BY DEF Inv
  <2> QED BY <2>1 DEF GuardMeansHandler, Tidy, Fields, Main
<1>2. Inv /\ [Next]_vars => Inv'
  BY Step, Stutter DEF Good
<1> QED BY InitInv, <1>1, <1>2, PTL DEF Spec

\* No dispatch overwrites the context that a running handler returns to, the dispatches
\* at the end of sleep with the wrong registers included.
THEOREM SavedIsKept == Spec => SavedKept
<1>1. Inv /\ [Next]_vars => Inv'
  BY Step, Stutter DEF Good
<1>2. Inv /\ [Next]_vars => [\A t \in Task : in_signal[t] /\ in_signal'[t] => saved'[t] = saved[t]]_vars
  BY Step DEF Good, Kept
<1> QED BY InitInv, <1>1, <1>2, PTL DEF Spec, SavedKept
=============================================================================
