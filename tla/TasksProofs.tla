---------------------------- MODULE TasksProofs -----------------------------
(***************************************************************************)
(* Proofs about Tasks: the safety invariants and OnlyRaceRevives hold for  *)
(* any number of tasks, any task limit and any mix of operations.          *)
(***************************************************************************)
EXTENDS TasksLoops

\* The four ways a task is terminated.
LEMMA KillStep ==
    Inv /\ (\/ exit \/ page_fault \/ task_send_sigint_foreground
            \/ \E t \in Task, sig \in {"SIGKILL", "SIGTERM"} : task_send_signal(t, sig)) => Inv' /\ ZombieStep
<1> SUFFICES ASSUME Inv PROVE (\/ exit \/ page_fault \/ task_send_sigint_foreground
            \/ \E t \in Task, sig \in {"SIGKILL", "SIGTERM"} : task_send_signal(t, sig)) => Inv' /\ ZombieStep
  OBVIOUS
<1> DEFINE Victims == {D \in SUBSET Task : Idle \notin D /\ \A t \in D : state[t] # "FREE"}
<1>1. \A D \in Victims, locked \in BOOLEAN : \A Q : do_terminate(D, Q, locked) => Inv' /\ ZombieStep
  BY TerminateStep
<1>2. current_task # Idle => {current_task} \in Victims
  BY DEF Inv, TypeOK, QueueSound
<1>3. ASSUME exit PROVE \E D \in Victims, locked \in BOOLEAN : \E Q : do_terminate(D, Q, locked)
  BY <1>2, <1>3, Zenon DEF exit, Performs
<1>4. ASSUME page_fault PROVE \E D \in Victims, locked \in BOOLEAN : \E Q : do_terminate(D, Q, locked)
  BY <1>2, <1>4, Zenon DEF page_fault, Performs
<1>5. ASSUME NEW t \in Task, NEW sig \in {"SIGKILL", "SIGTERM"}, task_send_signal(t, sig)
      PROVE  \E D \in Victims, locked \in BOOLEAN : \E Q : do_terminate(D, Q, locked)
  <2>1. {t} \in Victims
    BY <1>5 DEF task_send_signal, Fatal, Inv, Aux
  <2> QED BY <1>5, <2>1, Zenon DEF task_send_signal
<1>6. ASSUME task_send_sigint_foreground
      PROVE  \E D \in Victims, locked \in BOOLEAN : \E Q : do_terminate(D, Q, locked)
  <2> DEFINE all == {t \in Task : id[t] > 2 /\ Fatal(t, "SIGINT")}
             victims == IF current_task \in all
                        THEN {t \in all : Position(t) <= Position(current_task)}
                        ELSE all
  <2>1. do_terminate(victims, victims, TRUE)
    BY <1>6, Zenon DEF task_send_sigint_foreground
  <2>2. victims \subseteq all
    OBVIOUS
  <2>3. all \in Victims
    BY DEF Fatal, Inv, Aux
  <2>4. victims \in Victims
    BY <2>2, <2>3
  <2> HIDE DEF victims
  <2> QED BY <2>1, <2>4, Zenon
<1> HIDE DEF Victims
<1> QED BY <1>1, <1>3, <1>4, <1>5, <1>6

\* Every step preserves the inductive invariant and leaves zombies to the reaper.
LEMMA NextStep == Inv /\ [Next]_vars => Inv' /\ [ZombieStep]_vars
<1> SUFFICES ASSUME Inv, [Next]_vars PROVE Inv' /\ [ZombieStep]_vars
  OBVIOUS
<1>1. CASE \E c \in Task : sys_fork(c) \/ spawn_process(c)
  BY <1>1, CreateStep DEF sys_fork, spawn_process
<1>2. CASE \/ exit \/ page_fault \/ task_send_sigint_foreground
           \/ \E t \in Task, sig \in {"SIGKILL", "SIGTERM"} : task_send_signal(t, sig)
  BY <1>2, KillStep
<1>3. CASE (\E h \in BOOLEAN : sigaction(h)) \/ wait_reap \/ idle_task \/ getc \/ key \/ legacy_call
  BY <1>3, OwnStep
<1>4. CASE sleep
  BY <1>4, SleepStep
<1>5. CASE wait_for_children
  <2>1. wait_scan /\ current_task # Idle /\ state[current_task] \in {"RUNNING", "READY"} /\ cli' \in BOOLEAN
    BY <1>5 DEF wait_for_children, Performs, Inv, TypeOK, OnlyCurrentRuns
  <2> QED BY <2>1, WaitScanStep
<1>6. CASE wait_resume
  <2>1. pc[current_task] = "wait" /\ state[current_task] # "WAITING" /\ state[current_task] \in State
    BY <1>6 DEF wait_resume, Inv, TypeOK
  <2>2. wait_scan /\ current_task # Idle /\ state[current_task] \in {"RUNNING", "READY"} /\ cli' \in BOOLEAN
    BY <1>6, <2>1 DEF wait_resume, Inv, TypeOK, OnlyCurrentRuns, QueueSound, Aux, State
  <2> QED BY <2>2, WaitScanStep
<1>7. CASE reap_zombies
  BY <1>7, ReapStep
<1>8. CASE timer_callback
  BY <1>8, TimerStep
<1>9. CASE (\E t \in Task : ap_timer_callback(t)) \/ ap_timer_wake
  BY <1>9, DrainStep
<1>10. CASE UNCHANGED vars
  <2> USE <1>10 DEF vars, Inv
  <2>1. TypeOK' /\ QueueSound'
    BY DEF TypeOK, QueueSound
  <2>2. IdleRunnable' /\ OnlyCurrentRuns' /\ DepthBalanced'
    BY DEF IdleRunnable, OnlyCurrentRuns, DepthBalanced, CallDepth
  <2>3. UniquePids'
    BY DEF UniquePids, Live
  <2>4. WaiterHasChild'
    BY DEF WaiterHasChild, Children, Live
  <2>5. Aux'
    BY DEF Aux
  <2> QED BY <2>1, <2>2, <2>3, <2>4, <2>5
<1> QED BY <1>1, <1>2, <1>3, <1>4, <1>5, <1>6, <1>7, <1>8, <1>9, <1>10 DEF Next

\* Inv is an invariant of the scheduler.
THEOREM Invariance == Spec => []Inv
<1>1. Inv /\ [Next]_vars => Inv'
  BY NextStep
<1> QED BY InitInv, <1>1, PTL DEF Spec

\* Every field of every task_t, and the scheduler's own variables, keep their types;
\* in particular the nesting counter never leaves {0, 1} between kernel steps.
THEOREM TypeCorrect == Spec => []TypeOK
<1>1. Inv => TypeOK
  BY DEF Inv
<1> QED BY <1>1, Invariance, PTL

\* The circular list holds exactly the allocated tasks, without repetition, through
\* every fork, spawn, kill, reap and switch: task_switch never walks into a freed
\* task_t and never panics for a current_task it does not find.
THEOREM QueueIsSound == Spec => []QueueSound
<1>1. Inv => QueueSound
  BY DEF Inv
<1> QED BY <1>1, Invariance, PTL

\* The idle task can always be picked, and nothing but current_task is RUNNING: no
\* program executes while the state of its task is ZOMBIE or WAITING.
THEOREM SwitchIsSound == Spec => []SwitchSound
<1>1. Inv => SwitchSound
  BY DEF Inv, SwitchSound
<1> QED BY <1>1, Invariance, PTL

\* No two tasks ever share a process id.
THEOREM PidsAreUnique == Spec => []UniquePids
<1>1. Inv => UniquePids
  BY DEF Inv
<1> QED BY <1>1, Invariance, PTL

\* irq_depth is balanced: blocking system calls, which zero it, and the switches in
\* between never leak a level.
THEOREM DepthIsBalanced == Spec => []DepthBalanced
<1>1. Inv => DepthBalanced
  BY DEF Inv
<1> QED BY <1>1, Invariance, PTL

\* A task blocked in wait_for_children always has a child left to wake it: no exit,
\* kill, fault or reap by another task loses the wakeup.
THEOREM WaitersAreWoken == Spec => []WaiterHasChild
<1>1. Inv => WaiterHasChild
  BY DEF Inv
<1> QED BY <1>1, Invariance, PTL

\* A terminated task is made READY again by nothing but the store of an application
\* processor that had tested its state before it died.
THEOREM DeadUnlessRaced == Spec => OnlyRaceRevives
<1>1. Inv /\ [Next]_vars => [ZombieStep]_vars
  BY NextStep
<1>2. OnlyRaceRevives <=> [][ZombieStep]_vars
  BY DEF OnlyRaceRevives, ZombieStep
<1> QED BY <1>1, <1>2, Invariance, PTL DEF Spec
=============================================================================
