--------------------------- MODULE TasksSwitching ---------------------------
(***************************************************************************)
(* The steps of Tasks in which the scheduler picks a task or a drain wakes *)
(* sleepers preserve the inductive invariant.                              *)
(***************************************************************************)
EXTENDS TasksInvariant

\* A switch from task states st goes to a task that is READY, and leaves the others
\* as they are, the outgoing task being READY if it was RUNNING.
LEMMA SwitchOutcome ==
    ASSUME Inv, NEW st \in [Task -> State], st[Idle] = state[Idle],
           \A t \in Task : st[t] = "RUNNING" => state[t] = "RUNNING",
           NEW d \in {0, 1}, task_switch(st, d)
    PROVE  /\ current_task' \in Task /\ state' \in [Task -> State]
           /\ state'[current_task'] = "RUNNING"
           /\ st[current_task'] \in {"READY", "RUNNING"}
           /\ \A t \in Task \ {current_task'} :
                 state'[t] = IF st[t] = "RUNNING" THEN "READY" ELSE st[t]
<1> DEFINE out == [t \in Task |-> IF t = current_task /\ st[t] = "RUNNING" THEN "READY" ELSE st[t]]
<1>1. PICK n \in Task : /\ round_robin_pick_next(out, n)
                        /\ current_task' = n
                        /\ state' = [out EXCEPT ![n] = "RUNNING"]
  BY DEF task_switch
<1>2. out \in [Task -> State] /\ out[Idle] = "READY" /\ state[Idle] # "FREE"
  BY TaskAssumption DEF State, Inv, IdleRunnable
<1>3. \A t \in Task : out[t] # "RUNNING" /\ (out[t] = st[t] \/ (st[t] = "RUNNING" /\ out[t] = "READY"))
  BY DEF Inv, OnlyCurrentRuns
<1> HIDE DEF out
<1>4. out[n] = "READY"
  BY <1>1, <1>2, PickReady, TaskAssumption DEF Inv
<1>5. state' \in [Task -> State] /\ state'[n] = "RUNNING" /\ \A t \in Task \ {n} : state'[t] = out[t]
  BY <1>1, <1>2 DEF State
<1> QED BY <1>1, <1>3, <1>4, <1>5

\* What a switch preserves, given how st differs from state: a task may have become
\* WAITING outside wait_for_children, or READY, and nothing else.
LEMMA SwitchStep ==
    ASSUME Inv, NEW st \in [Task -> State], st[Idle] = state[Idle],
           \A t \in Task : st[t] = "RUNNING" => state[t] = "RUNNING",
           \A t \in Task : st[t] = "FREE" <=> state[t] = "FREE",
           \A t \in Task : st[t] = "ZOMBIE" <=> state[t] = "ZOMBIE",
           \A t \in Task : st[t] = "WAITING" => state[t] = "WAITING" \/ pc[t] # "wait",
           irq_depth = 0, task_switch(st, 1),
           pc' \in [Task -> Location],
           \A t \in Task : pc'[t] = pc[t] \/ (pc[t] = "hlt" /\ pc'[t] = "user"),
           sleepers' \subseteq Task, \A t \in sleepers' : state[t] # "FREE",
           UNCHANGED <<ready_queue, parent, id, sigterm_handler, next_pid, irq_depth, rq_lock, cli, waking>>
    PROVE  Inv' /\ ZombieStep
<1>1. /\ current_task' \in Task /\ state' \in [Task -> State]
      /\ state'[current_task'] = "RUNNING"
      /\ st[current_task'] \in {"READY", "RUNNING"}
      /\ \A t \in Task \ {current_task'} :
            state'[t] = IF st[t] = "RUNNING" THEN "READY" ELSE st[t]
  BY SwitchOutcome
<1>2. /\ \A t \in Task : state'[t] = "FREE" <=> state[t] = "FREE"
      /\ \A t \in Task : state'[t] = "ZOMBIE" <=> state[t] = "ZOMBIE"
      /\ \A t \in Task : state'[t] = "RUNNING" <=> t = current_task'
      /\ \A t \in Task : state'[t] = "WAITING" => state[t] = "WAITING" \/ pc[t] # "wait"
  BY <1>1
<1>3. TypeOK'
  BY <1>1 DEF Inv, TypeOK
<1>4. QueueSound'
  BY <1>1, <1>2 DEF Inv, TypeOK, QueueSound
<1>5. IdleRunnable'
  BY <1>1, <1>2, TaskAssumption DEF Inv, IdleRunnable
<1>6. OnlyCurrentRuns'
  BY <1>1, <1>2 DEF Inv, OnlyCurrentRuns
<1>7. UniquePids'
  BY <1>2 DEF Inv, UniquePids, Live
<1>8. \A t \in Task \ {Idle} : pc'[t] \in {"getc", "stray", "found", "reap"} => id[t] = 1
  <2>1. current_task # Idle /\ pc[current_task] \in {"getc", "stray", "found", "reap"} => id[current_task] = 1
    BY DEF Inv, TypeOK, DepthBalanced, CallDepth
  <2> QED BY <2>1 DEF Inv, Aux
<1>9. DepthBalanced'
  BY <1>1, <1>8 DEF DepthBalanced, CallDepth
<1>10. WaiterHasChild'
  BY <1>2 DEF Inv, WaiterHasChild, Children, Live
<1>11. Aux'
  <2>1. pc'[Idle] \in {"user", "hlt", "reap"}
    BY TaskAssumption DEF Inv, Aux
  <2>2. \A t \in Task : state'[t] = "FREE" => pc'[t] = "user"
    <3>1. \A t \in Task : state[t] = "FREE" => pc[t] = "user"
      BY DEF Inv, Aux
    <3> QED BY <1>2, <3>1
  <2> QED BY <1>8, <2>1, <2>2 DEF Inv, Aux
<1>12. ZombieStep
  BY <1>2 DEF ZombieStep
<1> QED BY <1>3, <1>4, <1>5, <1>6, <1>7, <1>9, <1>10, <1>11, <1>12 DEF Inv

\* UABI_SLEEP: the caller blocks and a READY task takes over.
LEMMA SleepStep == Inv /\ sleep => Inv' /\ ZombieStep
<1> SUFFICES ASSUME Inv, sleep PROVE Inv' /\ ZombieStep
  OBVIOUS
<1> DEFINE st == [state EXCEPT ![current_task] = "WAITING"]
<1>1. current_task \in Task \ {Idle} /\ pc[current_task] = "user" /\ state[current_task] \in {"RUNNING", "READY"}
  BY DEF sleep, Performs, Inv, TypeOK, OnlyCurrentRuns
<1>2. irq_depth = 0
  BY <1>1 DEF Inv, DepthBalanced
<1>3. task_switch(st, 1)
  BY <1>2 DEF sleep
<1>4. st \in [Task -> State] /\ st[current_task] = "WAITING" /\ \A t \in Task \ {current_task} : st[t] = state[t]
  BY <1>1 DEF Inv, TypeOK, State
<1> HIDE DEF st
<1>5. /\ pc' \in [Task -> Location] /\ pc' = pc
      /\ sleepers' \subseteq Task /\ \A t \in sleepers' : state[t] # "FREE"
      /\ UNCHANGED <<ready_queue, parent, id, sigterm_handler, next_pid, irq_depth, rq_lock, cli, waking>>
  BY <1>1 DEF sleep, Inv, TypeOK, QueueSound
<1>6. /\ st[Idle] = state[Idle]
      /\ \A t \in Task : st[t] = "RUNNING" => state[t] = "RUNNING"
      /\ \A t \in Task : st[t] = "FREE" <=> state[t] = "FREE"
      /\ \A t \in Task : st[t] = "ZOMBIE" <=> state[t] = "ZOMBIE"
      /\ \A t \in Task : st[t] = "WAITING" => state[t] = "WAITING" \/ pc[t] # "wait"
  BY <1>1, <1>4, TaskAssumption
<1> QED BY <1>2, <1>3, <1>4, <1>5, <1>6, SwitchStep

\* Waking sleepers disturbs nothing, on whatever processor and at whatever time.
LEMMA WokenStates ==
    ASSUME Inv, NEW W \in SUBSET sleepers
    PROVE  /\ Woken(W) \in [Task -> State]
           /\ Woken(W)[Idle] = state[Idle]
           /\ \A t \in Task : Woken(W)[t] = state[t] \/ (state[t] = "WAITING" /\ Woken(W)[t] = "READY")
BY TaskAssumption DEF Inv, TypeOK, State, IdleRunnable, Woken

\* A step that only wakes tasks.
LEMMA WakeStep ==
    ASSUME Inv, NEW W \in SUBSET sleepers, state' = Woken(W), sleepers' = sleepers \ W,
           pc' \in [Task -> Location],
           \A t \in Task : pc'[t] = pc[t] \/ (pc[t] = "hlt" /\ pc'[t] = "user"),
           UNCHANGED <<ready_queue, parent, id, sigterm_handler, next_pid, current_task, irq_depth, rq_lock, cli, waking>>
    PROVE  Inv' /\ ZombieStep
<1>1. /\ state' \in [Task -> State] /\ state'[Idle] = state[Idle]
      /\ \A t \in Task : state'[t] = state[t] \/ (state[t] = "WAITING" /\ state'[t] = "READY")
  BY WokenStates
<1>2. TypeOK' /\ QueueSound'
  <2>1. TypeOK'
    BY <1>1 DEF Inv, TypeOK
  <2>2. QueueSound'
    BY <1>1 DEF Inv, TypeOK, QueueSound
  <2> QED BY <2>1, <2>2
<1>3. IdleRunnable' /\ OnlyCurrentRuns'
  BY <1>1 DEF Inv, TypeOK, IdleRunnable, OnlyCurrentRuns
<1>4. UniquePids'
  <2>1. Live' = Live
    BY <1>1 DEF Live
  <2>2. UniquePids
    BY DEF Inv
  <2> QED BY <2>1, <2>2 DEF UniquePids
<1>5. DepthBalanced'
  BY DEF Inv, TypeOK, DepthBalanced, CallDepth
<1>6. WaiterHasChild'
  BY <1>1 DEF Inv, WaiterHasChild, Children, Live
<1>7. Aux'
  BY <1>1, TaskAssumption DEF Inv, Aux
<1> QED BY <1>1, <1>2, <1>3, <1>4, <1>5, <1>6, <1>7 DEF Inv, ZombieStep

\* A tick of the boot processor, with the switch (depth 0) or without it (depth 1).
LEMMA TimerStep == Inv /\ timer_callback => Inv' /\ ZombieStep
<1> SUFFICES ASSUME Inv, timer_callback PROVE Inv' /\ ZombieStep
  OBVIOUS
<1>1. PICK W \in SUBSET sleepers : sleepers' = sleepers \ W /\ task_switch(Woken(W), irq_depth + 1)
  BY DEF timer_callback
<1>2. /\ pc' \in [Task -> Location]
      /\ \A t \in Task : pc'[t] = pc[t] \/ (pc[t] = "hlt" /\ pc'[t] = "user")
      /\ UNCHANGED <<ready_queue, parent, id, sigterm_handler, next_pid, irq_depth, rq_lock, cli, waking>>
  BY DEF timer_callback, Inv, TypeOK, Location
<1>3. CASE irq_depth = 1
  <2>1. state' = Woken(W) /\ UNCHANGED current_task
    BY <1>1, <1>3 DEF task_switch
  <2> QED BY <1>1, <1>2, <2>1, WakeStep
<1>4. CASE irq_depth = 0
  <2>1. task_switch(Woken(W), 1)
    BY <1>1, <1>4
  <2>2. sleepers' \subseteq Task /\ \A t \in sleepers' : state[t] # "FREE"
    BY <1>1 DEF Inv, TypeOK, QueueSound
  <2>3. /\ Woken(W) \in [Task -> State]
        /\ Woken(W)[Idle] = state[Idle]
        /\ \A t \in Task : Woken(W)[t] = state[t] \/ (state[t] = "WAITING" /\ Woken(W)[t] = "READY")
    BY WokenStates
  <2>4. /\ \A t \in Task : Woken(W)[t] = "RUNNING" => state[t] = "RUNNING"
        /\ \A t \in Task : Woken(W)[t] = "FREE" <=> state[t] = "FREE"
        /\ \A t \in Task : Woken(W)[t] = "ZOMBIE" <=> state[t] = "ZOMBIE"
        /\ \A t \in Task : Woken(W)[t] = "WAITING" => state[t] = "WAITING" \/ pc[t] # "wait"
    BY <2>3
  <2> QED BY <1>2, <1>4, <2>1, <2>2, <2>3, <2>4, SwitchStep
<1> QED BY <1>3, <1>4 DEF Inv, TypeOK

\* The two halves of an application processor's turn: the pop with the test, and the
\* store, which finds the task in any state.
LEMMA DrainStep ==
    ASSUME Inv, (\E t \in Task : ap_timer_callback(t)) \/ ap_timer_wake
    PROVE  Inv' /\ ZombieStep
<1>1. /\ UNCHANGED <<ready_queue, parent, id, sigterm_handler, next_pid, current_task, pc, irq_depth, rq_lock, cli>>
      /\ sleepers' \subseteq sleepers /\ waking' \in Task \cup {NULL}
  BY DEF ap_timer_callback, ap_timer_wake
<1>2. /\ state' \in [Task -> State]
      /\ \A t \in Task : \/ state'[t] = state[t]
                         \/ waking = t /\ waking' = NULL /\ state[t] # "FREE" /\ state'[t] = "READY"
  <2>1. state \in [Task -> State] /\ waking \in Task \cup {NULL}
    BY DEF Inv, TypeOK
  <2>2. CASE \E t \in Task : ap_timer_callback(t)
    <3>1. state' = state
      BY <2>2 DEF ap_timer_callback
    <3> QED BY <2>1, <3>1
  <2>3. CASE ap_timer_wake
    <3>1. /\ waking' = NULL
          /\ state' = [state EXCEPT ![waking] = IF @ = "FREE" THEN @ ELSE "READY"]
      BY <2>3 DEF ap_timer_wake
    <3>2. \A t \in Task : state'[t] = IF t = waking /\ state[t] # "FREE" THEN "READY" ELSE state[t]
      BY <2>1, <3>1
    <3>3. state' \in [Task -> State]
      BY <2>1, <3>1, Zenon DEF State
    <3> QED BY <3>1, <3>2, <3>3
  <2> QED BY <2>2, <2>3
<1>3. TypeOK' /\ QueueSound'
  BY <1>1, <1>2 DEF Inv, TypeOK, QueueSound
<1>4. IdleRunnable' /\ OnlyCurrentRuns'
  BY <1>1, <1>2, TaskAssumption DEF Inv, TypeOK, IdleRunnable, OnlyCurrentRuns
<1>5. UniquePids'
  BY <1>1, <1>2 DEF Inv, UniquePids, Live
<1>6. DepthBalanced'
  BY <1>1 DEF Inv, TypeOK, DepthBalanced, CallDepth
<1>7. WaiterHasChild'
  BY <1>1, <1>2 DEF Inv, WaiterHasChild, Children, Live
<1>8. Aux'
  BY <1>1, <1>2, TaskAssumption DEF Inv, Aux
<1>9. ZombieStep
  BY <1>2 DEF ZombieStep
<1> QED BY <1>3, <1>4, <1>5, <1>6, <1>7, <1>8, <1>9 DEF Inv
=============================================================================
