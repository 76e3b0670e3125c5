----------------------------- MODULE TasksLoops -----------------------------
(***************************************************************************)
(* The steps of Tasks in which current_task goes through kernel loops      *)
(* (waiting, reaping, reading keys) preserve the inductive invariant.      *)
(***************************************************************************)
EXTENDS TasksSwitching

\* A step in which only current_task moves, between places of its own program: it is
\* a running task there, and the nesting depth is the one of the place.
LEMMA LocalStep ==
    ASSUME Inv, NEW to \in Location \ {"dead", "wait"},
           pc' = [pc EXCEPT ![current_task] = to],
           state[current_task] \in {"RUNNING", "READY"},
           current_task = Idle => to \in {"user", "hlt", "reap"},
           irq_depth' = IF to \in {"getc", "stray", "found", "reap"} /\ current_task # Idle
                        THEN CallDepth(current_task) ELSE 0,
           sigterm_handler' \in [Task -> BOOLEAN], cli' \in BOOLEAN,
           UNCHANGED <<ready_queue, state, parent, id, next_pid, current_task, rq_lock, sleepers, waking>>
    PROVE  Inv' /\ ZombieStep
<1>1. current_task \in Task /\ pc'[current_task] = to /\ \A t \in Task \ {current_task} : pc'[t] = pc[t]
  BY DEF Inv, TypeOK
<1>2. TypeOK'
  BY Zenon DEF Inv, TypeOK, CallDepth
<1>3. QueueSound' /\ IdleRunnable' /\ UniquePids'
  BY DEF Inv, QueueSound, IdleRunnable, UniquePids, Live
<1>4. OnlyCurrentRuns'
  BY <1>1 DEF Inv, OnlyCurrentRuns
<1>5. DepthBalanced'
  BY <1>1 DEF DepthBalanced, CallDepth
<1>6. WaiterHasChild'
  BY <1>1 DEF Inv, WaiterHasChild, Children, Live
<1>7. Aux'
  BY <1>1, TaskAssumption DEF Inv, Aux
<1> QED BY <1>2, <1>3, <1>4, <1>5, <1>6, <1>7 DEF Inv, ZombieStep

\* A turn of wait_for_children's loop by a task that is not blocked.
LEMMA WaitScanStep ==
    ASSUME Inv, wait_scan, current_task # Idle,
           state[current_task] \in {"RUNNING", "READY"}, cli' \in BOOLEAN
    PROVE  Inv' /\ ZombieStep
<1> DEFINE zombies == {c \in Children(current_task) : state[c] = "ZOMBIE"}
           to == IF zombies # {} THEN "found" ELSE IF Children(current_task) # {} THEN "wait" ELSE "user"
<1>1. /\ pc' = [pc EXCEPT ![current_task] = to]
      /\ irq_depth' = IF to = "found" THEN CallDepth(current_task) ELSE 0
      /\ state' = IF to = "wait" THEN [state EXCEPT ![current_task] = "WAITING"] ELSE state
      /\ UNCHANGED <<ready_queue, parent, id, sigterm_handler, next_pid, current_task, rq_lock, sleepers, waking>>
  BY DEF wait_scan
<1>2. to = "wait" => zombies = {} /\ Children(current_task) # {}
  OBVIOUS
<1>3. to \in {"found", "wait", "user"}
  OBVIOUS
<1>4. zombies = {} => \A c \in Children(current_task) : state[c] # "ZOMBIE"
  OBVIOUS
<1> HIDE DEF zombies, to
<1>5. CASE to # "wait"
  <2>1. to \in Location \ {"dead", "wait"}
    BY <1>3, <1>5 DEF Location
  <2>2. sigterm_handler' \in [Task -> BOOLEAN]
    BY <1>1 DEF Inv, TypeOK
  <2>3. irq_depth' = IF to \in {"getc", "stray", "found", "reap"} /\ current_task # Idle THEN CallDepth(current_task) ELSE 0
    BY <1>1, <1>3
  <2>4. UNCHANGED <<ready_queue, state, parent, id, next_pid, current_task, rq_lock, sleepers, waking>>
    BY <1>1, <1>5
  <2> QED BY <1>1, <2>1, <2>2, <2>3, <2>4, LocalStep, Zenon
<1>6. CASE to = "wait"
  <2>1. /\ current_task \in Task
        /\ pc'[current_task] = "wait" /\ \A t \in Task \ {current_task} : pc'[t] = pc[t]
        /\ state'[current_task] = "WAITING" /\ \A t \in Task \ {current_task} : state'[t] = state[t]
    BY <1>1, <1>6 DEF Inv, TypeOK
  <2>2. TypeOK'
    BY <1>1, <1>6 DEF Inv, TypeOK, State, Location
  <2>3. QueueSound'
    <3>1. \A t \in Task : state'[t] = "FREE" <=> state[t] = "FREE"
      BY <2>1
    <3> QED BY <1>1, <2>1, <3>1 DEF Inv, TypeOK, QueueSound
  <2>4. IdleRunnable' /\ OnlyCurrentRuns'
    BY <1>1, <2>1, TaskAssumption DEF Inv, IdleRunnable, OnlyCurrentRuns
  <2>5. UniquePids'
    BY <1>1, <2>1 DEF Inv, UniquePids, Live
  <2>6. DepthBalanced'
    BY <1>1, <1>6, <2>1 DEF DepthBalanced
  <2>7. WaiterHasChild'
    <3> SUFFICES ASSUME NEW t \in Task, pc'[t] = "wait", state'[t] = "WAITING"
                 PROVE  \E c \in Task : state'[c] # "FREE" /\ parent[c] = t /\ state'[c] # "ZOMBIE"
      BY <1>1 DEF WaiterHasChild, Children, Live
    <3>1. CASE t = current_task
      <4>1. PICK c \in Children(current_task) : state[c] # "ZOMBIE"
        BY <1>2, <1>4, <1>6
      <4> QED BY <2>1, <3>1, <4>1 DEF Children, Live
    <3>2. CASE t # current_task
      <4>1. PICK c \in Task : state[c] # "FREE" /\ parent[c] = t /\ state[c] # "ZOMBIE"
        BY <2>1, <3>2 DEF Inv, WaiterHasChild, Children, Live
      <4> QED BY <2>1, <4>1
    <3> QED BY <3>1, <3>2
  <2>8. Aux'
    BY <1>1, <2>1, TaskAssumption DEF Inv, Aux
  <2>9. ZombieStep
    BY <2>1 DEF ZombieStep
  <2> QED BY <2>2, <2>3, <2>4, <2>5, <2>6, <2>7, <2>8, <2>9 DEF Inv
<1> QED BY <1>5, <1>6

\* A turn of reap_zombies' loop.
LEMMA ReapStep == Inv /\ reap_zombies => Inv' /\ ZombieStep
<1> SUFFICES ASSUME Inv, reap_zombies PROVE Inv' /\ ZombieStep
  OBVIOUS
<1> DEFINE to == IF current_task = Idle THEN "hlt" ELSE "user"
           done == [pc EXCEPT ![current_task] = to]
<1>1. pc[current_task] = "reap" /\ current_task \in Task /\ state[current_task] \in {"RUNNING", "READY"}
  BY DEF reap_zombies, Inv, TypeOK, OnlyCurrentRuns
<1>2. CASE /\ \A i \in DOMAIN ready_queue : ~ShouldReap(ready_queue[i])
           /\ pc' = done /\ irq_depth' = 0
           /\ UNCHANGED <<ready_queue, state, parent, id, sigterm_handler, sleepers, next_pid, current_task, rq_lock, cli, waking>>
  <2>1. to \in Location \ {"dead", "wait"} /\ to \notin {"getc", "stray", "found", "reap"}
        /\ (current_task = Idle => to \in {"user", "hlt", "reap"})
    BY DEF Location
  <2>2. sigterm_handler' \in [Task -> BOOLEAN] /\ cli' \in BOOLEAN
    BY <1>2 DEF Inv, TypeOK
  <2> HIDE DEF to
  <2> QED BY <1>1, <1>2, <2>1, <2>2, LocalStep, Zenon
<1>3. CASE \E i \in DOMAIN ready_queue :
             /\ ShouldReap(ready_queue[i])
             /\ ready_queue' = UnlinkAt(ready_queue, i)
             /\ FreeTask(ready_queue[i])
             /\ pc' = [(IF i = 1 THEN done ELSE pc) EXCEPT ![ready_queue[i]] = "user"]
             /\ irq_depth' = IF i = 1 THEN 0 ELSE irq_depth
             /\ UNCHANGED <<next_pid, current_task, rq_lock, cli, waking>>
  <2>1. PICK i \in DOMAIN ready_queue :
             /\ ShouldReap(ready_queue[i])
             /\ ready_queue' = UnlinkAt(ready_queue, i)
             /\ FreeTask(ready_queue[i])
             /\ pc' = [(IF i = 1 THEN done ELSE pc) EXCEPT ![ready_queue[i]] = "user"]
             /\ irq_depth' = IF i = 1 THEN 0 ELSE irq_depth
             /\ UNCHANGED <<next_pid, current_task, rq_lock, cli, waking>>
    BY <1>3, Zenon
  <2> DEFINE t == ready_queue[i]
  <2>2. t \in Task /\ state[t] = "ZOMBIE" /\ t # current_task /\ t # Idle
    BY <1>1, <2>1, ElementOfSeq, LenProperties DEF ShouldReap, Inv, TypeOK, IdleRunnable
  <2>3. /\ ready_queue' \in Seq(Task) /\ Distinct(ready_queue')
        /\ \A u : Has(ready_queue', u) <=> (u # t /\ Has(ready_queue, u))
    <3>1. Distinct(ready_queue) /\ ready_queue \in Seq(Task)
      BY DEF Inv, TypeOK, QueueSound, Distinct
    <3> QED BY <2>1, <3>1, UnlinkFromList
  <2>4. PICK at \in {"reap", to} :
             /\ pc' \in [Task -> Location]
             /\ pc'[t] = "user" /\ pc'[current_task] = at /\ \A u \in Task \ {t, current_task} : pc'[u] = pc[u]
             /\ irq_depth' = IF at = "reap" THEN irq_depth ELSE 0
    <3>1. CASE i = 1
      <4>1. pc' = [done EXCEPT ![t] = "user"] /\ irq_depth' = 0 /\ to \in Location /\ to # "reap"
        BY <2>1, <3>1 DEF Location
      <4>2. pc \in [Task -> Location] /\ "user" \in Location
        BY DEF Inv, TypeOK, Location
      <4> HIDE DEF t, to
      <4> QED BY <1>1, <2>2, <4>1, <4>2
    <3>2. CASE i # 1
      BY <1>1, <2>1, <2>2, <3>2 DEF Inv, TypeOK, Location
    <3> QED BY <3>1, <3>2
  <2>5. /\ state' = [state EXCEPT ![t] = "FREE"] /\ parent' = [parent EXCEPT ![t] = NULL]
        /\ id' = [id EXCEPT ![t] = 0] /\ sigterm_handler' = [sigterm_handler EXCEPT ![t] = FALSE]
        /\ sleepers' = sleepers \ {t}
        /\ UNCHANGED <<next_pid, current_task, rq_lock, cli, waking>>
    BY <2>1 DEF FreeTask
  <2>6. to \in {"hlt", "user"} /\ (current_task # Idle => to = "user")
    OBVIOUS
  <2> HIDE DEF t, to
  <2>7. /\ state'[t] = "FREE" /\ id'[t] = 0 /\ parent'[t] = NULL
        /\ \A u \in Task \ {t} : state'[u] = state[u] /\ id'[u] = id[u] /\ parent'[u] = parent[u]
    BY <2>2, <2>5 DEF Inv, TypeOK
  <2>8. TypeOK'
    <3>1. irq_depth' \in {0, 1}
      BY <2>4 DEF Inv, TypeOK
    <3> QED BY <2>2, <2>3, <2>4, <2>5, <3>1 DEF Inv, TypeOK, State
  <2>9. QueueSound'
    <3>1. \A u \in Task : Has(ready_queue', u) <=> state'[u] # "FREE"
      <4>1. \A u \in Task : Has(ready_queue, u) <=> state[u] # "FREE"
        BY DEF Inv, QueueSound, Has
      <4> QED BY <2>3, <2>7, <4>1
    <3>2. state'[current_task'] # "FREE"
      BY <1>1, <2>2, <2>5, <2>7
    <3>3. \A u \in sleepers' : state'[u] # "FREE"
      <4>1. \A u \in sleepers : u \in Task /\ state[u] # "FREE"
        BY DEF Inv, TypeOK, QueueSound
      <4> QED BY <2>5, <2>7, <4>1
    <3> QED BY <2>3, <3>1, <3>2, <3>3 DEF QueueSound, Has, Distinct
  <2>10. IdleRunnable'
    BY <2>2, <2>5, <2>7, TaskAssumption DEF Inv, IdleRunnable
  <2>11. OnlyCurrentRuns'
    BY <1>1, <2>2, <2>5, <2>7 DEF Inv, OnlyCurrentRuns
  <2>12. UniquePids'
    BY <2>2, <2>5, <2>7 DEF Inv, UniquePids, Live
  <2>13. DepthBalanced'
    <3>1. id'[current_task] = id[current_task]
      BY <1>1, <2>2, <2>7
    <3> QED BY <1>1, <2>4, <2>5, <2>6, <3>1 DEF Inv, DepthBalanced, CallDepth
  <2>14. WaiterHasChild'
    <3> SUFFICES ASSUME NEW u \in Task, pc'[u] = "wait", state'[u] = "WAITING"
                 PROVE  \E c \in Task : state'[c] # "FREE" /\ parent'[c] = u /\ state'[c] # "ZOMBIE"
      BY DEF WaiterHasChild, Children, Live
    <3>1. u # t /\ u # current_task
      BY <2>4, <2>6, <2>7
    <3>2. PICK c \in Task : state[c] # "FREE" /\ parent[c] = u /\ state[c] # "ZOMBIE"
      BY <2>4, <2>7, <3>1 DEF Inv, WaiterHasChild, Children, Live
    <3> QED BY <2>2, <2>7, <3>2
  <2>15. Aux'
    <3>1. pc'[Idle] \in {"user", "hlt", "reap"}
      BY <2>2, <2>4, <2>6, TaskAssumption DEF Inv, Aux
    <3>2. \A u \in Task : state'[u] = "FREE" => pc'[u] = "user"
      BY <1>1, <2>4, <2>6, <2>7 DEF Inv, Aux
    <3>3. \A u \in Task \ {current_task, Idle} : pc'[u] \in {"getc", "stray", "found", "reap"} => id'[u] = 1
      BY <2>4, <2>7 DEF Inv, Aux
    <3> QED BY <2>2, <2>5, <2>7, <3>1, <3>2, <3>3, TaskAssumption DEF Inv, Aux
  <2>16. ZombieStep
    BY <2>7 DEF ZombieStep
  <2> QED BY <2>8, <2>9, <2>10, <2>11, <2>12, <2>13, <2>14, <2>15, <2>16 DEF Inv
<1> QED BY <1>2, <1>3 DEF reap_zombies

\* The steps in which current_task moves on alone.
LEMMA OwnStep ==
    Inv /\ ((\E h \in BOOLEAN : sigaction(h)) \/ wait_reap \/ idle_task \/ getc \/ key \/ legacy_call) => Inv' /\ ZombieStep
<1> SUFFICES ASSUME Inv PROVE ((\E h \in BOOLEAN : sigaction(h)) \/ wait_reap \/ idle_task \/ getc \/ key \/ legacy_call) => Inv' /\ ZombieStep
  OBVIOUS
<1> DEFINE Moves(to) ==
      /\ pc' = [pc EXCEPT ![current_task] = to]
      /\ state[current_task] \in {"RUNNING", "READY"}
      /\ current_task = Idle => to \in {"user", "hlt", "reap"}
      /\ irq_depth' = IF to \in {"getc", "stray", "found", "reap"} /\ current_task # Idle
                      THEN CallDepth(current_task) ELSE 0
      /\ sigterm_handler' \in [Task -> BOOLEAN] /\ cli' \in BOOLEAN
      /\ UNCHANGED <<ready_queue, state, parent, id, next_pid, current_task, rq_lock, sleepers, waking>>
<1>1. \A to \in Location \ {"dead", "wait"} : Moves(to) => Inv' /\ ZombieStep
  BY LocalStep, Zenon
<1>2. \A t \in Task : pc[t] \in {"user", "getc", "stray", "hlt", "found", "reap"} /\ t = current_task => state[t] \in {"RUNNING", "READY"}
  BY DEF Inv, OnlyCurrentRuns
<1>3. {"user", "reap", "getc", "stray"} \subseteq Location \ {"dead", "wait"}
  BY DEF Location
<1>4. ASSUME NEW h \in BOOLEAN, sigaction(h) PROVE Moves("user")
  <2>1. pc[current_task] = "user" /\ current_task \in Task /\ irq_depth = 0 /\ pc \in [Task -> Location]
    BY <1>4 DEF sigaction, Performs, Inv, TypeOK, DepthBalanced
  <2>2. pc = [pc EXCEPT ![current_task] = "user"]
    BY <2>1
  <2> QED BY <1>2, <1>4, <2>1, <2>2 DEF sigaction, Inv, TypeOK
<1>5. ASSUME wait_reap PROVE Moves("reap")
  BY <1>2, <1>5 DEF wait_reap, Inv, TypeOK, DepthBalanced
<1>6. ASSUME idle_task PROVE Moves("reap")
  BY <1>2, <1>6, TaskAssumption DEF idle_task, Inv, TypeOK, DepthBalanced
<1>7. ASSUME getc PROVE Moves("getc")
  <2>1. pc[current_task] = "user" /\ current_task # Idle
    BY <1>7 DEF getc, Performs
  <2> QED BY <1>2, <1>7, <2>1 DEF getc, Inv, TypeOK
<1>8. ASSUME key PROVE Moves("user")
  BY <1>2, <1>8 DEF key, Inv, TypeOK
<1>9. ASSUME legacy_call PROVE Moves("stray")
  <2>1. pc[current_task] = "user" /\ current_task # Idle
    BY <1>9 DEF legacy_call, Performs
  <2> QED BY <1>2, <1>9, <2>1 DEF legacy_call, Inv, TypeOK
<1> HIDE DEF Moves
<1> QED BY <1>1, <1>3, <1>4, <1>5, <1>6, <1>7, <1>8, <1>9
=============================================================================
