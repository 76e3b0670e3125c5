--------------------------- MODULE TasksInvariant ---------------------------
(***************************************************************************)
(* The inductive invariant behind the theorems of TasksProofs, what the    *)
(* list operations do to it, and how tasks are created and terminated.     *)
(***************************************************************************)
EXTENDS Tasks, SequenceTheorems, TLAPS

(***************************************************************************)
(* What the inductive argument needs beyond the invariants themselves: who *)
(* PID 2 is, that a free block is in no kernel loop, and that a task       *)
(* switched away from inside a keyboard read or before a reaping is PID 1  *)
(* (the others sit at depth 1, where no switch happens).                   *)
(***************************************************************************)
Aux ==
    /\ id[Idle] = 2 /\ next_pid >= 3
    /\ pc[Idle] \in {"user", "hlt", "reap"}
    /\ \A t \in Task : state[t] = "FREE" => pc[t] = "user"
    /\ \A t \in Task \ {current_task, Idle} : pc[t] \in {"getc", "stray", "found", "reap"} => id[t] = 1

Inv == /\ TypeOK /\ QueueSound /\ IdleRunnable /\ OnlyCurrentRuns
       /\ UniquePids /\ DepthBalanced /\ WaiterHasChild /\ Aux
-----------------------------------------------------------------------------
Has(q, t) == \E k \in DOMAIN q : q[k] = t

Distinct(q) == \A j, k \in DOMAIN q : q[j] = q[k] => j = k

\* Inserting a new element into a list without repetition.
LEMMA LinkIntoList ==
    ASSUME NEW S, NEW s \in Seq(S), NEW i \in 1..(Len(s) + 1), NEW e \in S,
           Distinct(s), ~Has(s, e)
    PROVE  /\ LinkAt(s, i, e) \in Seq(S)
           /\ \A t : Has(LinkAt(s, i, e), t) <=> (t = e \/ Has(s, t))
           /\ Distinct(LinkAt(s, i, e))
<1> DEFINE q == LinkAt(s, i, e)
<1> USE DEF Has, Distinct
<1>1. Len(s) \in Nat /\ DOMAIN s = 1..Len(s)
  BY LenProperties
<1>2. /\ q \in Seq(S)
      /\ Len(q) = Len(s) + 1
      /\ \A k \in 1..(Len(s) + 1) : q[k] = IF k < i THEN s[k] ELSE IF k = i THEN e ELSE s[k - 1]
  BY <1>1 DEF LinkAt
<1> HIDE DEF q
<1>3. DOMAIN q = 1..(Len(s) + 1)
  BY <1>2, LenProperties
<1>4. \A k \in DOMAIN q : k < i => k \in DOMAIN s /\ q[k] = s[k]
  BY <1>1, <1>2, <1>3
<1>5. i \in DOMAIN q /\ q[i] = e
  BY <1>1, <1>2, <1>3
<1>6. \A k \in DOMAIN q : k > i => k - 1 \in DOMAIN s /\ q[k] = s[k - 1]
  BY <1>1, <1>2, <1>3
<1>7. \A k \in DOMAIN q : k < i \/ k = i \/ k > i
  BY <1>1, <1>3
<1>8. ASSUME NEW t PROVE (\E k \in DOMAIN q : q[k] = t) <=> (t = e \/ \E k \in DOMAIN s : s[k] = t)
  <2>1. ASSUME NEW k \in DOMAIN q, q[k] = t PROVE t = e \/ \E j \in DOMAIN s : s[j] = t
    BY <1>4, <1>5, <1>6, <1>7, <2>1
  <2>2. ASSUME NEW k \in DOMAIN s PROVE \E j \in DOMAIN q : q[j] = s[k]
    <3>1. CASE k < i
      <4>1. k \in DOMAIN q BY <1>1, <1>3
      <4> QED BY <1>4, <3>1, <4>1
    <3>2. CASE k >= i
      <4>1. k + 1 \in DOMAIN q /\ k + 1 > i /\ (k + 1) - 1 = k BY <1>1, <1>3, <3>2
      <4> QED BY <1>6, <4>1
    <3> QED BY <1>1, <3>1, <3>2
  <2> QED BY <1>5, <2>1, <2>2
<1>9. ASSUME NEW j \in DOMAIN q, NEW k \in DOMAIN q, q[j] = q[k] PROVE j = k
  <2>1. CASE j < i /\ k < i BY <1>4, <1>9, <2>1
  <2>2. CASE j < i /\ k = i BY <1>4, <1>5, <1>9, <2>2
  <2>3. CASE j < i /\ k > i
    <3>1. j = k - 1 BY <1>4, <1>6, <1>9, <2>3
    <3> QED BY <1>1, <1>3, <2>3, <3>1
  <2>4. CASE j = i /\ k < i BY <1>4, <1>5, <1>9, <2>4
  <2>5. CASE j = i /\ k > i BY <1>5, <1>6, <1>9, <2>5
  <2>6. CASE j > i /\ k < i
    <3>1. j - 1 = k BY <1>4, <1>6, <1>9, <2>6
    <3> QED BY <1>1, <1>3, <2>6, <3>1
  <2>7. CASE j > i /\ k = i BY <1>5, <1>6, <1>9, <2>7
  <2>8. CASE j > i /\ k > i
    <3>1. j - 1 = k - 1 BY <1>6, <1>9, <2>8
    <3> QED BY <1>1, <1>3, <3>1
  <2> QED BY <1>7, <2>1, <2>2, <2>3, <2>4, <2>5, <2>6, <2>7, <2>8
<1> QED BY <1>2, <1>8, <1>9 DEF q

\* Removing an element from a list without repetition.
LEMMA UnlinkFromList ==
    ASSUME NEW S, NEW s \in Seq(S), NEW i \in DOMAIN s,
           Distinct(s)
    PROVE  /\ UnlinkAt(s, i) \in Seq(S)
           /\ \A t : Has(UnlinkAt(s, i), t) <=> (t # s[i] /\ Has(s, t))
           /\ Distinct(UnlinkAt(s, i))
<1> USE DEF Has, Distinct
<1> DEFINE q == UnlinkAt(s, i)
           old(k) == IF k < i THEN k ELSE k + 1
<1>1. Len(s) \in Nat /\ DOMAIN s = 1..Len(s) /\ i \in 1..Len(s)
  BY LenProperties
<1>2. /\ q \in Seq(S) /\ Len(q) = Len(s) - 1
      /\ \A k \in 1..(Len(s) - 1) : q[k] = IF k < i THEN s[k] ELSE s[k + 1]
  BY <1>1 DEF UnlinkAt
<1> HIDE DEF q
<1>3. DOMAIN q = 1..(Len(s) - 1)
  BY <1>2, LenProperties
<1>4. \A k \in DOMAIN q : old(k) \in DOMAIN s /\ old(k) # i /\ q[k] = s[old(k)]
  BY <1>1, <1>2, <1>3
<1>5. \A j, k \in DOMAIN q : old(j) = old(k) => j = k
  BY <1>1, <1>3
<1>6. \A k \in DOMAIN s : k # i => \E j \in DOMAIN q : old(j) = k
  <2>1. TAKE k \in DOMAIN s
  <2>2. HAVE k # i
  <2>3. CASE k < i
    <3>1. k \in DOMAIN q /\ old(k) = k BY <1>1, <1>3, <2>3
    <3> QED BY <3>1
  <2>4. CASE k > i
    <3>1. k - 1 \in DOMAIN q /\ old(k - 1) = k BY <1>1, <1>3, <2>4
    <3> QED BY <3>1
  <2> QED BY <1>1, <2>2, <2>3, <2>4
<1> HIDE DEF old
<1>7. ASSUME NEW t PROVE (\E k \in DOMAIN q : q[k] = t) <=> (t # s[i] /\ \E k \in DOMAIN s : s[k] = t)
  BY <1>4, <1>6
<1>8. \A j, k \in DOMAIN q : q[j] = q[k] => j = k
  BY <1>4, <1>5
<1> QED BY <1>2, <1>7, <1>8 DEF q
-----------------------------------------------------------------------------
\* current_task is on the list, at its position.
LEMMA CurrentPosition ==
    ASSUME TypeOK, QueueSound
    PROVE  /\ Position(current_task) \in 1..Len(ready_queue)
           /\ ready_queue[Position(current_task)] = current_task
           /\ Len(ready_queue) \in Nat /\ DOMAIN ready_queue = 1..Len(ready_queue)
<1>1. Len(ready_queue) \in Nat /\ DOMAIN ready_queue = 1..Len(ready_queue)
  BY LenProperties DEF TypeOK
<1>2. \E i \in DOMAIN ready_queue : ready_queue[i] = current_task
  BY DEF TypeOK, QueueSound
<1> QED BY <1>1, <1>2 DEF Position

\* With a READY task on the list (the idle task, or current_task itself), pick_next
\* returns a READY task: the walk meets that task before it is back at current_task.
LEMMA PickReady ==
    ASSUME TypeOK, QueueSound,
           NEW st \in [Task -> State], NEW r \in Task, st[r] = "READY", state[r] # "FREE",
           NEW n \in Task, round_robin_pick_next(st, n)
    PROVE  st[n] = "READY"
<1> DEFINE L == Len(ready_queue)
           p == Position(current_task)
<1>1. p \in 1..L /\ ready_queue[p] = current_task /\ L \in Nat /\ DOMAIN ready_queue = 1..L
  BY CurrentPosition
<1>0. \A k : Following(k) = IF p + k <= L THEN ready_queue[p + k] ELSE ready_queue[p + k - L]
  BY DEF Following
<1> HIDE DEF p, L
<1>2. PICK k \in 1..L : /\ n = Following(k)
                        /\ st[n] = "READY" \/ n = current_task
                        /\ \A j \in 1..(k - 1) : st[Following(j)] # "READY" /\ Following(j) # current_task
  BY DEF round_robin_pick_next, L
<1>3. SUFFICES ASSUME st[n] # "READY" PROVE FALSE
  OBVIOUS
<1>4. n = current_task
  BY <1>2, <1>3
<1>5. PICK m \in 1..L : ready_queue[m] = r
  BY <1>1 DEF QueueSound
<1>6. m # p
  BY <1>1, <1>3, <1>4, <1>5
<1>7. k = L
  <2>1. CASE p + k <= L
    <3>1. p + k \in 1..L /\ p + k # p
      BY <1>1, <2>1
    <3>2. ready_queue[p + k] = ready_queue[p]
      BY <1>0, <1>1, <1>2, <1>4, <2>1, Zenon
    <3> QED BY <1>1, <3>1, <3>2 DEF QueueSound
  <2>2. CASE p + k > L
    <3>1. p + k - L \in 1..L /\ ~(p + k <= L)
      BY <1>1, <2>2
    <3>2. ready_queue[p + k - L] = ready_queue[p]
      BY <1>0, <1>1, <1>2, <1>4, <3>1, Zenon
    <3>3. p + k - L = p
      BY <1>1, <3>1, <3>2 DEF QueueSound
    <3> QED BY <1>1, <3>3
  <2> QED BY <1>1, <2>1, <2>2
<1>8. CASE m > p
  <2>1. m - p \in 1..(k - 1) /\ p + (m - p) <= L /\ p + (m - p) = m
    BY <1>1, <1>7, <1>8
  <2>2. Following(m - p) = r
    BY <1>0, <1>5, <2>1
  <2> QED BY <1>2, <2>1, <2>2
<1>9. CASE m < p
  <2>1. m - p + L \in 1..(k - 1) /\ ~(p + (m - p + L) <= L) /\ p + (m - p + L) - L = m
    BY <1>1, <1>7, <1>9
  <2>2. Following(m - p + L) = r
    BY <1>0, <1>5, <2>1
  <2> QED BY <1>2, <2>1, <2>2
<1> QED BY <1>1, <1>6, <1>8, <1>9
-----------------------------------------------------------------------------
\* A step takes a zombie nowhere but to the reaper, the store of a drain excepted.
ZombieStep ==
    \A t \in Task : state[t] = "ZOMBIE" =>
        state'[t] \in {"ZOMBIE", "FREE"} \/ (waking = t /\ waking' = NULL /\ state'[t] = "READY")

\* The state init_tasking builds satisfies the invariant.
LEMMA InitInv == Init => Inv
<1> SUFFICES ASSUME Init PROVE Inv
  OBVIOUS
<1> USE TaskAssumption, LimitAssumption DEF Init
<1>1. ready_queue \in Seq(Task) /\ DOMAIN ready_queue = 1..2 /\ ready_queue[1] = Boot /\ ready_queue[2] = Idle
  OBVIOUS
<1>2. TypeOK
  BY <1>1, Zenon DEF TypeOK, State, Location
<1>3. QueueSound
  BY <1>1 DEF QueueSound
<1>4. IdleRunnable /\ OnlyCurrentRuns /\ DepthBalanced /\ Aux
  BY DEF IdleRunnable, OnlyCurrentRuns, DepthBalanced, Aux
<1>5. UniquePids
  BY DEF UniquePids, Live
<1>6. WaiterHasChild
  BY DEF WaiterHasChild
<1> QED BY <1>2, <1>3, <1>4, <1>5, <1>6 DEF Inv

\* A process created by fork or spawn.
LEMMA CreateStep ==
    ASSUME Inv, NEW c \in Task, CreateTask(c)
    PROVE  Inv' /\ ZombieStep
<1> USE DEF CreateTask
<1>1. c # current_task /\ c # Idle /\ state'[c] = "READY" /\ \A t \in Task \ {c} : state'[t] = state[t]
  BY TaskAssumption DEF Inv, TypeOK, QueueSound, IdleRunnable
<1>2. /\ Position(current_task) + 1 \in 1..(Len(ready_queue) + 1)
      /\ \A k \in DOMAIN ready_queue : ready_queue[k] # c
  <2>1. TypeOK /\ QueueSound /\ state[c] = "FREE"
    BY DEF Inv
  <2>2. Position(current_task) \in 1..Len(ready_queue) /\ Len(ready_queue) \in Nat
    BY <2>1, CurrentPosition
  <2>3. Position(current_task) + 1 \in 1..(Len(ready_queue) + 1)
    BY <2>2
  <2> QED BY <2>1, <2>3 DEF QueueSound
<1>3. TypeOK'
  <2>1. ready_queue' \in Seq(Task)
    <3>1. Distinct(ready_queue) /\ ~Has(ready_queue, c) /\ ready_queue \in Seq(Task)
      BY <1>2 DEF Inv, TypeOK, QueueSound, Distinct, Has
    <3> QED BY <1>2, <3>1, LinkIntoList
  <2> QED BY <2>1 DEF Inv, TypeOK, State
<1>4. QueueSound'
  <2>1. Distinct(ready_queue) /\ ~Has(ready_queue, c) /\ ready_queue \in Seq(Task)
    BY <1>2 DEF Inv, TypeOK, QueueSound, Distinct, Has
  <2>2. (\A t : Has(ready_queue', t) <=> (t = c \/ Has(ready_queue, t))) /\ Distinct(ready_queue')
    BY <1>2, <2>1, LinkIntoList
  <2>3. state'[current_task] # "FREE" /\ \A t \in sleepers : state'[t] # "FREE"
    BY <1>1 DEF Inv, TypeOK, QueueSound
  <2> QED BY <1>1, <2>2, <2>3 DEF Inv, QueueSound, Has, Distinct
<1>5. IdleRunnable' /\ OnlyCurrentRuns'
  BY <1>1, TaskAssumption DEF Inv, TypeOK, IdleRunnable, OnlyCurrentRuns
<1>6. UniquePids'
  BY <1>1 DEF Inv, TypeOK, UniquePids, Live, Aux
<1>7. DepthBalanced'
  BY <1>1 DEF Inv, TypeOK, DepthBalanced, CallDepth
<1>8. WaiterHasChild'
  BY <1>1 DEF Inv, TypeOK, WaiterHasChild, Children, Live
<1>9. Aux'
  <2>1. state[c] = "FREE" /\ pc[c] = "user"
    BY DEF Inv, Aux
  <2>2. \A t \in Task \ {c} : id'[t] = id[t]
    BY DEF Inv, TypeOK
  <2>3. \A t \in Task \ {current_task, Idle} : pc[t] \in {"getc", "stray", "found", "reap"} => id'[t] = 1
    BY <2>1, <2>2 DEF Inv, Aux
  <2> QED BY <1>1, <2>1, <2>2, <2>3, TaskAssumption DEF Inv, TypeOK, Aux
<1>10. ZombieStep
  BY <1>1 DEF ZombieStep
<1> QED BY <1>3, <1>4, <1>5, <1>6, <1>7, <1>8, <1>9, <1>10 DEF Inv

\* Termination of the tasks of D, by whatever way.
LEMMA TerminateStep ==
    ASSUME Inv, NEW D \in SUBSET Task, NEW Q, NEW locked \in BOOLEAN,
           Idle \notin D, \A t \in D : state[t] # "FREE",
           do_terminate(D, Q, locked)
    PROVE  Inv' /\ ZombieStep
<1> USE DEF do_terminate
<1>1. /\ state' \in [Task -> State]
      /\ \A t \in D : state'[t] = "ZOMBIE"
      /\ \A t \in Task \ D : state'[t] = state[t] \/ (state[t] = "WAITING" /\ state'[t] = "READY")
      /\ \A t \in Task, d \in D : parent[d] = t => state'[t] # "WAITING"
  BY DEF Terminated, Inv, TypeOK, State
<1>2. /\ pc' \in [Task -> Location]
      /\ current_task \in D => pc'[current_task] = "dead"
      /\ \A t \in Task : t # current_task \/ current_task \notin D => pc'[t] = pc[t]
  BY DEF Inv, TypeOK, Location
<1> HIDE DEF do_terminate
<1>3. /\ UNCHANGED <<ready_queue, parent, id, sigterm_handler, next_pid, current_task, cli, waking>>
      /\ sleepers' \subseteq sleepers /\ rq_lock' \in BOOLEAN
      /\ irq_depth' = IF current_task \in D THEN 0 ELSE irq_depth
  BY DEF do_terminate
<1>4. TypeOK'
  BY <1>1, <1>2, <1>3 DEF Inv, TypeOK
<1>5. QueueSound'
  <2>1. \A t \in Task : state'[t] = "FREE" <=> state[t] = "FREE"
    BY <1>1
  <2> QED BY <1>3, <2>1 DEF Inv, TypeOK, QueueSound
<1>6. IdleRunnable'
  BY <1>1, <1>3, TaskAssumption DEF Inv, IdleRunnable
<1>7. OnlyCurrentRuns'
  <2>1. \A t \in Task : state'[t] = "RUNNING" => t = current_task
    BY <1>1 DEF Inv, OnlyCurrentRuns
  <2>2. CASE current_task \in D
    BY <1>1, <1>2, <1>3, <2>1, <2>2 DEF Inv, TypeOK, OnlyCurrentRuns
  <2>3. CASE current_task \notin D
    <3>1. pc'[current_task] = pc[current_task] /\ current_task \in Task
      BY <1>2, <2>3 DEF Inv, TypeOK
    <3>2. state'[current_task] = state[current_task] \/ (state[current_task] = "WAITING" /\ state'[current_task] = "READY")
      BY <1>1, <2>3, <3>1
    <3> QED BY <1>3, <2>1, <3>1, <3>2 DEF Inv, OnlyCurrentRuns
  <2> QED BY <2>2, <2>3
<1>8. UniquePids'
  BY <1>1, <1>3 DEF Inv, UniquePids, Live
<1>9. DepthBalanced'
  <2>1. current_task \in Task
    BY DEF Inv, TypeOK
  <2> QED BY <1>2, <1>3, <2>1 DEF Inv, DepthBalanced, CallDepth
<1>10. WaiterHasChild'
  <2> SUFFICES ASSUME NEW t \in Task, pc'[t] = "wait", state'[t] = "WAITING"
               PROVE  \E c \in Task : state'[c] # "FREE" /\ parent[c] = t /\ state'[c] # "ZOMBIE"
    BY <1>3 DEF WaiterHasChild, Children, Live
  <2>1. t \notin D /\ state[t] = "WAITING" /\ pc[t] = "wait"
    BY <1>1, <1>2
  <2>2. PICK c \in Task : state[c] # "FREE" /\ parent[c] = t /\ state[c] # "ZOMBIE"
    BY <2>1 DEF Inv, WaiterHasChild, Children, Live
  <2>3. c \notin D
    BY <1>1, <2>2
  <2> QED BY <1>1, <2>2, <2>3
<1>11. Aux'
  <2>1. pc'[Idle] = pc[Idle]
    BY <1>2, TaskAssumption
  <2>2. \A t \in Task : state'[t] = "FREE" => pc'[t] = "user"
    BY <1>1, <1>2 DEF Inv, Aux
  <2>3. \A t \in Task \ {current_task, Idle} : pc'[t] \in {"getc", "stray", "found", "reap"} => id[t] = 1
    BY <1>2 DEF Inv, Aux
  <2> QED BY <1>3, <2>1, <2>2, <2>3 DEF Inv, Aux
<1>12. ZombieStep
  BY <1>1 DEF ZombieStep
<1> QED BY <1>4, <1>5, <1>6, <1>7, <1>8, <1>9, <1>10, <1>11, <1>12 DEF Inv
=============================================================================
