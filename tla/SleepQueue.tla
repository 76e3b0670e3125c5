----------------------------- MODULE SleepQueue -----------------------------
(***************************************************************************)
(* The sorted sleep queue of kernel/core/task.c with the processors'       *)
(* timers.  Tasks run on the boot processor (Bsp), whose system calls and  *)
(* interrupt handlers are not interrupted; the timers of the application   *)
(* processors (Ap) drain the queue at any time, and are kept out by        *)
(* sq_lock only.  The steps are the ones another processor can tell apart. *)
(* A task's state is READY here also while it runs.                        *)
(***************************************************************************)
EXTENDS Integers, FiniteSets, Sequences

CONSTANTS Task, NULL,
          Bsp, Ap,      \* the boot processor and the application processors
          Parent,       \* the parent pointer of each task
          MaxTick,      \* bound: the clock stops here
          MaxSleep      \* bound: the longest sleep, in ticks

ASSUME SleepAssumption ==
    /\ NULL \notin Task \cup Ap \cup {Bsp} /\ Bsp \notin Ap
    /\ Parent \in [Task -> Task \cup {NULL}]
    /\ MaxTick \in Nat /\ MaxSleep \in Nat

VARIABLES
    sleep_queue, sleep_next, sleep_until,    \* the list
    state,                                   \* of each task
    tick, cur_tick,                          \* the clock, and what each timer read
    sq_lock,                                 \* the processor that holds it
    at, t, prev,                             \* each processor's place, its task, and the walk's prev
    due,                                     \* history: the tick that the task's last sleep asked for
    missed                                   \* history: the tasks popped before they were WAITING

vars == <<sleep_queue, sleep_next, sleep_until, state, tick, cur_tick, sq_lock, at, t, prev, due, missed>>

CPU == {Bsp} \cup Ap

Init ==
    /\ sleep_queue = NULL
    /\ sleep_next = [x \in Task |-> NULL]
    /\ sleep_until = [x \in Task |-> 0]
    /\ state = [x \in Task |-> "READY"]
    /\ tick = 1
    /\ cur_tick = [c \in CPU |-> 0]
    /\ sq_lock = NULL
    /\ at = [c \in CPU |-> "run"]
    /\ t = [c \in CPU |-> NULL]
    /\ prev = NULL
    /\ due = [x \in Task |-> 0]
    /\ missed = {}

Goto(c, place) == at' = [at EXCEPT ![c] = place]

list == <<sleep_queue, sleep_next, sleep_until>>
-----------------------------------------------------------------------------
\* UABI_SLEEP by task x: the fields are written before the lock is taken.
sleepq_insert(x, ticks) ==
    /\ at[Bsp] = "run" /\ state[x] = "READY" /\ tick + ticks <= MaxTick
    /\ sleep_until' = [sleep_until EXCEPT ![x] = tick + ticks]
    /\ sleep_next' = [sleep_next EXCEPT ![x] = NULL]
    /\ due' = [due EXCEPT ![x] = tick + ticks]
    /\ missed' = missed \ {x}
    /\ t' = [t EXCEPT ![Bsp] = x]
    /\ Goto(Bsp, "insert")
    /\ UNCHANGED <<sleep_queue, state, tick, cur_tick, sq_lock, prev>>

\* Insertion at the head, or the start of the walk.
insert_lock ==
    /\ at[Bsp] = "insert" /\ sq_lock = NULL
    /\ IF sleep_queue = NULL \/ sleep_until[t[Bsp]] <= sleep_until[sleep_queue]
       THEN /\ sleep_next' = [sleep_next EXCEPT ![t[Bsp]] = sleep_queue]
            /\ sleep_queue' = t[Bsp]
            /\ Goto(Bsp, "block")
            /\ UNCHANGED <<sq_lock, prev>>
       ELSE /\ sq_lock' = Bsp
            /\ prev' = sleep_queue
            /\ Goto(Bsp, "walk")
            /\ UNCHANGED <<sleep_next, sleep_queue>>
    /\ UNCHANGED <<sleep_until, state, tick, cur_tick, t, due, missed>>

insert_walk ==
    /\ at[Bsp] = "walk"
    /\ IF sleep_next[prev] # NULL /\ sleep_until[sleep_next[prev]] <= sleep_until[t[Bsp]]
       THEN prev' = sleep_next[prev] /\ UNCHANGED <<sleep_next, sq_lock, at>>
       ELSE /\ sleep_next' = [sleep_next EXCEPT ![t[Bsp]] = sleep_next[prev], ![prev] = t[Bsp]]
            /\ sq_lock' = NULL
            /\ Goto(Bsp, "block")
            /\ UNCHANGED prev
    /\ UNCHANGED <<sleep_queue, sleep_until, state, tick, cur_tick, t, due, missed>>

\* The rest of UABI_SLEEP: the caller is WAITING, and another task takes over.
block ==
    /\ at[Bsp] = "block"
    /\ state' = [state EXCEPT ![t[Bsp]] = "WAITING"]
    /\ Goto(Bsp, "run")
    /\ UNCHANGED <<list, tick, cur_tick, sq_lock, t, prev, due, missed>>
-----------------------------------------------------------------------------
\* The states once x is a zombie and its parent woken.
Died(x) ==
    [y \in Task |-> IF y = x THEN "ZOMBIE"
                    ELSE IF y = Parent[x] /\ state[y] = "WAITING" THEN "READY"
                    ELSE state[y]]

\* sleepq_remove's check, made without the lock, on the way to place.
sleepq_remove(x, place) ==
    /\ t' = [t EXCEPT ![Bsp] = x]
    /\ Goto(Bsp, IF sleep_until[x] = 0 THEN place ELSE "remove to " \o place)
    /\ UNCHANGED <<list, state, tick, cur_tick, sq_lock, prev, due, missed>>

task_deliver_signal(x) ==
    at[Bsp] = "run" /\ state[x] \notin {"FREE", "ZOMBIE"} /\ sleepq_remove(x, "die")

reap_zombies(x) == at[Bsp] = "run" /\ state[x] = "ZOMBIE" /\ sleepq_remove(x, "free")

\* Mutant: a task that is not the head is left on the list.
remove_lock_Mutant(place) ==
    /\ at[Bsp] = "remove to " \o place /\ sq_lock = NULL
    /\ sleep_until' = [sleep_until EXCEPT ![t[Bsp]] = 0]
    /\ IF sleep_queue = t[Bsp]
       THEN sleep_queue' = sleep_next[t[Bsp]] /\ sleep_next' = [sleep_next EXCEPT ![t[Bsp]] = NULL]
       ELSE UNCHANGED <<sleep_queue, sleep_next>>
    /\ Goto(Bsp, place)
    /\ UNCHANGED <<prev, sq_lock, state, tick, cur_tick, t, due, missed>>

remove_lock(place) ==
    /\ at[Bsp] = "remove to " \o place /\ sq_lock = NULL
    /\ sleep_until' = [sleep_until EXCEPT ![t[Bsp]] = 0]
    /\ IF sleep_queue = t[Bsp]
       THEN /\ sleep_queue' = sleep_next[t[Bsp]]
            /\ sleep_next' = [sleep_next EXCEPT ![t[Bsp]] = NULL]
            /\ Goto(Bsp, place)
            /\ UNCHANGED <<prev, sq_lock>>
       ELSE /\ sq_lock' = Bsp
            /\ prev' = sleep_queue
            /\ Goto(Bsp, "seek to " \o place)
            /\ UNCHANGED <<sleep_queue, sleep_next>>
    /\ UNCHANGED <<state, tick, cur_tick, t, due, missed>>

remove_seek(place) ==
    /\ at[Bsp] = "seek to " \o place
    /\ IF prev # NULL /\ sleep_next[prev] # t[Bsp]
       THEN prev' = sleep_next[prev] /\ UNCHANGED <<sleep_next, sq_lock, at>>
       ELSE /\ sleep_next' = [x \in Task |-> IF x = t[Bsp] THEN NULL
                                             ELSE IF x = prev THEN sleep_next[t[Bsp]]
                                             ELSE sleep_next[x]]
            /\ sq_lock' = NULL
            /\ Goto(Bsp, place)
            /\ UNCHANGED prev
    /\ UNCHANGED <<sleep_queue, sleep_until, state, tick, cur_tick, t, due, missed>>

die ==
    /\ at[Bsp] = "die"
    /\ state' = Died(t[Bsp])
    /\ Goto(Bsp, "run")
    /\ UNCHANGED <<list, tick, cur_tick, sq_lock, t, prev, due, missed>>

\* A user-mode fault: the running task dies without leaving the queue.
page_fault(x) ==
    /\ at[Bsp] = "run" /\ state[x] = "READY"
    /\ state' = Died(x)
    /\ UNCHANGED <<list, tick, cur_tick, sq_lock, at, t, prev, due, missed>>

free ==
    /\ at[Bsp] = "free"
    /\ state' = [state EXCEPT ![t[Bsp]] = "FREE"]
    /\ Goto(Bsp, "run")
    /\ UNCHANGED <<list, tick, cur_tick, sq_lock, t, prev, due, missed>>

\* A new task in the block x: all fields zero.
sys_fork(x) ==
    /\ at[Bsp] = "run" /\ state[x] = "FREE"
    /\ state' = [state EXCEPT ![x] = "READY"]
    /\ sleep_next' = [sleep_next EXCEPT ![x] = NULL]
    /\ sleep_until' = [sleep_until EXCEPT ![x] = 0]
    /\ due' = [due EXCEPT ![x] = 0]
    /\ missed' = missed \ {x}
    /\ UNCHANGED <<sleep_queue, tick, cur_tick, sq_lock, at, t, prev>>
-----------------------------------------------------------------------------
timer_callback(c) ==
    /\ at[c] = "run" /\ tick < MaxTick
    /\ tick' = tick + 1
    /\ cur_tick' = [cur_tick EXCEPT ![c] = tick + 1]
    /\ Goto(c, "timer")
    /\ UNCHANGED <<list, state, sq_lock, t, prev, due, missed>>

timer_lock(c) ==
    /\ at[c] = "timer" /\ sq_lock = NULL
    /\ sq_lock' = c
    /\ Goto(c, "drain")
    /\ UNCHANGED <<list, state, tick, cur_tick, t, prev, due, missed>>

\* Mutant: once the head is due, its successor is taken for due as well.
Due_Mutant(c) ==
    sleep_queue # NULL /\ (cur_tick[c] >= sleep_until[sleep_queue] \/ t[c] # NULL)

\* Mutant: a task whose tick has come waits for one more.
Due_Late(c) == sleep_queue # NULL /\ cur_tick[c] > sleep_until[sleep_queue]

Due(c) == sleep_queue # NULL /\ cur_tick[c] >= sleep_until[sleep_queue]

\* One turn of the drain loop: pop a task that is due and test its state, or end.
timer_drain(c) ==
    /\ at[c] = "drain"
    /\ IF Due(c)
       THEN /\ t' = [t EXCEPT ![c] = sleep_queue]
            /\ sleep_queue' = sleep_next[sleep_queue]
            /\ sleep_next' = [sleep_next EXCEPT ![sleep_queue] = NULL]
            /\ sleep_until' = [sleep_until EXCEPT ![sleep_queue] = 0]
            /\ IF state[sleep_queue] = "WAITING"
               THEN Goto(c, "wake") /\ UNCHANGED missed
               ELSE missed' = missed \cup {sleep_queue} /\ UNCHANGED at
            /\ UNCHANGED sq_lock
       ELSE /\ sq_lock' = NULL
            /\ t' = [t EXCEPT ![c] = NULL]
            /\ Goto(c, "run")
            /\ UNCHANGED <<list, missed>>
    /\ UNCHANGED <<state, tick, cur_tick, prev, due>>

\* The store of READY, whatever happened to the task since the test.  A store into
\* a freed block is not visible.
timer_wake(c) ==
    /\ at[c] = "wake"
    /\ state' = [state EXCEPT ![t[c]] = IF @ = "FREE" THEN @ ELSE "READY"]
    /\ Goto(c, "drain")
    /\ UNCHANGED <<list, tick, cur_tick, sq_lock, t, prev, due, missed>>

Timer(c) == timer_callback(c) \/ timer_lock(c) \/ timer_drain(c) \/ timer_wake(c)

Call ==
    \/ insert_lock \/ insert_walk \/ block \/ die \/ free
    \/ \E place \in {"die", "free"} : remove_lock(place) \/ remove_seek(place)

Next ==
    \/ \E x \in Task, ticks \in 1..MaxSleep : sleepq_insert(x, ticks)
    \/ \E x \in Task : task_deliver_signal(x) \/ reap_zombies(x) \/ page_fault(x) \/ sys_fork(x)
    \/ Call
    \/ \E c \in CPU : Timer(c)

Spec == Init /\ [][Next]_vars
-----------------------------------------------------------------------------
Place == {"run", "insert", "walk", "block", "die", "free", "remove to die", "remove to free",
          "seek to die", "seek to free", "timer", "drain", "wake"}

TypeOK ==
    /\ sleep_queue \in Task \cup {NULL}
    /\ sleep_next \in [Task -> Task \cup {NULL}]
    /\ sleep_until \in [Task -> 0..MaxTick]
    /\ state \in [Task -> {"FREE", "READY", "WAITING", "ZOMBIE"}]
    /\ tick \in 1..MaxTick
    /\ cur_tick \in [CPU -> 0..MaxTick]
    /\ sq_lock \in CPU \cup {NULL}
    /\ at \in [CPU -> Place]
    /\ t \in [CPU -> Task \cup {NULL}]
    /\ prev \in Task \cup {NULL}
    /\ due \in [Task -> 0..MaxTick]
    /\ missed \in SUBSET Task

\* s is the list from sleep_queue on.
IsList(s) ==
    /\ sleep_queue = IF s = <<>> THEN NULL ELSE s[1]
    /\ \A i \in DOMAIN s : sleep_next[s[i]] = IF i = Len(s) THEN NULL ELSE s[i + 1]
    /\ \A i, j \in DOMAIN s : s[i] = s[j] => i = j

Lists == UNION {[1..n -> Task] : n \in 0..Cardinality(Task)}

\* Whenever the lock is free, the queue is a singly-linked list that ends, sorted by
\* wake tick, of allocated tasks, and a task off it (that is not being inserted) is
\* marked as not sleeping.  insert and remove walk it with interrupts off, so a
\* cycle or a freed element would hang or corrupt the kernel.
SleepqSorted ==
    /\ TypeOK
    /\ sq_lock = NULL =>
         \E s \in Lists :
            /\ IsList(s)
            /\ \A i, j \in DOMAIN s : i < j => sleep_until[s[i]] <= sleep_until[s[j]]
            /\ \A i \in DOMAIN s : state[s[i]] # "FREE" /\ sleep_until[s[i]] # 0
            /\ \A x \in Task : /\ \A i \in DOMAIN s : s[i] # x
                               /\ ~(at[Bsp] = "insert" /\ t[Bsp] = x)
                               => sleep_until[x] = 0 /\ sleep_next[x] = NULL

Queued(x) == \E s \in Lists : IsList(s) /\ \E i \in DOMAIN s : s[i] = x

\* A task blocked in UABI_SLEEP is on the queue, so some tick will wake it, unless
\* it is being killed.
SleeperQueued ==
    sq_lock = NULL =>
        \A x \in Task : state[x] = "WAITING" => Queued(x) \/ (at[Bsp] = "die" /\ t[Bsp] = x)

\* When a processor's drain ends, a task that is still WAITING although the drain has
\* reached the tick it asked for is one that an earlier drain popped before it was
\* WAITING, or that is being killed: whoever is on the queue once it is blocked is
\* woken by the first drain of its tick, whatever was inserted and removed around it.
WokenUnlessMissed ==
    [][\A c \in CPU : at[c] = "drain" /\ at'[c] = "run" =>
          \A x \in Task : state[x] = "WAITING" /\ due[x] <= cur_tick[c] =>
              x \in missed \/ (at[Bsp] = "die" /\ t[Bsp] = x)]_vars

\* A sleep lasts for the ticks it asked for.
NeverEarly ==
    [][\A x \in Task : state[x] = "WAITING" /\ state'[x] = "READY" => tick >= due[x]]_vars

\* A task that is killed stays dead ("SIGKILL - unconditional: mark ZOMBIE").
KilledStaysDead ==
    [][\A x \in Task : state[x] = "ZOMBIE" => state'[x] \in {"ZOMBIE", "FREE"}]_vars
=============================================================================
