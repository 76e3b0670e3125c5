--------------------------------- MODULE Cow ---------------------------------
(***************************************************************************)
(* User memory: the physical frames and their reference counts of          *)
(* kernel/cpu/paging.c, the page tables of kernel/arch/x86_64/mmu/mmu.c    *)
(* with the copy-on-write clone of fork, the fault that resolves it, and   *)
(* the loading of a new image by execve (kernel/proc/exec.c,               *)
(* kernel/fs/elf/elf_load.c).                                              *)
(*                                                                         *)
(* System calls and faults run with interrupts off on the only processor   *)
(* that runs tasks, so each is one step.  Its TLB is state of its own: a   *)
(* store goes where the cached translation says.  A directory has a root   *)
(* table (PML4, PDPT and PD of the code) and one table for every region of *)
(* the address space that has a page.                                      *)
(***************************************************************************)
EXTENDS Integers, Sequences, FiniteSets

CONSTANTS Frame,            \* frames above the kernel's own memory
          Page,
          Regions, RegionOf,        \* the regions are numbered in the order of their addresses
          Stack,            \* the pages of the user stack, a sequence
          Images,           \* executables: class, the pages of the segments in order and what they hold
          Value, Zero,
          MAX_TASKS, RefMod,        \* RefMod: 2^8 in the code
          Kernel, NULL, Unmapped

ASSUME CowAssumption ==
    /\ Frame \subseteq Nat /\ IsFiniteSet(Frame)
    /\ Regions \in Nat /\ IsFiniteSet(Page) /\ RegionOf \in [Page -> 1..Regions]
    /\ Stack \in Seq(Page) /\ Stack # <<>>
    /\ Images \subseteq [class : {32, 64}, pages : Seq(Page), data : Value]
    /\ Zero \in Value
    /\ MAX_TASKS \in Nat /\ RefMod \in Nat \ 0..2

Pid == 1..MAX_TASKS

VARIABLES
    phys,       \* frame_bitmap (the set bits), frame_ref_count and the contents of the frames
    pd,         \* the page directory of each task
    state,
    next_pid,
    cur,        \* the task on the boot processor
    tlb,        \* its cached translations
    halted,     \* panic
    orphan,     \* history: references of mappings that no directory holds any longer
    wrapped     \* history: some count has gone past its limit

vars == <<phys, pd, state, next_pid, cur, tlb, halted, orphan, wrapped>>

Entry == [frame : Frame, writable : BOOLEAN, cow : BOOLEAN]

\* Table 0 is the root.
Table == 0..Regions

Directory == [table : [Table -> Frame \cup {NULL}], entry : [Page -> Entry \cup {NULL}]]

EmptyDirectory == [table |-> [t \in Table |-> NULL], entry |-> [g \in Page |-> NULL]]

Translations == [frame : Frame, writable : BOOLEAN]

\* A null pointer is none of the things that a pointer leads to.
ASSUME NullAssumption ==
    /\ NULL \notin Frame /\ NULL \notin Entry /\ NULL \notin Directory /\ NULL \notin Translations
    /\ NULL \notin [Page -> Value \cup {Unmapped}]
    /\ Unmapped \notin Value /\ Kernel \notin Pid

Mapped(d) == {g \in Page : d.entry[g] # NULL}

\* How many pages of a directory a frame is mapped by.
References(d, f) == Cardinality({g \in Mapped(d) : d.entry[g].frame = f})
-----------------------------------------------------------------------------
(* Physical memory. *)

Memory == [bitmap : SUBSET Frame, ref : [Frame -> 0..RefMod - 1], contents : [Frame -> Value]]

Lowest(S) == CHOOSE f \in S : \A h \in S : f <= h

pmm_first_free(m) == IF Frame \subseteq m.bitmap THEN NULL ELSE Lowest(Frame \ m.bitmap)

pmm_set_frame(m, f) == [m EXCEPT !.bitmap = @ \cup {f}]

Filled(m, f, v) == [m EXCEPT !.contents[f] = v]

frame_add_ref(m, f) ==
    [bitmap |-> IF m.ref[f] = 0 THEN m.bitmap \cup {f} ELSE m.bitmap,
     ref |-> [m.ref EXCEPT ![f] = (@ + 1) % RefMod],
     contents |-> m.contents]

frame_remove_ref(m, f) ==
    IF m.ref[f] = 0 THEN m
    ELSE [bitmap |-> IF m.ref[f] = 1 THEN m.bitmap \ {f} ELSE m.bitmap,
          ref |-> [m.ref EXCEPT ![f] = @ - 1],
          contents |-> m.contents]

\* frame_add_ref for every page of a directory: a count that is zero before or on the
\* way marks the frame.
AddAllRefs(m, d) ==
    [bitmap |-> m.bitmap \cup {f \in Frame : /\ References(d, f) > 0
                                             /\ m.ref[f] = 0 \/ m.ref[f] + References(d, f) > RefMod},
     ref |-> [f \in Frame |-> (m.ref[f] + References(d, f)) % RefMod],
     contents |-> m.contents]

\* frame_remove_ref for every page of a directory.
RemoveAllRefs(m, d) ==
    [bitmap |-> m.bitmap \ {f \in Frame : 0 < m.ref[f] /\ m.ref[f] <= References(d, f)},
     ref |-> [f \in Frame |-> IF m.ref[f] <= References(d, f) THEN 0 ELSE m.ref[f] - References(d, f)],
     contents |-> m.contents]
-----------------------------------------------------------------------------
(* Page tables.  b is a directory under construction: the memory, the      *)
(* directory and how it went so far.                                       *)

Building(m) == [m |-> m, dir |-> EmptyDirectory, rc |-> "ok"]

\* Out of frames for a table, the kernel panics.
alloc_table(b, t) ==
    LET f == pmm_first_free(b.m) IN
    IF b.rc # "ok" THEN b
    ELSE IF f = NULL THEN [b EXCEPT !.rc = "panic"]
    ELSE [m |-> Filled(pmm_set_frame(b.m, f), f, Zero),
          dir |-> [table |-> [b.dir.table EXCEPT ![t] = f], entry |-> b.dir.entry],
          rc |-> "ok"]

get_or_alloc_table(b, t) == IF b.dir.table[t] # NULL THEN b ELSE alloc_table(b, t)

get_page(b, g) == get_or_alloc_table(b, RegionOf[g])

Shared(e) == IF e # NULL /\ e.writable THEN [frame |-> e.frame, writable |-> FALSE, cow |-> TRUE] ELSE e

SharedEntries(d) == [g \in Page |-> Shared(d.entry[g])]

\* What clone_table does to the directory it copies.
CowEntries(d) == [table |-> d.table, entry |-> SharedEntries(d)]

\* The root and a table for every table of the source.
CloneTables(m, src) ==
    LET turn[n \in Table] == IF n = 0 THEN alloc_table(Building(m), 0)
                             ELSE IF src.table[n] = NULL THEN turn[n - 1]
                             ELSE alloc_table(turn[n - 1], n)
    IN  turn[Regions]

\* clone_table adds the references as it goes; no reference added frees a frame, so the
\* tables may as well come first.
mmu_clone_user(m, src) ==
    LET b == CloneTables(m, src) IN
    IF b.rc # "ok" THEN b
    ELSE [m |-> AddAllRefs(b.m, src),
          dir |-> [table |-> b.dir.table, entry |-> SharedEntries(src)],
          rc |-> "ok"]

\* The frames of the tables have no references: free_page_table leaves them in use.
free_page_directory(m, d) == RemoveAllRefs(m, d)

mmu_map_page(b, g, f) ==
    [m |-> frame_add_ref(b.m, f),
     dir |-> [table |-> b.dir.table,
              entry |-> [b.dir.entry EXCEPT ![g] = [frame |-> f, writable |-> TRUE, cow |-> FALSE]]],
     rc |-> b.rc]

\* The table, and a frame for a page that is not present (build_user_stack,
\* elf32_load_segments).
DemandPage(b, g) ==
    LET t == get_page(b, g)
        f == pmm_first_free(t.m)
    IN  IF t.rc # "ok" \/ t.dir.entry[g] # NULL THEN t
        ELSE IF f = NULL THEN [t EXCEPT !.rc = "nomem"]
        ELSE mmu_map_page(t, g, f)

Copy(b, g, v) == IF b.rc # "ok" THEN b ELSE [b EXCEPT !.m = Filled(b.m, b.dir.entry[g].frame, v)]

elf32_load_page(b, g, v) == Copy(DemandPage(b, g), g, v)

\* Mutant: the frame is not marked before the tables are allocated.
elf64_load_page_Mutant(b, g, v) ==
    LET f == pmm_first_free(b.m)
        t == get_page(b, g)
    IN  IF b.rc # "ok" THEN b
        ELSE IF f = NULL THEN [b EXCEPT !.rc = "nomem"]
        ELSE IF t.rc # "ok" THEN t
        ELSE Copy(mmu_map_page(t, g, f), g, v)

\* Always a fresh frame; it is marked before mmu_map_page looks for tables.
elf64_load_page(b, g, v) ==
    LET f == pmm_first_free(b.m)
        t == get_page([b EXCEPT !.m = pmm_set_frame(@, f)], g)
    IN  IF b.rc # "ok" THEN b
        ELSE IF f = NULL THEN [b EXCEPT !.rc = "nomem"]
        ELSE IF t.rc # "ok" THEN t
        ELSE Copy(mmu_map_page(t, g, f), g, v)

elf_load_page(b, g, image) == IF image.class = 32 THEN elf32_load_page(b, g, image.data)
                              ELSE elf64_load_page(b, g, image.data)

elf_load_image_from_buffer(b, image) ==
    LET turn[n \in 0..Len(image.pages)] ==
            IF n = 0 THEN b ELSE elf_load_page(turn[n - 1], image.pages[n], image)
    IN  turn[Len(image.pages)]

\* The frames of the stack are not cleared; the arguments go to the last page.
build_user_stack(b, v) ==
    LET turn[n \in 0..Len(Stack)] == IF n = 0 THEN b ELSE DemandPage(turn[n - 1], Stack[n])
    IN  Copy(turn[Len(Stack)], Stack[Len(Stack)], v)
-----------------------------------------------------------------------------
Init ==
    /\ phys = [bitmap |-> {}, ref |-> [f \in Frame |-> 0], contents |-> [f \in Frame |-> Zero]]
    /\ pd = [p \in Pid |-> NULL]
    /\ state = [p \in Pid |-> "free"]
    /\ next_pid = 1
    /\ cur = Kernel
    /\ tlb = [g \in Page |-> NULL]
    /\ halted = FALSE
    /\ orphan = [f \in Frame |-> 0]
    /\ wrapped = FALSE

Running(p) == ~halted /\ cur = p /\ p # Kernel /\ state[p] = "running"

switch_page_directory == tlb' = [g \in Page |-> NULL]

panic == halted' = TRUE /\ UNCHANGED <<phys, pd, state, next_pid, cur, tlb, orphan, wrapped>>

\* The counts after a step, and whether one of them has gone round.
Became(m) == phys' = m /\ wrapped' = (wrapped \/ \E f \in Frame : phys.ref[f] = RefMod - 1 /\ m.ref[f] = 0)

\* References of a directory that is dropped without being freed.
Orphaned(d) == [f \in Frame |-> orphan[f] + References(d, f)]

\* The kernel's directory has no user page: a clone of it is a root table.
KernelDirectory == EmptyDirectory

\* A task of the kernel shell; the directory is made before the limit is checked.
spawn_process ==
    LET b == mmu_clone_user(phys, KernelDirectory) IN
    /\ ~halted /\ cur = Kernel
    /\ \/ b.rc = "panic" /\ panic
       \/ /\ b.rc = "ok" /\ Became(b.m)
          /\ IF next_pid > MAX_TASKS THEN UNCHANGED <<pd, state, next_pid>>
             ELSE /\ pd' = [pd EXCEPT ![next_pid] = b.dir]
                  /\ state' = [state EXCEPT ![next_pid] = "running"]
                  /\ next_pid' = next_pid + 1
          /\ UNCHANGED <<cur, tlb, halted, orphan>>

\* The parent's entries have lost their write permission.
ForkFlush == switch_page_directory

\* The clone comes first; when there is no process left it is dropped as it is.
sys_fork(p) ==
    LET b == mmu_clone_user(phys, pd[p])
        full == next_pid > MAX_TASKS
    IN  /\ Running(p)
        /\ \/ b.rc = "panic" /\ panic
           \/ /\ b.rc = "ok" /\ Became(b.m)
              /\ pd' = [q \in Pid |-> IF q = p THEN CowEntries(pd[p])
                                      ELSE IF q = next_pid THEN b.dir ELSE pd[q]]
              /\ state' = [q \in Pid |-> IF q = next_pid THEN "running" ELSE state[q]]
              /\ next_pid' = IF full THEN next_pid ELSE next_pid + 1
              /\ orphan' = IF full THEN Orphaned(b.dir) ELSE orphan
              /\ ForkFlush
              /\ UNCHANGED <<cur, halted>>
-----------------------------------------------------------------------------
(* Loads and stores of the task on the processor. *)

\* What a translation is cached as.
Walk(p, g) == [frame |-> pd[p].entry[g].frame, writable |-> pd[p].entry[g].writable]

Translation(p, g) == IF tlb[g] # NULL THEN tlb[g] ELSE Walk(p, g)

load(p, g) ==
    /\ Running(p) /\ tlb[g] = NULL /\ g \in Mapped(pd[p])
    /\ tlb' = [tlb EXCEPT ![g] = Walk(p, g)]
    /\ UNCHANGED <<phys, pd, state, next_pid, cur, halted, orphan, wrapped>>

store(p, g, v) ==
    LET t == Translation(p, g) IN
    /\ Running(p) /\ g \in Mapped(pd[p])
    /\ t.writable
    /\ tlb' = [tlb EXCEPT ![g] = t]
    /\ phys' = Filled(phys, t.frame, v)
    /\ UNCHANGED <<pd, state, next_pid, cur, halted, orphan, wrapped>>

\* Mutant: the new frame keeps what it held.
cow_copy_Mutant(m, old, new) == frame_add_ref(frame_remove_ref(m, old), new)

cow_copy(m, old, new) ==
    frame_add_ref(frame_remove_ref(Filled(m, new, m.contents[old]), old), new)

\* Mutant: the translation that faulted stays.
fault_invlpg_Mutant(g) == UNCHANGED tlb

fault_invlpg(g) == tlb' = [tlb EXCEPT ![g] = NULL]

Resolved(d, g, f) ==
    [table |-> d.table, entry |-> [d.entry EXCEPT ![g] = [frame |-> f, writable |-> TRUE, cow |-> FALSE]]]

\* page_fault for a store to a page that the translation has as read-only.
page_fault(p, g) ==
    LET e == pd[p].entry[g]
        new == pmm_first_free(phys)
        resolved(f) == pd' = [pd EXCEPT ![p] = Resolved(@, g, f)]
    IN  /\ Running(p) /\ g \in Mapped(pd[p]) /\ ~Translation(p, g).writable
        /\ \/ /\ e.cow /\ phys.ref[e.frame] > 1 /\ new # NULL
              /\ Became(cow_copy(phys, e.frame, new))
              /\ resolved(new)
              /\ fault_invlpg(g)
              /\ UNCHANGED state
           \/ /\ e.cow /\ phys.ref[e.frame] > 1 /\ new = NULL
              /\ state' = [state EXCEPT ![p] = "zombie"]        \* SIGKILL
              /\ UNCHANGED <<phys, pd, tlb, wrapped>>
           \/ /\ e.cow /\ phys.ref[e.frame] <= 1
              /\ resolved(e.frame)
              /\ fault_invlpg(g)
              /\ UNCHANGED <<phys, state, wrapped>>
        /\ UNCHANGED <<next_pid, cur, halted, orphan>>

\* Any other fault of a user task ends it: the page is not there, or it is neither
\* writable nor shared.
segv(p, g) ==
    /\ Running(p)
    /\ g \in Mapped(pd[p]) => ~pd[p].entry[g].cow /\ ~Translation(p, g).writable
    /\ state' = [state EXCEPT ![p] = "zombie"]
    /\ UNCHANGED <<phys, pd, next_pid, cur, tlb, halted, orphan, wrapped>>
-----------------------------------------------------------------------------
\* Mutant: a directory that could not be filled is dropped as it is.
ExecFailed_Mutant(b) == b.m

\* Both failure paths free the directory built so far.
ExecFailed(b) == free_page_directory(b.m, b.dir)

\* References to a frame that the second segment of a page replaced.
Replaced(m, d) == [f \in Frame |-> orphan[f] + (m.ref[f] - phys.ref[f] - References(d, f))]

sys_execve(p, image) ==
    LET c == mmu_clone_user(phys, KernelDirectory)
        l == elf_load_image_from_buffer(c, image)
        b == build_user_stack(l, image.data)
    IN  /\ Running(p)
        /\ \/ b.rc = "panic" /\ panic
           \/ /\ b.rc = "nomem" /\ Became(ExecFailed(b))
              /\ orphan' = Replaced(b.m, b.dir)
              /\ UNCHANGED <<pd, state, next_pid, cur, tlb, halted>>
           \/ /\ b.rc = "ok" /\ Became(free_page_directory(b.m, pd[p]))
              /\ pd' = [pd EXCEPT ![p] = b.dir]
              /\ orphan' = Replaced(b.m, b.dir)
              /\ switch_page_directory
              /\ UNCHANGED <<state, next_pid, cur, halted>>

sys_exit(p) ==
    /\ Running(p)
    /\ state' = [state EXCEPT ![p] = "zombie"]
    /\ UNCHANGED <<phys, pd, next_pid, cur, tlb, halted, orphan, wrapped>>

\* The parent collects a zombie that is off the processor.
task_reap(p) ==
    /\ ~halted /\ state[p] = "zombie" /\ cur # p
    /\ Became(free_page_directory(phys, pd[p]))
    /\ pd' = [pd EXCEPT ![p] = NULL]
    /\ state' = [state EXCEPT ![p] = "free"]
    /\ UNCHANGED <<next_pid, cur, tlb, halted, orphan>>

\* switch_page_directory loads CR3.
task_switch(q) ==
    /\ ~halted /\ cur # q
    /\ q = Kernel \/ (q \in Pid /\ state[q] = "running")
    /\ cur' = q
    /\ switch_page_directory
    /\ UNCHANGED <<phys, pd, state, next_pid, halted, orphan, wrapped>>

Next ==
    \/ spawn_process
    \/ \E p \in Pid :
          \/ sys_fork(p) \/ sys_exit(p) \/ task_reap(p)
          \/ \E g \in Page : load(p, g) \/ page_fault(p, g) \/ segv(p, g)
          \/ \E g \in Page, v \in Value : store(p, g, v)
          \/ \E image \in Images : sys_execve(p, image)
    \/ \E q \in Pid \cup {Kernel} : task_switch(q)

Spec == Init /\ [][Next]_vars
-----------------------------------------------------------------------------
(* Properties. *)

Live == {p \in Pid : pd[p] # NULL}

\* How many pages of how many directories a frame is mapped by.
Mappings(f) ==
    Cardinality({pg \in Live \X Page :
                    pg[2] \in Mapped(pd[pg[1]]) /\ pd[pg[1]].entry[pg[2]].frame = f})

Tables(f) == {pt \in Live \X Table : pd[pt[1]].table[pt[2]] = f}

\* Frames, counts, directories and cached translations are of their types.
TypeOK ==
    /\ phys \in Memory
    /\ pd \in [Pid -> Directory \cup {NULL}]
    /\ state \in [Pid -> {"free", "running", "zombie"}]
    /\ next_pid \in 1..MAX_TASKS + 1
    /\ cur \in Pid \cup {Kernel}
    /\ tlb \in [Page -> Translations \cup {NULL}]
    /\ halted \in BOOLEAN /\ wrapped \in BOOLEAN
    /\ orphan \in [Frame -> Nat]

\* Until a count has gone round, the reference count of a frame (frame_add_ref,
\* frame_remove_ref) is the number of pages mapped to it in all directories, through
\* forks, copies, failed and successful execve and exits; only the references of a
\* directory that a failed fork dropped, and of a frame that a second ELF segment
\* replaced, are counted for good.
RefsExact ==
    /\ TypeOK
    /\ ~wrapped => \A f \in Frame : phys.ref[f] = Mappings(f) + orphan[f]

\* No frame that a directory uses, for a page or as a page table, is handed out again
\* (pmm_first_free), and no frame is two tables, or a page and a table, at once.  A page
\* that can be stored to without a fault, in a directory or through the TLB, is the only
\* one on its frame: sharing always goes through MMU_COW (clone_table).
FramesOwned ==
    ~wrapped =>
        /\ \A f \in Frame :
              /\ Mappings(f) > 0 \/ Tables(f) # {} => f \in phys.bitmap
              /\ Cardinality(Tables(f)) <= 1
              /\ Tables(f) # {} => Mappings(f) = 0
        /\ \A p \in Live : \A g \in Mapped(pd[p]) :
              pd[p].entry[g].writable => Mappings(pd[p].entry[g].frame) = 1
        /\ \A g \in Page : tlb[g] # NULL /\ tlb[g].writable => Mappings(tlb[g].frame) = 1

\* The processor never uses a translation that the directory of the running task no
\* longer has: every change of an entry in use is followed by invlpg or a load of CR3
\* (sys_fork, page_fault, sys_execve, task_switch).
TlbCurrent ==
    \A g \in Page : tlb[g] # NULL =>
        /\ cur # Kernel /\ pd[cur] # NULL /\ g \in Mapped(pd[cur])
        /\ tlb[g] = Walk(cur, g)

\* What a process would read: its directory is followed to the frames.
View(p) ==
    IF state[p] # "running" THEN NULL
    ELSE [g \in Page |-> IF g \in Mapped(pd[p]) THEN phys.contents[pd[p].entry[g].frame] ELSE Unmapped]

Views == [p \in Pid |-> View(p)]

Private == INSTANCE PrivateMemory WITH memory <- Views

\* The operation of the abstract memory that a step of this one stands for.
Visible ==
    \/ next_pid \in Pid /\ spawn_process /\ Private!Spawn(next_pid)
    \/ \E p \in Pid :
          \/ next_pid \in Pid /\ sys_fork(p) /\ Private!Fork(p, next_pid)
          \/ \E g \in Page, v \in Value : store(p, g, v) /\ Private!Store(p, g, v)
          \/ \E image \in Images : sys_execve(p, image) /\ Private!Replace(p)
          \/ Private!Exit(p) /\ (sys_exit(p) \/ \E g \in Page : page_fault(p, g) \/ segv(p, g))

\* Sharing frames is invisible: what processes see of memory is what they would see if
\* fork copied every page at once.  A step of sys_fork, of a store, of sys_execve or of
\* an exit changes it as that operation does and every other step (the copy of
\* page_fault, task_reap, a failed fork) leaves it alone, until a count has gone round.
PrivateSpec == Private!Init /\ [][wrapped' \/ Visible]_Views
=============================================================================
