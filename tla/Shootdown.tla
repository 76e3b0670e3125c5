------------------------------ MODULE Shootdown ------------------------------
(***************************************************************************)
(* The TLB shootdown of kernel/arch/x86_64/smp/smp.c: the boot processor   *)
(* (Bsp), the only one that changes page tables, publishes an address,     *)
(* interrupts the application processors (Ap) and waits until each has     *)
(* acknowledged or until it gives up.  The handlers read the published     *)
(* fields without the lock.                                                *)
(*                                                                         *)
(* stale[a] is what the protocol is for: the addresses whose old           *)
(* translation processor a may still use.  It follows from the page tables *)
(* alone, never from what the handlers do: application processors keep the *)
(* directory they booted with, and mmu_clone_user shares with it the       *)
(* tables of the higher half and those of the first 128 MB.  Before        *)
(* smp_tasking_ready the kernel maps pages that were absent only, which no *)
(* TLB holds.  After the first timeout stale is no longer kept: nothing is *)
(* promised then.                                                          *)
(***************************************************************************)
EXTENDS Naturals

CONSTANTS Ap, Bsp,
          Kernel,           \* addresses of the higher half
          Identity,         \* below 128 MB: the identity map, shared by all directories
          User,             \* the other lower addresses, private to a directory
          Space, Boot,      \* directories; Boot is that of the application processors
          NULL

ASSUME ShootdownAssumption ==
    /\ Bsp \notin Ap /\ Boot \in Space
    /\ Kernel \cap (Identity \cup User) = {} /\ Identity \cap User = {}
    /\ NULL \notin Kernel \cup Identity \cup User

VARIABLES
    ap_ready_flags, smp_tasking_ready,
    addr, target_cr3, pending_mask,     \* global_shootdown
    cr3,                                \* of the boot processor
    at,                                 \* where each processor is
    irr,                                \* vector 0x41 requested and not yet in service
    shoot_addr,                         \* each handler's copy of addr
    stale,
    late                                \* history: some wait has timed out

vars == <<ap_ready_flags, smp_tasking_ready, addr, target_cr3, pending_mask, cr3, at, irr, shoot_addr, stale, late>>

Lower == Identity \cup User

Addr == Kernel \cup Lower

shared == <<ap_ready_flags, smp_tasking_ready, addr, target_cr3, pending_mask, cr3, late>>

Goto(c, place) == at' = [at EXCEPT ![c] = place]

Init ==
    /\ ap_ready_flags = {} /\ smp_tasking_ready = FALSE
    /\ addr = NULL /\ target_cr3 = NULL /\ pending_mask = {}
    /\ cr3 = Boot
    /\ at = [c \in Ap \cup {Bsp} |-> "boot"]
    /\ irr = [a \in Ap |-> FALSE]
    /\ shoot_addr = [a \in Ap |-> NULL]
    /\ stale = [a \in Ap |-> {}]
    /\ late = FALSE
-----------------------------------------------------------------------------
\* smp_start_aps waits for each processor, up to its own timeout.
smp_signal_ready ==
    /\ at[Bsp] = "boot"
    /\ smp_tasking_ready' = TRUE
    /\ late' = (late \/ ap_ready_flags # Ap)
    /\ Goto(Bsp, "run")
    /\ UNCHANGED <<ap_ready_flags, addr, target_cr3, pending_mask, cr3, irr, shoot_addr, stale>>

\* The boot processor changes to another address space.
mmu_switch(s) ==
    /\ at[Bsp] = "run"
    /\ cr3' = s
    /\ UNCHANGED <<ap_ready_flags, smp_tasking_ready, addr, target_cr3, pending_mask, at, irr, shoot_addr, stale, late>>

\* The entry of x in directory d is one that the application processors translate by.
Seen(d, x) == x \in Kernel \cup Identity \/ d = Boot

\* The local entry is dropped and x published, with the directory the boot processor
\* runs in, whichever directory was changed.
mmu_invlpg(x) ==
    /\ ap_ready_flags # {}
    /\ addr' = x
    /\ target_cr3' = cr3
    /\ Goto(Bsp, "publish")

\* mmu_map_page and mmu_unmap_page: the entry of x in d is overwritten; any processor
\* that translates by it may hold the old one.
mmu_map_page(d, x) ==
    /\ at[Bsp] = "run"
    /\ stale' = [a \in Ap |-> IF ~late /\ a \in ap_ready_flags /\ Seen(d, x) THEN stale[a] \cup {x} ELSE stale[a]]
    /\ mmu_invlpg(x)
    /\ UNCHANGED <<ap_ready_flags, smp_tasking_ready, pending_mask, cr3, irr, shoot_addr, late>>

targets == (ap_ready_flags \cup {Bsp}) \ {Bsp}

publish ==
    /\ at[Bsp] = "publish"
    /\ pending_mask' = targets
    /\ Goto(Bsp, "send")
    /\ UNCHANGED <<ap_ready_flags, smp_tasking_ready, addr, target_cr3, cr3, irr, shoot_addr, stale, late>>

\* All but the sender whose LAPIC is on; a request that is pending already is not
\* counted twice.
send ==
    /\ at[Bsp] = "send"
    /\ irr' = [a \in Ap |-> at[a] # "boot"]
    /\ Goto(Bsp, "wait")
    /\ UNCHANGED <<shared, shoot_addr, stale>>

complete ==
    /\ at[Bsp] = "wait" /\ pending_mask = {}
    /\ Goto(Bsp, "run")
    /\ UNCHANGED <<shared, irr, shoot_addr, stale>>

\* Mutant: the wait has no limit.
timeout_Mutant == FALSE /\ UNCHANGED vars

\* The wait gives up; its bits are cleared for the next shootdown.
timeout ==
    /\ at[Bsp] = "wait" /\ pending_mask # {}
    /\ pending_mask' = {}
    /\ late' = TRUE
    /\ stale' = [a \in Ap |-> {}]
    /\ Goto(Bsp, "run")
    /\ UNCHANGED <<ap_ready_flags, smp_tasking_ready, addr, target_cr3, cr3, irr, shoot_addr>>
-----------------------------------------------------------------------------
\* ap_entry: the LAPIC is enabled and the flag set; after the spin, sti.
ap_entry(a) ==
    /\ at[a] = "boot"
    /\ ap_ready_flags' = ap_ready_flags \cup {a}
    /\ Goto(a, "spin")
    /\ UNCHANGED <<smp_tasking_ready, addr, target_cr3, pending_mask, cr3, irr, shoot_addr, stale, late>>

ap_start(a) ==
    /\ at[a] = "spin" /\ smp_tasking_ready
    /\ Goto(a, "idle")
    /\ UNCHANGED <<shared, irr, shoot_addr, stale>>

\* Mutant: the handler acknowledges before it invalidates.
smp_tlb_handler_Mutant(a) ==
    /\ at[a] = "idle" /\ irr[a]
    /\ irr' = [irr EXCEPT ![a] = FALSE]
    /\ shoot_addr' = [shoot_addr EXCEPT ![a] = addr]
    /\ pending_mask' = pending_mask \ {a}
    /\ Goto(a, "filter")
    /\ UNCHANGED <<ap_ready_flags, smp_tasking_ready, addr, target_cr3, cr3, stale, late>>

\* The interrupt is taken and the handler reads addr.
smp_tlb_handler(a) ==
    /\ at[a] = "idle" /\ irr[a]
    /\ irr' = [irr EXCEPT ![a] = FALSE]
    /\ shoot_addr' = [shoot_addr EXCEPT ![a] = addr]
    /\ Goto(a, "filter")
    /\ UNCHANGED <<shared, stale>>

\* Mutant: every address below the higher half is skipped.
Skips_Mutant(a) == shoot_addr[a] \in Lower

\* An address below the higher half and another address space: skip, just ack.
Skips(a) == shoot_addr[a] \in Lower /\ target_cr3 # Boot

filter(a) ==
    /\ at[a] = "filter"
    /\ Goto(a, IF Skips(a) THEN "ack" ELSE "invlpg")
    /\ UNCHANGED <<shared, irr, shoot_addr, stale>>

invlpg(a) ==
    /\ at[a] = "invlpg"
    /\ stale' = [stale EXCEPT ![a] = @ \ {shoot_addr[a]}]
    /\ Goto(a, "ack")
    /\ UNCHANGED <<shared, irr, shoot_addr>>

ack(a) ==
    /\ at[a] = "ack"
    /\ pending_mask' = pending_mask \ {a}
    /\ Goto(a, "eoi")
    /\ UNCHANGED <<ap_ready_flags, smp_tasking_ready, addr, target_cr3, cr3, irr, shoot_addr, stale, late>>

\* Mutant: without the EOI the LAPIC delivers no further interrupt.
eoi_Mutant(a) == at[a] = "eoi" /\ UNCHANGED vars

\* The handler returns; its copy is gone.
eoi(a) ==
    /\ at[a] = "eoi"
    /\ shoot_addr' = [shoot_addr EXCEPT ![a] = NULL]
    /\ Goto(a, "idle")
    /\ UNCHANGED <<shared, irr, stale>>

Handler(a) == smp_tlb_handler(a) \/ filter(a) \/ invlpg(a) \/ ack(a) \/ eoi(a)

Initiator == publish \/ send \/ complete \/ timeout

Next ==
    \/ smp_signal_ready \/ Initiator
    \/ \E s \in Space : mmu_switch(s)
    \/ \E d \in Space, x \in Addr : mmu_map_page(d, x)
    \/ \E a \in Ap : ap_entry(a) \/ ap_start(a) \/ Handler(a)

Spec == Init /\ [][Next]_vars

\* The boot processor executes; that a page table is ever changed is not assumed.
FairSpec == Spec /\ WF_vars(publish \/ send \/ complete)

\* The application processors execute, too.
ApFairness == \A a \in Ap : WF_vars(ap_start(a)) /\ WF_vars(Handler(a))
-----------------------------------------------------------------------------
Place == {"boot", "run", "publish", "send", "wait", "spin", "idle", "filter", "invlpg", "ack", "eoi"}

TypeOK ==
    /\ ap_ready_flags \subseteq Ap /\ smp_tasking_ready \in BOOLEAN
    /\ addr \in Addr \cup {NULL} /\ target_cr3 \in Space \cup {NULL}
    /\ pending_mask \subseteq Ap
    /\ cr3 \in Space
    /\ at \in [Ap \cup {Bsp} -> Place]
    /\ irr \in [Ap -> BOOLEAN]
    /\ shoot_addr \in [Ap -> Addr \cup {NULL}]
    /\ stale \in [Ap -> SUBSET Addr]
    /\ late \in BOOLEAN

\* As long as no wait has timed out: once the initiator goes on, no processor uses an
\* old translation of the higher half ("Kernel-space addresses are global across all
\* address spaces"), nor one of the address just changed if the change was made while
\* the boot processor ran in the directory of the application processors.
Coherent ==
    ~late /\ at[Bsp] = "run" =>
        \A a \in Ap : stale[a] \cap Kernel = {} /\ (target_cr3 = Boot => addr \notin stale[a])

\* What the handler's filter takes for granted ("Different address space -- skip
\* invlpg, just ack"): a processor that skips an address holds no old translation of it.
SkipIsSafe == \A a \in Ap : at[a] = "filter" /\ Skips(a) => shoot_addr[a] \notin stale[a]

\* As long as no wait has timed out, the published fields stay what they are while a
\* handler works with them (".addr/.target_cr3 are stable for the entire duration of
\* the handler").
FieldsStable ==
    ~late => \A a \in Ap : at[a] \in {"filter", "invlpg", "ack"} => at[Bsp] = "wait" /\ shoot_addr[a] = addr

\* Every shootdown ends, even if no other processor ever answers ("Timeout-guarded
\* wait to prevent permanent deadlock").
Completes == WF_vars(timeout) => (at[Bsp] = "publish" ~> at[Bsp] = "run")

\* If all processors execute, every shootdown ends without the timeout.
Acknowledged == ApFairness /\ []~late => (at[Bsp] = "publish" ~> at[Bsp] = "run")

\* When the mask has drained, every handler has read the published fields and none is
\* still to start ("the initiator sees completion only after all handlers have read
\* the fields").
DrainedIsDone ==
    [][at[Bsp] = "wait" /\ pending_mask = {} /\ at'[Bsp] = "run" => \A a \in Ap : ~irr[a] /\ at[a] \notin {"filter", "invlpg", "ack"}]_vars
=============================================================================
