--------------------------- MODULE ShootdownProofs ---------------------------
(***************************************************************************)
(* Correctness of the shootdown for any number of processors and           *)
(* addresses, up to the first timeout.  The inductive invariant says what  *)
(* the mask means while the initiator waits: a bit is set exactly until    *)
(* the handler of that processor has acknowledged, and an old translation  *)
(* of the higher half, or of the address published from the directory of   *)
(* the application processors, is left only on a processor that still has  *)
(* its invalidation before it.                                             *)
(***************************************************************************)
EXTENDS Shootdown, TLAPS

Working == {"filter", "invlpg", "ack"}

Places ==
    /\ at[Bsp] \in {"boot", "run", "publish", "send", "wait"}
    /\ \A a \in Ap : at[a] \in {"boot", "spin", "idle", "filter", "invlpg", "ack", "eoi"}
    /\ \A a \in Ap : at[a] = "boot" <=> a \notin ap_ready_flags
    /\ at[Bsp] # "boot" => ap_ready_flags = Ap

\* The meaning of the mask, of a requested interrupt and of the handler's copy.
Mask ==
    /\ at[Bsp] \in {"boot", "run", "publish"} => pending_mask = {}
    /\ at[Bsp] = "send" => pending_mask = Ap
    /\ at[Bsp] = "wait" => \A a \in Ap : a \in pending_mask <=> irr[a] \/ at[a] \in Working
    /\ \A a \in Ap : irr[a] => at[Bsp] = "wait" /\ at[a] \notin Working
    /\ \A a \in Ap : at[a] \in Working => at[Bsp] = "wait" /\ shoot_addr[a] = addr

\* The invalidation on processor a is still to come.
Ahead(a) ==
    \/ at[Bsp] \in {"publish", "send"}
    \/ at[Bsp] = "wait" /\ (irr[a] \/ at[a] \in {"filter", "invlpg"})

\* Where an old translation that the handlers do not skip may still be.
Stale ==
    \A a \in Ap : \A x \in stale[a] :
        /\ x \in Kernel => x = addr /\ Ahead(a)
        /\ x = addr /\ target_cr3 = Boot => Ahead(a)

Prompt == Places /\ Mask /\ Stale

Inv == TypeOK /\ (~late => Prompt)

\* In the initial state nothing is published and nobody takes part.
LEMMA InitInv == Init => Inv
  BY ShootdownAssumption DEF Init, Inv, Prompt, TypeOK, Places, Mask, Stale, Ahead, Place, Working
-----------------------------------------------------------------------------
\* Every step keeps the types, and a timeout is never forgotten.
LEMMA TypeStep ==
  ASSUME TypeOK, Next
  PROVE  TypeOK' /\ (late => late')
<1> USE ShootdownAssumption DEF TypeOK, Goto, shared, Place
<1>1. CASE smp_signal_ready \/ publish \/ send \/ complete \/ timeout
  BY <1>1 DEF smp_signal_ready, publish, targets, send, complete, timeout
<1>2. ASSUME NEW s \in Space, mmu_switch(s)
      PROVE  TypeOK' /\ (late => late')
  BY <1>2 DEF mmu_switch
<1>3. ASSUME NEW d \in Space, NEW x \in Addr, mmu_map_page(d, x)
      PROVE  TypeOK' /\ (late => late')
  <2>1. stale' \in [Ap -> SUBSET Addr]
    BY <1>3 DEF mmu_map_page
  <2> QED BY <1>3, <2>1 DEF mmu_map_page, mmu_invlpg
<1>4. ASSUME NEW a \in Ap, ap_entry(a) \/ ap_start(a) \/ Handler(a)
      PROVE  TypeOK' /\ (late => late')
  <2>1. CASE ap_entry(a) \/ ap_start(a)
    BY <1>4, <2>1 DEF ap_entry, ap_start
  <2>2. CASE smp_tlb_handler(a)
    BY <1>4, <2>2 DEF smp_tlb_handler
  <2>3. CASE invlpg(a)
    <3>1. stale' \in [Ap -> SUBSET Addr]
      BY <2>3 DEF invlpg
    <3> QED BY <1>4, <2>3, <3>1 DEF invlpg
  <2>4. CASE filter(a) \/ ack(a) \/ eoi(a)
    BY <1>4, <2>4 DEF filter, ack, eoi
  <2> QED BY <1>4, <2>1, <2>2, <2>3, <2>4 DEF Handler
<1> QED BY <1>1, <1>2, <1>3, <1>4 DEF Next, Initiator

\* The steps of the boot processor before the first timeout.
LEMMA InitiatorStep ==
  ASSUME TypeOK, Prompt, ~late',
         \/ smp_signal_ready \/ Initiator
         \/ \E s \in Space : mmu_switch(s)
         \/ \E d \in Space, x \in Addr : mmu_map_page(d, x)
  PROVE  Prompt'
<1> USE ShootdownAssumption DEF Prompt, Goto, shared, Place, Working
<1>1. CASE smp_signal_ready
  BY <1>1 DEF smp_signal_ready, TypeOK, Places, Mask, Stale, Ahead
<1>2. CASE \E s \in Space : mmu_switch(s)
  BY <1>2 DEF mmu_switch, TypeOK, Places, Mask, Stale, Ahead
<1>3. CASE \E d \in Space, x \in Addr : mmu_map_page(d, x)
  <2>1. PICK d \in Space, x \in Addr : mmu_map_page(d, x)
    BY <1>3
  <2>2. \A a \in Ap : stale[a] \cap Kernel = {}
    BY <2>1 DEF mmu_map_page, Stale, Ahead, TypeOK
  <2>3. \A a \in Ap : \A y \in stale'[a] : y = x \/ y \in stale[a]
    BY <2>1 DEF mmu_map_page
  <2>4. Places' /\ Mask'
    BY <2>1 DEF mmu_map_page, mmu_invlpg, TypeOK, Places, Mask
  <2>5. \A a \in Ap : Ahead(a)'
    BY <2>1 DEF mmu_map_page, mmu_invlpg, TypeOK, Ahead
  <2>6. Stale'
    BY <2>1, <2>2, <2>3, <2>5 DEF mmu_map_page, mmu_invlpg, Stale
  <2> QED BY <2>4, <2>6
<1>4. CASE publish
  BY <1>4 DEF publish, targets, TypeOK, Places, Mask, Stale, Ahead
<1>5. CASE send
  BY <1>5 DEF send, TypeOK, Places, Mask, Stale, Ahead
<1>6. CASE complete
  BY <1>6 DEF complete, TypeOK, Places, Mask, Stale, Ahead
<1>7. CASE timeout
  BY <1>7 DEF timeout
<1> QED BY <1>1, <1>2, <1>3, <1>4, <1>5, <1>6, <1>7 DEF Initiator

\* The steps of an application processor before the first timeout.
LEMMA ApStep ==
  ASSUME TypeOK, Prompt, NEW a \in Ap, ap_entry(a) \/ ap_start(a) \/ Handler(a)
  PROVE  Prompt'
<1> USE ShootdownAssumption DEF Prompt, Goto, shared, Place, Working
<1>1. CASE ap_entry(a)
  BY <1>1 DEF ap_entry, TypeOK, Places, Mask, Stale, Ahead
<1>2. CASE ap_start(a)
  BY <1>2 DEF ap_start, TypeOK, Places, Mask, Stale, Ahead
<1>3. CASE smp_tlb_handler(a)
  BY <1>3 DEF smp_tlb_handler, TypeOK, Places, Mask, Stale, Ahead
<1>4. CASE filter(a)
  <2>1. Places' /\ Mask'
    BY <1>4 DEF filter, TypeOK, Places, Mask
  <2>2. Skips(a) => shoot_addr[a] \notin Kernel /\ target_cr3 # Boot
    BY DEF Skips, Lower
  <2>3. \A b \in Ap : Ahead(b) => Ahead(b)' \/ (b = a /\ Skips(a))
    BY <1>4 DEF filter, TypeOK, Ahead
  <2>4. shoot_addr[a] = addr
    BY <1>4 DEF filter, Mask
  <2>5. Stale'
    BY <1>4, <2>2, <2>3, <2>4 DEF filter, Stale
  <2> QED BY <2>1, <2>5
<1>5. CASE invlpg(a)
  BY <1>5 DEF invlpg, TypeOK, Places, Mask, Stale, Ahead
<1>6. CASE ack(a)
  BY <1>6 DEF ack, TypeOK, Places, Mask, Stale, Ahead
<1>7. CASE eoi(a)
  BY <1>7 DEF eoi, TypeOK, Places, Mask, Stale, Ahead
<1> QED BY <1>1, <1>2, <1>3, <1>4, <1>5, <1>6, <1>7 DEF Handler

\* Every step, an initiator's, a handler's or none of these, keeps the invariant.
LEMMA NextStep ==
  ASSUME Inv, [Next]_vars
  PROVE  Inv'
<1>1. CASE Next
  <2>1. TypeOK' /\ (late => late')
    BY <1>1, TypeStep DEF Inv
  <2>2. ASSUME ~late' PROVE Prompt'
    BY <1>1, <2>1, <2>2, InitiatorStep, ApStep DEF Inv, Next
  <2> QED BY <2>1, <2>2 DEF Inv
<1>2. CASE UNCHANGED vars
  BY <1>2 DEF vars, Inv, Prompt, TypeOK, Places, Mask, Stale, Ahead
<1> QED BY <1>1, <1>2

\* The invariant holds in every reachable state.
THEOREM Invariance == Spec => []Inv
  BY InitInv, NextStep, PTL DEF Spec

\* smp_tlb_handler's unlocked reads: up to the first timeout the fields do not change
\* under a handler ("stable for the entire duration of the handler").
THEOREM FieldsAreStable == Spec => []FieldsStable
<1>1. Inv => FieldsStable
  BY DEF Inv, Prompt, TypeOK, Mask, Working, FieldsStable
<1> QED BY <1>1, Invariance, PTL

\* Up to the first timeout, when smp_tlb_shootdown returns, no application processor
\* uses an old translation of the higher half, whichever directory was changed and from
\* wherever, nor one of an address published from the processors' own directory.
THEOREM TlbsAreCoherent == Spec => []Coherent
<1>1. Inv => Coherent
  BY DEF Inv, Prompt, TypeOK, Stale, Ahead, Coherent
<1> QED BY <1>1, Invariance, PTL
=============================================================================
