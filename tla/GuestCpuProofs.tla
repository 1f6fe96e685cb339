--------------------------- MODULE GuestCpuProofs ---------------------------
(***************************************************************************)
(* The world switch implements GuestCpu, for every set of registers, any   *)
(* number of exits and both switches: across every exit the guest goes on  *)
(* with the registers, the pc and the mode that it left with, but for what *)
(* the hypervisor answered.  With SwitchInv, CpuInv says that the          *)
(* hypervisor knows why the guest exited.  Views says where the guest's    *)
(* processor is at each place of the hart; there is a lemma for every      *)
(* action that it is a step of GuestCpu, or none.                          *)
(***************************************************************************)
EXTENDS WorldSwitchProofs

\* The registers that a load or a store of the PLIC may name: tp, which stays on
\* the hart, is not one of them, and x0's word of the context, which a load to
\* x0 writes, is not stored.
PlicRegsKept == tp \notin LoadRegs \cup StoreRegs /\ (0 \notin LoadRegs \/ 0 \notin StoreRegs)

\* The number of the call that the guest makes, in a7 and a6.
Asked(a7, a6) == req.call = <<a7[1], a6[1]>>

\* scause, htinst, a7 and a6 say why the guest exited.
Told(a7, a6) ==
  \/ hart.csr["scause"] = Sym("ecall") /\ req.kind = "ecall" /\ Asked(a7, a6)
  \/ /\ hart.csr["scause"] = Sym("page_fault") /\ req \in Accesses
     /\ hart.csr["htinst"] = <<req.kind, req.reg, req.len>>
  \/ hart.csr["scause"] = Sym("illegal") /\ req.kind = "illegal"
  \/ hart.csr["scause"] = Sym("irq") /\ req.kind = "irq"

\* What the refinement needs beyond SwitchInv: what the guest boots with, and
\* that the hypervisor knows why the guest exited.
CpuInv ==
  /\ 0 \notin LoadRegs => C(hart, 0) = Zero
  /\ hart.pc[1] \in {"hentry", "csrr", "on_detect_trap", "probed"} => V(hart, 47) = Zero
  /\ At("hart_entry_1") => /\ req = NoReq /\ C(hart, 10) = Zero
                           /\ C(hart, SlotSepc) = GUEST_START_VA /\ SPP(C(hart, SlotSstatus)) = 1
  /\ req.kind = "calling" => hart.virt = 1 /\ Asked(hart.x[17], hart.x[16])
  /\ At("__alltraps") => Told(hart.x[17], hart.x[16])
  /\ At("trap_handler") => Told(C(hart, 17), C(hart, 16))
  /\ At("_guest_exit") => req.kind = "irq"
  /\ At("__alltraps_k") \/ At("trap_from_kernel") => path = "trap.S" /\ req # NoReq

\* The guest's processor when its state is on the hart, as it runs and after its
\* exit; in the trap context; in the VmCpuRegisters; and before it has one.
Loaded == /\ GuestState = "running" /\ CpuRegs = [r \in Regs |-> hart.x[r]]
          /\ CpuPc = hart.pc /\ CpuMode = <<1, hart.priv>>

Trapped == /\ GuestState = "exited" /\ CpuRegs = [r \in Regs |-> hart.x[r]]
           /\ CpuPc = hart.csr["sepc"]
           /\ CpuMode = <<SPV(hart.csr["hstatus"]), SPP(hart.csr["sstatus"])>>

CtxReg(r) == IF r = 0 THEN Zero ELSE IF r = 4 THEN hart.x[4] ELSE C(hart, r)
InContext == /\ CpuRegs = [r \in Regs |-> CtxReg(r)]
             /\ CpuPc = C(hart, SlotSepc)
             /\ CpuMode = <<SPV(C(hart, SlotHstatus)), SPP(C(hart, SlotSstatus))>>

VmReg(r) == IF r = 0 THEN Zero ELSE V(hart, 37 + r)
InVmCpu == /\ CpuRegs = [r \in Regs |-> VmReg(r)]
           /\ CpuPc = V(hart, 72) /\ CpuMode = <<SPV(V(hart, 70)), SPP(V(hart, 69))>>

NoCpu == GuestState = "off" /\ CpuRegs = <<>> /\ CpuPc = Zero /\ CpuMode = <<0, 0>>

\* Where it is, by the pc of the hart.
Views ==
  /\ hart.virt = 1 => Loaded
  /\ hart.virt = 0 /\ (At("__alltraps") \/ At("_guest_exit")) /\ req # NoReq => Trapped
  /\ (/\ hart.virt = 0 /\ path = "trap.S" /\ req # NoReq
      /\ At("trap_handler") \/ At("__alltraps_k") \/ At("trap_from_kernel") \/ At("panic"))
       => GuestState = "exited" /\ InContext
  /\ hart.virt = 0 /\ At("switch_to_guest") /\ path = "trap.S"
       => GuestState = "answered" /\ InContext
  /\ hart.virt = 0 /\ At("caller") /\ path = "guest.S" => GuestState = "answered" /\ InVmCpu
  /\ (/\ hart.virt = 0 /\ req = NoReq
      /\ hart.pc[1] \in {"hentry", "csrr", "on_detect_trap", "probed", "panic", "hart_entry_1"})
       => NoCpu

\* The refinement mapping, place by place.
LEMMA ViewsHold == Views
<1> DEFINE Saved == hart.virt = 0 /\ ~At("__alltraps") /\ ~At("_guest_exit")
<1>0. 0 # 1
  OBVIOUS
<1>1. \A name : At(name) => hart.pc[1] = name
  BY DEF At, Sym
<1>2. hart.virt = 1 => Loaded
  <2>1. SUFFICES ASSUME hart.virt = 1 PROVE Loaded
    BY Zenon
  <2>2. GuestState = "running"
    BY Zenon, <1>0, <2>1 DEF GuestState, Answered
  <2>3. QED
    BY Zenon, <1>0, <2>1, <2>2 DEF Loaded, CpuRegs, CpuPc, CpuMode, GuestPc, GuestMode, OnHart
<1>3. hart.virt = 0 /\ (At("__alltraps") \/ At("_guest_exit")) /\ req # NoReq => Trapped
  <2>1. SUFFICES ASSUME hart.virt = 0, At("__alltraps") \/ At("_guest_exit"), req # NoReq
                 PROVE  Trapped
    BY Zenon
  <2>2. GuestState = "exited"
    BY Zenon, <1>0, <1>1, <2>1 DEF GuestState, Answered
  <2>3. QED
    BY Zenon, <1>0, <2>1, <2>2 DEF Trapped, CpuRegs, CpuPc, CpuMode, GuestPc, GuestMode, OnHart
<1>4. Saved /\ path = "trap.S" /\ GuestState # "off" => InContext
  <2>1. SUFFICES ASSUME Saved, path = "trap.S", GuestState # "off" PROVE InContext
    BY Zenon
  <2>2. ~OnHart /\ path # "guest.S" /\ tp = 4 /\ GprIndex.TP = 4
    BY Zenon, <1>0, <2>1, RegNumbers DEF OnHart, tp
  <2>3. ASSUME NEW r
        PROVE  SavedReg(r) = CtxReg(r)
    BY <2>1, <2>2 DEF SavedReg, CtxReg, C, M
  <2>4. CpuRegs = [r \in Regs |-> SavedReg(r)]
    BY Zenon, <2>1, <2>2 DEF CpuRegs
  <2>5. /\ SavedCsr(SlotSepc, GuestCsr.sepc) = C(hart, SlotSepc)
        /\ SavedCsr(SlotHstatus, GuestCsr.hstatus) = C(hart, SlotHstatus)
        /\ SavedCsr(SlotSstatus, GuestCsr.sstatus) = C(hart, SlotSstatus)
    BY Zenon, <2>1 DEF SavedCsr, C, M
  <2>6. CpuPc = C(hart, SlotSepc)
    BY Zenon, <1>0, <2>1, <2>2, <2>5 DEF CpuPc, GuestPc
  <2>7. CpuMode = <<SPV(C(hart, SlotHstatus)), SPP(C(hart, SlotSstatus))>>
    BY Zenon, <1>0, <2>1, <2>2, <2>5 DEF CpuMode, GuestMode
  <2>8. QED
    BY Zenon, <2>3, <2>4, <2>6, <2>7 DEF InContext
<1>5. Saved /\ path = "guest.S" /\ GuestState # "off" => InVmCpu
  <2>1. SUFFICES ASSUME Saved, path = "guest.S", GuestState # "off" PROVE InVmCpu
    BY Zenon
  <2>2. ~OnHart /\ path # "trap.S"
    BY Zenon, <1>0, <2>1 DEF OnHart
  <2>3. ASSUME NEW r
        PROVE  SavedReg(r) = VmReg(r)
    BY Zenon, <2>1, <2>2 DEF SavedReg, VmReg, V, M, guest_gpr_offset, GuestRegs
  <2>4. CpuRegs = [r \in Regs |-> SavedReg(r)]
    BY Zenon, <2>1, <2>2 DEF CpuRegs
  <2>5. /\ SavedCsr(SlotSepc, GuestCsr.sepc) = V(hart, 72)
        /\ SavedCsr(SlotHstatus, GuestCsr.hstatus) = V(hart, 70)
        /\ SavedCsr(SlotSstatus, GuestCsr.sstatus) = V(hart, 69)
    BY <2>2, Layout DEF SavedCsr, V, M
  <2>6. CpuPc = V(hart, 72)
    BY Zenon, <1>0, <2>1, <2>2, <2>5 DEF CpuPc, GuestPc
  <2>7. CpuMode = <<SPV(V(hart, 70)), SPP(V(hart, 69))>>
    BY Zenon, <1>0, <2>1, <2>2, <2>5 DEF CpuMode, GuestMode
  <2>8. QED
    BY Zenon, <2>3, <2>4, <2>6, <2>7 DEF InVmCpu
<1>6. (/\ hart.virt = 0 /\ path = "trap.S" /\ req # NoReq
       /\ At("trap_handler") \/ At("__alltraps_k") \/ At("trap_from_kernel") \/ At("panic"))
        => GuestState = "exited" /\ InContext
  <2>1. SUFFICES ASSUME hart.virt = 0, path = "trap.S", req # NoReq,
                        At("trap_handler") \/ At("__alltraps_k") \/ At("trap_from_kernel") \/ At("panic")
                 PROVE  GuestState = "exited" /\ InContext
    BY Zenon
  <2>2. GuestState = "exited"
    BY Zenon, <1>0, <1>1, <2>1 DEF GuestState, Answered
  <2>3. Saved
    BY Zenon, <1>1, <2>1
  <2>4. QED
    BY Zenon, <1>4, <2>1, <2>2, <2>3
<1>7. /\ hart.virt = 0 /\ At("switch_to_guest") => GuestState = "answered" /\ Saved
      /\ hart.virt = 0 /\ At("caller") => GuestState = "answered" /\ Saved
  BY Zenon, <1>0, <1>1 DEF GuestState, Answered
<1>8. (/\ hart.virt = 0 /\ req = NoReq
       /\ hart.pc[1] \in {"hentry", "csrr", "on_detect_trap", "probed", "panic", "hart_entry_1"})
        => NoCpu
  <2>1. SUFFICES ASSUME hart.virt = 0, req = NoReq,
                        hart.pc[1] \in {"hentry", "csrr", "on_detect_trap", "probed", "panic", "hart_entry_1"}
                 PROVE  NoCpu
    BY Zenon
  <2>2. GuestState = "off"
    BY Zenon, <1>0, <1>1, <2>1 DEF GuestState, Answered
  <2>3. QED
    BY Zenon, <2>2 DEF NoCpu, CpuRegs, CpuPc, CpuMode
<1>9. QED
  BY Zenon, <1>2, <1>3, <1>4, <1>5, <1>6, <1>7, <1>8 DEF Views

\* And after a step.
LEMMA ViewsNext == Views'
BY ViewsHold, PTL

\* The words of GuestCpu are those of WorldSwitch.
LEMMA SameWords ==
  /\ Cpu!Zero = Zero
  /\ \A w, k : Cpu!Add(w, k) = Add(w, k)
  /\ \A name : Cpu!Sym(name) = Sym(name)
  /\ Cpu!GprIndex.A0 = 10 /\ Cpu!GprIndex.A1 = 11
BY DEF Cpu!Zero, Cpu!Num, Zero, Num, Cpu!Add, Add, Cpu!GprIndex, Cpu!Sym, Sym

\* A step that moves the guest's state, and nothing that the guest sees.
LEMMA CpuStutters ==
  ASSUME GuestState' = GuestState, CpuRegs' = CpuRegs, CpuPc' = CpuPc, CpuMode' = CpuMode,
         UNCHANGED <<req, given>>
  PROVE  UNCHANGED Cpu!cpuVars
BY Zenon DEF Cpu!cpuVars, Cpu!cpu

\* CpuInv where it says least.
LEMMA PassedOn ==
  ASSUME CpuInv, 0 \notin LoadRegs => C(hart', 0) = C(hart, 0),
         hart'.pc[1] \in {"guest_entry", "guest_pc", "vstvec", "switch_to_guest", "caller", "panic"},
         req'.kind = "calling" => hart'.virt = 1 /\ req'.call = <<hart'.x[17][1], hart'.x[16][1]>>
  PROVE  CpuInv'
<1>1. \A name : At(name)' => hart'.pc[1] = name
  BY DEF At, Sym
<1>2. 0 \notin LoadRegs => C(hart', 0) = Zero
  BY Zenon DEF CpuInv
<1>3. QED
  BY Zenon, <1>1, <1>2 DEF CpuInv, Asked

\* What __restore loads, before the sret.
LEMMA EntryLoads ==
  ASSUME HartOk(hart)
  PROVE  LET n == restore_program(SetReg(set_hgatp(set_user_trap_entry(hart)), a0, TRAP_CONTEXT)) IN
         /\ IsHart(n) /\ n.mem = hart.mem
         /\ \A r \in Regs : n.x[r] = CtxReg(r)
         /\ n.csr["sepc"] = C(hart, SlotSepc) /\ n.csr["sstatus"] = C(hart, SlotSstatus)
         /\ n.csr["hstatus"] = C(hart, SlotHstatus)
<1> DEFINE m == SetReg(set_hgatp(set_user_trap_entry(hart)), a0, TRAP_CONTEXT)
           n == restore_program(m)
<1>1. EnterEffect(m, hart)
  BY Zenon, EnterDoes DEF HartOk
<1> HIDE DEF m
<1>2. RestoreEffect(n, m)
  BY Zenon, <1>1, RestoreDoes DEF EnterEffect, Becomes
<1> HIDE DEF n
<1>3. IsHart(n) /\ n.mem = hart.mem /\ m.mem = hart.mem
  BY Zenon, <1>1, <1>2 DEF EnterEffect, RestoreEffect, Becomes
<1>4. \A k : C(m, k) = C(hart, k)
  BY Zenon, <1>3 DEF C, M
<1>5. 0 \in Regs \ {a0} /\ 4 \in Regs \ {a0}
  BY RegNumbers DEF Regs
<1>6. n.x[0] = Zero /\ n.x[4] = hart.x[4]
  BY Zenon, <1>1, <1>2, <1>5 DEF EnterEffect, RestoreEffect, HartOk
<1>7. \A r \in Regs \ {0, 4} : n.x[r] = C(hart, r)
  BY Zenon, <1>2, <1>4 DEF RestoreEffect
<1>8. n.csr["sepc"] = C(hart, SlotSepc) /\ n.csr["sstatus"] = C(hart, SlotSstatus)
      /\ n.csr["hstatus"] = C(hart, SlotHstatus)
  BY Zenon, <1>2, <1>4 DEF RestoreEffect
<1>9. \A r \in Regs : n.x[r] = CtxReg(r)
  BY Zenon, <1>6, <1>7 DEF CtxReg
<1>10. QED
  BY Zenon, <1>3, <1>8, <1>9 DEF m, n

\* switch_to_guest is Resume.
LEMMA SwitchToGuestCpu ==
  ASSUME SwitchInv, CpuInv, switch_to_guest
  PROVE  CpuInv' /\ Cpu!CpuNext
<1> DEFINE n == restore_program(SetReg(set_hgatp(set_user_trap_entry(hart)), a0, TRAP_CONTEXT))
<1>1. AtSwitch /\ HartOk(hart)
  BY Zenon, Where DEF switch_to_guest, Common
<1>2. hart' = Sret(n) /\ UNCHANGED <<hasH, path, probe, gen, req, given, caller>>
  BY Zenon DEF switch_to_guest
<1>3. /\ IsHart(n) /\ n.mem = hart.mem
      /\ \A r \in Regs : n.x[r] = CtxReg(r)
      /\ n.csr["sepc"] = C(hart, SlotSepc) /\ n.csr["sstatus"] = C(hart, SlotSstatus)
      /\ n.csr["hstatus"] = C(hart, SlotHstatus)
  BY Zenon, <1>1, EntryLoads
<1> HIDE DEF n
<1>4. SretEffect(hart', n)
  BY Zenon, <1>2, <1>3, SretIs
<1>5. SPV(C(hart, SlotHstatus)) = 1 /\ IsGuestPc(C(hart, SlotSepc)) /\ hart.virt = 0 /\ path = "trap.S"
  <2>1. SPV(Hstatus(1)) = 1
    BY Zenon, StatusFacts
  <2>2. QED
    BY Zenon, <1>1, <2>1 DEF AtSwitch, CtxHolds
<1>6. /\ hart'.x = n.x /\ hart'.mem = hart.mem /\ hart'.pc = C(hart, SlotSepc)
      /\ hart'.priv = SPP(C(hart, SlotSstatus)) /\ hart'.virt = 1
  BY Zenon, <1>3, <1>4, <1>5 DEF SretEffect
<1>7. Loaded'
  BY Zenon, <1>6, ViewsNext DEF Views
<1>8. GuestState = "answered" /\ InContext
  BY Zenon, <1>1, <1>5, ViewsHold DEF Views, AtSwitch
<1>9. CpuRegs' = CpuRegs /\ CpuPc' = CpuPc /\ CpuMode' = CpuMode
  <2>1. CpuRegs' = CpuRegs
    BY Zenon, <1>3, <1>6, <1>7, <1>8 DEF Loaded, InContext
  <2>2. QED
    BY Zenon, <1>5, <1>6, <1>7, <1>8, <2>1 DEF Loaded, InContext
<1>10. Cpu!Resume
  BY Zenon, <1>2, <1>7, <1>8, <1>9 DEF Cpu!Resume, Cpu!cpu, Loaded
<1>11. CpuInv'
  <2>1. C(hart', 0) = C(hart, 0)
    BY Zenon, <1>6 DEF C, M
  <2>2. req.kind # "calling"
    <3>1. 0 # 1
      OBVIOUS
    <3>2. QED
      BY Zenon, <1>5, <3>1 DEF CpuInv
  <2>3. hart'.pc[1] \in {"guest_entry", "guest_pc", "vstvec", "switch_to_guest", "caller", "panic"}
    BY Zenon, <1>5, <1>6 DEF IsGuestPc
  <2>4. QED
    BY Zenon, <1>2, <2>1, <2>2, <2>3, PassedOn
<1>12. QED
  BY Zenon, <1>10, <1>11 DEF Cpu!CpuNext

\* hart_entry_1 and hart_entry_2 are Start.
LEMMA HartEntryCpu ==
  ASSUME SwitchInv, CpuInv, hart_entry
  PROVE  CpuInv' /\ Cpu!CpuNext
<1> DEFINE k == restore_program(SetReg(set_hgatp(set_user_trap_entry(hart)), a0, TRAP_CONTEXT))
           n == SetReg(k, GprIndex.A1, GUEST_DTB_ADDR)
<1>1. AtHartEntry /\ HartOk(hart)
  BY Zenon, Where DEF hart_entry, Common
<1>2. hart' = Sret(n) /\ UNCHANGED <<hasH, path, probe, gen, req, given, caller>>
  BY Zenon DEF hart_entry
<1>3. /\ IsHart(k) /\ k.mem = hart.mem
      /\ \A r \in Regs : k.x[r] = CtxReg(r)
      /\ k.csr["sepc"] = C(hart, SlotSepc) /\ k.csr["sstatus"] = C(hart, SlotSstatus)
      /\ k.csr["hstatus"] = C(hart, SlotHstatus)
  BY Zenon, <1>1, EntryLoads
<1> HIDE DEF k
<1>4. /\ hart.virt = 0 /\ req = NoReq /\ C(hart, 10) = Zero /\ C(hart, SlotSepc) = GUEST_START_VA
      /\ SPP(C(hart, SlotSstatus)) = 1 /\ SPV(C(hart, SlotHstatus)) = 1
  <2>1. SPV(Hstatus(1)) = 1
    BY Zenon, StatusFacts
  <2>2. QED
    BY Zenon, <1>1, <2>1 DEF AtHartEntry, CtxHolds, CpuInv
<1>5. Becomes(n, k, [k.x EXCEPT ![11] = GUEST_DTB_ADDR], k.csr, k.mem)
  <2>1. GprIndex.A1 = 11 /\ 11 \in Regs \ {0}
    BY RegNumbers DEF Regs
  <2>2. QED
    BY Zenon, <1>3, <2>1, DoSetReg
<1> HIDE DEF n
<1>6. SretEffect(hart', n)
  BY Zenon, <1>2, <1>5, SretIs DEF Becomes
<1>7. /\ hart'.x = n.x /\ hart'.mem = hart.mem /\ hart'.pc = GUEST_START_VA
      /\ hart'.priv = 1 /\ hart'.virt = 1
  <2>1. n.csr["sepc"] = GUEST_START_VA /\ SPP(n.csr["sstatus"]) = 1 /\ SPV(n.csr["hstatus"]) = 1
        /\ n.mem = hart.mem
    BY Zenon, <1>3, <1>4, <1>5 DEF Becomes
  <2>2. QED
    BY Zenon, <1>6, <2>1 DEF SretEffect
<1>8. n.x[0] = Zero /\ n.x[10] = Zero /\ n.x[11] = GUEST_DTB_ADDR
  <2>1. 0 \in Regs /\ 10 \in Regs /\ 11 \in Regs
    BY DEF Regs
  <2>2. QED
    BY <1>3, <1>4, <1>5, <2>1 DEF Becomes, IsHart, CtxReg
<1>9. Loaded'
  BY Zenon, <1>7, ViewsNext DEF Views
<1>10. NoCpu
  <2>1. hart.pc[1] = "hart_entry_1"
    BY Zenon, <1>1, Places
  <2>2. QED
    BY Zenon, <1>4, <2>1, ViewsHold DEF Views
<1>11. Cpu!Start
  <2>1. CpuRegs'[0] = Zero /\ CpuRegs'[10] = Zero /\ CpuRegs'[11] = GUEST_DTB_ADDR
    BY <1>7, <1>8, <1>9 DEF Loaded, Regs
  <2>2. QED
    BY Zenon, <1>2, <1>7, <1>9, <1>10, <2>1, SameWords DEF Cpu!Start, Loaded, NoCpu
<1>12. CpuInv'
  <2>1. C(hart', 0) = C(hart, 0)
    BY Zenon, <1>7 DEF C, M
  <2>2. req.kind # "calling" /\ hart'.pc[1] = "guest_entry"
    BY <1>4, <1>7 DEF NoReq, GUEST_START_VA, Sym
  <2>3. QED
    BY Zenon, <1>2, <2>1, <2>2, PassedOn
<1>13. QED
  BY Zenon, <1>11, <1>12 DEF Cpu!CpuNext

\* __alltraps moves the guest's state to the trap context.
LEMMA AlltrapsCpu ==
  ASSUME SwitchInv, CpuInv, alltraps
  PROVE  CpuInv' /\ UNCHANGED Cpu!cpuVars
<1> DEFINE m == alltraps_program(hart)
<1>1. AtAlltraps /\ HartOk(hart)
  BY Zenon, Where DEF alltraps, Common
<1>2. hart' = [m EXCEPT !.pc = m.x[t1]] /\ UNCHANGED <<hasH, path, probe, gen, req, given, caller>>
  BY Zenon DEF alltraps
<1>3. /\ hart.csr["sscratch"] = TRAP_CONTEXT /\ CtxReady /\ hart.virt = 0 /\ path = "trap.S"
      /\ req # NoReq /\ At("__alltraps")
  BY Zenon, <1>1 DEF AtAlltraps, Exiting, ExitReady
<1>4. AlltrapsEffect(m, hart)
  BY Zenon, <1>1, <1>3, AlltrapsDoes DEF HartOk
<1> HIDE DEF m
<1>5. /\ hart'.x = m.x /\ hart'.csr = m.csr /\ hart'.mem = m.mem
      /\ hart'.pc = Sym("trap_handler") /\ hart'.virt = 0
  BY Zenon, <1>2, <1>3, <1>4 DEF AlltrapsEffect, Becomes, IsHart, CtxReady
<1>6. hart'.csr["scause"] = hart.csr["scause"] /\ hart'.csr["htinst"] = hart.csr["htinst"]
  BY Zenon, <1>1, <1>4, <1>5, Named DEF AlltrapsEffect, Becomes, HartOk, IsHart
<1>7. \A k : C(hart', k) = C(m, k)
  BY Zenon, <1>5 DEF C, M
<1>8. /\ \A r \in Regs \ {0, 4} : C(hart', r) = hart.x[r]
      /\ C(hart', 0) = C(hart, 0) /\ hart'.x[4] = hart.x[4]
      /\ C(hart', SlotSepc) = hart.csr["sepc"] /\ C(hart', SlotSstatus) = hart.csr["sstatus"]
      /\ C(hart', SlotHstatus) = hart.csr["hstatus"]
  <2>1. 4 \in Regs \ {2, 5, 6, 7}
    BY DEF Regs
  <2>2. C(m, 0) = C(hart, 0) /\ m.x[4] = hart.x[4] /\ \A r \in Regs \ {0, 4} : C(m, r) = hart.x[r]
    BY Zenon, <1>4, <2>1 DEF AlltrapsEffect
  <2>3. /\ C(m, SlotSepc) = hart.csr["sepc"] /\ C(m, SlotSstatus) = hart.csr["sstatus"]
        /\ C(m, SlotHstatus) = hart.csr["hstatus"]
    BY Zenon, <1>4 DEF AlltrapsEffect
  <2>4. QED
    BY Zenon, <1>5, <1>7, <2>2, <2>3
<1>9. Trapped
  BY Zenon, <1>3, ViewsHold DEF Views
<1>10. GuestState' = "exited" /\ InContext'
  BY Zenon, <1>2, <1>3, <1>5, ViewsNext DEF Views, At
<1>11. UNCHANGED Cpu!cpuVars
  <2>1. \A r \in Regs : CtxReg(r)' = hart.x[r]
    BY Zenon, <1>1, <1>8 DEF CtxReg, HartOk
  <2>2. CpuRegs' = CpuRegs
    BY Zenon, <1>9, <1>10, <2>1 DEF Trapped, InContext
  <2>3. CpuPc' = CpuPc /\ CpuMode' = CpuMode
    BY Zenon, <1>8, <1>9, <1>10 DEF Trapped, InContext
  <2>4. QED
    BY Zenon, <1>2, <1>9, <1>10, <2>2, <2>3, CpuStutters DEF Trapped
<1>12. CpuInv'
  <2>1. hart'.pc[1] = "trap_handler" /\ \A name : At(name)' => hart'.pc[1] = name
    BY <1>5 DEF At, Sym
  <2>2. 16 \in Regs \ {0, 4} /\ 17 \in Regs \ {0, 4} /\ 0 # 1
    BY DEF Regs
  <2>3. Told(hart.x[17], hart.x[16]) /\ C(hart', 17) = hart.x[17] /\ C(hart', 16) = hart.x[16]
    BY Zenon, <1>3, <1>8, <2>2 DEF CpuInv
  <2>4. Told(C(hart, 17), C(hart, 16))'
    BY Zenon, <1>2, <1>6, <2>3 DEF Told, Asked
  <2>5. req.kind # "calling" /\ (0 \notin LoadRegs => C(hart, 0) = Zero)
    BY Zenon, <1>3, <2>2 DEF CpuInv
  <2>6. QED
    BY Zenon, <1>2, <1>8, <2>1, <2>4, <2>5 DEF CpuInv
<1>13. QED
  BY Zenon, <1>11, <1>12

\* A step of the hypervisor that keeps the context and tp.
LEMMA HypervisorRuns ==
  ASSUME path = "trap.S", req # NoReq, hart.virt = 0, CpuInv,
         At("trap_handler") \/ At("__alltraps_k"),
         hart'.virt = 0, hart'.x[4] = hart.x[4], \A k \in 0 .. 37 : C(hart', k) = C(hart, k),
         UNCHANGED <<path, req, given>>,
         (At("__alltraps_k") \/ At("trap_from_kernel") \/ At("panic"))'
  PROVE  CpuInv' /\ UNCHANGED Cpu!cpuVars
<1>1. GuestState = "exited" /\ InContext
  BY Zenon, ViewsHold DEF Views
<1>2. GuestState' = "exited" /\ InContext'
  BY Zenon, ViewsNext DEF Views
<1>3. UNCHANGED Cpu!cpuVars
  <2>1. ASSUME NEW r \in Regs PROVE CtxReg(r)' = CtxReg(r)
    <3>1. r \in 0 .. 37
      BY DEF Regs
    <3>2. QED
      BY Zenon, <3>1 DEF CtxReg
  <2>2. CpuRegs' = CpuRegs
    BY Zenon, <1>1, <1>2, <2>1 DEF InContext
  <2>3. SlotSepc \in 0 .. 37 /\ SlotSstatus \in 0 .. 37 /\ SlotHstatus \in 0 .. 37
    BY DEF SlotSepc, SlotSstatus, SlotHstatus
  <2>4. CpuPc' = CpuPc /\ CpuMode' = CpuMode
    BY Zenon, <1>1, <1>2, <2>3 DEF InContext
  <2>5. QED
    BY Zenon, <1>1, <1>2, <2>2, <2>4, CpuStutters
<1>4. CpuInv'
  <2>1. hart'.pc[1] \in {"__alltraps_k", "trap_from_kernel", "panic"}
        /\ \A name : At(name)' => hart'.pc[1] = name
    BY DEF At, Sym
  <2>2. C(hart', 0) = C(hart, 0) /\ 0 # 1
    OBVIOUS
  <2>3. req.kind # "calling" /\ (0 \notin LoadRegs => C(hart, 0) = Zero)
    BY Zenon, <2>2 DEF CpuInv
  <2>4. QED
    BY Zenon, <2>1, <2>2, <2>3 DEF CpuInv
<1>5. QED
  BY Zenon, <1>3, <1>4

\* __alltraps_k keeps the guest's state where it is.
LEMMA AlltrapsKCpu ==
  ASSUME SwitchInv, CpuInv, alltraps_k
  PROVE  CpuInv' /\ UNCHANGED Cpu!cpuVars
<1> DEFINE m == alltraps_k_program(hart)
           k == SetReg(m, GprIndex.RA, Sym("__restore_k"))
<1>1. AtKernelTrap /\ HartOk(hart) /\ path = "trap.S" /\ req # NoReq
  BY Zenon, Where DEF alltraps_k, Common, CpuInv
<1>2. hart' = [k EXCEPT !.pc = m.x[t2]] /\ UNCHANGED <<hasH, path, probe, gen, req, given, caller>>
  BY Zenon DEF alltraps_k
<1>3. AlltrapsKEffect(m, hart)
  BY Zenon, <1>1, AlltrapsKDoes DEF AtKernelTrap, HartOk
<1> HIDE DEF m
<1>a. GprIndex.RA \in Regs \ {0} /\ GprIndex.RA # 4 /\ tp = 4 /\ 4 \in Regs
  BY RegNumbers DEF Regs
<1>4. Becomes(k, m, [m.x EXCEPT ![GprIndex.RA] = Sym("__restore_k")], m.csr, m.mem)
  <2>1. IsHart(m)
    BY Zenon, <1>3 DEF AlltrapsKEffect, Becomes
  <2>2. QED
    BY Zenon, <1>a, <2>1, DoSetReg
<1> HIDE DEF k
<1>5. hart'.x = k.x /\ hart'.mem = m.mem /\ hart'.pc = m.x[t2] /\ hart'.virt = hart.virt
  BY Zenon, <1>2, <1>3, <1>4 DEF AlltrapsKEffect, Becomes, IsHart
<1>6. hart'.x[4] = hart.x[4]
  BY Zenon, <1>3, <1>4, <1>5, <1>a DEF AlltrapsKEffect, Becomes, IsHart
<1>7. \A j \in 0 .. 37 : C(hart', j) = C(hart, j)
  <2>1. \A j : C(hart', j) = C(m, j)
    BY Zenon, <1>5 DEF C, M
  <2>2. \A j \in 0 .. 37 : C(m, j) = C(hart, j)
    BY Zenon, <1>3, Apart DEF AlltrapsKEffect
  <2>3. QED
    BY Zenon, <2>1, <2>2
<1>8. At("trap_from_kernel")' /\ hart'.virt = 0 /\ hart.virt = 0 /\ At("__alltraps_k")
  BY Zenon, <1>1, <1>3, <1>5 DEF AtKernelTrap, AlltrapsKEffect, At
<1>9. QED
  BY Zenon, <1>1, <1>2, <1>6, <1>7, <1>8, HypervisorRuns

\* A panic of the handler does too.
LEMMA PanicCpu ==
  ASSUME SwitchInv, CpuInv, At("trap_handler"), Panic
  PROVE  CpuInv' /\ UNCHANGED Cpu!cpuVars
<1> DEFINE m == Clobber(set_kernel_trap_entry(hart), RustRegs)
<1>1. AtTrapHandler /\ HartOk(hart)
  BY Zenon, Where DEF Common
<1>2. hart' = Goto(m, "panic") /\ UNCHANGED <<hasH, path, probe, gen, req, given, caller>>
  BY Zenon DEF Panic
<1>3. RustEffect(m, hart)
  BY Zenon, <1>1, RustDoes DEF HartOk
<1> HIDE DEF m
<1>4. IsHart(m) /\ m.mem = hart.mem /\ m.virt = hart.virt /\ m.x[tp] = hart.x[tp]
  BY Zenon, <1>3 DEF RustEffect, Becomes
<1>5. hart'.x = m.x /\ hart'.mem = m.mem /\ hart'.pc = Sym("panic") /\ hart'.virt = m.virt
  BY Zenon, <1>2, <1>4, GotoIs
<1>6. \A k : C(hart', k) = C(hart, k)
  BY Zenon, <1>4, <1>5 DEF C, M
<1>7. At("panic")' /\ hart'.virt = 0 /\ hart'.x[4] = hart.x[4]
  BY Zenon, <1>1, <1>4, <1>5, RegNumbers DEF At, AtTrapHandler
<1>8. QED
  BY Zenon, <1>1, <1>2, <1>6, <1>7, HypervisorRuns DEF AtTrapHandler

\* And so does a fault of the handler.
LEMMA KernelFaultCpu ==
  ASSUME SwitchInv, CpuInv, kernel_fault
  PROVE  CpuInv' /\ UNCHANGED Cpu!cpuVars
<1> DEFINE m1 == Clobber(set_kernel_trap_entry(hart), RustRegs)
           m2 == [m1 EXCEPT !.x[sp] = Add(@, -4), !.pc = Sym("rust_access")]
<1>1. AtTrapHandler /\ HartOk(hart)
  BY Zenon, Where DEF kernel_fault, Cause, Common
<1>2. hart' = Trap(m2, Sym("LoadFault")) /\ UNCHANGED <<hasH, path, probe, gen, req, given, caller>>
  BY Zenon DEF kernel_fault
<1>3. RustEffect(m1, hart)
  BY Zenon, <1>1, RustDoes DEF HartOk
<1> HIDE DEF m1
<1>4. /\ IsHart(m1) /\ m1.mem = hart.mem /\ m1.x[tp] = hart.x[tp]
      /\ m1.csr["stvec"] = Sym("__alltraps_k")
  BY Zenon, <1>3 DEF RustEffect, Becomes
<1>5. IsHart(m2) /\ m2.x[4] = hart.x[4] /\ m2.csr = m1.csr /\ m2.mem = hart.mem
  <2>1. sp # 4 /\ tp = 4 /\ 4 \in Regs /\ sp \in Regs
    BY RegNumbers DEF Regs
  <2>2. QED
    BY Zenon, <1>4, <2>1 DEF IsHart
<1> HIDE DEF m2
<1>6. TrapEffect(hart', m2, Sym("LoadFault"))
  BY Zenon, <1>2, <1>5, TrapIs
<1>7. /\ hart'.x[4] = hart.x[4] /\ hart'.mem = hart.mem /\ At("__alltraps_k")' /\ hart'.virt = 0
  BY Zenon, <1>4, <1>5, <1>6 DEF TrapEffect, At
<1>8. \A k : C(hart', k) = C(hart, k)
  BY Zenon, <1>7 DEF C, M
<1>9. QED
  BY Zenon, <1>1, <1>2, <1>7, <1>8, HypervisorRuns DEF AtTrapHandler

\* What the guest does to its registers is Execute.
LEMMA GuestRunsCpu ==
  ASSUME SwitchInv, CpuInv, GuestRuns
  PROVE  CpuInv' /\ Cpu!CpuNext
<1>1. HartOk(hart) /\ hart.virt = 1 /\ UNCHANGED given /\ req' = NoReq
  BY Zenon, Where DEF GuestRuns, Common
<1>2. /\ hart'.x[0] = Zero /\ hart'.mem = hart.mem /\ hart'.pc[1] = "guest_pc" /\ hart'.virt = 1
  BY <1>1 DEF GuestRuns, HartOk, IsHart, Regs
<1>3. Loaded /\ Loaded'
  BY Zenon, <1>1, <1>2, ViewsHold, ViewsNext DEF Views
<1>4. Cpu!Execute
  <2>1. CpuRegs'[0] = Zero /\ CpuMode'[1] = 1
    BY <1>2, <1>3 DEF Loaded, Regs
  <2>2. QED
    BY Zenon, <1>1, <1>3, <2>1, SameWords DEF Cpu!Execute, Loaded
<1>5. CpuInv'
  <2>1. C(hart', 0) = C(hart, 0)
    BY Zenon, <1>2 DEF C, M
  <2>2. req'.kind # "calling"
    BY <1>1 DEF NoReq
  <2>3. QED
    BY Zenon, <1>2, <2>1, <2>2, PassedOn
<1>6. QED
  BY Zenon, <1>4, <1>5 DEF Cpu!CpuNext

\* The load of a call's number too.
LEMMA GuestCallsCpu ==
  ASSUME SwitchInv, CpuInv, GuestCalls
  PROVE  CpuInv' /\ Cpu!CpuNext
<1>1. InGuest /\ HartOk(hart) /\ hart.virt = 1 /\ UNCHANGED given
  BY Zenon, Where DEF GuestCalls, Common
<1>2. PICK call \in SbiCalls \cup PanicCalls :
        /\ hart' = [hart EXCEPT !.x = [hart.x EXCEPT ![GprIndex.A7] = Sym(call[1]),
                                                     ![GprIndex.A6] = Sym(call[2])]]
        /\ req' = [NoReq EXCEPT !.kind = "calling", !.call = call]
  BY Zenon DEF GuestCalls
<1> DEFINE x == [hart.x EXCEPT ![GprIndex.A7] = Sym(call[1]), ![GprIndex.A6] = Sym(call[2])]
<1>3. x[0] = Zero /\ x[17] = Sym(call[1]) /\ x[16] = Sym(call[2])
  <2>1. GprIndex.A7 = 17 /\ GprIndex.A6 = 16 /\ 0 \in Regs /\ 16 \in Regs /\ 17 \in Regs
    BY RegNumbers DEF Regs
  <2>2. QED
    BY <1>1, <2>1 DEF HartOk, IsHart
<1>4. hart' = [hart EXCEPT !.x = x]
  BY Zenon, <1>2
<1> HIDE DEF x
<1>5. hart'.x = x /\ hart'.mem = hart.mem /\ hart'.pc = hart.pc /\ hart'.virt = 1
  BY Zenon, <1>1, <1>4 DEF HartOk, IsHart
<1>6. Loaded /\ Loaded'
  BY Zenon, <1>1, <1>5, ViewsHold, ViewsNext DEF Views
<1>7. Cpu!Execute
  <2>1. CpuRegs'[0] = Zero /\ CpuMode'[1] = 1
    BY <1>3, <1>5, <1>6 DEF Loaded, Regs
  <2>2. QED
    BY Zenon, <1>1, <1>6, <2>1, SameWords DEF Cpu!Execute, Loaded
<1>8. CpuInv'
  <2>1. C(hart', 0) = C(hart, 0)
    BY Zenon, <1>5 DEF C, M
  <2>2. req'.call = call
    BY Zenon, <1>2 DEF NoReq
  <2>3. call = <<call[1], call[2]>>
    BY DEF SbiCalls, ArgCalls, PanicCalls
  <2>4. \A w : Sym(w)[1] = w
    BY DEF Sym
  <2>5. req'.call = <<hart'.x[17][1], hart'.x[16][1]>>
    BY Zenon, <1>3, <1>5, <2>2, <2>3, <2>4
  <2>6. hart'.pc[1] \in {"guest_entry", "guest_pc", "vstvec", "switch_to_guest", "caller", "panic"}
    BY Zenon, <1>1, <1>5 DEF InGuest, IsGuestPc
  <2>7. QED
    BY Zenon, <1>5, <2>1, <2>5, <2>6, PassedOn
<1>9. QED
  BY Zenon, <1>7, <1>8 DEF Cpu!CpuNext

\* The exit's cause and its request, as the hypervisor will be told.
Explains(cause, q) ==
  \/ cause = "ecall" /\ q.kind = "ecall" /\ q.call = <<hart.x[17][1], hart.x[16][1]>>
  \/ cause = "page_fault" /\ q \in Accesses
  \/ cause = "illegal" /\ q.kind = "illegal"
  \/ cause = "irq" /\ q.kind = "irq"

\* A trap is Exit, and leaves the guest's state on the hart.
LEMMA GuestTrapsCpu ==
  ASSUME SwitchInv, CpuInv, NEW cause, NEW q, q # NoReq, q.kind # "calling", GuestTraps(cause, q),
         Explains(cause, q), path = "guest.S" => q.kind = "irq"
  PROVE  CpuInv' /\ Cpu!CpuNext
<1> DEFINE m == Trap(hart, Sym(cause))
<1>1. InGuest /\ HartOk(hart) /\ hart.virt = 1
  BY Zenon, Where DEF GuestTraps, Common
<1>2. hart' = [m EXCEPT !.csr.htinst = <<q.kind, q.reg, q.len>>] /\ req' = q
      /\ UNCHANGED <<hasH, path, probe, gen, given, caller>>
  BY Zenon DEF GuestTraps
<1>3. TrapEffect(m, hart, Sym(cause))
  BY Zenon, <1>1, TrapIs DEF HartOk
<1> HIDE DEF m
<1>4. /\ hart'.x = hart.x /\ hart'.mem = hart.mem /\ hart'.pc = hart.csr["stvec"] /\ hart'.virt = 0
      /\ hart'.csr = [m.csr EXCEPT !["htinst"] = <<q.kind, q.reg, q.len>>] /\ DOMAIN m.csr = Csrs
  BY Zenon, <1>2, <1>3 DEF TrapEffect, IsHart
<1>5. /\ hart'.csr["htinst"] = <<q.kind, q.reg, q.len>> /\ hart'.csr["sepc"] = hart.pc
      /\ hart'.csr["scause"] = Sym(cause)
      /\ hart'.csr["sstatus"] = Sstatus(hart.priv, SIE(hart.csr["sstatus"]), 0)
      /\ hart'.csr["hstatus"] = Hstatus(1)
  <2>1. \A c \in Csrs \ {"htinst"} : hart'.csr[c] = m.csr[c]
    BY Zenon, <1>4
  <2>2. hart'.csr["htinst"] = <<q.kind, q.reg, q.len>>
    BY Zenon, <1>4, Named
  <2>3. QED
    BY Zenon, <1>1, <1>3, <2>1, <2>2, Named DEF TrapEffect
<1>6. SPV(hart'.csr["hstatus"]) = 1 /\ SPP(hart'.csr["sstatus"]) = hart.priv
  BY <1>5 DEF SPV, SPP, Hstatus, Sstatus
<1>7. \/ At("__alltraps")' /\ path = "trap.S"
      \/ At("_guest_exit")' /\ path = "guest.S"
  BY Zenon, <1>1, <1>4 DEF At, InGuest, ExitReady
<1>8. Loaded /\ Trapped'
  BY Zenon, <1>1, <1>2, <1>4, <1>7, ViewsHold, ViewsNext DEF Views
<1>9. Cpu!Exit
  <2>1. CpuRegs' = CpuRegs /\ CpuPc' = CpuPc /\ CpuMode' = CpuMode
    BY Zenon, <1>4, <1>5, <1>6, <1>8 DEF Loaded, Trapped
  <2>2. QED
    BY Zenon, <1>2, <1>8, <2>1 DEF Cpu!Exit, Cpu!cpu, Loaded, Trapped
<1>10. CpuInv'
  <2>1. /\ hart'.pc[1] \in {"__alltraps", "_guest_exit"} /\ \A name : At(name)' => hart'.pc[1] = name
    BY <1>7 DEF At, Sym
  <2>2. C(hart', 0) = C(hart, 0)
    BY Zenon, <1>4 DEF C, M
  <2>3. Told(hart.x[17], hart.x[16])'
    BY Zenon, <1>2, <1>4, <1>5 DEF Told, Asked, Explains
  <2>4. At("_guest_exit")' => req'.kind = "irq"
    <3>1. Sym("__alltraps") # Sym("_guest_exit")
      BY DEF Sym
    <3>2. QED
      BY Zenon, <1>2, <1>7, <3>1 DEF At
  <2>5. QED
    BY Zenon, <1>2, <2>1, <2>2, <2>3, <2>4 DEF CpuInv
<1>11. QED
  BY Zenon, <1>9, <1>10 DEF Cpu!CpuNext

\* Each kind of exit is Exit.
LEMMA GuestExitsCpu ==
  ASSUME SwitchInv, CpuInv, GuestExits
  PROVE  CpuInv' /\ Cpu!CpuNext
<1>0. IsReq(req)
  BY Zenon, Where DEF Common
<1>a. "trap.S" # "guest.S"
  BY Zenon
<1>1. CASE path = "trap.S" /\ req.kind = "calling" /\ GuestTraps("ecall", [req EXCEPT !.kind = "ecall"])
  <2> DEFINE q == [req EXCEPT !.kind = "ecall"]
  <2>1. q # NoReq /\ q.kind = "ecall" /\ q.call = req.call
    BY Zenon, <1>0 DEF IsReq, NoReq
  <2>2. req.call = <<hart.x[17][1], hart.x[16][1]>>
    BY Zenon, <1>1 DEF CpuInv, Asked
  <2>3. GuestTraps("ecall", q) /\ path = "trap.S"
    BY Zenon, <1>1
  <2> HIDE DEF q
  <2>4. Explains("ecall", q)
    BY Zenon, <2>1, <2>2 DEF Explains
  <2>5. QED
    BY Zenon, <1>a, <2>1, <2>3, <2>4, GuestTrapsCpu
<1>2. ASSUME NEW q \in Accesses, path = "trap.S", GuestTraps("page_fault", q) PROVE CpuInv' /\ Cpu!CpuNext
  <2>1. q # NoReq /\ q.kind # "calling"
    BY DEF Accesses, NoReq
  <2>2. Explains("page_fault", q)
    BY Zenon DEF Explains
  <2>3. QED
    BY Zenon, <1>a, <1>2, <2>1, <2>2, GuestTrapsCpu
<1>3. CASE path = "trap.S" /\ GuestTraps("illegal", [NoReq EXCEPT !.kind = "illegal"])
  <2> DEFINE q == [NoReq EXCEPT !.kind = "illegal"]
  <2>1. q # NoReq /\ q.kind = "illegal"
    BY DEF NoReq
  <2>2. GuestTraps("illegal", q) /\ path = "trap.S"
    BY Zenon, <1>3
  <2> HIDE DEF q
  <2>3. Explains("illegal", q)
    BY Zenon, <2>1 DEF Explains
  <2>4. QED
    BY Zenon, <1>a, <2>1, <2>2, <2>3, GuestTrapsCpu
<1>4. CASE GuestTraps("irq", [NoReq EXCEPT !.kind = "irq"])
  <2> DEFINE q == [NoReq EXCEPT !.kind = "irq"]
  <2>1. q # NoReq /\ q.kind = "irq"
    BY DEF NoReq
  <2>2. GuestTraps("irq", q)
    BY Zenon, <1>4
  <2> HIDE DEF q
  <2>3. Explains("irq", q)
    BY Zenon, <2>1 DEF Explains
  <2>4. QED
    BY Zenon, <2>1, <2>2, <2>3, GuestTrapsCpu
<1>5. QED
  BY Zenon, <1>1, <1>2, <1>3, <1>4 DEF GuestExits

\* A handler that writes registers and sepc of the context: the guest's processor
\* before and after it.
LEMMA ServedCpu ==
  ASSUME SwitchInv, CpuInv, At("trap_handler"), NEW f, NEW S, Writes(f, S), Served(f),
         S \subseteq Regs \cup {SlotSepc}, 0 \in S => 0 \in LoadRegs
  PROVE  /\ CpuInv' /\ req' = req /\ CpuMode' = CpuMode
         /\ GuestState = "exited" /\ GuestState' = "answered"
         /\ CpuRegs = [r \in Regs |-> CtxReg(r)] /\ DOMAIN CpuRegs' = Regs
         /\ CpuRegs' = [r \in Regs |-> CpuRegs'[r]]
         /\ \A r \in Regs \ S : CpuRegs'[r] = CpuRegs[r]
         /\ \A r \in Regs \ {0, 4} : CpuRegs'[r] = f[Add(TRAP_CONTEXT, r)]
         /\ CpuRegs'[0] = CpuRegs[0] /\ CpuRegs'[4] = CpuRegs[4]
         /\ CpuPc = C(hart, SlotSepc) /\ CpuPc' = f[Add(TRAP_CONTEXT, SlotSepc)]
<1> DEFINE m1 == [hart EXCEPT !.mem = f, !.x[sp] = Add(@, -4)]
           m2 == Clobber(set_kernel_trap_entry(m1), RustRegs)
<1>1. AtTrapHandler /\ HartOk(hart)
  BY Zenon, Where DEF Common
<1>2. hart' = Goto(m2, "switch_to_guest") /\ UNCHANGED <<hasH, path, probe, gen, req, caller>>
  BY Zenon DEF Served
<1>a. sp \in Regs /\ 4 \in Regs /\ sp # 4 /\ tp = 4 /\ 0 \in Regs
  BY RegNumbers DEF Regs
<1>3. IsHart(m1) /\ m1.mem = f /\ m1.virt = hart.virt /\ m1.x[4] = hart.x[4]
  BY Zenon, <1>1, <1>a DEF HartOk, IsHart, Writes
<1> HIDE DEF m1
<1>4. RustEffect(m2, m1)
  BY Zenon, <1>3, RustDoes
<1> HIDE DEF m2
<1>5. IsHart(m2) /\ m2.mem = f /\ m2.virt = hart.virt /\ m2.x[4] = hart.x[4]
  BY Zenon, <1>3, <1>4, <1>a DEF RustEffect, Becomes
<1>6. /\ hart'.x = m2.x /\ hart'.mem = f /\ hart'.pc = Sym("switch_to_guest") /\ hart'.virt = 0
      /\ hart'.x[4] = hart.x[4]
  BY <1>1, <1>2, <1>5, GotoIs DEF AtTrapHandler
<1>7. GuestState = "exited" /\ InContext
  BY Zenon, <1>1, ViewsHold DEF Views, AtTrapHandler
<1>8. GuestState' = "answered" /\ InContext'
  BY Zenon, <1>1, <1>2, <1>6, ViewsNext DEF Views, At, AtTrapHandler
<1>9. \A k : C(hart', k) = f[Add(TRAP_CONTEXT, k)]
  BY Zenon, <1>6 DEF C, M
<1>10. /\ \A r \in Regs \ S : C(hart', r) = C(hart, r)
       /\ C(hart', SlotSstatus) = C(hart, SlotSstatus) /\ C(hart', SlotHstatus) = C(hart, SlotHstatus)
  <2>1. Regs \subseteq 0 .. 37 /\ SlotSstatus \in (0 .. 37) \ S /\ SlotHstatus \in (0 .. 37) \ S
    BY DEF Regs, SlotSepc, SlotSstatus, SlotHstatus
  <2>2. QED
    BY Zenon, <1>9, <2>1 DEF Writes
<1>11. CpuMode' = CpuMode /\ CpuPc = C(hart, SlotSepc) /\ CpuPc' = f[Add(TRAP_CONTEXT, SlotSepc)]
  BY Zenon, <1>7, <1>8, <1>9, <1>10 DEF InContext
<1>12. \A r \in Regs : CpuRegs[r] = CtxReg(r) /\ CpuRegs'[r] = CtxReg(r)'
  BY Zenon, <1>7, <1>8 DEF InContext
<1>13. \A r \in Regs \ S : CpuRegs'[r] = CpuRegs[r]
  <2>1. ASSUME NEW r \in Regs \ S PROVE CtxReg(r)' = CtxReg(r)
    BY Zenon, <1>6, <1>10 DEF CtxReg
  <2>2. QED
    BY Zenon, <1>12, <2>1
<1>14. /\ \A r \in Regs \ {0, 4} : CpuRegs'[r] = f[Add(TRAP_CONTEXT, r)]
       /\ CpuRegs'[0] = CpuRegs[0] /\ CpuRegs'[4] = CpuRegs[4]
  BY Zenon, <1>6, <1>9, <1>12, <1>a DEF CtxReg
<1>15. DOMAIN CpuRegs' = Regs /\ CpuRegs' = [r \in Regs |-> CpuRegs'[r]]
  BY Zenon, <1>8 DEF InContext
<1>16. CpuInv'
  <2>1. 0 \notin LoadRegs => C(hart', 0) = C(hart, 0)
    BY Zenon, <1>10, <1>a
  <2>2. req.kind # "calling"
    <3>1. 0 # 1
      OBVIOUS
    <3>2. QED
      BY Zenon, <1>1, <3>1 DEF CpuInv, AtTrapHandler
  <2>3. hart'.pc[1] = "switch_to_guest"
    BY <1>6 DEF Sym
  <2>4. QED
    BY Zenon, <1>2, <2>1, <2>2, <2>3, PassedOn
<1>17. QED
  BY Zenon, <1>2, <1>7, <1>8, <1>11, <1>13, <1>14, <1>15, <1>16 DEF InContext

\* What the handler was told.
LEMMA ToldCause ==
  ASSUME SwitchInv, CpuInv, At("trap_handler")
  PROVE  /\ hart.csr["scause"] = Sym("ecall") => req.kind = "ecall" /\ Asked(C(hart, 17), C(hart, 16))
         /\ hart.csr["scause"] = Sym("page_fault")
              => req \in Accesses /\ hart.csr["htinst"] = <<req.kind, req.reg, req.len>>
         /\ hart.csr["scause"] = Sym("illegal") => req.kind = "illegal"
         /\ hart.csr["scause"] = Sym("irq") => req.kind = "irq"
<1>1. Told(C(hart, 17), C(hart, 16))
  BY Zenon DEF CpuInv
<1>2. \A v, w : Sym(v) = Sym(w) => v = w
  BY DEF Sym
<1>3. QED
  BY Zenon, <1>1, <1>2 DEF Told

\* sbi_vs_handler answers the call, or panics and leaves the guest as it was.
LEMMA SbiCpu ==
  ASSUME SwitchInv, CpuInv, sbi_vs_handler
  PROVE  CpuInv' /\ [Cpu!CpuNext]_(Cpu!cpuVars)
<1> DEFINE call == <<Ctx(GprIndex.A7)[1], Ctx(GprIndex.A6)[1]>>
<1>1. At("trap_handler") /\ hart.csr["scause"] = Sym("ecall")
  BY Zenon DEF sbi_vs_handler, Cause
<1>2. req.kind = "ecall" /\ req.call = call
  <2>1. req.kind = "ecall" /\ Asked(C(hart, 17), C(hart, 16))
    BY Zenon, <1>1, ToldCause
  <2>2. Ctx(GprIndex.A7) = C(hart, 17) /\ Ctx(GprIndex.A6) = C(hart, 16)
    BY Zenon, RegNumbers DEF Ctx, C, M
  <2>3. QED
    BY Zenon, <2>1, <2>2 DEF Asked
<1>3. ASSUME NEW e, NEW v, Served(SbiMem(e, v)),
             given' = IF call \in ArgCalls THEN Ctx(GprIndex.A0) ELSE given
      PROVE  CpuInv' /\ Cpu!CpuNext
  <2> DEFINE f == SbiMem(e, v)
             S == {10, 11, SlotSepc}
  <2>1. Writes(f, S) /\ f[Add(TRAP_CONTEXT, SlotSepc)] = Add(C(hart, SlotSepc), 4)
    BY Zenon, SbiWrites, Where DEF Common
  <2>2. S \subseteq Regs \cup {SlotSepc} /\ 0 \notin S /\ 10 \in Regs \ {0, 4}
    BY DEF Regs, SlotSepc
  <2>3. Served(f)
    BY Zenon, <1>3
  <2> HIDE DEF f, S
  <2>4. /\ CpuInv' /\ req' = req /\ CpuMode' = CpuMode
        /\ GuestState = "exited" /\ GuestState' = "answered"
        /\ CpuRegs = [r \in Regs |-> CtxReg(r)] /\ CpuRegs' = [r \in Regs |-> CpuRegs'[r]]
        /\ \A r \in Regs \ S : CpuRegs'[r] = CpuRegs[r]
        /\ CpuPc = C(hart, SlotSepc) /\ CpuPc' = f[Add(TRAP_CONTEXT, SlotSepc)]
    BY Zenon, <1>1, <2>1, <2>2, <2>3, ServedCpu
  <2>5. CpuRegs' = [CpuRegs EXCEPT ![10] = CpuRegs'[10], ![11] = CpuRegs'[11]]
    <3> DEFINE g == [CpuRegs EXCEPT ![10] = CpuRegs'[10], ![11] = CpuRegs'[11]]
    <3>1. DOMAIN g = Regs /\ g = [r \in Regs |-> g[r]]
      BY Zenon, <2>4
    <3>2. ASSUME NEW r \in Regs PROVE g[r] = CpuRegs'[r]
      <4>1. r \in Regs \ {10, 11} => r \notin S
        BY DEF S, Regs, SlotSepc
      <4>2. QED
        BY <2>4, <4>1
    <3> HIDE DEF g
    <3>3. g = CpuRegs'
      BY Zenon, <2>4, <3>1, <3>2
    <3>4. QED
      BY Zenon, <3>3 DEF g
  <2>6. given' = IF req.call \in ArgCalls THEN CpuRegs[10] ELSE given
    <3>1. CpuRegs[10] = C(hart, 10)
      BY <2>2, <2>4 DEF CtxReg
    <3>2. Ctx(GprIndex.A0) = C(hart, 10)
      BY Zenon, RegNumbers DEF Ctx, C, M
    <3>3. QED
      BY Zenon, <1>2, <1>3, <3>1, <3>2
  <2>7. Cpu!AnswerCall
    <3>1. CpuPc' = Cpu!Add(CpuPc, 4)
      BY Zenon, <2>1, <2>4, SameWords
    <3>2. QED
      BY Zenon, <1>2, <2>5, <2>6, <3>1, SameWords DEF Cpu!AnswerCall, Cpu!Completed
  <2>8. QED
    BY Zenon, <2>4, <2>7 DEF Cpu!Answer, Cpu!CpuNext
<1>4. QED
  BY Zenon, <1>1, <1>3, PanicCpu DEF sbi_vs_handler, SbiMem

\* handle_plic_access answers the access, or panics and leaves the guest as it was.
LEMMA PlicAccessCpu ==
  ASSUME PlicRegsKept, SwitchInv, CpuInv, handle_plic_access
  PROVE  CpuInv' /\ [Cpu!CpuNext]_(Cpu!cpuVars)
<1> DEFINE inst == hart.csr["htinst"]
<1>1. /\ At("trap_handler") /\ hart.csr["scause"] = Sym("page_fault")
      /\ \/ inst[1] = "lw" /\ Served(PlicLoad) /\ UNCHANGED given
         \/ inst[1] = "sw" /\ Served(PlicMem) /\ given' = hart.mem[Add(TRAP_CONTEXT, inst[2])]
         \/ inst[1] = "beyond" /\ Served(PlicMem) /\ UNCHANGED given
         \/ inst[1] = "other" /\ Panic
  BY Zenon DEF handle_plic_access, Cause, PlicMem, PlicLoad
<1>2. req \in Accesses /\ inst = <<req.kind, req.reg, req.len>>
  BY Zenon, <1>1, ToldCause
<1>3. inst[1] = req.kind /\ inst[2] = req.reg /\ inst[3] = req.len
  BY <1>2
<1>4. /\ req.kind = "lw" => req.reg \in LoadRegs
      /\ req.kind = "sw" => req.reg \in StoreRegs
      /\ req.reg \in Regs /\ req.reg # 4
  BY <1>2, AccessForm, RegNumbers DEF PlicRegsKept
<1>5. /\ Writes(PlicMem, {SlotSepc})
      /\ PlicMem[Add(TRAP_CONTEXT, SlotSepc)] = Add(C(hart, SlotSepc), req.len)
      /\ Writes(PlicLoad, {SlotSepc, req.reg})
      /\ PlicLoad[Add(TRAP_CONTEXT, SlotSepc)] = Add(C(hart, SlotSepc), req.len)
      /\ PlicLoad[Add(TRAP_CONTEXT, req.reg)] = Sym("claim")
  <2>1. HartOk(hart)
    BY Zenon, Where DEF Common
  <2>2. QED
    BY Zenon, <1>3, <2>1, PlicWrites
<1>6. 0 # SlotSepc /\ SlotSepc \notin Regs
  BY DEF SlotSepc, Regs
<1>7. CASE req.kind = "lw"
  <2>1. Served(PlicLoad) /\ UNCHANGED given
    <3>1. "lw" # "sw" /\ "lw" # "beyond" /\ "lw" # "other"
      BY Zenon
    <3>2. QED
      BY Zenon, <1>1, <1>3, <1>7, <3>1
  <2> DEFINE S == {SlotSepc, req.reg}
  <2>2. S \subseteq Regs \cup {SlotSepc} /\ (0 \in S => 0 \in LoadRegs)
    BY Zenon, <1>4, <1>6, <1>7
  <2>3. Writes(PlicLoad, S)
    BY Zenon, <1>5
  <2> HIDE DEF S
  <2>4. /\ CpuInv' /\ req' = req /\ CpuMode' = CpuMode
        /\ GuestState = "exited" /\ GuestState' = "answered"
        /\ CpuRegs = [r \in Regs |-> CtxReg(r)] /\ CpuRegs' = [r \in Regs |-> CpuRegs'[r]]
        /\ \A r \in Regs \ S : CpuRegs'[r] = CpuRegs[r]
        /\ \A r \in Regs \ {0, 4} : CpuRegs'[r] = PlicLoad[Add(TRAP_CONTEXT, r)]
        /\ CpuRegs'[0] = CpuRegs[0]
        /\ CpuPc = C(hart, SlotSepc) /\ CpuPc' = PlicLoad[Add(TRAP_CONTEXT, SlotSepc)]
    BY Zenon, <1>1, <2>1, <2>2, <2>3, ServedCpu
  <2>5. CpuRegs' = [CpuRegs EXCEPT ![req.reg] = IF req.reg = 0 THEN Zero ELSE Sym("claim")]
    <3> DEFINE w == IF req.reg = 0 THEN Zero ELSE Sym("claim")
               g == [CpuRegs EXCEPT ![req.reg] = w]
    <3>1. CpuRegs'[req.reg] = w
      <4>1. 0 \in Regs
        BY DEF Regs
      <4>2. CpuRegs[0] = Zero
        BY Zenon, <2>4, <4>1 DEF CtxReg
      <4>3. QED
        BY Zenon, <1>4, <1>5, <2>4, <4>2
    <3> HIDE DEF w
    <3>2. DOMAIN g = Regs /\ g = [r \in Regs |-> g[r]]
      BY Zenon, <2>4
    <3>3. ASSUME NEW r \in Regs PROVE g[r] = CpuRegs'[r]
      <4>1. r # req.reg => r \notin S
        BY Zenon, <1>6 DEF S
      <4>2. QED
        BY Zenon, <2>4, <3>1, <4>1
    <3> HIDE DEF g
    <3>4. g = CpuRegs'
      BY Zenon, <2>4, <3>2, <3>3
    <3>5. QED
      BY Zenon, <3>4 DEF g, w
  <2>6. Cpu!AnswerLoad
    <3>1. CpuPc' = Cpu!Add(CpuPc, req.len)
      BY Zenon, <1>5, <2>4, SameWords
    <3>2. QED
      BY Zenon, <1>7, <2>1, <2>5, <3>1, SameWords DEF Cpu!AnswerLoad, Cpu!Completed
  <2>7. QED
    BY Zenon, <2>4, <2>6 DEF Cpu!Answer, Cpu!CpuNext
<1>8. CASE req.kind = "sw"
  <2>1. Served(PlicMem) /\ given' = C(hart, req.reg)
    <3>1. "lw" # "sw" /\ "sw" # "beyond" /\ "sw" # "other"
      BY Zenon
    <3>2. QED
      BY Zenon, <1>1, <1>3, <1>8, <3>1 DEF C, M
  <2>2. {SlotSepc} \subseteq Regs \cup {SlotSepc} /\ 0 \notin {SlotSepc} /\ Regs \ {SlotSepc} = Regs
    BY <1>6
  <2>3. /\ CpuInv' /\ req' = req /\ CpuMode' = CpuMode
        /\ GuestState = "exited" /\ GuestState' = "answered"
        /\ CpuRegs = [r \in Regs |-> CtxReg(r)] /\ CpuRegs' = [r \in Regs |-> CpuRegs'[r]]
        /\ \A r \in Regs : CpuRegs'[r] = CpuRegs[r]
        /\ CpuPc = C(hart, SlotSepc) /\ CpuPc' = PlicMem[Add(TRAP_CONTEXT, SlotSepc)]
    BY Zenon, <1>1, <1>5, <2>1, <2>2, ServedCpu
  <2>4. CpuRegs' = CpuRegs
    BY Zenon, <2>3
  <2>5. given' = CpuRegs[req.reg]
    <3>1. CpuRegs[req.reg] = CtxReg(req.reg)
      BY Zenon, <1>4, <2>3
    <3>2. req.reg = 0 => C(hart, req.reg) = Zero
      BY Zenon, <1>4, <1>8 DEF PlicRegsKept, CpuInv
    <3>3. QED
      BY Zenon, <1>4, <2>1, <3>1, <3>2 DEF CtxReg
  <2>6. Cpu!AnswerStore
    <3>1. CpuPc' = Cpu!Add(CpuPc, req.len)
      BY Zenon, <1>5, <2>3, SameWords
    <3>2. QED
      BY Zenon, <1>8, <2>4, <2>5, <3>1 DEF Cpu!AnswerStore, Cpu!Completed
  <2>7. QED
    BY Zenon, <2>3, <2>6 DEF Cpu!Answer, Cpu!CpuNext
<1>9. CASE req.kind = "beyond"
  <2>1. Served(PlicMem) /\ UNCHANGED given
    <3>1. "beyond" # "lw" /\ "beyond" # "sw" /\ "beyond" # "other"
      BY Zenon
    <3>2. QED
      BY Zenon, <1>1, <1>3, <1>9, <3>1
  <2>2. {SlotSepc} \subseteq Regs \cup {SlotSepc} /\ 0 \notin {SlotSepc} /\ Regs \ {SlotSepc} = Regs
    BY <1>6
  <2>3. /\ CpuInv' /\ req' = req /\ CpuMode' = CpuMode
        /\ GuestState = "exited" /\ GuestState' = "answered"
        /\ CpuRegs = [r \in Regs |-> CtxReg(r)] /\ CpuRegs' = [r \in Regs |-> CpuRegs'[r]]
        /\ \A r \in Regs : CpuRegs'[r] = CpuRegs[r]
        /\ CpuPc = C(hart, SlotSepc) /\ CpuPc' = PlicMem[Add(TRAP_CONTEXT, SlotSepc)]
    BY Zenon, <1>1, <1>5, <2>1, <2>2, ServedCpu
  <2>4. CpuRegs' = CpuRegs
    BY Zenon, <2>3
  <2>5. Cpu!AnswerNothing
    <3>1. CpuPc' = Cpu!Add(CpuPc, req.len)
      BY Zenon, <1>5, <2>3, SameWords
    <3>2. QED
      BY Zenon, <1>9, <2>1, <2>4, <3>1 DEF Cpu!AnswerNothing, Cpu!Completed
  <2>6. QED
    BY Zenon, <2>3, <2>5 DEF Cpu!Answer, Cpu!CpuNext
<1>10. QED
  BY Zenon, <1>1, <1>3, <1>7, <1>8, <1>9, PanicCpu

\* forward_exception and the interrupts answer too.
LEMMA ForwardCpu ==
  ASSUME SwitchInv, CpuInv, forward_exception
  PROVE  CpuInv' /\ Cpu!CpuNext
<1>1. /\ At("trap_handler") /\ hart.csr["scause"] = Sym("illegal") /\ Served(ForwardMem)
      /\ UNCHANGED given
  BY Zenon DEF forward_exception, Cause, ForwardMem
<1>2. req.kind = "illegal"
  BY Zenon, <1>1, ToldCause
<1>3. Writes(ForwardMem, {SlotSepc}) /\ ForwardMem[Add(TRAP_CONTEXT, SlotSepc)] = Sym("vstvec")
  BY Zenon, ForwardWrites, Where DEF Common
<1>4. {SlotSepc} \subseteq Regs \cup {SlotSepc} /\ 0 \notin {SlotSepc} /\ Regs \ {SlotSepc} = Regs
  BY DEF SlotSepc, Regs
<1>5. /\ CpuInv' /\ req' = req /\ CpuMode' = CpuMode
      /\ GuestState = "exited" /\ GuestState' = "answered"
      /\ CpuRegs = [r \in Regs |-> CtxReg(r)] /\ CpuRegs' = [r \in Regs |-> CpuRegs'[r]]
      /\ \A r \in Regs : CpuRegs'[r] = CpuRegs[r]
      /\ CpuPc' = ForwardMem[Add(TRAP_CONTEXT, SlotSepc)]
  BY Zenon, <1>1, <1>3, <1>4, ServedCpu
<1>6. CpuRegs' = CpuRegs
  BY Zenon, <1>5
<1>7. Cpu!AnswerTrap
  BY Zenon, <1>1, <1>2, <1>3, <1>5, <1>6 DEF Cpu!AnswerTrap
<1>8. QED
  BY Zenon, <1>5, <1>7 DEF Cpu!Answer, Cpu!CpuNext

\* An interrupt changes nothing that the guest sees.
LEMMA InterruptCpu ==
  ASSUME SwitchInv, CpuInv, interrupt
  PROVE  CpuInv' /\ Cpu!CpuNext
<1>1. At("trap_handler") /\ hart.csr["scause"] = Sym("irq") /\ Served(hart.mem) /\ UNCHANGED given
  BY Zenon DEF interrupt, Cause
<1>2. req.kind = "irq"
  BY Zenon, <1>1, ToldCause
<1>3. Writes(hart.mem, {SlotSepc}) /\ hart.mem[Add(TRAP_CONTEXT, SlotSepc)] = C(hart, SlotSepc)
  BY Zenon, Where DEF Common, HartOk, IsHart, Writes, C, V, M
<1>4. {SlotSepc} \subseteq Regs \cup {SlotSepc} /\ 0 \notin {SlotSepc} /\ Regs \ {SlotSepc} = Regs
  BY DEF SlotSepc, Regs
<1>5. /\ CpuInv' /\ req' = req /\ CpuMode' = CpuMode
      /\ GuestState = "exited" /\ GuestState' = "answered"
      /\ CpuRegs = [r \in Regs |-> CtxReg(r)] /\ CpuRegs' = [r \in Regs |-> CpuRegs'[r]]
      /\ \A r \in Regs : CpuRegs'[r] = CpuRegs[r]
      /\ CpuPc = C(hart, SlotSepc) /\ CpuPc' = hart.mem[Add(TRAP_CONTEXT, SlotSepc)]
  BY Zenon, <1>1, <1>3, <1>4, ServedCpu
<1>6. CpuRegs' = CpuRegs
  BY Zenon, <1>5
<1>7. Cpu!AnswerIrq
  BY Zenon, <1>1, <1>2, <1>3, <1>5, <1>6 DEF Cpu!AnswerIrq
<1>8. QED
  BY Zenon, <1>5, <1>7 DEF Cpu!Answer, Cpu!CpuNext

\* _run_guest is Start, for a new guest, or Resume.
LEMMA RunGuestCpu ==
  ASSUME SwitchInv, CpuInv, run_guest
  PROVE  CpuInv' /\ Cpu!CpuNext
<1> DEFINE m == caller'
           n == run_guest_program(m)
<1>1. Common /\ path = "guest.S" /\ (AtProbed \/ AtCaller)
  BY Zenon, Where DEF run_guest
<1>2. /\ hart' = Sret(n) /\ UNCHANGED <<hasH, path, probe, gen, req, given>>
      /\ RunGuestEffect(n, m) /\ m.x[0] = Zero
      /\ VmReady(m) /\ \A k \in 0 .. 37 : C(m, k) = C(hart, k)
      /\ IF At("probed") THEN VmNew(m) ELSE AtCaller /\ m.mem = hart.mem
  BY Zenon, RunGuestMakes
<1> HIDE DEF m, n
<1>3. SretEffect(hart', n)
  BY Zenon, <1>2, SretIs DEF RunGuestEffect, Becomes
<1>4. /\ hart'.x = n.x /\ hart'.mem = n.mem /\ hart'.pc = V(m, 72)
      /\ hart'.priv = SPP(V(m, 69)) /\ hart'.virt = 1 /\ SPV(V(m, 70)) = 1
  <2>1. SPV(V(m, 70)) = 1
    BY Zenon, <1>2, StatusFacts DEF VmReady
  <2>2. QED
    BY ZenonT(30), <1>2, <1>3, <2>1 DEF SretEffect, RunGuestEffect
<1>5. n.x[0] = Zero /\ \A r \in Regs \ {0} : n.x[r] = V(m, 37 + r)
  BY Zenon, <1>2 DEF RunGuestEffect
<1>6. Loaded'
  BY Zenon, <1>4, ViewsNext DEF Views
<1>7. hart.virt = 0 /\ req.kind # "calling"
  <2>1. hart.virt = 0
    BY Zenon, <1>1, Places
  <2>2. 0 # 1
    OBVIOUS
  <2>3. QED
    BY Zenon, <2>1, <2>2 DEF CpuInv
<1>8. CpuInv'
  <2>1. C(hart', 0) = C(hart, 0)
    <3>1. C(hart', 0) = C(n, 0)
      BY Zenon, <1>4 DEF C, M
    <3>2. 0 \in 0 .. 37
      OBVIOUS
    <3>3. C(n, 0) = C(m, 0)
      BY Zenon, <1>2, <3>2, Apart DEF RunGuestEffect
    <3>4. QED
      BY Zenon, <1>2, <3>1, <3>2, <3>3
  <2>2. hart'.pc[1] \in {"guest_entry", "guest_pc", "vstvec", "switch_to_guest", "caller", "panic"}
    BY Zenon, <1>2, <1>4 DEF VmReady, IsGuestPc
  <2>3. QED
    BY Zenon, <1>2, <1>7, <2>1, <2>2, PassedOn
<1>9. CASE At("probed")
  <2>1. NoCpu /\ V(hart, 47) = Zero
    <3>1. hart.pc[1] = "probed" /\ req = NoReq
      BY Zenon, <1>9, Where, Places DEF AtProbed, Booting
    <3>2. QED
      BY Zenon, <1>7, <3>1, ViewsHold DEF Views, CpuInv
  <2>2. VmNew(m)
    BY Zenon, <1>2, <1>9
  <2>3. hart'.pc = GUEST_START_VA /\ hart'.priv = 1
    <3>1. SPP(Sstatus(1, 0, 0)) = 1
      BY Zenon, StatusFacts
    <3>2. QED
      BY Zenon, <1>4, <2>2, <3>1 DEF VmNew
  <2>4. CpuRegs'[0] = Zero /\ CpuRegs'[10] = Zero /\ CpuRegs'[11] = GUEST_DTB_ADDR
    <3>1. 37 + 10 = 47 /\ 37 + 11 = 48 /\ 0 \in Regs /\ 10 \in Regs \ {0} /\ 11 \in Regs \ {0}
      BY DEF Regs
    <3>2. n.x[10] = V(m, 47) /\ n.x[11] = V(m, 48)
      BY <1>5, <3>1
    <3>3. n.x[10] = Zero /\ n.x[11] = GUEST_DTB_ADDR
      BY Zenon, <2>1, <2>2, <3>2 DEF VmNew
    <3>4. QED
      BY Zenon, <1>4, <1>5, <1>6, <3>1, <3>3 DEF Loaded
  <2>5. Cpu!Start
    BY Zenon, <1>2, <1>6, <2>1, <2>3, <2>4, SameWords DEF Cpu!Start, Loaded, NoCpu
  <2>6. QED
    BY Zenon, <1>8, <2>5 DEF Cpu!CpuNext
<1>10. CASE ~At("probed")
  <2>1. AtCaller /\ m.mem = hart.mem
    BY Zenon, <1>2, <1>10
  <2>2. GuestState = "answered" /\ InVmCpu
    BY Zenon, <1>1, <1>7, <2>1, ViewsHold DEF Views, AtCaller
  <2>3. \A k : V(m, k) = V(hart, k)
    BY Zenon, <2>1 DEF V, M
  <2>4. \A r \in Regs : n.x[r] = VmReg(r)
    BY Zenon, <1>5, <2>3 DEF VmReg
  <2>5. CpuRegs' = CpuRegs
    BY Zenon, <1>4, <1>6, <2>2, <2>4 DEF Loaded, InVmCpu
  <2>6. CpuPc' = CpuPc /\ CpuMode' = CpuMode
    BY Zenon, <1>4, <1>6, <2>2, <2>3 DEF Loaded, InVmCpu
  <2>7. Cpu!Resume
    BY Zenon, <1>2, <1>6, <2>2, <2>5, <2>6 DEF Cpu!Resume, Cpu!cpu, Loaded
  <2>8. QED
    BY Zenon, <1>8, <2>7 DEF Cpu!CpuNext
<1>11. QED
  BY Zenon, <1>9, <1>10

\* _guest_exit answers the interrupt: what it stores is what the guest had.
LEMMA GuestExitCpu ==
  ASSUME SwitchInv, CpuInv, guest_exit
  PROVE  CpuInv' /\ Cpu!CpuNext
<1> DEFINE m == guest_exit_program(hart)
<1>1. AtGuestExit /\ Common /\ At("_guest_exit")
  BY Zenon, Where DEF guest_exit
<1>2. hart' = [m EXCEPT !.pc = m.x[GprIndex.RA]]
      /\ UNCHANGED <<hasH, path, probe, gen, req, given, caller>>
  BY Zenon DEF guest_exit
<1>3. hart.csr["sscratch"] = VmCpu /\ HypSaved /\ path = "guest.S" /\ hart.virt = 0
  BY Zenon, <1>1 DEF AtGuestExit, Exiting, ExitReady
<1>4. GuestExitEffect(m, hart)
  BY Zenon, <1>1, <1>3, GuestExitDoes DEF Common, HartOk
<1> HIDE DEF m
<1>5. m.x[GprIndex.RA] = Sym("caller")
  <2>1. 1 \in HypGprs
    BY Zenon DEF HypGprs
  <2>2. QED
    BY <1>3, <1>4, <2>1, RegNumbers DEF GuestExitEffect, HypSaved
<1>6. hart'.mem = m.mem /\ hart'.pc = Sym("caller") /\ hart'.virt = 0
  <2>1. IsHart(m) /\ m.virt = 0
    BY Zenon, <1>3, <1>4 DEF GuestExitEffect, Becomes
  <2>2. QED
    BY Zenon, <1>2, <1>5, <2>1 DEF IsHart
<1>7. req.kind = "irq" /\ req # NoReq
  <2>1. req.kind = "irq"
    BY Zenon, <1>1 DEF CpuInv
  <2>2. QED
    BY <2>1 DEF NoReq
<1>8. Trapped
  BY Zenon, <1>1, <1>3, <1>7, ViewsHold DEF Views
<1>9. GuestState' = "answered" /\ InVmCpu'
  BY Zenon, <1>2, <1>3, <1>6, ViewsNext DEF Views, At
<1>10. \A k : V(hart', k) = V(m, k) /\ C(hart', k) = C(m, k)
  BY Zenon, <1>6 DEF C, V, M
<1>11. CpuRegs' = CpuRegs
  <2>1. \A r \in Regs : VmReg(r)' = hart.x[r]
    BY Zenon, <1>1, <1>4, <1>10 DEF VmReg, GuestExitEffect, Common, HartOk
  <2>2. QED
    BY Zenon, <1>8, <1>9, <2>1 DEF Trapped, InVmCpu
<1>12. CpuPc' = CpuPc /\ CpuMode' = CpuMode
  <2>1. /\ V(hart', 72) = hart.csr["sepc"] /\ V(hart', 70) = hart.csr["hstatus"]
        /\ V(hart', 69) = hart.csr["sstatus"]
    BY ZenonT(30), <1>4, <1>10 DEF GuestExitEffect
  <2>2. CpuPc' = V(hart', 72) /\ CpuMode' = <<SPV(V(hart', 70)), SPP(V(hart', 69))>>
    BY Zenon, <1>9 DEF InVmCpu
  <2>3. QED
    BY Zenon, <1>8, <2>1, <2>2 DEF Trapped
<1>13. Cpu!AnswerIrq
  BY Zenon, <1>2, <1>7, <1>11, <1>12 DEF Cpu!AnswerIrq
<1>14. CpuInv'
  <2>1. C(hart', 0) = C(hart, 0)
    <3>1. 0 \in 0 .. 37
      OBVIOUS
    <3>2. QED
      BY Zenon, <1>4, <1>10, <3>1, Apart DEF GuestExitEffect
  <2>2. hart'.pc[1] = "caller"
    BY <1>6 DEF Sym
  <2>3. QED
    BY Zenon, <1>2, <1>7, <2>1, <2>2, PassedOn
<1>15. QED
  BY Zenon, <1>2, <1>8, <1>9, <1>12, <1>13, <1>14 DEF Cpu!Answer, Cpu!CpuNext, Trapped

\* The guest has no processor during the probe and when its context is made.
LEMMA NoCpuYet ==
  ASSUME SwitchInv, At("hentry") \/ At("csrr") \/ At("on_detect_trap") \/ At("probed")
                    \/ hart.pc = Add(Sym("csrr"), 4)
  PROVE  NoCpu /\ req = NoReq /\ hart.pc[1] \in {"hentry", "csrr", "on_detect_trap", "probed"}
<1>1. AtHentry \/ AtCsrr \/ AtDetectTrap \/ AtProbed \/ AfterCsrr
  BY Zenon, Where
<1>2. Booting
  BY Zenon, <1>1 DEF AtHentry, AtCsrr, AtDetectTrap, AtProbed, AfterCsrr
<1>3. hart.pc[1] \in {"hentry", "csrr", "on_detect_trap", "probed"}
  BY Zenon, <1>1, Places
<1>4. QED
  BY Zenon, <1>2, <1>3, ViewsHold DEF Views, Booting

\* The probe is no step of the guest's processor.
LEMMA ProbingCpu ==
  ASSUME SwitchInv, CpuInv, Probing
  PROVE  CpuInv' /\ UNCHANGED Cpu!cpuVars
<1>1. ProbeGoesOn
  BY Zenon, InitDetectTrapStep, ReadHgatpStep, OnDetectTrapStep, RestoreDetectTrapStep DEF Probing
<1>2. NoCpu /\ req = NoReq /\ hart.pc[1] \in {"hentry", "csrr", "on_detect_trap", "probed"}
  BY Zenon, NoCpuYet
     DEF Probing, init_detect_trap, read_hgatp, on_detect_trap, restore_detect_trap
<1>3. NoCpu'
  BY Zenon, <1>1, <1>2, ViewsNext DEF Views, ProbeGoesOn
<1>4. C(hart', 0) = C(hart, 0) /\ V(hart', 47) = V(hart, 47)
  BY <1>1, Apart DEF ProbeGoesOn
<1>5. CpuInv'
  <2>1. V(hart, 47) = Zero /\ (0 \notin LoadRegs => C(hart, 0) = Zero)
    BY Zenon, <1>2 DEF CpuInv
  <2>2. \A name : At(name)' => hart'.pc[1] = name
    BY DEF At, Sym
  <2>3. req' = req /\ req.kind # "calling"
    BY <1>1, <1>2 DEF ProbeGoesOn, NoReq
  <2>4. QED
    BY Zenon, <1>1, <1>4, <2>1, <2>2, <2>3 DEF CpuInv, ProbeGoesOn
<1>6. QED
  BY Zenon, <1>1, <1>2, <1>3, <1>5, CpuStutters DEF NoCpu, ProbeGoesOn

\* Nor is Guest::new, whose context is the one that the guest boots with.
LEMMA GuestNewCpu ==
  ASSUME SwitchInv, CpuInv, Guest_new
  PROVE  CpuInv' /\ UNCHANGED Cpu!cpuVars
<1>1. /\ UNCHANGED <<hasH, path, probe, gen, req, given, caller>>
      /\ hart'.pc = Sym("hart_entry_1") /\ hart'.virt = 0
      /\ \A k \in 0 .. 37 : C(hart', k) = initialize_context[k]
      /\ \A k \in 0 .. 72 : V(hart', k) = V(hart, k)
  BY Zenon, GuestNewMakes
<1>2. NoCpu /\ req = NoReq
  BY Zenon, NoCpuYet DEF Guest_new
<1>3. hart'.pc[1] = "hart_entry_1" /\ req.kind # "calling"
  BY <1>1, <1>2 DEF Sym, NoReq
<1>4. NoCpu'
  BY Zenon, <1>1, <1>2, <1>3, ViewsNext DEF Views
<1>5. /\ C(hart', 0) = Zero /\ C(hart', 10) = Zero /\ C(hart', SlotSepc) = GUEST_START_VA
      /\ C(hart', SlotSstatus) = Sstatus(1, SPIE(hart.csr["sstatus"]), SIE(hart.csr["sstatus"]))
  BY <1>1 DEF initialize_context,
              SlotSstatus, SlotSepc, SlotHgatp, SlotKernelSp, SlotHandler, SlotHstatus
<1>6. SPP(C(hart', SlotSstatus)) = 1
  BY <1>5 DEF SPP, Sstatus
<1>7. CpuInv'
  <2>1. \A name : At(name)' => hart'.pc[1] = name
    BY DEF At, Sym
  <2>2. QED
    BY Zenon, <1>1, <1>2, <1>3, <1>5, <1>6, <2>1 DEF CpuInv
<1>8. QED
  BY Zenon, <1>1, <1>2, <1>4, <1>7, CpuStutters DEF NoCpu

\* At boot there is no guest.
LEMMA CpuInitially ==
  ASSUME SwitchInit
  PROVE  CpuInv /\ Cpu!CpuInit
<1>1. /\ hart.mem = [a \in Addresses |-> Zero] /\ hart.pc = Sym("hentry") /\ hart.virt = 0
      /\ req = NoReq
  BY Zenon DEF SwitchInit
<1>2. hart.pc[1] = "hentry" /\ req.kind # "calling"
  BY <1>1 DEF Sym, NoReq
<1>3. C(hart, 0) = Zero /\ V(hart, 47) = Zero
  <2>1. Add(TRAP_CONTEXT, 0) \in Addresses /\ Add(VmCpu, 47) \in Addresses
    BY Objects DEF Offsets
  <2>2. QED
    BY Zenon, <1>1, <2>1 DEF C, V, M
<1>4. CpuInv
  <2>1. \A name : At(name) => hart.pc[1] = name
    BY DEF At, Sym
  <2>2. QED
    BY Zenon, <1>2, <1>3, <2>1 DEF CpuInv
<1>5. NoCpu
  BY Zenon, <1>1, <1>2, ViewsHold DEF Views
<1>6. QED
  BY Zenon, <1>4, <1>5 DEF NoCpu, Cpu!CpuInit

\* Every step of the switch is a step of the guest's processor or none.
LEMMA CpuStep ==
  ASSUME PlicRegsKept, SwitchInv, CpuInv, [SwitchNext]_switchVars
  PROVE  CpuInv' /\ [Cpu!CpuNext]_(Cpu!cpuVars)
<1>1. CASE UNCHANGED switchVars
  <2>1. CpuInv'
    BY <1>1 DEF switchVars, CpuInv, Told, Asked, At
  <2>2. UNCHANGED Cpu!cpuVars
    BY <1>1 DEF switchVars, Cpu!cpuVars, Cpu!cpu, CpuRegs, CpuPc, CpuMode, GuestState, Answered, GuestPc,
                GuestMode, OnHart, SavedReg, SavedCsr, At
  <2>3. QED
    BY Zenon, <2>1, <2>2
<1>2. CASE Probing \/ Guest_new \/ alltraps \/ alltraps_k \/ kernel_fault
  BY Zenon, <1>2, ProbingCpu, GuestNewCpu, AlltrapsCpu, AlltrapsKCpu, KernelFaultCpu
<1>3. CASE hart_entry \/ switch_to_guest \/ run_guest \/ guest_exit
  BY Zenon, <1>3, HartEntryCpu, SwitchToGuestCpu, RunGuestCpu, GuestExitCpu
<1>4. CASE sbi_vs_handler \/ handle_plic_access \/ forward_exception \/ interrupt
  BY Zenon, <1>4, SbiCpu, PlicAccessCpu, ForwardCpu, InterruptCpu
<1>5. CASE GuestRuns \/ GuestCalls \/ GuestExits
  BY Zenon, <1>5, GuestRunsCpu, GuestCallsCpu, GuestExitsCpu
<1>6. QED
  BY Zenon, <1>1, <1>2, <1>3, <1>4, <1>5 DEF SwitchNext, Handling

\* The guest has a processor of its own: for any number of exits, by either
\* switch, its registers, pc and mode change by its own instructions and by the
\* answers to its exits, and by nothing else.
THEOREM GuestHasItsCpu == PlicRegsKept => (SwitchSpec => ImplementsGuestCpu)
<1>1. SUFFICES ASSUME PlicRegsKept PROVE SwitchSpec => ImplementsGuestCpu
  OBVIOUS
<1>2. SwitchInit => CpuInv /\ Cpu!CpuInit
  BY Zenon, CpuInitially
<1>3. SwitchInv /\ CpuInv /\ [SwitchNext]_switchVars => CpuInv' /\ [Cpu!CpuNext]_(Cpu!cpuVars)
  BY Zenon, <1>1, CpuStep
<1>4. QED
  BY <1>2, <1>3, SwitchInvHolds, PTL DEF SwitchSpec, ImplementsGuestCpu, Cpu!CpuSpec
=============================================================================
