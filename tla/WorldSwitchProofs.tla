------------------------ MODULE WorldSwitchProofs ------------------------
(***************************************************************************)
(* The safety of the world switch, for every set of registers, any number  *)
(* of exits and both switches.  The invariant SwitchInv says, for each     *)
(* place where the hart can be between two routines, what the registers,   *)
(* the CSRs, the trap context and the VmCpuRegisters hold there: that the  *)
(* context names the hypervisor's stack and handler, that sscratch and     *)
(* stvec are the ones of the switch in use, that hyp_regs holds the caller *)
(* of _run_guest while the guest runs, that no saved sstatus enables the   *)
(* supervisor's interrupts, and how far the probe has come.  There is a    *)
(* lemma for every action.                                                 *)
(***************************************************************************)
EXTENDS SwitchProgramProofs

-----------------------------------------------------------------------------
\* The inductive invariant: what holds at each place where the hart can be.

\* Where the guest can be: its pc has one of these kinds.
IsGuestPc(w) == w[1] \in {"guest_entry", "guest_pc", "vstvec"}

\* An sstatus, and one that keeps the supervisor's interrupts off.
IsStatus(w) == w[2] \in {0, 1} /\ w[3] \in 0 .. 3
Quiet(w) == w[2] \in {0, 1} /\ w[3] \in {0, 2}

\* At all places.
HartOk(m) ==
  /\ IsHart(m) /\ m.x[0] = Zero
  /\ m.priv \in {0, 1} /\ m.virt \in {0, 1}
  /\ IsStatus(m.csr["sstatus"])
  /\ m.virt = 0 => Quiet(m.csr["sstatus"])
  /\ Quiet(C(m, SlotSstatus)) /\ Quiet(V(m, 32)) /\ Quiet(V(m, 69))
  /\ m.csr["htinst"][2] \in Regs

IsReq(q) == DOMAIN q = {"kind", "reg", "len", "call"} /\ q.reg \in Regs

Common == HartOk(hart) /\ DOMAIN probe = {"rd", "ans", "before"} /\ IsReq(req)

\* The stack pointer of hentry, until it leaves its stack for good.
Booting == hart.virt = 0 /\ hart.x[sp] = BootStackTop /\ req = NoReq

IsFn(f) == f \in [Regs -> {f[r] : r \in Regs}]

AtHentry == At("hentry") /\ Booting /\ hart.priv = 1 /\ IsFn(hart.x)

\* The probe runs: tp holds its answer and the other registers are as before.
Probed(regs) ==
  /\ probe.rd \in ProbeRegs
  /\ IsFn(probe.before.x) /\ Quiet(probe.before.csr["sstatus"])
  /\ \A r \in regs : hart.x[r] = probe.before.x[r]

AtCsrr ==
  /\ At("csrr") /\ Booting /\ hart.priv = 1
  /\ Probed(Regs \ {tp}) /\ hart.x[tp] = Num(0)
  /\ hart.csr["stvec"] = Sym("on_detect_trap")

AtDetectTrap ==
  /\ At("on_detect_trap") /\ Booting /\ ~hasH
  /\ Probed(Regs \ {tp})
  /\ hart.csr["sepc"] = Sym("csrr") /\ hart.csr["scause"] = Num(2)
  /\ hart.csr["stval"] \in {Num(0), Num(InsnHalf(probe.rd))}
  /\ hart.csr["sstatus"] = Sstatus(1, 0, 0) /\ hart.csr["hstatus"] = Hstatus(0)

AfterCsrr ==
  /\ hart.pc = Add(Sym("csrr"), 4) /\ Booting
  /\ Probed(Regs \ {tp, probe.rd})
  /\ hart.x[tp] = IF hasH THEN Num(0) ELSE Num(2)
  /\ ~hasH => hart.x[probe.rd] = probe.before.x[probe.rd]

AtProbed == At("probed") /\ Booting /\ ProbeUndone

AtPanic == At("panic") /\ hart.virt = 0 /\ ProbeUndone

\* The trap context that Guest::new made and that the guest's exits keep.
CtxReady == C(hart, SlotKernelSp) = HStackTop /\ C(hart, SlotHandler) = Sym("trap_handler")

\* The guest's pc and mode are in it.
CtxHolds == C(hart, SlotHstatus) = Hstatus(1) /\ IsGuestPc(C(hart, SlotSepc))

AtHartEntry == At("hart_entry_1") /\ hart.virt = 0 /\ path = "trap.S" /\ CtxReady /\ CtxHolds

\* The registers and the CSRs of _run_guest's caller are in the VmCpuRegisters.
HypSaved ==
  /\ \A r \in HypGprs : V(hart, r) = caller.x[r]
  /\ \A c \in DOMAIN HypCsr : V(hart, HypCsr[c]) = caller.csr[c]
  /\ caller.x[0] = Zero /\ caller.x[1] = Sym("caller")

\* What the next exit needs, from the sret on.
ExitReady ==
  \/ /\ path = "trap.S" /\ CtxReady
     /\ hart.csr["stvec"] = Sym("__alltraps") /\ hart.csr["sscratch"] = TRAP_CONTEXT
  \/ /\ path = "guest.S" /\ HypSaved
     /\ hart.csr["stvec"] = Sym("_guest_exit") /\ hart.csr["sscratch"] = VmCpu

InGuest == hart.virt = 1 /\ IsGuestPc(hart.pc) /\ ExitReady

\* An exit on the way to being saved.
Exiting == hart.virt = 0 /\ hart.csr["hstatus"] = Hstatus(1) /\ IsGuestPc(hart.csr["sepc"])
           /\ ExitReady /\ req # NoReq

AtAlltraps == At("__alltraps") /\ Exiting /\ path = "trap.S"

AtGuestExit == At("_guest_exit") /\ Exiting /\ path = "guest.S"

AtTrapHandler ==
  /\ At("trap_handler") /\ hart.virt = 0 /\ path = "trap.S" /\ req # NoReq
  /\ CtxReady /\ CtxHolds /\ hart.x[sp] = HStackTop

AtSwitch == At("switch_to_guest") /\ hart.virt = 0 /\ path = "trap.S" /\ CtxReady /\ CtxHolds

AtKernelTrap ==
  /\ At("__alltraps_k") /\ hart.virt = 0
  /\ hart.x[sp] = Add(HStackTop, -4)
  /\ hart.csr["sepc"] = Sym("rust_access") /\ hart.csr["sscratch"] = Sym("trap_from_kernel")

AtFromKernel == At("trap_from_kernel") /\ hart.virt = 0 /\ HypervisorStack

AtCaller ==
  /\ At("caller") /\ hart.virt = 0 /\ path = "guest.S" /\ CallerKeepsState
  /\ V(hart, 70) = Hstatus(1) /\ IsGuestPc(V(hart, 72))

SwitchInv ==
  /\ Common
  /\ \/ AtHentry \/ AtCsrr \/ AtDetectTrap \/ AfterCsrr \/ AtProbed \/ AtPanic
     \/ AtHartEntry \/ InGuest \/ AtAlltraps \/ AtTrapHandler \/ AtSwitch
     \/ AtKernelTrap \/ AtFromKernel \/ AtCaller \/ AtGuestExit

-----------------------------------------------------------------------------
\* What the trap, the sret and the Rust code do to a hart.

\* The fields of an sstatus and an hstatus.
LEMMA StatusFacts ==
  /\ \A w : IsStatus(w) => SIE(w) \in {0, 1} /\ SPIE(w) \in {0, 1} /\ SPP(w) \in {0, 1}
  /\ \A w : Quiet(w) => IsStatus(w) /\ SIE(w) = 0 /\ SPIE(w) \in {0, 1} /\ SPP(w) \in {0, 1}
  /\ \A p, i \in {0, 1} : Quiet(Sstatus(p, i, 0)) /\ IsStatus(Sstatus(p, 1, i))
  /\ \A p \in {0, 1} : SPP(Sstatus(p, 0, 0)) = p /\ SPIE(Sstatus(p, 0, 0)) = 0
  /\ \A v \in {0, 1} : SPV(Hstatus(v)) = v
  /\ Quiet(Zero)
<1>1. \A w : IsStatus(w) => SIE(w) \in {0, 1} /\ SPIE(w) \in {0, 1} /\ SPP(w) \in {0, 1}
  BY DEF IsStatus, SIE, SPIE, SPP
<1>2. \A w : Quiet(w) => IsStatus(w) /\ SIE(w) = 0
  BY DEF Quiet, IsStatus, SIE
<1>3. \A p, i \in {0, 1} : Quiet(Sstatus(p, i, 0)) /\ IsStatus(Sstatus(p, 1, i))
  BY DEF Quiet, IsStatus, Sstatus
<1>4. /\ \A p \in {0, 1} : SPP(Sstatus(p, 0, 0)) = p /\ SPIE(Sstatus(p, 0, 0)) = 0
      /\ \A v \in {0, 1} : SPV(Hstatus(v)) = v
  BY DEF SPIE, SPP, SPV, Sstatus, Hstatus
<1>5. Quiet(Zero)
  BY Zenon DEF Quiet, Zero, Num
<1>6. QED
  BY Zenon, <1>1, <1>2, <1>3, <1>4, <1>5

SretEffect(n, m) ==
  /\ IsHart(n) /\ n.x = m.x /\ n.mem = m.mem
  /\ n.pc = m.csr["sepc"]
  /\ n.priv = SPP(m.csr["sstatus"]) /\ n.virt = SPV(m.csr["hstatus"])
  /\ n.csr["sstatus"] = Sstatus(0, 1, SPIE(m.csr["sstatus"])) /\ n.csr["hstatus"] = Hstatus(0)
  /\ \A c \in Csrs \ {"sstatus", "hstatus"} : n.csr[c] = m.csr[c]

\* sret goes to sepc in the mode that sstatus and hstatus name.
LEMMA SretIs ==
  ASSUME NEW m, IsHart(m)
  PROVE  SretEffect(Sret(m), m)
<1> DEFINE n == Sret(m)
<1>1. /\ IsHart(n) /\ n.x = m.x /\ n.mem = m.mem /\ n.pc = m.csr["sepc"]
      /\ n.priv = SPP(m.csr["sstatus"]) /\ n.virt = SPV(m.csr["hstatus"])
  BY Zenon, Named DEF Sret, IsHart
<1>2. /\ n.csr["sstatus"] = Sstatus(0, 1, SPIE(m.csr["sstatus"])) /\ n.csr["hstatus"] = Hstatus(0)
      /\ \A c \in Csrs \ {"sstatus", "hstatus"} : n.csr[c] = m.csr[c]
  BY Zenon, Named DEF Sret, IsHart
<1>3. QED
  BY Zenon, <1>1, <1>2 DEF SretEffect

TrapEffect(n, m, scause) ==
  /\ IsHart(n) /\ n.x = m.x /\ n.mem = m.mem
  /\ n.pc = m.csr["stvec"] /\ n.priv = 1 /\ n.virt = 0
  /\ n.csr["sepc"] = m.pc /\ n.csr["scause"] = scause
  /\ n.csr["sstatus"] = Sstatus(m.priv, SIE(m.csr["sstatus"]), 0)
  /\ n.csr["hstatus"] = Hstatus(m.virt)
  /\ \A c \in Csrs \ {"sepc", "scause", "sstatus", "hstatus"} : n.csr[c] = m.csr[c]

\* A trap goes to stvec and keeps registers and memory.
LEMMA TrapIs ==
  ASSUME NEW m, IsHart(m), NEW scause
  PROVE  TrapEffect(Trap(m, scause), m, scause)
<1> DEFINE n == Trap(m, scause)
<1>1. /\ IsHart(n) /\ n.x = m.x /\ n.mem = m.mem /\ n.pc = m.csr["stvec"]
      /\ n.priv = 1 /\ n.virt = 0
  BY Zenon, Named DEF Trap, IsHart
<1>2. /\ n.csr["sepc"] = m.pc /\ n.csr["scause"] = scause
      /\ n.csr["sstatus"] = Sstatus(m.priv, SIE(m.csr["sstatus"]), 0)
      /\ n.csr["hstatus"] = Hstatus(m.virt)
  BY Zenon, Named DEF Trap, IsHart
<1>3. \A c \in Csrs \ {"sepc", "scause", "sstatus", "hstatus"} : n.csr[c] = m.csr[c]
  BY Zenon, Named DEF Trap, IsHart
<1>4. QED
  BY Zenon, <1>1, <1>2, <1>3 DEF TrapEffect

\* A routine that writes one object leaves the words of the others.
LEMMA Apart ==
  ASSUME NEW n, NEW m
  PROVE  /\ Beyond(n, m, "ctx") => \A k \in 0 .. 72 : V(n, k) = V(m, k)
         /\ \A object \in {"vm", "hstack", "boot_stack"} :
              Beyond(n, m, object) => \A k \in 0 .. 37 : C(n, k) = C(m, k)
         /\ \A object \in {"hstack", "boot_stack"} :
              Beyond(n, m, object) => \A k \in 0 .. 72 : V(n, k) = V(m, k)
<1>1. ASSUME NEW object, Beyond(n, m, object), NEW base, base[1] # object, NEW k \in Offsets(base)
      PROVE  M(n, base, k) = M(m, base, k)
  <2>1. Add(base, k) \in Addresses /\ Add(base, k)[1] # object
    BY Zenon, <1>1, AddParts DEF Offsets
  <2>2. QED
    BY Zenon, <1>1, <2>1 DEF Beyond, M
<1>2. QED
  BY SMTT(30), <1>1, Objects DEF C, V

\* Before the guest is entered: the vector, hgatp and the context's address in a0.
EnterEffect(n, m) ==
  /\ Becomes(n, m, n.x, n.csr, m.mem)
  /\ n.x[a0] = TRAP_CONTEXT /\ \A r \in Regs \ {a0} : n.x[r] = m.x[r]
  /\ n.csr["stvec"] = Sym("__alltraps")
  /\ \A c \in Csrs \ {"stvec", "hgatp"} : n.csr[c] = m.csr[c]

\* hart_entry_1 and switch_to_guest before __restore.
LEMMA EnterDoes ==
  ASSUME NEW m, IsHart(m)
  PROVE  EnterEffect(SetReg(set_hgatp(set_user_trap_entry(m)), a0, TRAP_CONTEXT), m)
<1> DEFINE m1 == set_user_trap_entry(m)
           m2 == set_hgatp(m1)
           m3 == SetReg(m2, a0, TRAP_CONTEXT)
<1>1. Becomes(m1, m, m.x, [m.csr EXCEPT !["stvec"] = Sym("__alltraps")], m.mem)
  BY Zenon, SetCsr, Named DEF set_user_trap_entry
<1> HIDE DEF m1
<1>2. Becomes(m2, m1, m1.x, [m1.csr EXCEPT !["hgatp"] = C(m1, SlotHgatp)], m1.mem)
  <2>1. IsHart(m1)
    BY Zenon, <1>1 DEF Becomes
  <2>2. m2 = [m1 EXCEPT !.csr["hgatp"] = C(m1, SlotHgatp)]
    BY Zenon DEF set_hgatp, C, M
  <2> HIDE DEF m2
  <2>3. QED
    BY Zenon, <2>1, <2>2, SetCsr, Named
<1> HIDE DEF m2
<1>3. Becomes(m3, m2, [m2.x EXCEPT ![a0] = TRAP_CONTEXT], m2.csr, m2.mem)
  BY <1>2, DoSetReg, Named DEF Becomes
<1> HIDE DEF m3
<1>4. Becomes(m3, m, m3.x, m3.csr, m.mem)
  BY Zenon, <1>1, <1>2, <1>3 DEF Becomes
<1>5. m3.x[a0] = TRAP_CONTEXT /\ \A r \in Regs \ {a0} : m3.x[r] = m.x[r]
  BY <1>1, <1>2, <1>3, Named DEF Becomes, IsHart
<1>6. ASSUME NEW c \in Csrs \ {"hgatp"}
      PROVE  m3.csr[c] = IF c = "stvec" THEN Sym("__alltraps") ELSE m.csr[c]
  BY <1>1, <1>2, <1>3 DEF Becomes, IsHart
<1>7. QED
  BY Zenon, <1>4, <1>5, <1>6, Named DEF EnterEffect, m1, m2, m3

\* The Rust code between a trap and the next entry to the guest.
RustEffect(n, m) ==
  /\ Becomes(n, m, n.x, n.csr, m.mem)
  /\ n.x[0] = m.x[0] /\ n.x[sp] = m.x[sp] /\ n.x[tp] = m.x[tp]
  /\ n.csr["stvec"] = Sym("__alltraps_k") /\ n.csr["sscratch"] = Sym("trap_from_kernel")
  /\ \A c \in Csrs \ {"stvec", "sscratch"} : n.csr[c] = m.csr[c]

\* trap_handler and hentry set the vector of the hypervisor's own traps; Rust
\* code keeps sp, tp and the other CSRs.
LEMMA RustDoes ==
  ASSUME NEW m, IsHart(m)
  PROVE  RustEffect(Clobber(set_kernel_trap_entry(m), RustRegs), m)
<1> DEFINE m1 == set_kernel_trap_entry(m)
           m2 == Clobber(m1, RustRegs)
<1>1. /\ Becomes(m1, m, m.x, m1.csr, m.mem)
      /\ m1.csr["stvec"] = Sym("__alltraps_k") /\ m1.csr["sscratch"] = Sym("trap_from_kernel")
      /\ \A c \in Csrs \ {"stvec", "sscratch"} : m1.csr[c] = m.csr[c]
  BY Zenon, Named DEF set_kernel_trap_entry, Becomes, IsHart
<1> HIDE DEF m1
<1>2. Becomes(m2, m1, m2.x, m1.csr, m1.mem) /\ \A r \in Regs \ RustRegs : m2.x[r] = m1.x[r]
  BY Zenon, <1>1 DEF Clobber, Becomes, IsHart
<1> HIDE DEF m2
<1>3. 0 \in Regs \ RustRegs /\ sp \in Regs \ RustRegs /\ tp \in Regs \ RustRegs
  BY Named DEF RustRegs, Regs
<1>4. QED
  BY Zenon, <1>1, <1>2, <1>3 DEF RustEffect, Becomes, m1, m2

\* A call changes the pc only.
LEMMA GotoIs ==
  ASSUME NEW m, IsHart(m), NEW name
  PROVE  LET n == Goto(m, name) IN
           /\ IsHart(n) /\ n.x = m.x /\ n.csr = m.csr /\ n.mem = m.mem
           /\ n.pc = Sym(name) /\ n.priv = m.priv /\ n.virt = m.virt
BY Zenon DEF Goto, IsHart

\* Where the hart is.
LEMMA Places ==
  /\ AtHentry => hart.pc[1] = "hentry" /\ hart.virt = 0
  /\ AtCsrr => hart.pc[1] = "csrr" /\ hart.pc[3] = 0 /\ hart.virt = 0
  /\ AtDetectTrap => hart.pc[1] = "on_detect_trap" /\ hart.virt = 0
  /\ AfterCsrr => hart.pc[1] = "csrr" /\ hart.pc[3] = 4 /\ hart.virt = 0
  /\ AtProbed => hart.pc[1] = "probed" /\ hart.virt = 0
  /\ AtPanic => hart.pc[1] = "panic" /\ hart.virt = 0
  /\ AtHartEntry => hart.pc[1] = "hart_entry_1" /\ hart.virt = 0
  /\ InGuest => hart.pc[1] \in {"guest_entry", "guest_pc", "vstvec"} /\ hart.virt = 1
  /\ AtAlltraps => hart.pc[1] = "__alltraps" /\ hart.virt = 0
  /\ AtTrapHandler => hart.pc[1] = "trap_handler" /\ hart.virt = 0
  /\ AtSwitch => hart.pc[1] = "switch_to_guest" /\ hart.virt = 0
  /\ AtKernelTrap => hart.pc[1] = "__alltraps_k" /\ hart.virt = 0
  /\ AtFromKernel => hart.pc[1] = "trap_from_kernel" /\ hart.virt = 0
  /\ AtCaller => hart.pc[1] = "caller" /\ hart.virt = 0
  /\ AtGuestExit => hart.pc[1] = "_guest_exit" /\ hart.virt = 0
<1>1. \A name : Sym(name)[1] = name /\ Sym(name)[3] = 0
  BY Zenon DEF Sym
<1>2. Add(Sym("csrr"), 4)[1] = "csrr" /\ Add(Sym("csrr"), 4)[3] = 4
  BY DEF Sym, Add
<1>3. \A name : At(name) => hart.pc[1] = name /\ hart.pc[3] = 0
  BY Zenon, <1>1 DEF At
<1>4. (AtHentry \/ AtCsrr \/ AtDetectTrap \/ AfterCsrr \/ AtProbed) => hart.virt = 0
  BY Zenon DEF AtHentry, AtCsrr, AtDetectTrap, AfterCsrr, AtProbed, Booting
<1>5. AfterCsrr => hart.pc[1] = "csrr" /\ hart.pc[3] = 4
  BY Zenon, <1>2 DEF AfterCsrr
<1>6. InGuest => hart.pc[1] \in {"guest_entry", "guest_pc", "vstvec"} /\ hart.virt = 1
  BY Zenon DEF InGuest, IsGuestPc
<1>7. QED
  BY Zenon, <1>3, <1>4, <1>5, <1>6 DEF AtHentry, AtCsrr, AtDetectTrap, AtProbed, AtPanic, AtHartEntry,
     AtAlltraps, AtGuestExit, Exiting, AtTrapHandler, AtSwitch, AtKernelTrap, AtFromKernel, AtCaller

\* And after a step.
LEMMA PlacesNext ==
  /\ AtCsrr' => hart'.pc[1] = "csrr" /\ hart'.virt = 0
  /\ AtDetectTrap' => hart'.pc[1] = "on_detect_trap" /\ hart'.virt = 0
  /\ AfterCsrr' => hart'.pc[1] = "csrr" /\ hart'.virt = 0
  /\ AtProbed' => hart'.pc[1] = "probed" /\ hart'.virt = 0
  /\ AtPanic' => hart'.pc[1] = "panic" /\ hart'.virt = 0
<1> DEFINE P == /\ AtCsrr => hart.pc[1] = "csrr" /\ hart.virt = 0
                /\ AtDetectTrap => hart.pc[1] = "on_detect_trap" /\ hart.virt = 0
                /\ AfterCsrr => hart.pc[1] = "csrr" /\ hart.virt = 0
                /\ AtProbed => hart.pc[1] = "probed" /\ hart.virt = 0
                /\ AtPanic => hart.pc[1] = "panic" /\ hart.virt = 0
<1>1. P
  BY Zenon, Places
<1>2. P'
  BY <1>1, PTL
<1>3. QED
  BY Zenon, <1>2

\* The pc decides which case of the invariant holds.
LEMMA Where ==
  ASSUME SwitchInv
  PROVE  /\ Common
         /\ At("hentry") => AtHentry
         /\ At("csrr") => AtCsrr
         /\ At("on_detect_trap") => AtDetectTrap
         /\ hart.pc = Add(Sym("csrr"), 4) => AfterCsrr
         /\ At("probed") => AtProbed
         /\ At("panic") => AtPanic
         /\ At("hart_entry_1") => AtHartEntry
         /\ hart.virt = 1 => InGuest
         /\ At("__alltraps") => AtAlltraps
         /\ At("trap_handler") => AtTrapHandler
         /\ At("switch_to_guest") => AtSwitch
         /\ At("__alltraps_k") => AtKernelTrap
         /\ At("trap_from_kernel") => AtFromKernel
         /\ At("caller") => AtCaller
         /\ At("_guest_exit") => AtGuestExit
<1>1. \A name : At(name) => hart.pc[1] = name /\ hart.pc[3] = 0
  BY DEF At, Sym
<1>2. Add(Sym("csrr"), 4)[1] = "csrr" /\ Add(Sym("csrr"), 4)[3] = 4
  BY DEF Sym, Add
<1>3. QED
  BY <1>1, <1>2, Places DEF SwitchInv

-----------------------------------------------------------------------------
\* Each step keeps the invariant.

\* All that __restore makes of the hart before the sret, the context as it was.
Restored(n, m) ==
  /\ IsHart(n) /\ n.x[0] = Zero /\ n.mem = m.mem
  /\ n.csr["sscratch"] = TRAP_CONTEXT /\ n.csr["stvec"] = Sym("__alltraps")
  /\ Quiet(n.csr["sstatus"]) /\ n.csr["hstatus"] = Hstatus(1) /\ IsGuestPc(n.csr["sepc"])
  /\ n.csr["htinst"] = m.csr["htinst"]

\* __restore from a context that holds a guest.
LEMMA RestoredIs ==
  ASSUME HartOk(hart), CtxHolds
  PROVE  Restored(restore_program(SetReg(set_hgatp(set_user_trap_entry(hart)), a0, TRAP_CONTEXT)), hart)
<1> DEFINE m == SetReg(set_hgatp(set_user_trap_entry(hart)), a0, TRAP_CONTEXT)
           n == restore_program(m)
<1>1. EnterEffect(m, hart)
  BY Zenon, EnterDoes DEF HartOk
<1> HIDE DEF m
<1>2. RestoreEffect(n, m)
  BY Zenon, <1>1, RestoreDoes DEF EnterEffect, Becomes
<1> HIDE DEF n
<1>3. IsHart(n) /\ n.mem = hart.mem /\ m.mem = hart.mem
  BY Zenon, <1>1, <1>2 DEF EnterEffect, RestoreEffect, Becomes
<1>4. n.x[0] = Zero
  <2>1. 0 \in Regs \ {a0}
    BY Named DEF Regs
  <2>2. QED
    BY Zenon, <1>1, <1>2, <2>1 DEF EnterEffect, RestoreEffect, HartOk
<1>5. n.csr["sscratch"] = TRAP_CONTEXT /\ n.csr["stvec"] = Sym("__alltraps")
      /\ n.csr["htinst"] = hart.csr["htinst"]
  BY Zenon, <1>1, <1>2, Named DEF EnterEffect, RestoreEffect
<1>6. C(m, SlotSstatus) = C(hart, SlotSstatus) /\ C(m, SlotSepc) = C(hart, SlotSepc)
      /\ C(m, SlotHstatus) = C(hart, SlotHstatus)
  BY Zenon, <1>3 DEF C, M
<1>7. Quiet(n.csr["sstatus"]) /\ n.csr["hstatus"] = Hstatus(1) /\ IsGuestPc(n.csr["sepc"])
  BY Zenon, <1>2, <1>6 DEF RestoreEffect, HartOk, CtxHolds
<1>8. QED
  BY Zenon, <1>3, <1>4, <1>5, <1>7 DEF Restored, m, n

\* The sret into the guest.
LEMMA SretToGuest ==
  ASSUME Common, CtxReady, path = "trap.S", NEW n, Restored(n, hart), hart' = Sret(n),
         UNCHANGED <<hasH, path, probe, gen, req, given, caller>>
  PROVE  SwitchInv'
<1>1. SretEffect(hart', n)
  BY Zenon, SretIs DEF Restored
<1>2. HartOk(hart')
  <2>1. IsHart(hart') /\ hart'.x[0] = Zero /\ hart'.mem = hart.mem
    BY Zenon, <1>1 DEF SretEffect, Restored
  <2>2. hart'.priv \in {0, 1} /\ hart'.virt = 1 /\ IsStatus(hart'.csr["sstatus"])
    BY <1>1, StatusFacts DEF SretEffect, Restored
  <2>3. hart'.csr["htinst"][2] \in Regs
    BY Zenon, <1>1, Named DEF SretEffect, Restored, Common, HartOk
  <2>4. C(hart', SlotSstatus) = C(hart, SlotSstatus) /\ V(hart', 32) = V(hart, 32)
        /\ V(hart', 69) = V(hart, 69)
    BY Zenon, <2>1 DEF C, V, M
  <2>5. QED
    BY <2>1, <2>2, <2>3, <2>4 DEF HartOk, Common
<1>3. InGuest'
  <2>1. hart'.virt = 1 /\ IsGuestPc(hart'.pc) /\ hart'.csr["sscratch"] = TRAP_CONTEXT
        /\ hart'.csr["stvec"] = Sym("__alltraps")
    BY Zenon, <1>1, StatusFacts, Named DEF SretEffect, Restored
  <2>2. CtxReady'
    BY Zenon, <1>1 DEF CtxReady, C, M, SretEffect, Restored
  <2>3. QED
    BY Zenon, <2>1, <2>2 DEF InGuest, ExitReady
<1>4. QED
  BY Zenon, <1>2, <1>3 DEF SwitchInv, Common

\* switch_to_guest enters the guest.
LEMMA SwitchToGuestStep ==
  ASSUME SwitchInv, switch_to_guest
  PROVE  SwitchInv'
<1> DEFINE m == SetReg(set_hgatp(set_user_trap_entry(hart)), a0, TRAP_CONTEXT)
           n == restore_program(m)
<1>1. AtSwitch /\ Common
  BY Zenon, Where DEF switch_to_guest
<1>2. hart' = Sret(n) /\ UNCHANGED <<hasH, path, probe, gen, req, given, caller>>
  BY Zenon DEF switch_to_guest
<1>3. Restored(n, hart)
  BY Zenon, <1>1, RestoredIs DEF AtSwitch, Common
<1> HIDE DEF n
<1>4. QED
  BY Zenon, <1>1, <1>2, <1>3, SretToGuest DEF AtSwitch

\* hart_entry_1 and hart_entry_2 enter it for the first time.
LEMMA HartEntryStep ==
  ASSUME SwitchInv, hart_entry
  PROVE  SwitchInv'
<1> DEFINE m == SetReg(set_hgatp(set_user_trap_entry(hart)), a0, TRAP_CONTEXT)
           k == restore_program(m)
           n == SetReg(k, GprIndex.A1, GUEST_DTB_ADDR)
<1>1. AtHartEntry /\ Common
  BY Zenon, Where DEF hart_entry
<1>2. hart' = Sret(n) /\ UNCHANGED <<hasH, path, probe, gen, req, given, caller>>
  BY Zenon DEF hart_entry
<1>3. Restored(k, hart)
  BY Zenon, <1>1, RestoredIs DEF AtHartEntry, Common
<1> HIDE DEF k
<1>4. Becomes(n, k, [k.x EXCEPT ![GprIndex.A1] = GUEST_DTB_ADDR], k.csr, k.mem)
  <2>1. GprIndex.A1 \in Regs \ {0}
    BY RegNumbers DEF Regs
  <2>2. QED
    BY Zenon, <1>3, <2>1, DoSetReg DEF Restored
<1> HIDE DEF n
<1>5. Restored(n, hart)
  <2>1. n.x[0] = k.x[0]
    BY <1>3, <1>4, RegNumbers DEF Becomes, IsHart, Restored, Regs
  <2>2. QED
    BY Zenon, <1>3, <1>4, <2>1 DEF Restored, Becomes
<1>6. QED
  BY Zenon, <1>1, <1>2, <1>5, SretToGuest DEF AtHartEntry

\* __alltraps reaches trap_handler on the hypervisor's stack.
LEMMA AlltrapsStep ==
  ASSUME SwitchInv, alltraps
  PROVE  SwitchInv'
<1> DEFINE m == alltraps_program(hart)
<1>1. AtAlltraps /\ Common
  BY Zenon, Where DEF alltraps
<1>2. hart' = [m EXCEPT !.pc = m.x[t1]] /\ UNCHANGED <<hasH, path, probe, gen, req, given, caller>>
  BY Zenon DEF alltraps
<1>3. /\ hart.csr["sscratch"] = TRAP_CONTEXT /\ CtxReady /\ hart.virt = 0
      /\ hart.csr["hstatus"] = Hstatus(1) /\ IsGuestPc(hart.csr["sepc"]) /\ req # NoReq
  BY Zenon, <1>1 DEF AtAlltraps, Exiting, ExitReady
<1>4. AlltrapsEffect(m, hart)
  BY Zenon, <1>1, <1>3, AlltrapsDoes DEF Common, HartOk
<1> HIDE DEF m
<1>5. /\ IsHart(m) /\ m.priv = hart.priv /\ m.virt = 0 /\ m.x[0] = Zero
      /\ m.csr["sstatus"] = hart.csr["sstatus"] /\ m.csr["htinst"] = hart.csr["htinst"]
      /\ m.x[sp] = HStackTop /\ m.x[t1] = Sym("trap_handler")
  <2>1. 0 \in Regs \ {2, 5, 6, 7}
    BY DEF Regs
  <2>2. m.x[0] = Zero /\ m.x[sp] = HStackTop /\ m.x[t1] = Sym("trap_handler")
    BY Zenon, <1>1, <1>3, <1>4, <2>1 DEF AlltrapsEffect, CtxReady, Common, HartOk
  <2>3. m.csr = [hart.csr EXCEPT !["sscratch"] = hart.x[sp]] /\ DOMAIN hart.csr = Csrs
    BY Zenon, <1>1, <1>4 DEF AlltrapsEffect, Becomes, Common, HartOk, IsHart
  <2>4. m.csr["sstatus"] = hart.csr["sstatus"] /\ m.csr["htinst"] = hart.csr["htinst"]
    BY Zenon, <2>3, Named
  <2>5. QED
    BY Zenon, <1>3, <1>4, <2>2, <2>4 DEF AlltrapsEffect, Becomes
<1>6. /\ IsHart(hart') /\ hart'.x = m.x /\ hart'.csr = m.csr /\ hart'.mem = m.mem
      /\ hart'.pc = m.x[t1] /\ hart'.priv = m.priv /\ hart'.virt = m.virt
  BY Zenon, <1>2, <1>5 DEF IsHart
<1>7. /\ C(hart', SlotSstatus) = hart.csr["sstatus"] /\ C(hart', SlotSepc) = hart.csr["sepc"]
      /\ C(hart', SlotHstatus) = hart.csr["hstatus"]
      /\ C(hart', SlotKernelSp) = C(hart, SlotKernelSp) /\ C(hart', SlotHandler) = C(hart, SlotHandler)
      /\ V(hart', 32) = V(hart, 32) /\ V(hart', 69) = V(hart, 69)
  <2>1. \A k : C(hart', k) = C(m, k) /\ V(hart', k) = V(m, k)
    BY Zenon, <1>6 DEF C, V, M
  <2>2. V(m, 32) = V(hart, 32) /\ V(m, 69) = V(hart, 69)
    BY <1>4, Apart DEF AlltrapsEffect
  <2>3. QED
    BY Zenon, <1>4, <2>1, <2>2 DEF AlltrapsEffect
<1>8. HartOk(hart')
  BY Zenon, <1>1, <1>3, <1>5, <1>6, <1>7 DEF HartOk, Common
<1>9. AtTrapHandler'
  BY Zenon, <1>1, <1>2, <1>3, <1>5, <1>6, <1>7 DEF AtTrapHandler, At, AtAlltraps, CtxReady, CtxHolds
<1>10. QED
  BY Zenon, <1>1, <1>2, <1>8, <1>9 DEF SwitchInv, Common

\* __alltraps_k reaches trap_from_kernel below the handler's frame.
LEMMA AlltrapsKStep ==
  ASSUME SwitchInv, alltraps_k
  PROVE  SwitchInv'
<1> DEFINE m == alltraps_k_program(hart)
           k == SetReg(m, GprIndex.RA, Sym("__restore_k"))
<1>1. AtKernelTrap /\ Common
  BY Zenon, Where DEF alltraps_k
<1>2. hart' = [k EXCEPT !.pc = m.x[t2]] /\ UNCHANGED <<hasH, path, probe, gen, req, given, caller>>
  BY Zenon DEF alltraps_k
<1>3. AlltrapsKEffect(m, hart)
  BY Zenon, <1>1, AlltrapsKDoes DEF AtKernelTrap, Common, HartOk
<1> HIDE DEF m
<1>a. /\ GprIndex.RA \in Regs \ {0} /\ GprIndex.RA # sp /\ GprIndex.RA # a0
      /\ 0 \in Regs /\ sp \in Regs /\ a0 \in Regs
  BY RegNumbers DEF Regs
<1>4. Becomes(k, m, [m.x EXCEPT ![GprIndex.RA] = Sym("__restore_k")], m.csr, m.mem)
  <2>1. IsHart(m)
    BY Zenon, <1>3 DEF AlltrapsKEffect, Becomes
  <2>2. QED
    BY Zenon, <1>a, <2>1, DoSetReg
<1> HIDE DEF k
<1>5. /\ IsHart(hart') /\ hart'.x = k.x /\ hart'.csr = hart.csr /\ hart'.mem = m.mem
      /\ hart'.pc = m.x[t2] /\ hart'.priv = hart.priv /\ hart'.virt = hart.virt
  BY Zenon, <1>2, <1>3, <1>4 DEF AlltrapsKEffect, Becomes, IsHart
<1>6. hart'.x[0] = Zero /\ hart'.x[sp] = KernelFrame /\ hart'.x[a0] = KernelFrame
  <2>1. k.x[0] = m.x[0] /\ k.x[sp] = m.x[sp] /\ k.x[a0] = m.x[a0]
    BY Zenon, <1>3, <1>4, <1>a DEF AlltrapsKEffect, Becomes, IsHart
  <2>2. QED
    BY <1>1, <1>3, <1>5, <2>1 DEF AlltrapsKEffect, Common, HartOk
<1>7. C(hart', SlotSstatus) = C(hart, SlotSstatus) /\ V(hart', 32) = V(hart, 32)
      /\ V(hart', 69) = V(hart, 69)
  <2>1. C(hart', SlotSstatus) = C(m, SlotSstatus) /\ V(hart', 32) = V(m, 32) /\ V(hart', 69) = V(m, 69)
    BY Zenon, <1>5 DEF C, V, M
  <2>2. QED
    BY <1>3, <2>1, Apart DEF AlltrapsKEffect, SlotSstatus
<1>8. HartOk(hart')
  BY Zenon, <1>1, <1>5, <1>6, <1>7 DEF HartOk, Common
<1>9. AtFromKernel'
  <2>1. hart'.pc = Sym("trap_from_kernel") /\ hart'.virt = 0
    BY Zenon, <1>1, <1>3, <1>5 DEF AtKernelTrap, AlltrapsKEffect
  <2>2. hart'.mem[Add(hart'.x[a0], SlotSepc)] = Sym("rust_access")
    BY Zenon, <1>1, <1>3, <1>5, <1>6 DEF AtKernelTrap, AlltrapsKEffect, M
  <2>3. Sym("trap_from_kernel") # Sym("trap_handler")
    BY Zenon DEF Sym
  <2>4. HypervisorStack'
    BY Zenon, <1>6, <2>1, <2>2, <2>3 DEF HypervisorStack, At, KernelFrame
  <2>5. QED
    BY Zenon, <2>1, <2>4 DEF AtFromKernel, At
<1>10. QED
  BY Zenon, <1>1, <1>2, <1>8, <1>9 DEF SwitchInv, Common

\* A step of the guest that leaves its CSRs and the memory.
LEMMA InsideGuest ==
  ASSUME SwitchInv, hart.virt = 1,
         IsHart(hart'), hart'.x[0] = Zero, hart'.csr = hart.csr, hart'.mem = hart.mem,
         IsGuestPc(hart'.pc), hart'.priv \in {0, 1}, hart'.virt = 1,
         IsReq(req'), UNCHANGED <<hasH, path, probe, caller>>
  PROVE  SwitchInv'
<1>1. InGuest /\ Common
  BY Zenon, Where
<1>2. \A k : C(hart', k) = C(hart, k) /\ V(hart', k) = V(hart, k)
  BY Zenon DEF C, V, M
<1>3. HartOk(hart')
  BY Zenon, <1>1, <1>2 DEF HartOk, Common
<1>4. InGuest'
  <2>1. CtxReady => CtxReady'
    BY Zenon, <1>2 DEF CtxReady
  <2>2. HypSaved => HypSaved'
    BY Zenon, <1>2 DEF HypSaved
  <2>3. QED
    BY Zenon, <1>1, <2>1, <2>2 DEF InGuest, ExitReady
<1>5. QED
  BY Zenon, <1>1, <1>3, <1>4 DEF SwitchInv, Common

\* Whatever the guest does to its registers.
LEMMA GuestRunsStep ==
  ASSUME SwitchInv, GuestRuns
  PROVE  SwitchInv'
<1>1. InGuest /\ HartOk(hart)
  BY Zenon, Where DEF GuestRuns, Common
<1>2. IsReq(req')
  BY DEF GuestRuns, NoReq, IsReq, Regs
<1>3. /\ IsHart(hart') /\ hart'.x[0] = Zero /\ hart'.csr = hart.csr /\ hart'.mem = hart.mem
      /\ hart'.pc = <<"guest_pc", gen', 0>> /\ hart'.priv \in {0, 1} /\ hart'.virt = hart.virt
  BY <1>1 DEF GuestRuns, HartOk, IsHart, Regs
<1>4. IsGuestPc(hart'.pc)
  BY <1>3 DEF IsGuestPc
<1>5. QED
  BY Zenon, <1>2, <1>3, <1>4, InsideGuest DEF GuestRuns

\* The guest loads the number of a call.
LEMMA GuestCallsStep ==
  ASSUME SwitchInv, GuestCalls
  PROVE  SwitchInv'
<1>1. InGuest /\ HartOk(hart)
  BY Zenon, Where DEF GuestCalls, Common
<1>2. IsReq(req')
  BY DEF GuestCalls, NoReq, IsReq, Regs
<1>3. /\ IsHart(hart') /\ hart'.x[0] = Zero /\ hart'.csr = hart.csr /\ hart'.mem = hart.mem
      /\ hart'.pc = hart.pc /\ hart'.priv = hart.priv /\ hart'.virt = hart.virt
  <2>1. GprIndex.A6 # 0 /\ GprIndex.A7 # 0
    BY RegNumbers
  <2>2. PICK call : hart' = [hart EXCEPT !.x = [hart.x EXCEPT ![GprIndex.A7] = Sym(call[1]),
                                                              ![GprIndex.A6] = Sym(call[2])]]
    BY Zenon DEF GuestCalls
  <2> DEFINE x == [hart.x EXCEPT ![GprIndex.A7] = Sym(call[1]), ![GprIndex.A6] = Sym(call[2])]
  <2>3. DOMAIN x = Regs /\ x[0] = Zero
    BY <1>1, <2>1 DEF HartOk, IsHart, Regs
  <2> HIDE DEF x
  <2>4. hart' = [hart EXCEPT !.x = x]
    BY Zenon, <2>2 DEF x
  <2>5. QED
    BY Zenon, <1>1, <2>3, <2>4 DEF HartOk, IsHart
<1>4. QED
  BY Zenon, <1>1, <1>2, <1>3, InsideGuest DEF GuestCalls, InGuest, HartOk

\* An exit reaches the vector that the entry set.
LEMMA GuestTrapsStep ==
  ASSUME SwitchInv, NEW cause, NEW q, IsReq(q), q # NoReq, GuestTraps(cause, q)
  PROVE  SwitchInv'
<1> DEFINE m == Trap(hart, Sym(cause))
<1>1. InGuest /\ Common /\ hart.virt = 1
  BY Zenon, Where DEF GuestTraps
<1>2. hart' = [m EXCEPT !.csr.htinst = <<q.kind, q.reg, q.len>>] /\ req' = q
      /\ UNCHANGED <<hasH, path, probe, gen, given, caller>>
  BY Zenon DEF GuestTraps
<1>3. TrapEffect(m, hart, Sym(cause))
  BY Zenon, <1>1, TrapIs DEF Common, HartOk
<1> HIDE DEF m
<1>4. /\ IsHart(hart') /\ hart'.x = hart.x /\ hart'.mem = hart.mem
      /\ hart'.pc = hart.csr["stvec"] /\ hart'.priv = 1 /\ hart'.virt = 0
      /\ hart'.csr = [m.csr EXCEPT !["htinst"] = <<q.kind, q.reg, q.len>>] /\ DOMAIN m.csr = Csrs
  BY Zenon, <1>2, <1>3 DEF TrapEffect, IsHart
<1>5. /\ hart'.csr["htinst"] = <<q.kind, q.reg, q.len>> /\ hart'.csr["sepc"] = hart.pc
      /\ hart'.csr["sstatus"] = Sstatus(hart.priv, SIE(hart.csr["sstatus"]), 0)
      /\ hart'.csr["hstatus"] = Hstatus(1)
      /\ hart'.csr["stvec"] = hart.csr["stvec"] /\ hart'.csr["sscratch"] = hart.csr["sscratch"]
  <2>1. \A c \in Csrs \ {"htinst"} : hart'.csr[c] = m.csr[c]
    BY Zenon, <1>4
  <2>2. hart'.csr["htinst"] = <<q.kind, q.reg, q.len>>
    BY Zenon, <1>4, Named
  <2>3. QED
    BY Zenon, <1>1, <1>3, <2>1, <2>2, Named DEF TrapEffect
<1>6. \A k : C(hart', k) = C(hart, k) /\ V(hart', k) = V(hart, k)
  BY Zenon, <1>4 DEF C, V, M
<1>7. HartOk(hart')
  <2>1. Quiet(hart'.csr["sstatus"]) /\ IsStatus(hart'.csr["sstatus"])
    BY <1>1, <1>5, StatusFacts DEF Common, HartOk
  <2>2. hart'.csr["htinst"][2] \in Regs
    BY <1>5 DEF IsReq
  <2>3. QED
    BY Zenon, <1>1, <1>4, <1>6, <2>1, <2>2 DEF HartOk, Common
<1>8. AtAlltraps' \/ AtGuestExit'
  <2>1. CtxReady => CtxReady'
    BY Zenon, <1>6 DEF CtxReady
  <2>2. HypSaved => HypSaved'
    BY Zenon, <1>2, <1>6 DEF HypSaved
  <2>3. Exiting'
    BY Zenon, <1>1, <1>2, <1>4, <1>5, <2>1, <2>2 DEF Exiting, ExitReady, InGuest
  <2>4. QED
    BY Zenon, <1>1, <1>2, <1>4, <2>3 DEF AtAlltraps, AtGuestExit, At, InGuest, ExitReady
<1>9. QED
  BY Zenon, <1>1, <1>2, <1>7, <1>8 DEF SwitchInv, Common

\* What an access may be.
LEMMA AccessForm ==
  ASSUME NEW q \in Accesses
  PROVE  /\ DOMAIN q = {"kind", "reg", "len", "call"} /\ q.kind # "none"
         /\ q.reg \in Regs
         /\ q.kind = "lw" => q.reg \in LoadRegs
         /\ q.kind = "sw" => q.reg \in StoreRegs
         /\ q.kind \notin {"lw", "sw"} => q.reg = 0
<1>1. LoadRegs \subseteq Regs /\ StoreRegs \subseteq Regs /\ 0 \in Regs
  BY SwitchAssumption DEF Regs
<1> DEFINE Form(kinds, regs) == [kind : kinds, reg : regs, len : {2, 4}, call : {NoReq.call}]
<1>2. ASSUME NEW kinds, NEW regs, q \in Form(kinds, regs)
      PROVE  /\ DOMAIN q = {"kind", "reg", "len", "call"}
             /\ q.kind \in kinds /\ q.reg \in regs
  BY <1>2
<1>3. \/ q \in Form({"lw"}, LoadRegs)
      \/ q \in Form({"sw"}, StoreRegs)
      \/ q \in Form({"beyond", "other"}, {0})
  BY Zenon DEF Accesses
<1> HIDE DEF Form
<1>4. CASE q \in Form({"lw"}, LoadRegs)
  BY <1>1, <1>2, <1>4
<1>5. CASE q \in Form({"sw"}, StoreRegs)
  BY <1>1, <1>2, <1>5
<1>6. CASE q \in Form({"beyond", "other"}, {0})
  BY <1>1, <1>2, <1>6
<1>7. QED
  BY Zenon, <1>3, <1>4, <1>5, <1>6

\* Each kind of exit.
LEMMA GuestExitsStep ==
  ASSUME SwitchInv, GuestExits
  PROVE  SwitchInv'
<1>0. IsReq(req) /\ Common
  BY Zenon, Where DEF Common
<1>1. CASE req.kind = "calling" /\ GuestTraps("ecall", [req EXCEPT !.kind = "ecall"])
  <2>1. IsReq([req EXCEPT !.kind = "ecall"]) /\ [req EXCEPT !.kind = "ecall"] # NoReq
    BY Zenon, <1>0 DEF IsReq, NoReq
  <2>2. QED
    BY Zenon, <1>1, <2>1, GuestTrapsStep
<1>2. ASSUME NEW q \in Accesses, GuestTraps("page_fault", q) PROVE SwitchInv'
  <2>1. IsReq(q) /\ q # NoReq
    BY AccessForm DEF IsReq, NoReq
  <2>2. QED
    BY Zenon, <1>2, <2>1, GuestTrapsStep
<1>3. CASE GuestTraps("illegal", [NoReq EXCEPT !.kind = "illegal"])
  <2>1. IsReq([NoReq EXCEPT !.kind = "illegal"]) /\ [NoReq EXCEPT !.kind = "illegal"] # NoReq
    BY DEF IsReq, NoReq, Regs
  <2>2. QED
    BY Zenon, <1>3, <2>1, GuestTrapsStep
<1>4. CASE GuestTraps("irq", [NoReq EXCEPT !.kind = "irq"])
  <2>1. IsReq([NoReq EXCEPT !.kind = "irq"]) /\ [NoReq EXCEPT !.kind = "irq"] # NoReq
    BY DEF IsReq, NoReq, Regs
  <2>2. QED
    BY Zenon, <1>4, <2>1, GuestTrapsStep
<1>5. QED
  BY Zenon, <1>1, <1>2, <1>3, <1>4 DEF GuestExits

\* One word of the context written.
CtxSet(g, f, j, w) ==
  /\ DOMAIN g = Addresses
  /\ \A k \in 0 .. 37 : g[Add(TRAP_CONTEXT, k)] = IF k = j THEN w ELSE f[Add(TRAP_CONTEXT, k)]
  /\ \A k \in 0 .. 72 : g[Add(VmCpu, k)] = f[Add(VmCpu, k)]

\* An update of one slot of the context.
LEMMA CtxUpdate ==
  ASSUME NEW f, DOMAIN f = Addresses, NEW j \in 0 .. 37, NEW w
  PROVE  CtxSet([f EXCEPT ![Add(TRAP_CONTEXT, j)] = w], f, j, w)
<1>1. ASSUME NEW k \in 0 .. 37
      PROVE  /\ Add(TRAP_CONTEXT, k) \in Addresses
             /\ Add(TRAP_CONTEXT, k) = Add(TRAP_CONTEXT, j) <=> k = j
  <2>1. Add(TRAP_CONTEXT, k) \in Addresses
    BY Zenon, Objects DEF Offsets
  <2>2. Add(TRAP_CONTEXT, k)[3] = k /\ Add(TRAP_CONTEXT, j)[3] = j
    BY AddParts, Objects
  <2>3. QED
    BY Zenon, <2>1, <2>2
<1>2. ASSUME NEW k \in 0 .. 72
      PROVE  Add(VmCpu, k) \in Addresses /\ Add(VmCpu, k) # Add(TRAP_CONTEXT, j)
  <2>1. Add(VmCpu, k) \in Addresses
    BY Zenon, Objects DEF Offsets
  <2>2. Add(VmCpu, k)[1] = "vm" /\ Add(TRAP_CONTEXT, j)[1] = "ctx"
    BY Zenon, AddParts, Objects
  <2>3. QED
    BY Zenon, <2>1, <2>2
<1>3. QED
  BY Zenon, <1>1, <1>2 DEF CtxSet

\* What a handler may do to the memory.
Kept(mem) ==
  /\ DOMAIN mem = Addresses
  /\ \A k \in {SlotSstatus, SlotKernelSp, SlotHandler, SlotHstatus} :
       mem[Add(TRAP_CONTEXT, k)] = C(hart, k)
  /\ IsGuestPc(mem[Add(TRAP_CONTEXT, SlotSepc)])
  /\ \A k \in 0 .. 72 : mem[Add(VmCpu, k)] = V(hart, k)

\* A handler that keeps what Kept says returns through switch_to_guest.
LEMMA ServedStep ==
  ASSUME SwitchInv, At("trap_handler"), NEW mem, Kept(mem), Served(mem)
  PROVE  SwitchInv'
<1> DEFINE m1 == [hart EXCEPT !.mem = mem, !.x[sp] = Add(@, -4)]
           m2 == Clobber(set_kernel_trap_entry(m1), RustRegs)
<1>1. AtTrapHandler /\ Common
  BY Zenon, Where
<1>2. hart' = Goto(m2, "switch_to_guest") /\ UNCHANGED <<hasH, path, probe, gen, req, caller>>
  BY Zenon DEF Served
<1>3. /\ IsHart(m1) /\ m1.x[0] = Zero /\ m1.csr = hart.csr /\ m1.mem = mem
      /\ m1.priv = hart.priv /\ m1.virt = hart.virt
  BY <1>1, Named DEF Common, HartOk, IsHart, Kept
<1> HIDE DEF m1
<1>4. RustEffect(m2, m1)
  BY Zenon, <1>3, RustDoes
<1> HIDE DEF m2
<1>5. /\ IsHart(hart') /\ hart'.x = m2.x /\ hart'.csr = m2.csr /\ hart'.mem = mem
      /\ hart'.pc = Sym("switch_to_guest") /\ hart'.priv = hart.priv /\ hart'.virt = 0
  <2>1. IsHart(m2) /\ m2.mem = m1.mem /\ m2.priv = m1.priv /\ m2.virt = m1.virt
    BY Zenon, <1>3, <1>4 DEF RustEffect, Becomes
  <2>2. hart.virt = 0
    BY Zenon, <1>1 DEF AtTrapHandler
  <2>3. QED
    BY <1>2, <1>3, <2>1, <2>2, GotoIs
<1>6. /\ \A k \in {SlotSstatus, SlotKernelSp, SlotHandler, SlotHstatus} : C(hart', k) = C(hart, k)
      /\ IsGuestPc(C(hart', SlotSepc)) /\ V(hart', 32) = V(hart, 32) /\ V(hart', 69) = V(hart, 69)
  <2>1. Kept(mem)
    BY Zenon, <1>1
  <2>2. /\ \A k \in {SlotSstatus, SlotKernelSp, SlotHandler, SlotHstatus} : C(hart', k) = C(hart, k)
        /\ IsGuestPc(C(hart', SlotSepc))
    BY Zenon, <1>5, <2>1 DEF Kept, C, M
  <2>3. \A k \in 0 .. 72 : V(hart', k) = V(hart, k)
    BY Zenon, <1>5, <2>1 DEF Kept, V, M
  <2>4. QED
    BY SMTT(30), <2>2, <2>3
<1>7. /\ hart'.csr["sstatus"] = hart.csr["sstatus"] /\ hart'.csr["htinst"] = hart.csr["htinst"]
      /\ hart'.x[0] = Zero
  BY Zenon, <1>3, <1>4, <1>5, Named DEF RustEffect
<1>8. HartOk(hart')
  BY Zenon, <1>1, <1>5, <1>6, <1>7 DEF HartOk, Common, AtTrapHandler
<1>9. AtSwitch'
  BY Zenon, <1>1, <1>2, <1>5, <1>6 DEF AtSwitch, At, AtTrapHandler, CtxReady, CtxHolds
<1>10. QED
  BY Zenon, <1>1, <1>2, <1>8, <1>9 DEF SwitchInv, Common

\* An SBI call that the handler panics on.
LEMMA PanicStep ==
  ASSUME SwitchInv, At("trap_handler"), Panic
  PROVE  SwitchInv'
<1> DEFINE m == Clobber(set_kernel_trap_entry(hart), RustRegs)
<1>1. AtTrapHandler /\ Common
  BY Zenon, Where
<1>2. hart' = Goto(m, "panic") /\ UNCHANGED <<hasH, path, probe, gen, req, given, caller>>
  BY Zenon DEF Panic
<1>3. RustEffect(m, hart)
  BY Zenon, <1>1, RustDoes DEF Common, HartOk
<1> HIDE DEF m
<1>4. /\ IsHart(hart') /\ hart'.x = m.x /\ hart'.csr = m.csr /\ hart'.mem = hart.mem
      /\ hart'.pc = Sym("panic") /\ hart'.priv = hart.priv /\ hart'.virt = 0
  <2>1. IsHart(m) /\ m.mem = hart.mem /\ m.priv = hart.priv /\ m.virt = 0
    BY Zenon, <1>1, <1>3 DEF RustEffect, Becomes, AtTrapHandler
  <2>2. QED
    BY Zenon, <1>2, <2>1, GotoIs
<1>5. \A k : C(hart', k) = C(hart, k) /\ V(hart', k) = V(hart, k)
  BY Zenon, <1>4 DEF C, V, M
<1>6. HartOk(hart')
  <2>1. /\ hart'.csr["sstatus"] = hart.csr["sstatus"] /\ hart'.csr["htinst"] = hart.csr["htinst"]
        /\ hart'.x[0] = Zero
    BY Zenon, <1>1, <1>3, <1>4, Named DEF RustEffect, Common, HartOk
  <2>2. QED
    BY Zenon, <1>1, <1>4, <1>5, <2>1 DEF HartOk, Common, AtTrapHandler
<1>7. AtPanic'
  <2>1. Sym("panic") # Sym("probed")
    BY Zenon DEF Sym
  <2>2. QED
    BY Zenon, <1>1, <1>2, <1>4, <2>1 DEF AtPanic, At, ProbeUndone, AtTrapHandler
<1>8. QED
  BY Zenon, <1>1, <1>2, <1>6, <1>7 DEF SwitchInv, Common

\* The words of the context in S written, and nothing else of what is modelled.
Writes(f, S) ==
  /\ DOMAIN f = Addresses
  /\ \A k \in (0 .. 37) \ S : f[Add(TRAP_CONTEXT, k)] = C(hart, k)
  /\ \A k \in 0 .. 72 : f[Add(VmCpu, k)] = V(hart, k)

\* A handler that writes registers and sepc only keeps what the switch needs.
LEMMA WritesKeep ==
  ASSUME NEW f, NEW S, Writes(f, S), S \subseteq Regs \cup {SlotSepc},
         IsGuestPc(f[Add(TRAP_CONTEXT, SlotSepc)])
  PROVE  Kept(f)
<1>1. {SlotSstatus, SlotKernelSp, SlotHandler, SlotHstatus} \subseteq (0 .. 37) \ S
  BY DEF SlotSepc, SlotSstatus, SlotKernelSp, SlotHandler, SlotHstatus, Regs
<1>2. QED
  BY Zenon, <1>1 DEF Writes, Kept

\* sbi_vs_handler writes a0, a1 and sepc of the context.
SbiMem(e, v) ==
  [hart.mem EXCEPT ![Add(TRAP_CONTEXT, GprIndex.A0)] = e,
                   ![Add(TRAP_CONTEXT, GprIndex.A1)] = v,
                   ![Add(TRAP_CONTEXT, SlotSepc)] = Add(@, 4)]

\* It writes these words and no other.
LEMMA SbiWrites ==
  ASSUME HartOk(hart), NEW e, NEW v
  PROVE  /\ Writes(SbiMem(e, v), {10, 11, SlotSepc})
         /\ SbiMem(e, v)[Add(TRAP_CONTEXT, SlotSepc)] = Add(C(hart, SlotSepc), 4)
<1> DEFINE f1 == [hart.mem EXCEPT ![Add(TRAP_CONTEXT, 10)] = e]
           f2 == [f1 EXCEPT ![Add(TRAP_CONTEXT, 11)] = v]
           f3 == [f2 EXCEPT ![Add(TRAP_CONTEXT, SlotSepc)] = Add(f2[Add(TRAP_CONTEXT, SlotSepc)], 4)]
<1>1. SbiMem(e, v) = f3
  BY RegNumbers DEF SbiMem
<1>2. SlotSepc \in 0 .. 37 /\ 10 \in 0 .. 37 /\ 11 \in 0 .. 37 /\ SlotSepc # 10 /\ SlotSepc # 11
  BY DEF SlotSepc
<1>3. CtxSet(f1, hart.mem, 10, e)
  BY Zenon, <1>2, CtxUpdate DEF HartOk, IsHart
<1> HIDE DEF f1
<1>4. CtxSet(f2, f1, 11, v)
  <2>1. DOMAIN f1 = Addresses
    BY Zenon, <1>3 DEF CtxSet
  <2>2. QED
    BY Zenon, <1>2, <2>1, CtxUpdate
<1> HIDE DEF f2
<1>5. CtxSet(f3, f2, SlotSepc, Add(f2[Add(TRAP_CONTEXT, SlotSepc)], 4))
  <2>1. DOMAIN f2 = Addresses
    BY Zenon, <1>4 DEF CtxSet
  <2>2. QED
    BY Zenon, <1>2, <2>1, CtxUpdate
<1> HIDE DEF f3
<1>6. ASSUME NEW k \in (0 .. 37) \ {10, 11}
      PROVE  f2[Add(TRAP_CONTEXT, k)] = C(hart, k)
  BY Zenon, <1>3, <1>4 DEF CtxSet, C, M
<1>7. \A k \in (0 .. 37) \ {10, 11, SlotSepc} : f3[Add(TRAP_CONTEXT, k)] = C(hart, k)
  BY Zenon, <1>5, <1>6 DEF CtxSet
<1>8. f3[Add(TRAP_CONTEXT, SlotSepc)] = Add(C(hart, SlotSepc), 4)
  BY Zenon, <1>2, <1>5, <1>6 DEF CtxSet
<1>9. \A k \in 0 .. 72 : f3[Add(VmCpu, k)] = V(hart, k)
  BY Zenon, <1>3, <1>4, <1>5 DEF CtxSet, V, M
<1>10. QED
  BY Zenon, <1>1, <1>5, <1>7, <1>8, <1>9 DEF Writes, CtxSet

\* sbi_vs_handler panics, or returns to the guest behind its ecall.
LEMMA SbiStep ==
  ASSUME SwitchInv, sbi_vs_handler
  PROVE  SwitchInv'
<1>1. At("trap_handler")
  BY Zenon DEF sbi_vs_handler, Cause
<1>2. AtTrapHandler /\ HartOk(hart)
  BY Zenon, <1>1, Where DEF Common
<1>3. ASSUME NEW e, NEW v, Served(SbiMem(e, v))
      PROVE  SwitchInv'
  <2>1. /\ Writes(SbiMem(e, v), {10, 11, SlotSepc})
        /\ SbiMem(e, v)[Add(TRAP_CONTEXT, SlotSepc)] = Add(C(hart, SlotSepc), 4)
    BY Zenon, <1>2, SbiWrites
  <2>2. IsGuestPc(Add(C(hart, SlotSepc), 4))
    BY <1>2, AddParts DEF IsGuestPc, AtTrapHandler, CtxHolds
  <2>3. {10, 11, SlotSepc} \subseteq Regs \cup {SlotSepc}
    BY DEF Regs
  <2>4. Kept(SbiMem(e, v))
    BY Zenon, <2>1, <2>2, <2>3, WritesKeep
  <2>5. QED
    BY Zenon, <1>1, <1>3, <2>4, ServedStep
<1>4. QED
  BY Zenon, <1>1, <1>3, PanicStep DEF sbi_vs_handler, SbiMem

\* handle_plic_access steps over the instruction, and a load writes its register.
PlicMem == [hart.mem EXCEPT ![Add(TRAP_CONTEXT, SlotSepc)] = Add(@, hart.csr.htinst[3])]
PlicLoad == [PlicMem EXCEPT ![Add(TRAP_CONTEXT, hart.csr.htinst[2])] = Sym("claim")]

\* It writes sepc and one register's slot, which is none of the slots of the CSRs
\* whatever register the instruction names.
LEMMA PlicWrites ==
  ASSUME HartOk(hart)
  PROVE  /\ Writes(PlicMem, {SlotSepc})
         /\ PlicMem[Add(TRAP_CONTEXT, SlotSepc)] = Add(C(hart, SlotSepc), hart.csr.htinst[3])
         /\ Writes(PlicLoad, {SlotSepc, hart.csr.htinst[2]})
         /\ PlicLoad[Add(TRAP_CONTEXT, SlotSepc)] = Add(C(hart, SlotSepc), hart.csr.htinst[3])
         /\ PlicLoad[Add(TRAP_CONTEXT, hart.csr.htinst[2])] = Sym("claim")
<1> DEFINE inst == hart.csr.htinst
<1>1. inst[2] \in 0 .. 37 /\ SlotSepc \in 0 .. 37 /\ inst[2] # SlotSepc
  BY DEF HartOk, Regs, SlotSepc
<1>2. CtxSet(PlicMem, hart.mem, SlotSepc, Add(C(hart, SlotSepc), inst[3]))
  BY Zenon, <1>1, CtxUpdate DEF PlicMem, HartOk, IsHart, C, M
<1>3. CtxSet(PlicLoad, PlicMem, inst[2], Sym("claim"))
  <2>1. DOMAIN PlicMem = Addresses
    BY Zenon, <1>2 DEF CtxSet
  <2>2. QED
    BY Zenon, <1>1, <2>1, CtxUpdate DEF PlicLoad
<1> HIDE DEF inst
<1>4. /\ \A k \in (0 .. 37) \ {SlotSepc} : PlicMem[Add(TRAP_CONTEXT, k)] = C(hart, k)
      /\ PlicMem[Add(TRAP_CONTEXT, SlotSepc)] = Add(C(hart, SlotSepc), inst[3])
      /\ \A k \in 0 .. 72 : PlicMem[Add(VmCpu, k)] = V(hart, k)
  BY Zenon, <1>1, <1>2 DEF CtxSet, C, V, M
<1>5. /\ \A k \in (0 .. 37) \ {SlotSepc, inst[2]} : PlicLoad[Add(TRAP_CONTEXT, k)] = C(hart, k)
      /\ PlicLoad[Add(TRAP_CONTEXT, SlotSepc)] = Add(C(hart, SlotSepc), inst[3])
      /\ PlicLoad[Add(TRAP_CONTEXT, inst[2])] = Sym("claim")
      /\ \A k \in 0 .. 72 : PlicLoad[Add(VmCpu, k)] = V(hart, k)
  BY Zenon, <1>1, <1>3, <1>4 DEF CtxSet
<1>6. QED
  BY Zenon, <1>2, <1>3, <1>4, <1>5 DEF Writes, CtxSet, inst

\* handle_plic_access returns to the guest behind the access, or panics.
LEMMA PlicAccessStep ==
  ASSUME SwitchInv, handle_plic_access
  PROVE  SwitchInv'
<1>1. At("trap_handler") /\ (Served(PlicMem) \/ Served(PlicLoad) \/ Panic)
  BY Zenon DEF handle_plic_access, Cause, PlicMem, PlicLoad
<1>2. AtTrapHandler /\ HartOk(hart)
  BY Zenon, <1>1, Where DEF Common
<1>3. IsGuestPc(Add(C(hart, SlotSepc), hart.csr.htinst[3]))
  BY <1>2, AddParts DEF IsGuestPc, AtTrapHandler, CtxHolds
<1>4. {SlotSepc} \subseteq Regs \cup {SlotSepc} /\ {SlotSepc, hart.csr.htinst[2]} \subseteq Regs \cup {SlotSepc}
  BY Zenon, <1>2 DEF HartOk
<1>5. Kept(PlicMem)
  BY Zenon, <1>2, <1>3, <1>4, PlicWrites, WritesKeep
<1>6. Kept(PlicLoad)
  BY Zenon, <1>2, <1>3, <1>4, PlicWrites, WritesKeep
<1>7. QED
  BY Zenon, <1>1, <1>5, <1>6, ServedStep, PanicStep

\* forward_exception writes sepc.
ForwardMem == [hart.mem EXCEPT ![Add(TRAP_CONTEXT, SlotSepc)] = Sym("vstvec")]

\* It writes nothing else.
LEMMA ForwardWrites ==
  ASSUME HartOk(hart)
  PROVE  Writes(ForwardMem, {SlotSepc}) /\ ForwardMem[Add(TRAP_CONTEXT, SlotSepc)] = Sym("vstvec")
<1>1. SlotSepc \in 0 .. 37
  BY DEF SlotSepc
<1>2. CtxSet(ForwardMem, hart.mem, SlotSepc, Sym("vstvec"))
  BY Zenon, <1>1, CtxUpdate DEF ForwardMem, HartOk, IsHart
<1>3. QED
  BY Zenon, <1>1, <1>2 DEF CtxSet, Writes, C, V, M

\* forward_exception sends the guest to its vector.
LEMMA ForwardStep ==
  ASSUME SwitchInv, forward_exception
  PROVE  SwitchInv'
<1>1. At("trap_handler") /\ Served(ForwardMem)
  BY Zenon DEF forward_exception, Cause, ForwardMem
<1>2. HartOk(hart)
  BY Zenon, Where DEF Common
<1>3. IsGuestPc(Sym("vstvec"))
  BY DEF IsGuestPc, Sym
<1>4. Kept(ForwardMem)
  BY Zenon, <1>2, <1>3, ForwardWrites, WritesKeep
<1>5. QED
  BY Zenon, <1>1, <1>4, ServedStep

\* An interrupt leaves the context alone.
LEMMA InterruptStep ==
  ASSUME SwitchInv, interrupt
  PROVE  SwitchInv'
<1>1. At("trap_handler") /\ Served(hart.mem)
  BY Zenon DEF interrupt, Cause
<1>2. AtTrapHandler /\ HartOk(hart)
  BY Zenon, <1>1, Where DEF Common
<1>3. Kept(hart.mem)
  BY Zenon, <1>2 DEF Kept, C, V, M, AtTrapHandler, CtxHolds, HartOk, IsHart
<1>4. QED
  BY Zenon, <1>1, <1>3, ServedStep

\* A fault of the handler traps to __alltraps_k on the hypervisor's stack.
LEMMA KernelFaultStep ==
  ASSUME SwitchInv, kernel_fault
  PROVE  SwitchInv'
<1> DEFINE m1 == Clobber(set_kernel_trap_entry(hart), RustRegs)
           m2 == [m1 EXCEPT !.x[sp] = Add(@, -4), !.pc = Sym("rust_access")]
<1>1. AtTrapHandler /\ Common
  BY Zenon, Where DEF kernel_fault, Cause
<1>2. hart' = Trap(m2, Sym("LoadFault")) /\ UNCHANGED <<hasH, path, probe, gen, req, given, caller>>
  BY Zenon DEF kernel_fault
<1>3. RustEffect(m1, hart)
  BY Zenon, <1>1, RustDoes DEF Common, HartOk
<1> HIDE DEF m1
<1>4. /\ IsHart(m2) /\ m2.x[0] = Zero /\ m2.x[sp] = Add(HStackTop, -4) /\ m2.csr = m1.csr
      /\ m2.mem = hart.mem /\ m2.pc = Sym("rust_access") /\ m2.priv = hart.priv /\ m2.virt = 0
  <2>1. /\ IsHart(m1) /\ m1.mem = hart.mem /\ m1.priv = hart.priv /\ m1.virt = 0
        /\ m1.x[0] = Zero /\ m1.x[sp] = HStackTop
    BY Zenon, <1>1, <1>3 DEF RustEffect, Becomes, AtTrapHandler, Common, HartOk
  <2>2. QED
    BY <2>1, Named DEF IsHart
<1> HIDE DEF m2
<1>5. TrapEffect(hart', m2, Sym("LoadFault"))
  BY Zenon, <1>2, <1>4, TrapIs
<1>6. /\ m1.csr["stvec"] = Sym("__alltraps_k") /\ m1.csr["sscratch"] = Sym("trap_from_kernel")
      /\ m1.csr["sstatus"] = hart.csr["sstatus"] /\ m1.csr["htinst"] = hart.csr["htinst"]
  BY Zenon, <1>3, Named DEF RustEffect
<1>7. /\ IsHart(hart') /\ hart'.x[0] = Zero /\ hart'.x[sp] = Add(HStackTop, -4)
      /\ hart'.mem = hart.mem /\ hart'.pc = Sym("__alltraps_k") /\ hart'.priv = 1 /\ hart'.virt = 0
      /\ hart'.csr["sepc"] = Sym("rust_access") /\ hart'.csr["sscratch"] = Sym("trap_from_kernel")
      /\ hart'.csr["htinst"] = hart.csr["htinst"]
      /\ hart'.csr["sstatus"] = Sstatus(hart.priv, SIE(hart.csr["sstatus"]), 0)
  BY Zenon, <1>4, <1>5, <1>6, Named DEF TrapEffect
<1>8. \A k : C(hart', k) = C(hart, k) /\ V(hart', k) = V(hart, k)
  BY Zenon, <1>7 DEF C, V, M
<1>9. HartOk(hart')
  <2>1. Quiet(hart'.csr["sstatus"]) /\ IsStatus(hart'.csr["sstatus"])
    BY <1>1, <1>7, StatusFacts DEF Common, HartOk
  <2>2. QED
    BY Zenon, <1>1, <1>7, <1>8, <2>1 DEF HartOk, Common
<1>10. AtKernelTrap'
  BY Zenon, <1>7 DEF AtKernelTrap, At
<1>11. QED
  BY Zenon, <1>1, <1>2, <1>9, <1>10 DEF SwitchInv, Common

\* The VmCpuRegisters that _run_guest is called with hold a guest to enter.
VmReady(m) == Quiet(V(m, 32)) /\ Quiet(V(m, 69)) /\ V(m, 70) = Hstatus(1) /\ IsGuestPc(V(m, 72))

\* It is the one that the guest boots with: a0 is the word that was there.
VmNew(m) ==
  /\ V(m, 47) = V(hart, 47) /\ V(m, 48) = GUEST_DTB_ADDR
  /\ V(m, 69) = Sstatus(1, 0, 0) /\ V(m, 72) = GUEST_START_VA

\* A new VmCpuRegisters holds a guest to enter.
LEMMA NewVmReady ==
  ASSUME NEW m, HartOk(hart), m.mem = [a \in Addresses |-> NewVmCpu(a)]
  PROVE  VmReady(m) /\ VmNew(m) /\ \A k \in 0 .. 37 : C(m, k) = C(hart, k)
<1>1. /\ \A k \in 0 .. 72 : Add(VmCpu, k) \in Addresses
      /\ \A k : Add(VmCpu, k)[3] = 0 + k
  BY AddParts, Objects DEF Offsets
<1>2. /\ \A k \in {48, 69, 70, 71, 72} : Add(VmCpu, 32) # Add(VmCpu, k)
      /\ \A k \in {48, 70, 71, 72} : Add(VmCpu, 69) # Add(VmCpu, k)
      /\ \A k \in {48, 69, 71, 72} : Add(VmCpu, 70) # Add(VmCpu, k)
      /\ \A k \in {48, 69, 70, 71} : Add(VmCpu, 72) # Add(VmCpu, k)
      /\ \A k \in {48, 69, 70, 71, 72} : Add(VmCpu, 47) # Add(VmCpu, k)
      /\ \A k \in {69, 70, 71, 72} : Add(VmCpu, 48) # Add(VmCpu, k)
  BY <1>1
<1>3. guest_gpr_offset(GprIndex.A1) = 48
  BY RegNumbers DEF guest_gpr_offset, GuestRegs
<1>4. /\ NewVmCpu(Add(VmCpu, 69)) = Sstatus(1, 0, 0)
      /\ NewVmCpu(Add(VmCpu, 70)) = Hstatus(1)
      /\ NewVmCpu(Add(VmCpu, 72)) = Sym("guest_entry")
      /\ NewVmCpu(Add(VmCpu, 32)) = hart.mem[Add(VmCpu, 32)]
  BY <1>2, <1>3, Layout DEF NewVmCpu, GUEST_START_VA
<1>b. /\ NewVmCpu(Add(VmCpu, 47)) = hart.mem[Add(VmCpu, 47)]
      /\ NewVmCpu(Add(VmCpu, 48)) = GUEST_DTB_ADDR
  BY <1>2, <1>3, Layout DEF NewVmCpu
<1>5. /\ V(m, 69) = Sstatus(1, 0, 0) /\ V(m, 70) = Hstatus(1)
      /\ V(m, 72) = Sym("guest_entry") /\ V(m, 32) = V(hart, 32)
      /\ V(m, 47) = V(hart, 47) /\ V(m, 48) = GUEST_DTB_ADDR
  BY <1>1, <1>4, <1>b DEF V, M
<1>6. ASSUME NEW k \in 0 .. 37
      PROVE  C(m, k) = C(hart, k)
  <2>1. Add(TRAP_CONTEXT, k) \in Addresses /\ Add(TRAP_CONTEXT, k)[1] = "ctx"
    BY Zenon, AddParts, Objects DEF Offsets
  <2>2. \A j : Add(VmCpu, j)[1] = "vm"
    BY Zenon, AddParts, Objects
  <2>3. NewVmCpu(Add(TRAP_CONTEXT, k)) = hart.mem[Add(TRAP_CONTEXT, k)]
    BY <2>1, <2>2 DEF NewVmCpu
  <2>4. QED
    BY Zenon, <2>1, <2>3 DEF C, M
<1>7. VmNew(m)
  BY Zenon, <1>5 DEF VmNew, GUEST_START_VA
<1>8. QED
  BY <1>5, <1>6, <1>7, StatusFacts DEF VmReady, HartOk, IsGuestPc, Sym

\* _run_guest is called with a guest to enter: a new one or the one that exited.
LEMMA RunGuestMakes ==
  ASSUME SwitchInv, run_guest
  PROVE  /\ hart' = Sret(run_guest_program(caller')) /\ UNCHANGED <<hasH, path, probe, gen, req, given>>
         /\ RunGuestEffect(run_guest_program(caller'), caller')
         /\ IsHart(caller') /\ caller'.csr = hart.csr
         /\ caller'.x[0] = Zero /\ caller'.x[1] = Sym("caller")
         /\ VmReady(caller') /\ \A k \in 0 .. 37 : C(caller', k) = C(hart, k)
         /\ IF At("probed") THEN VmNew(caller') ELSE AtCaller /\ caller'.mem = hart.mem
<1> DEFINE x == [Clobber(hart, RustRegs).x EXCEPT ![a0] = VmCpu, ![GprIndex.RA] = Sym("caller")]
           mem == IF At("probed") THEN [a \in Addresses |-> NewVmCpu(a)] ELSE hart.mem
           m == caller'
           n == run_guest_program(m)
<1>1. Common /\ path = "guest.S" /\ (AtProbed \/ AtCaller)
  BY Zenon, Where DEF run_guest
<1>2. hart' = Sret(n) /\ UNCHANGED <<hasH, path, probe, gen, req, given>>
  BY Zenon DEF run_guest
<1>3. /\ IsHart(m) /\ m.x = x /\ m.csr = hart.csr /\ m.mem = mem
  <2>1. /\ m.x = x /\ m.csr = hart.csr /\ m.mem = mem
        /\ DOMAIN m = {"x", "csr", "mem", "pc", "priv", "virt"}
    BY Zenon, <1>1 DEF run_guest, Clobber, Common, HartOk, IsHart
  <2>2. DOMAIN x = Regs /\ DOMAIN mem = Addresses
    BY Zenon, <1>1 DEF Clobber, Common, HartOk, IsHart
  <2>3. QED
    BY Zenon, <1>1, <2>1, <2>2 DEF Common, HartOk, IsHart
<1>4. x[0] = Zero /\ x[1] = Sym("caller") /\ x[a0] = VmCpu
  <2> DEFINE c == Clobber(hart, RustRegs).x
  <2>1. c = [r \in Regs |-> IF r \in RustRegs THEN <<"rust", gen, r>> ELSE hart.x[r]]
    BY Zenon, <1>1 DEF Clobber, Common, HartOk, IsHart
  <2>2. 0 \in Regs /\ 1 \in Regs /\ 0 \notin RustRegs
    BY DEF Regs, RustRegs
  <2>3. DOMAIN c = Regs /\ c[0] = Zero
    BY Zenon, <1>1, <2>1, <2>2 DEF Common, HartOk
  <2> HIDE DEF c
  <2>4. a0 = 10 /\ GprIndex.RA = 1 /\ a0 \in Regs
    BY Zenon, RegNumbers, Named
  <2>5. x = [c EXCEPT ![a0] = VmCpu, ![GprIndex.RA] = Sym("caller")]
    BY Zenon DEF c
  <2> HIDE DEF x
  <2>6. QED
    BY <2>2, <2>3, <2>4, <2>5
<1> HIDE DEF x, m
<1>5. /\ VmReady(m) /\ \A k \in 0 .. 37 : C(m, k) = C(hart, k)
      /\ IF At("probed") THEN VmNew(m) ELSE AtCaller /\ m.mem = hart.mem
  <2>1. CASE At("probed")
    BY Zenon, <1>1, <1>3, <2>1, NewVmReady DEF Common
  <2>2. CASE ~At("probed")
    <3>1. AtCaller /\ m.mem = hart.mem
      BY Zenon, <1>1, <1>3, <2>2 DEF AtProbed
    <3>2. QED
      BY Zenon, <1>1, <2>2, <3>1 DEF AtCaller, VmReady, V, C, M, Common, HartOk
  <2>3. QED
    BY Zenon, <2>1, <2>2
<1> HIDE DEF mem
<1>6. RunGuestEffect(n, m)
  <2>1. On(m, a0, VmCpu)
    BY <1>3, <1>4, Named, Objects DEF On
  <2>2. QED
    BY Zenon, <2>1, RunGuestDoes
<1>7. QED
  BY Zenon, <1>2, <1>3, <1>4, <1>5, <1>6 DEF m, n

\* _run_guest saves its caller and enters the guest.
LEMMA RunGuestStep ==
  ASSUME SwitchInv, run_guest
  PROVE  SwitchInv'
<1> DEFINE m == caller'
           n == run_guest_program(m)
<1>1. Common /\ path = "guest.S" /\ (AtProbed \/ AtCaller)
  BY Zenon, Where DEF run_guest
<1>2. hart' = Sret(n) /\ UNCHANGED <<hasH, path, probe, gen, req, given>>
  BY Zenon, RunGuestMakes
<1>3. IsHart(m) /\ m.csr = hart.csr /\ m.x[0] = Zero /\ m.x[1] = Sym("caller")
  BY Zenon, RunGuestMakes
<1>4. VmReady(m) /\ \A k \in 0 .. 37 : C(m, k) = C(hart, k)
  BY Zenon, RunGuestMakes
<1>5. RunGuestEffect(n, m)
  BY Zenon, RunGuestMakes
<1> HIDE DEF m, n
<1>6. SretEffect(hart', n)
  BY Zenon, <1>2, <1>5, SretIs DEF RunGuestEffect, Becomes
<1>7. /\ IsHart(hart') /\ hart'.x = n.x /\ hart'.mem = n.mem
      /\ hart'.pc = V(m, 72) /\ hart'.priv \in {0, 1} /\ hart'.virt = 1
      /\ IsStatus(hart'.csr["sstatus"])
      /\ hart'.csr["stvec"] = Sym("_guest_exit") /\ hart'.csr["sscratch"] = VmCpu
      /\ hart'.csr["htinst"] = hart.csr["htinst"]
  <2>1. /\ n.csr["sstatus"] = V(m, 69) /\ n.csr["hstatus"] = Hstatus(1) /\ n.csr["sepc"] = V(m, 72)
        /\ n.csr["stvec"] = Sym("_guest_exit") /\ n.csr["sscratch"] = VmCpu
        /\ n.csr["htinst"] = hart.csr["htinst"]
    BY Zenon, <1>3, <1>4, <1>5 DEF RunGuestEffect, VmReady
  <2>2. SPP(V(m, 69)) \in {0, 1} /\ SPIE(V(m, 69)) \in {0, 1} /\ SPV(Hstatus(1)) = 1
    BY Zenon, <1>4, StatusFacts DEF VmReady
  <2>3. IsStatus(Sstatus(0, 1, SPIE(V(m, 69))))
    BY Zenon, <2>2, StatusFacts
  <2>4. QED
    BY Zenon, <1>6, <2>1, <2>2, <2>3, Named DEF SretEffect
<1>8. \A k : C(hart', k) = C(n, k) /\ V(hart', k) = V(n, k)
  BY Zenon, <1>7 DEF C, V, M
<1>9. HartOk(hart')
  <2>1. hart'.x[0] = Zero
    BY Zenon, <1>3, <1>5, <1>7 DEF RunGuestEffect
  <2>2. C(hart', SlotSstatus) = C(hart, SlotSstatus)
    <3>1. C(n, SlotSstatus) = C(m, SlotSstatus)
      BY SMTT(30), <1>5, Apart DEF RunGuestEffect, SlotSstatus
    <3>2. C(m, SlotSstatus) = C(hart, SlotSstatus)
      BY <1>4 DEF SlotSstatus
    <3>3. QED
      BY Zenon, <1>8, <3>1, <3>2
  <2>3. V(hart', 32) = hart.csr["sstatus"] /\ V(hart', 69) = V(m, 69)
    BY <1>3, <1>5, <1>8 DEF RunGuestEffect
  <2>4. Quiet(hart.csr["sstatus"])
    BY Zenon, <1>1 DEF Common, HartOk, AtProbed, Booting, AtCaller
  <2>5. QED
    BY <1>1, <1>4, <1>7, <2>1, <2>2, <2>3, <2>4 DEF HartOk, Common, VmReady
<1>10. HypSaved'
  <2>1. caller' = m /\ m.x[0] = Zero /\ m.x[1] = Sym("caller")
    BY Zenon, <1>3 DEF m
  <2>2. \A r \in HypGprs : V(n, r) = m.x[r]
    BY Zenon, <1>5 DEF RunGuestEffect
  <2>3. \A c \in DOMAIN HypCsr : V(n, HypCsr[c]) = m.csr[c]
    BY <1>5, Layout DEF RunGuestEffect
  <2>4. QED
    BY Zenon, <1>8, <2>1, <2>2, <2>3 DEF HypSaved
<1>11. InGuest'
  BY Zenon, <1>1, <1>2, <1>4, <1>7, <1>10 DEF InGuest, ExitReady, VmReady
<1>12. QED
  BY Zenon, <1>1, <1>2, <1>9, <1>11 DEF SwitchInv, Common

\* _guest_exit returns to the caller that _run_guest saved.
LEMMA GuestExitStep ==
  ASSUME SwitchInv, guest_exit
  PROVE  SwitchInv'
<1> DEFINE m == guest_exit_program(hart)
<1>1. AtGuestExit /\ Common
  BY Zenon, Where DEF guest_exit
<1>2. hart' = [m EXCEPT !.pc = m.x[GprIndex.RA]]
      /\ UNCHANGED <<hasH, path, probe, gen, req, given, caller>>
  BY Zenon DEF guest_exit
<1>3. /\ hart.csr["sscratch"] = VmCpu /\ HypSaved /\ path = "guest.S" /\ hart.virt = 0
      /\ hart.csr["hstatus"] = Hstatus(1) /\ IsGuestPc(hart.csr["sepc"])
  BY Zenon, <1>1 DEF AtGuestExit, Exiting, ExitReady
<1>4. GuestExitEffect(m, hart)
  BY Zenon, <1>1, <1>3, GuestExitDoes DEF Common, HartOk
<1> HIDE DEF m
<1>5. m.x[1] = Sym("caller") /\ GprIndex.RA = 1
  <2>1. 1 \in HypGprs
    BY Zenon DEF HypGprs
  <2>2. QED
    BY <1>3, <1>4, <2>1, RegNumbers DEF GuestExitEffect, HypSaved
<1>6. /\ IsHart(hart') /\ hart'.x = m.x /\ hart'.csr = m.csr /\ hart'.mem = m.mem
      /\ hart'.pc = Sym("caller") /\ hart'.priv = hart.priv /\ hart'.virt = 0
  <2>1. IsHart(m) /\ m.priv = hart.priv /\ m.virt = 0
    BY Zenon, <1>3, <1>4 DEF GuestExitEffect, Becomes
  <2>2. QED
    BY Zenon, <1>2, <1>5, <2>1 DEF IsHart
<1>7. \A k : C(hart', k) = C(m, k) /\ V(hart', k) = V(m, k)
  BY Zenon, <1>6 DEF C, V, M
<1>8. HartOk(hart')
  <2>1. C(m, SlotSstatus) = C(hart, SlotSstatus)
    BY SMTT(30), <1>4, Apart DEF GuestExitEffect, SlotSstatus
  <2>2. V(m, 32) = V(hart, 32) /\ V(m, 69) = hart.csr["sstatus"]
    BY <1>4 DEF GuestExitEffect
  <2>3. hart'.csr["sstatus"] = V(hart, 32) /\ hart'.csr["htinst"] = hart.csr["htinst"]
        /\ hart'.x[0] = Zero
    BY Zenon, <1>1, <1>4, <1>6 DEF GuestExitEffect, Common, HartOk
  <2>4. IsStatus(hart'.csr["sstatus"])
    BY Zenon, <1>1, <2>3, StatusFacts DEF Common, HartOk
  <2>5. QED
    BY <1>1, <1>3, <1>6, <1>7, <2>1, <2>2, <2>3, <2>4 DEF HartOk, Common
<1>9. CallerKeepsState'
  <2>1. \A r \in HypGprs : hart'.x[r] = caller'.x[r]
    BY <1>2, <1>3, <1>4, <1>6 DEF GuestExitEffect, HypSaved
  <2>2. hart'.x[0] = caller'.x[0]
    BY <1>1, <1>2, <1>3, <1>4, <1>6 DEF GuestExitEffect, HypSaved, Common, HartOk
  <2>3. Regs \ CallerSaved \subseteq HypGprs \cup {0}
    BY RegNumbers DEF Regs, CallerSaved, HypGprs
  <2>4. \A c \in DOMAIN HypCsr : hart'.csr[c] = caller'.csr[c]
    <3>1. \A c \in DOMAIN HypCsr : m.csr[c] = V(hart, HypCsr[c])
      BY <1>4, Layout DEF GuestExitEffect
    <3>2. QED
      BY Zenon, <1>2, <1>3, <1>6, <3>1 DEF HypSaved
  <2>5. QED
    BY Zenon, <2>1, <2>2, <2>3, <2>4 DEF CallerKeepsState
<1>10. AtCaller'
  BY <1>2, <1>3, <1>4, <1>6, <1>7, <1>9 DEF AtCaller, At, GuestExitEffect
<1>11. QED
  BY Zenon, <1>1, <1>2, <1>8, <1>10 DEF SwitchInv, Common

\* Guest::new makes a context that the first entry and the exits rely on.
LEMMA GuestNewMakes ==
  ASSUME SwitchInv, Guest_new
  PROVE  LET m == Clobber(set_kernel_trap_entry(hart), RustRegs) IN
         /\ UNCHANGED <<hasH, path, probe, gen, req, given, caller>>
         /\ RustEffect(m, hart)
         /\ IsHart(hart') /\ hart'.x = m.x /\ hart'.csr = m.csr
         /\ hart'.pc = Sym("hart_entry_1") /\ hart'.priv = hart.priv /\ hart'.virt = 0
         /\ \A k \in 0 .. 37 : C(hart', k) = initialize_context[k]
         /\ \A k \in 0 .. 72 : V(hart', k) = V(hart, k)
<1> DEFINE m == Clobber(set_kernel_trap_entry(hart), RustRegs)
           mem == [a \in Addresses |-> IF a[1] = "ctx" THEN initialize_context[a[3]] ELSE m.mem[a]]
           n == [m EXCEPT !.mem = mem]
<1>1. AtProbed /\ Common /\ path = "trap.S"
  BY Zenon, Where DEF Guest_new
<1>2. hart' = Goto(n, "hart_entry_1") /\ UNCHANGED <<hasH, path, probe, gen, req, given, caller>>
  BY Zenon DEF Guest_new
<1>3. RustEffect(m, hart)
  BY Zenon, <1>1, RustDoes DEF Common, HartOk
<1> HIDE DEF m
<1>4. ASSUME NEW k \in 0 .. 37
      PROVE  mem[Add(TRAP_CONTEXT, k)] = initialize_context[k]
  <2>1. Add(TRAP_CONTEXT, k) \in Addresses
    BY Zenon, Objects DEF Offsets
  <2>2. Add(TRAP_CONTEXT, k)[1] = "ctx" /\ Add(TRAP_CONTEXT, k)[3] = k
    BY AddParts, Objects
  <2>3. QED
    BY Zenon, <2>1, <2>2
<1>5. ASSUME NEW k \in 0 .. 72
      PROVE  mem[Add(VmCpu, k)] = V(hart, k)
  <2>0. Add(VmCpu, k) \in Addresses
    BY Zenon, Objects DEF Offsets
  <2>1. Add(VmCpu, k) \in Addresses /\ Add(VmCpu, k)[1] = "vm" /\ m.mem = hart.mem
    BY <1>3, <2>0, AddParts, Objects DEF RustEffect, Becomes
  <2>2. QED
    BY Zenon, <2>1 DEF V, M
<1>6. DOMAIN mem = Addresses
  OBVIOUS
<1> HIDE DEF mem
<1>7. IsHart(m) /\ m.priv = hart.priv /\ m.virt = 0 /\ m.mem = hart.mem
  BY Zenon, <1>1, <1>3 DEF RustEffect, Becomes, AtProbed, Booting
<1>8. /\ IsHart(n) /\ n.x = m.x /\ n.csr = m.csr /\ n.mem = mem
      /\ n.priv = hart.priv /\ n.virt = 0
  BY Zenon, <1>6, <1>7 DEF IsHart
<1> HIDE DEF n
<1>9. /\ IsHart(hart') /\ hart'.x = m.x /\ hart'.csr = m.csr /\ hart'.mem = mem
      /\ hart'.pc = Sym("hart_entry_1") /\ hart'.priv = hart.priv /\ hart'.virt = 0
  BY <1>2, <1>8, GotoIs
<1>10. /\ \A k \in 0 .. 37 : C(hart', k) = initialize_context[k]
       /\ \A k \in 0 .. 72 : V(hart', k) = V(hart, k)
  BY Zenon, <1>4, <1>5, <1>9 DEF C, V, M
<1>11. QED
  BY Zenon, <1>2, <1>3, <1>9, <1>10 DEF m

\* The first entry and the exits after it can rely on it.
LEMMA GuestNewStep ==
  ASSUME SwitchInv, Guest_new
  PROVE  SwitchInv'
<1> DEFINE m == Clobber(set_kernel_trap_entry(hart), RustRegs)
<1>1. AtProbed /\ Common /\ path = "trap.S"
  BY Zenon, Where DEF Guest_new
<1>2. /\ UNCHANGED <<hasH, path, probe, gen, req, given, caller>>
      /\ RustEffect(m, hart)
      /\ IsHart(hart') /\ hart'.x = m.x /\ hart'.csr = m.csr
      /\ hart'.pc = Sym("hart_entry_1") /\ hart'.priv = hart.priv /\ hart'.virt = 0
      /\ \A k \in 0 .. 37 : C(hart', k) = initialize_context[k]
      /\ \A k \in 0 .. 72 : V(hart', k) = V(hart, k)
  BY Zenon, GuestNewMakes
<1> HIDE DEF m
<1>10. /\ C(hart', SlotSstatus) = Sstatus(1, SPIE(hart.csr["sstatus"]), SIE(hart.csr["sstatus"]))
       /\ C(hart', SlotSepc) = Sym("guest_entry") /\ C(hart', SlotKernelSp) = HStackTop
       /\ C(hart', SlotHandler) = Sym("trap_handler") /\ C(hart', SlotHstatus) = Hstatus(1)
  BY <1>2 DEF initialize_context, GUEST_START_VA,
              SlotSstatus, SlotSepc, SlotHgatp, SlotKernelSp, SlotHandler, SlotHstatus
<1>11. V(hart', 32) = V(hart, 32) /\ V(hart', 69) = V(hart, 69)
  BY <1>2
<1>12. HartOk(hart')
  <2>1. /\ hart'.csr["sstatus"] = hart.csr["sstatus"] /\ hart'.csr["htinst"] = hart.csr["htinst"]
        /\ hart'.x[0] = Zero
    BY Zenon, <1>1, <1>2, Named DEF RustEffect, Common, HartOk
  <2>2. Quiet(hart.csr["sstatus"])
    BY Zenon, <1>1 DEF Common, HartOk, AtProbed, Booting
  <2>3. Quiet(C(hart', SlotSstatus))
    BY Zenon, <1>10, <2>2, StatusFacts
  <2>4. QED
    BY Zenon, <1>1, <1>2, <1>11, <2>1, <2>2, <2>3 DEF HartOk, Common
<1>13. AtHartEntry'
  <2>1. IsGuestPc(C(hart', SlotSepc))
    BY <1>10 DEF IsGuestPc, Sym
  <2>2. QED
    BY Zenon, <1>1, <1>2, <1>10, <2>1 DEF AtHartEntry, At, CtxReady, CtxHolds
<1>14. QED
  BY Zenon, <1>1, <1>2, <1>12, <1>13 DEF SwitchInv, Common

-----------------------------------------------------------------------------
\* The probe.

\* A step of the probe: no guest yet, and no write but to the boot stack.
ProbeGoesOn ==
  /\ hart'.virt = 0 /\ hart'.pc[1] \in {"csrr", "on_detect_trap", "probed", "panic"}
  /\ Beyond(hart', hart, "boot_stack") /\ UNCHANGED <<path, req, given>>

\* The boot hart's memory is the same but for the stack it boots on.
LEMMA BootHart ==
  ASSUME Common, IsHart(hart'), hart'.x[0] = Zero, Beyond(hart', hart, "boot_stack"),
         hart'.priv \in {0, 1}, hart'.virt = 0, Quiet(hart'.csr["sstatus"]),
         hart'.csr["htinst"] = hart.csr["htinst"]
  PROVE  HartOk(hart')
<1>1. /\ C(hart', SlotSstatus) = C(hart, SlotSstatus)
      /\ V(hart', 32) = V(hart, 32) /\ V(hart', 69) = V(hart, 69)
  BY Apart DEF SlotSstatus
<1>2. QED
  BY Zenon, <1>1, StatusFacts DEF Common, HartOk

\* The probe starts: tp is cleared and stvec set, the rest is kept.
LEMMA InitDetectTrapStep ==
  ASSUME SwitchInv, init_detect_trap
  PROVE  SwitchInv' /\ ProbeGoesOn
<1>1. AtHentry /\ Common
  BY Zenon, Where DEF init_detect_trap
<1>2. PICK rd \in ProbeRegs : probe' = [rd |-> rd, ans |-> Zero, before |-> hart]
  BY Zenon DEF init_detect_trap
<1>3. UNCHANGED <<hasH, path, gen, req, given, caller>>
  BY Zenon DEF init_detect_trap
<1>4. /\ IsHart(hart') /\ hart'.mem = hart.mem /\ hart'.pc = Sym("csrr")
      /\ hart'.priv = hart.priv /\ hart'.virt = hart.virt
      /\ hart'.x = [hart.x EXCEPT ![tp] = Num(0)]
  BY Zenon, <1>1, Named DEF init_detect_trap, SetSie, Common, HartOk, IsHart
<1>5. /\ hart'.csr["stvec"] = Sym("on_detect_trap") /\ hart'.csr["htinst"] = hart.csr["htinst"]
      /\ hart'.csr["sstatus"] = Sstatus(SPP(hart.csr["sstatus"]), SPIE(hart.csr["sstatus"]), 0)
  BY Zenon, <1>1, Named DEF init_detect_trap, SetSie, Common, HartOk, IsHart
<1>6. /\ hart'.x[tp] = Num(0) /\ hart'.x[0] = Zero /\ hart'.x[sp] = hart.x[sp]
      /\ \A r \in Regs \ {tp} : hart'.x[r] = hart.x[r]
  BY <1>1, <1>4, RegNumbers, Named DEF Common, HartOk, IsHart
<1>7. HartOk(hart')
  <2>1. Quiet(hart.csr["sstatus"]) /\ hart.virt = 0 /\ hart.priv = 1
    BY Zenon, <1>1 DEF Common, HartOk, AtHentry, Booting
  <2>2. Quiet(hart'.csr["sstatus"])
    BY Zenon, <1>5, <2>1, StatusFacts
  <2>3. QED
    BY Zenon, <1>1, <1>4, <1>5, <1>6, <2>1, <2>2, BootHart DEF Beyond
<1>8. AtCsrr'
  <2>1. Quiet(hart.csr["sstatus"]) /\ IsFn(hart.x) /\ Booting /\ hart.priv = 1
    BY Zenon, <1>1 DEF Common, HartOk, AtHentry, Booting
  <2>2. Probed(Regs \ {tp})'
    BY Zenon, <1>2, <1>6, <2>1 DEF Probed
  <2>3. QED
    BY Zenon, <1>3, <1>4, <1>5, <1>6, <2>1, <2>2 DEF AtCsrr, At, Booting
<1>9. ProbeGoesOn
  <2>1. hart'.virt = 0 /\ hart'.pc[1] = "csrr"
    BY Zenon, <1>8, PlacesNext
  <2>2. QED
    BY Zenon, <1>3, <1>4, <2>1 DEF ProbeGoesOn, Beyond
<1>10. QED
  BY Zenon, <1>1, <1>2, <1>3, <1>7, <1>8, <1>9 DEF SwitchInv, Common

\* The csrr, or the trap that it takes on a hart without H.
LEMMA ReadHgatpStep ==
  ASSUME SwitchInv, read_hgatp
  PROVE  SwitchInv' /\ ProbeGoesOn
<1>1. AtCsrr /\ Common /\ IsHart(hart) /\ hart.x[0] = Zero /\ hart.priv = 1 /\ hart.virt = 0
      /\ Quiet(hart.csr["sstatus"])
  BY Zenon, Where DEF read_hgatp, Common, HartOk, AtCsrr, Booting
<1>2. UNCHANGED <<hasH, path, probe, gen, req, given, caller>>
  BY Zenon DEF read_hgatp
<1>3. probe.rd \in Regs \ {0, sp, tp}
  BY Zenon, <1>1, SwitchAssumption DEF AtCsrr, Probed
<1>4. CASE hasH
  <2>1. hart' = [SetReg(hart, probe.rd, hart.csr.hgatp) EXCEPT !.pc = Add(@, 4)]
    BY Zenon, <1>4 DEF read_hgatp
  <2>2. /\ IsHart(hart') /\ hart'.csr = hart.csr /\ hart'.mem = hart.mem
        /\ hart'.pc = Add(hart.pc, 4) /\ hart'.priv = hart.priv /\ hart'.virt = hart.virt
        /\ \A r \in Regs \ {probe.rd} : hart'.x[r] = hart.x[r]
    BY Zenon, <1>1, <1>3, <2>1 DEF SetReg, IsHart
  <2>3. hart'.x[0] = Zero /\ hart'.x[sp] = BootStackTop /\ hart'.x[tp] = Num(0)
    BY <1>1, <1>3, <2>2, Named DEF AtCsrr, Booting, Regs
  <2>4. HartOk(hart')
    BY Zenon, <1>1, <2>2, <2>3, BootHart DEF Beyond
  <2>5. AfterCsrr'
    <3>1. Probed(Regs \ {tp, probe.rd})'
      BY Zenon, <1>1, <1>2, <2>2 DEF AtCsrr, Probed
    <3>2. QED
      BY Zenon, <1>1, <1>2, <1>4, <2>2, <2>3, <3>1 DEF AtCsrr, AfterCsrr, At, Booting
  <2>6. ProbeGoesOn
    BY Zenon, <1>2, <2>2, <2>5, PlacesNext DEF ProbeGoesOn, Beyond
  <2>7. QED
    BY Zenon, <1>1, <1>2, <2>4, <2>5, <2>6 DEF SwitchInv, Common
<1>5. CASE ~hasH
  <2> DEFINE m == Trap(hart, Num(2))
  <2>1. PICK stval \in {0, InsnHalf(probe.rd)} : hart' = [m EXCEPT !.csr.stval = Num(stval)]
    BY Zenon, <1>5 DEF read_hgatp
  <2>2. TrapEffect(m, hart, Num(2))
    BY Zenon, <1>1, TrapIs
  <2> HIDE DEF m
  <2>3. /\ IsHart(hart') /\ hart'.x = hart.x /\ hart'.mem = hart.mem
        /\ hart'.pc = m.pc /\ hart'.priv = 1 /\ hart'.virt = 0
        /\ hart'.csr["stval"] = Num(stval)
        /\ \A c \in Csrs \ {"stval"} : hart'.csr[c] = m.csr[c]
    BY Zenon, <2>1, <2>2, Named DEF TrapEffect, IsHart
  <2>4. /\ hart'.pc = Sym("on_detect_trap") /\ hart'.csr["sepc"] = Sym("csrr")
        /\ hart'.csr["scause"] = Num(2) /\ hart'.csr["htinst"] = hart.csr["htinst"]
        /\ hart'.csr["sstatus"] = Sstatus(1, 0, 0) /\ hart'.csr["hstatus"] = Hstatus(0)
    <3>1. SIE(hart.csr["sstatus"]) = 0
      BY Zenon, <1>1, StatusFacts
    <3>2. QED
      BY Zenon, <1>1, <2>2, <2>3, <3>1, Named DEF TrapEffect, AtCsrr, At
  <2>5. HartOk(hart')
    <3>1. Quiet(hart'.csr["sstatus"])
      BY Zenon, <2>4, StatusFacts
    <3>2. QED
      BY Zenon, <1>1, <2>3, <2>4, <3>1, BootHart DEF Beyond
  <2>6. AtDetectTrap'
    <3>1. Probed(Regs \ {tp})'
      BY Zenon, <1>1, <1>2, <2>3 DEF AtCsrr, Probed
    <3>2. hart'.csr["stval"] \in {Num(0), Num(InsnHalf(probe'.rd))}
      BY Zenon, <1>2, <2>1, <2>3
    <3>3. QED
      BY Zenon, <1>1, <1>2, <1>5, <2>3, <2>4, <3>1, <3>2 DEF AtDetectTrap, At, AtCsrr, Booting
  <2>7. ProbeGoesOn
    BY Zenon, <1>2, <2>3, <2>6, PlacesNext DEF ProbeGoesOn, Beyond
  <2>8. QED
    BY Zenon, <1>1, <1>2, <2>5, <2>6, <2>7 DEF SwitchInv, Common
<1>6. QED
  BY Zenon, <1>4, <1>5

\* The probe's trap returns past the csrr with the cause in tp.
LEMMA OnDetectTrapStep ==
  ASSUME SwitchInv, on_detect_trap
  PROVE  SwitchInv' /\ ProbeGoesOn
<1> DEFINE m == on_detect_trap_exit(rust_detect_trap(on_detect_trap_entry(hart)))
<1>1. AtDetectTrap /\ Common
  BY Zenon, Where DEF on_detect_trap
<1>2. hart' = Sret(m) /\ UNCHANGED <<hasH, path, probe, gen, req, given, caller>>
  BY Zenon DEF on_detect_trap
<1>3. probe.rd \in Regs \ {0, sp, tp}
  BY Zenon, <1>1, SwitchAssumption DEF AtDetectTrap, Probed
<1>4. DetectEffect(m, hart)
  <2>1. /\ IsHart(hart) /\ hart.x[sp] = BootStackTop /\ probe.rd \in Regs
        /\ hart.csr["stval"] \in {Num(0), Num(InsnHalf(probe.rd))}
    BY Zenon, <1>1, <1>3 DEF AtDetectTrap, Common, HartOk, Booting
  <2>2. QED
    BY Zenon, <2>1, DetectTrapDoes
<1> HIDE DEF m
<1>5. SretEffect(hart', m)
  BY Zenon, <1>2, <1>4, SretIs DEF DetectEffect, Becomes
<1>6. /\ m.csr["sepc"] = Add(Sym("csrr"), 4) /\ m.csr["sstatus"] = Sstatus(1, 0, 0)
      /\ m.csr["hstatus"] = Hstatus(0) /\ m.csr["htinst"] = hart.csr["htinst"]
  BY Zenon, <1>1, <1>4, Named DEF DetectEffect, AtDetectTrap
<1>7. /\ IsHart(hart') /\ hart'.x = m.x /\ hart'.mem = m.mem
      /\ hart'.pc = Add(Sym("csrr"), 4) /\ hart'.priv = 1 /\ hart'.virt = 0
      /\ hart'.csr["htinst"] = hart.csr["htinst"] /\ hart'.csr["sstatus"] = Sstatus(0, 1, 0)
  BY Zenon, <1>5, <1>6, StatusFacts, Named DEF SretEffect
<1>8. /\ \A r \in Regs \ {tp} : hart'.x[r] = hart.x[r]
      /\ hart'.x[tp] = Num(2) /\ hart'.x[0] = Zero /\ hart'.x[sp] = BootStackTop
  <2>1. 0 \in Regs \ {tp} /\ sp \in Regs \ {tp}
    BY RegNumbers DEF Regs
  <2>2. QED
    BY Zenon, <1>1, <1>4, <1>7, <2>1 DEF DetectEffect, AtDetectTrap, Booting, Common, HartOk
<1>a. Beyond(hart', hart, "boot_stack")
  BY Zenon, <1>4, <1>7 DEF DetectEffect, Beyond
<1>9. HartOk(hart')
  <2>2. Quiet(hart'.csr["sstatus"])
    BY Zenon, <1>7, StatusFacts
  <2>3. QED
    BY Zenon, <1>1, <1>7, <1>8, <1>a, <2>2, BootHart
<1>10. AfterCsrr'
  <2>1. Probed(Regs \ {tp, probe.rd})'
    BY Zenon, <1>1, <1>2, <1>8 DEF AtDetectTrap, Probed
  <2>2. hart'.x[probe.rd] = probe.before.x[probe.rd]
    BY <1>1, <1>3, <1>8 DEF AtDetectTrap, Probed
  <2>3. QED
    BY Zenon, <1>1, <1>2, <1>7, <1>8, <2>1, <2>2 DEF AtDetectTrap, AfterCsrr, Booting
<1>11. ProbeGoesOn
  BY Zenon, <1>2, <1>7, <1>10, <1>a, PlacesNext DEF ProbeGoesOn
<1>12. QED
  BY Zenon, <1>1, <1>2, <1>9, <1>10, <1>11 DEF SwitchInv, Common

\* The probe ends: tp is read for the answer before it is restored.
LEMMA RestoreDetectTrapStep ==
  ASSUME SwitchInv, restore_detect_trap
  PROVE  SwitchInv' /\ ProbeGoesOn
<1> DEFINE name == IF probe'.ans # Num(2) THEN "probed" ELSE "panic"
           m == [hart EXCEPT !.x[tp] = probe.before.x[tp], !.csr.stvec = probe.before.csr.stvec]
<1>1. AfterCsrr /\ Common /\ IsHart(hart) /\ hart.x[0] = Zero /\ hart.virt = 0 /\ req = NoReq
  BY Zenon, Where DEF restore_detect_trap, Common, HartOk, AfterCsrr, Booting
<1>2. UNCHANGED <<hasH, path, gen, req, given, caller>>
  BY Zenon DEF restore_detect_trap
<1>3. probe' = [probe EXCEPT !.ans = hart.x[tp]]
  BY Zenon DEF restore_detect_trap
<1>4. /\ DOMAIN probe' = {"rd", "ans", "before"} /\ probe'.ans = hart.x[tp]
      /\ probe'.rd = probe.rd /\ probe'.before = probe.before
  BY Zenon, <1>1, <1>3 DEF Common
<1>5. Probed(Regs \ {tp, probe.rd}) /\ SIE(probe.before.csr["sstatus"]) = 0
  BY Zenon, <1>1, StatusFacts DEF AfterCsrr, Probed
<1>6. probe.rd \in Regs \ {0, sp, tp}
  BY Zenon, <1>5, SwitchAssumption DEF Probed
<1>7. hart' = Goto(m, name)
  <2> DEFINE h == IF SIE(probe.before.csr.sstatus) = 1 THEN SetSie(hart, 1) ELSE hart
  <2>1. h = hart
    BY <1>5
  <2>2. hart' = Goto([h EXCEPT !.x[tp] = probe.before.x[tp], !.csr.stvec = probe.before.csr.stvec],
                     name)
    BY Zenon DEF restore_detect_trap
  <2> HIDE DEF h
  <2>3. QED
    BY Zenon, <2>1, <2>2
<1>8. /\ IsHart(m) /\ m.x = [hart.x EXCEPT ![tp] = probe.before.x[tp]] /\ m.mem = hart.mem
      /\ m.priv = hart.priv /\ m.virt = hart.virt
  BY Zenon, <1>1, Named DEF IsHart
<1>9. /\ m.csr["stvec"] = probe.before.csr["stvec"]
      /\ \A c \in Csrs \ {"stvec"} : m.csr[c] = hart.csr[c]
  BY Zenon, <1>1, Named DEF IsHart
<1> HIDE DEF m, name
<1>10. /\ IsHart(hart') /\ hart'.x = [hart.x EXCEPT ![tp] = probe.before.x[tp]]
       /\ hart'.csr = m.csr /\ hart'.mem = hart.mem /\ hart'.pc = Sym(name)
       /\ hart'.priv = hart.priv /\ hart'.virt = 0
  BY <1>1, <1>7, <1>8, GotoIs
<1>11. /\ \A r \in Regs \ {tp} : hart'.x[r] = hart.x[r]
       /\ hart'.x[tp] = probe.before.x[tp] /\ DOMAIN hart'.x = Regs
       /\ hart'.x[0] = Zero /\ hart'.x[sp] = BootStackTop
  <2>1. 0 \in Regs \ {tp} /\ sp \in Regs \ {tp} /\ tp \in Regs
    BY RegNumbers DEF Regs
  <2>2. QED
    BY Zenon, <1>1, <1>10, <2>1 DEF IsHart, AfterCsrr, Booting
<1>12. /\ hart'.csr["stvec"] = probe.before.csr["stvec"]
       /\ hart'.csr["sstatus"] = hart.csr["sstatus"] /\ hart'.csr["htinst"] = hart.csr["htinst"]
       /\ Quiet(hart.csr["sstatus"])
  BY Zenon, <1>1, <1>9, <1>10, Named DEF Common, HartOk
<1>13. HartOk(hart')
  <2>1. hart'.priv \in {0, 1}
    BY Zenon, <1>1, <1>10 DEF Common, HartOk
  <2>2. QED
    BY Zenon, <1>1, <1>10, <1>11, <1>12, <2>1, BootHart DEF Beyond
<1>14. (name = "probed") <=> hasH
  <2>1. Num(0) # Num(2)
    BY DEF Num
  <2>2. QED
    BY Zenon, <1>1, <1>4, <2>1 DEF AfterCsrr, name
<1>15. ProbeUndone'
  <2>1. At("probed")' <=> hasH'
    <3>1. Sym("probed") # Sym("panic")
      BY Zenon DEF Sym
    <3>2. name \in {"probed", "panic"}
      BY Zenon DEF name
    <3>3. QED
      BY Zenon, <1>2, <1>10, <1>14, <3>1, <3>2 DEF At
  <2>2. \A r \in Regs \ {probe.rd} : hart'.x[r] = probe.before.x[r]
    BY Zenon, <1>5, <1>11 DEF Probed
  <2>3. ~hasH => hart'.x = probe.before.x
    <3>1. SUFFICES ASSUME ~hasH PROVE hart'.x = probe.before.x
      OBVIOUS
    <3>2. hart'.x[probe.rd] = probe.before.x[probe.rd]
      BY Zenon, <1>1, <1>6, <1>11, <3>1 DEF AfterCsrr
    <3>3. \A r \in Regs : hart'.x[r] = probe.before.x[r]
      BY Zenon, <2>2, <3>2
    <3>4. hart'.x = [r \in Regs |-> hart'.x[r]]
      BY Zenon, <1>1, <1>10 DEF IsHart
    <3>5. probe.before.x = [r \in Regs |-> probe.before.x[r]]
      BY Zenon, <1>5 DEF Probed, IsFn
    <3>6. QED
      BY Zenon, <3>3, <3>4, <3>5
  <2>4. SIE(hart'.csr["sstatus"]) = SIE(probe.before.csr["sstatus"])
    BY <1>5, <1>12, StatusFacts
  <2>5. QED
    BY Zenon, <1>2, <1>4, <1>12, <2>1, <2>2, <2>3, <2>4 DEF ProbeUndone
<1>16. AtProbed' \/ AtPanic'
  <2>1. name \in {"probed", "panic"}
    BY Zenon DEF name
  <2>2. QED
    BY Zenon, <1>1, <1>2, <1>10, <1>11, <1>15, <2>1 DEF AtProbed, AtPanic, At, Booting
<1>17. ProbeGoesOn
  BY Zenon, <1>2, <1>10, <1>16, PlacesNext DEF ProbeGoesOn, Beyond
<1>18. QED
  BY Zenon, <1>1, <1>2, <1>4, <1>13, <1>16, <1>17 DEF SwitchInv, Common

-----------------------------------------------------------------------------
\* The invariant, and what it gives.

\* OpenSBI enters hentry with interrupts off and memory cleared.
LEMMA SwitchInitially ==
  ASSUME SwitchInit
  PROVE  SwitchInv
<1>1. /\ IsHart(hart) /\ hart.mem = [a \in Addresses |-> Zero] /\ hart.pc = Sym("hentry")
      /\ hart.priv = 1 /\ hart.virt = 0
      /\ hart.csr["sstatus"] = Sstatus(0, 0, 0) /\ hart.csr["htinst"] = Zero
  BY Zenon DEF SwitchInit, IsHart, Csrs
<1>2. hart.x = [r \in Regs |-> CASE r = 0 -> Zero
                                 [] r = sp -> BootStackTop
                                 [] OTHER -> <<"boot", 0, r>>]
  BY Zenon DEF SwitchInit
<1>3. hart.x[0] = Zero /\ hart.x[sp] = BootStackTop /\ IsFn(hart.x)
  <2>1. 0 \in Regs /\ sp \in Regs /\ sp = 2
    BY RegNumbers DEF Regs
  <2>2. hart.x[0] = Zero /\ hart.x[sp] = BootStackTop
    BY <1>2, <2>1
  <2>3. IsFn(hart.x)
    BY Zenon, <1>2 DEF IsFn
  <2>4. QED
    BY Zenon, <2>2, <2>3
<1>4. HartOk(hart)
  <2>1. C(hart, SlotSstatus) = Zero /\ V(hart, 32) = Zero /\ V(hart, 69) = Zero
    <3>1. /\ Add(TRAP_CONTEXT, SlotSstatus) \in Addresses /\ Add(VmCpu, 32) \in Addresses
          /\ Add(VmCpu, 69) \in Addresses
      BY Objects DEF Offsets, SlotSstatus
    <3>2. QED
      BY Zenon, <1>1, <3>1 DEF C, V, M
  <2>2. Quiet(Sstatus(0, 0, 0)) /\ Quiet(Zero) /\ IsStatus(Sstatus(0, 0, 0))
    BY Zenon, StatusFacts
  <2>3. Zero[2] \in Regs
    BY DEF Zero, Num, Regs
  <2>4. QED
    BY Zenon, <1>1, <1>3, <2>1, <2>2, <2>3 DEF HartOk
<1>5. DOMAIN probe = {"rd", "ans", "before"} /\ IsReq(req) /\ req = NoReq
  BY DEF SwitchInit, IsReq, NoReq, Regs
<1>6. QED
  BY Zenon, <1>1, <1>3, <1>4, <1>5 DEF SwitchInv, Common, AtHentry, At, Booting

\* Every step keeps the invariant.
LEMMA SwitchStep ==
  ASSUME SwitchInv, [SwitchNext]_switchVars
  PROVE  SwitchInv'
<1>1. CASE UNCHANGED switchVars
  BY <1>1 DEF switchVars, SwitchInv, Common, AtHentry, AtCsrr, AtDetectTrap, AfterCsrr, AtProbed,
              AtPanic, AtHartEntry, InGuest, AtAlltraps, AtTrapHandler, AtSwitch, AtKernelTrap,
              AtFromKernel, AtCaller, AtGuestExit, At, Booting, Probed, ProbeUndone, CtxReady,
              CtxHolds, HypSaved, ExitReady, Exiting, HypervisorStack, CallerKeepsState
<1>2. CASE Probing
  BY Zenon, <1>2, InitDetectTrapStep, ReadHgatpStep, OnDetectTrapStep, RestoreDetectTrapStep DEF Probing
<1>3. CASE Guest_new \/ hart_entry \/ switch_to_guest \/ alltraps \/ alltraps_k
  BY <1>3, GuestNewStep, HartEntryStep, SwitchToGuestStep, AlltrapsStep, AlltrapsKStep
<1>4. CASE Handling
  BY Zenon, <1>4, SbiStep, PlicAccessStep, KernelFaultStep, ForwardStep, InterruptStep DEF Handling
<1>5. CASE run_guest \/ guest_exit
  BY Zenon, <1>5, RunGuestStep, GuestExitStep
<1>6. CASE GuestRuns \/ GuestCalls \/ GuestExits
  BY Zenon, <1>6, GuestRunsStep, GuestCallsStep, GuestExitsStep
<1>7. QED
  BY Zenon, <1>1, <1>2, <1>3, <1>4, <1>5, <1>6 DEF SwitchNext

\* At each place where the hart can be, the registers, the trap context and the
\* VmCpuRegisters hold what the code that runs next relies on.
THEOREM SwitchInvHolds == SwitchSpec => []SwitchInv
<1>1. SwitchInit => SwitchInv
  BY Zenon, SwitchInitially
<1>2. SwitchInv /\ [SwitchNext]_switchVars => SwitchInv'
  BY Zenon, SwitchStep
<1>3. QED
  BY <1>1, <1>2, PTL DEF SwitchSpec

\* _run_guest returns with the callee-saved registers and the CSRs that its
\* caller had, whatever the guest did with its own in between.
THEOREM CallerStateKept == SwitchSpec => []CallerKeepsState
<1>1. SwitchInv => CallerKeepsState
  BY Zenon, Where DEF AtCaller, CallerKeepsState
<1>2. QED
  BY <1>1, SwitchInvHolds, PTL

\* with_detect_trap answers whether the hart has the H extension and restores
\* the registers, stvec and the interrupt enable, whichever register the
\* compiler gives the csrr and whether or not stval reports the instruction, and
\* the trap is resumed behind the csrr.
THEOREM ProbeLeavesNoTrace == SwitchSpec => []ProbeTransparent
<1>1. SwitchInv => ProbeUndone
  BY Zenon, Where DEF AtProbed, AtPanic, ProbeUndone
<1>2. SwitchInv => (hart.pc[1] = "csrr" => hart.pc[3] \in {0, 4})
  BY Places DEF SwitchInv
<1>3. QED
  BY <1>1, <1>2, SwitchInvHolds, PTL DEF ProbeTransparent

\* The hypervisor runs, and is about to run, with its interrupts off.
THEOREM HostNeverInterrupted == SwitchSpec => []HostUninterrupted
<1>1. SwitchInv => HostUninterrupted
  <2>1. SUFFICES ASSUME SwitchInv PROVE HostUninterrupted
    OBVIOUS
  <2>2. HartOk(hart)
    BY Zenon, <2>1, Where DEF Common
  <2>3. /\ hart.virt = 0 => SIE(hart.csr["sstatus"]) = 0
        /\ SIE(C(hart, SlotSstatus)) = 0 /\ SIE(V(hart, 32)) = 0 /\ SIE(V(hart, 69)) = 0
    BY Zenon, <2>2, StatusFacts DEF HartOk
  <2>4. QED
    BY <2>3, Layout DEF HostUninterrupted, Ctx, C, V, M
<1>2. QED
  BY <1>1, SwitchInvHolds, PTL

\* trap_handler starts at the top of the hypervisor's stack, and a trap in the
\* hypervisor reaches trap_from_kernel with the pc it reports.
THEOREM StackIsTheHypervisors == SwitchSpec => []HypervisorStack
<1>1. SwitchInv => HypervisorStack
  BY Zenon, Where DEF AtTrapHandler, AtFromKernel, HypervisorStack
<1>2. QED
  BY <1>1, SwitchInvHolds, PTL
=============================================================================
