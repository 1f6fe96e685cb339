----------------------------- MODULE WorldSwitch -----------------------------
(***************************************************************************)
(* Every register the hypervisor's assembly moves: the probe for the H     *)
(* extension (detect.rs), the entry to and the exit from the guest that    *)
(* hentry uses (trap.S, hart_entry_2), the trap from the hypervisor itself *)
(* (__alltraps_k) and the vCPU switch of guest.S, which is complete but    *)
(* has no caller yet.  Each assembly routine is one step: the hypervisor   *)
(* runs with interrupts off.  Words are symbolic; the guest writes all its *)
(* registers afresh, so that a word saved to the wrong slot, not saved or  *)
(* restored from an older exit is told apart from the right one.           *)
(***************************************************************************)
EXTENDS RegMachine

CONSTANTS MaxGen,      \* how often the guest rewrites its registers
          LoadRegs,    \* the rd of the guest's loads from the PLIC
          StoreRegs,   \* the rs2 of its stores to the PLIC
          ProbeRegs    \* the register the compiler gives the probing csrr

ASSUME SwitchAssumption ==
  /\ MaxGen \in Nat
  /\ LoadRegs \subseteq Regs /\ StoreRegs \subseteq Regs
  /\ ProbeRegs \subseteq Regs \ {0, sp, tp}

VARIABLES hart,        \* x, csr, mem, pc, priv and virt of the hart
          hasH,        \* the hart implements the H extension
          path,        \* which switch is used: trap.S or guest.S
          probe,       \* what with_detect_trap's locals hold
          gen,         \* history: how often the guest rewrote its registers
          req,         \* history: why the guest exited last
          given,       \* history: the last word handed to PLIC or firmware
          caller       \* history: the hart when _run_guest was called

switchVars == <<hart, hasH, path, probe, gen, req, given, caller>>

NoReq == [kind |-> "none", reg |-> 0, len |-> 0, call |-> <<"none", "none">>]

TRAP_CONTEXT == <<"ctx", 0, 0>>
HStackTop == <<"hstack", 0, 0>>
BootStackTop == <<"boot_stack", 0, 0>>
VmCpu == <<"vm", 0, 0>>
GUEST_START_VA == Sym("guest_entry")
GUEST_DTB_ADDR == Sym("guest_dtb")

\* TrapContext, in doublewords after x[0] to x[31].
SlotSstatus == 32
SlotSepc == 33
SlotHgatp == 34
SlotKernelSp == 35
SlotHandler == 36
SlotHstatus == 37

\* VmCpuRegisters: hyp_regs and guest_regs, each 32 registers and then its CSRs.
HypCsr == [sstatus |-> 32, hstatus |-> 33, scounteren |-> 34, stvec |-> 35, sscratch |-> 36]
hyp_gpr_offset(r) == r
GuestRegs == 37
guest_gpr_offset(r) == GuestRegs + r
GuestCsr == [sstatus |-> GuestRegs + 32, hstatus |-> GuestRegs + 33,
             scounteren |-> GuestRegs + 34, sepc |-> GuestRegs + 35]

Addresses == {Add(TRAP_CONTEXT, k) : k \in 0 .. 37}
             \cup {Add(VmCpu, k) : k \in 0 .. 72}
             \cup {Add(HStackTop, k) : k \in -38 .. -1}
             \cup {Add(BootStackTop, k) : k \in -21 .. -1}

At(name) == hart.pc = Sym(name)
Goto(m, name) == [m EXCEPT !.pc = Sym(name)]

\* What the hypervisor's Rust code leaves in the registers it may use: any, but
\* sp, and gp and tp which it does not touch.
RustRegs == Regs \ {0, sp, GprIndex.GP, tp}
Clobber(m, S) == [m EXCEPT !.x = [r \in Regs |-> IF r \in S THEN <<"rust", gen, r>> ELSE @[r]]]
CallerSaved == {GprIndex.RA} \cup (5 .. 7) \cup (10 .. 17) \cup (28 .. 31)

\* hentry, before the probe: OpenSBI enters with interrupts off.
SwitchInit ==
  /\ hart = [x |-> [r \in Regs |-> CASE r = 0 -> Zero
                                     [] r = sp -> BootStackTop
                                     [] OTHER -> <<"boot", 0, r>>],
             csr |-> [sstatus |-> Sstatus(0, 0, 0), hstatus |-> Hstatus(0), sepc |-> Zero,
                      scause |-> Zero, stval |-> Zero, stvec |-> Sym("boot_stvec"),
                      sscratch |-> Zero, hgatp |-> Zero, scounteren |-> Sym("boot_counteren"),
                      htinst |-> Zero],
             mem |-> [a \in Addresses |-> Zero],
             pc |-> Sym("hentry"), priv |-> 1, virt |-> 0]
  /\ hasH \in BOOLEAN
  /\ path \in {"trap.S", "guest.S"}
  /\ probe = [rd |-> 0, ans |-> Zero, before |-> hart]
  /\ gen = 0 /\ req = NoReq /\ given = Zero
  /\ caller = hart

-----------------------------------------------------------------------------
\* detect.rs

\* The length of an illegal instruction from its lower half, 0 if unknown.
riscv_illegal_insn_bits(insn) ==
  CASE insn = 0                              -> 0
    [] insn # 0 /\ insn % 4 # 3              -> 2
    [] insn % 4 = 3 /\ (insn \div 4) % 8 # 7 -> 4
    [] OTHER                                 -> 0

\* csrrs rd, 0x680, x0: the lower half of its encoding, opcode, rd and funct3.
InsnHalf(rd) == 115 + 128 * (rd + 32 * 2)

\* insn & 0xFFFF.
LowerHalf(insn) == insn % (256 * 256)

SetSie(m, sie) == [m EXCEPT !.csr.sstatus = Sstatus(SPP(@), SPIE(@), sie)]

init_detect_trap ==
  /\ At("hentry")
  /\ \E rd \in ProbeRegs :
       probe' = [rd |-> rd, ans |-> Zero, before |-> hart]
  /\ hart' = [SetSie(hart, 0) EXCEPT !.csr.stvec = Sym("on_detect_trap"),
                                     !.x[tp] = Num(0), !.pc = Sym("csrr")]
  /\ UNCHANGED <<hasH, path, gen, req, given, caller>>

\* The closure of detect_h_extension.  A hart without H traps, and may or may
\* not report the instruction in stval.
read_hgatp ==
  /\ At("csrr")
  /\ \/ /\ hasH
        /\ hart' = [SetReg(hart, probe.rd, hart.csr.hgatp) EXCEPT !.pc = Add(@, 4)]
     \/ /\ ~hasH
        /\ \E stval \in {0, InsnHalf(probe.rd)} :
             hart' = [Trap(hart, Num(2)) EXCEPT !.csr.stval = Num(stval)]
  /\ UNCHANGED <<hasH, path, probe, gen, req, given, caller>>

\* The caller-saved registers in the order of TrapFrame.
FrameRegs == [k \in 0 .. 16 |-> CASE k = 0 -> GprIndex.RA
                                   [] k = 1 -> tp
                                   [] k \in 2 .. 9 -> a0 + k - 2
                                   [] k \in 10 .. 12 -> t0 + k - 10
                                   [] k \in 13 .. 16 -> t3 + k - 13]
FrameLoad(n) == Lds([r \in {FrameRegs[k] : k \in 0 .. n - 1} |->
                       CHOOSE k \in 0 .. n - 1 : FrameRegs[k] = r], sp)

\* One register too few restored.
M_on_detect_trap_exit(m) ==
  m ++ Ld(t0, 17, sp) ++ Csrw("sstatus", t0) ++ Ld(t1, 18, sp) ++ Csrw("sepc", t1)
    ++ Ld(t2, 19, sp) ++ Csrw("scause", t2) ++ Ld(t3, 20, sp) ++ Csrw("stval", t3)
    ++ FrameLoad(16) ++ Addi(sp, sp, 21)

on_detect_trap_entry(m) ==
  m ++ Addi(sp, sp, -21) ++ Sds(FrameRegs, sp)
    ++ Csrr(t0, "sstatus") ++ Sd(t0, 17, sp) ++ Csrr(t1, "sepc") ++ Sd(t1, 18, sp)
    ++ Csrr(t2, "scause") ++ Sd(t2, 19, sp) ++ Csrr(t3, "stval") ++ Sd(t3, 20, sp) ++ Mv(a0, sp)

on_detect_trap_exit(m) ==
  m ++ Ld(t0, 17, sp) ++ Csrw("sstatus", t0) ++ Ld(t1, 18, sp) ++ Csrw("sepc", t1)
    ++ Ld(t2, 19, sp) ++ Csrw("scause", t2) ++ Ld(t3, 20, sp) ++ Csrw("stval", t3)
    ++ FrameLoad(17) ++ Addi(sp, sp, 21)

\* rust_detect_trap on the frame at a0, for the illegal instruction; the other
\* causes are unreachable!().
rust_detect_trap(m) ==
  LET Frame(k) == Add(m.x[a0], k)
      reported == riscv_illegal_insn_bits(LowerHalf(m.mem[Frame(20)][2]))
      bits == IF reported # 0 THEN reported
              ELSE riscv_illegal_insn_bits(InsnHalf(probe.rd))
      mem == [m.mem EXCEPT ![Frame(1)] = m.mem[Frame(19)], ![Frame(18)] = Add(@, bits)]
  IN [Clobber(m, CallerSaved) EXCEPT !.mem = mem]

on_detect_trap ==
  /\ At("on_detect_trap")
  /\ hart.csr.scause = Num(2)
  /\ hart' = Sret(on_detect_trap_exit(rust_detect_trap(on_detect_trap_entry(hart))))
  /\ UNCHANGED <<hasH, path, probe, gen, req, given, caller>>

\* restore_detect_trap, and hentry's panic if the extension is missing.
restore_detect_trap ==
  /\ hart.pc = Add(Sym("csrr"), 4)
  /\ probe' = [probe EXCEPT !.ans = hart.x[tp]]
  /\ hart' = Goto([(IF SIE(probe.before.csr.sstatus) = 1 THEN SetSie(hart, 1) ELSE hart)
                     EXCEPT !.x[tp] = probe.before.x[tp],
                            !.csr.stvec = probe.before.csr.stvec],
                  IF probe'.ans # Num(2) THEN "probed" ELSE "panic")
  /\ UNCHANGED <<hasH, path, gen, req, given, caller>>

-----------------------------------------------------------------------------
\* trap.S and its users

set_kernel_trap_entry(m) ==
  [m EXCEPT !.csr.stvec = Sym("__alltraps_k"), !.csr.sscratch = Sym("trap_from_kernel")]

set_user_trap_entry(m) == [m EXCEPT !.csr.stvec = Sym("__alltraps")]

\* The guest entered with the supervisor's interrupts enabled too early.
M_initialize_context ==
  [k \in 0 .. 37 |-> CASE k = SlotSstatus -> Sstatus(1, SPIE(hart.csr.sstatus), 1)
                       [] k = SlotSepc -> GUEST_START_VA
                       [] k = SlotHgatp -> Sym("gpm")
                       [] k = SlotKernelSp -> HStackTop
                       [] k = SlotHandler -> Sym("trap_handler")
                       [] k = SlotHstatus -> Hstatus(1)
                       [] OTHER -> Zero]

\* The first trap context: sstatus as it is, with SPP set.
initialize_context ==
  [k \in 0 .. 37 |-> CASE k = SlotSstatus -> Sstatus(1, SPIE(hart.csr.sstatus), SIE(hart.csr.sstatus))
                       [] k = SlotSepc -> GUEST_START_VA
                       [] k = SlotHgatp -> Sym("gpm")
                       [] k = SlotKernelSp -> HStackTop
                       [] k = SlotHandler -> Sym("trap_handler")
                       [] k = SlotHstatus -> Hstatus(1)
                       [] OTHER -> Zero]

\* hentry from trap_init to the call of hart_entry_1.
Guest_new ==
  /\ At("probed") /\ path = "trap.S"
  /\ LET ctx == initialize_context
         m == Clobber(set_kernel_trap_entry(hart), RustRegs)
     IN hart' = Goto([m EXCEPT !.mem = [a \in Addresses |->
                        IF a[1] = "ctx" THEN ctx[a[3]] ELSE @[a]]], "hart_entry_1")
  /\ UNCHANGED <<hasH, path, probe, gen, req, given, caller>>

\* .rept 27 over x5 to x31, after x1 and x3.
ContextRegs == {1, 3} \cup 5 .. 31
SAVE_GP == Sds([r \in ContextRegs |-> r], sp)
LOAD_GP == Lds([r \in ContextRegs |-> r], sp)

\* The guest's sp not read back from sscratch.
M_alltraps_program(m) ==
  m ++ Csrrw(sp, "sscratch", sp) ++ SAVE_GP
    ++ Csrr(t0, "sstatus") ++ Csrr(t1, "sepc") ++ Sd(t0, SlotSstatus, sp) ++ Sd(t1, SlotSepc, sp)
    ++ Sd(t2, 2, sp) ++ Ld(t0, SlotHgatp, sp) ++ Ld(t1, SlotHandler, sp)
    ++ Csrr(t0, "hstatus") ++ Sd(t0, SlotHstatus, sp) ++ Ld(sp, SlotKernelSp, sp)

alltraps_program(m) ==
  m ++ Csrrw(sp, "sscratch", sp) ++ SAVE_GP
    ++ Csrr(t0, "sstatus") ++ Csrr(t1, "sepc") ++ Sd(t0, SlotSstatus, sp) ++ Sd(t1, SlotSepc, sp)
    ++ Csrr(t2, "sscratch") ++ Sd(t2, 2, sp) ++ Ld(t0, SlotHgatp, sp) ++ Ld(t1, SlotHandler, sp)
    ++ Csrr(t0, "hstatus") ++ Sd(t0, SlotHstatus, sp) ++ Ld(sp, SlotKernelSp, sp)

restore_program(m) ==
  m ++ Csrw("sscratch", a0) ++ Mv(sp, a0) ++ Ld(t0, SlotSstatus, sp) ++ Ld(t1, SlotSepc, sp)
    ++ Csrw("sstatus", t0) ++ Csrw("sepc", t1) ++ Ld(t0, SlotHstatus, sp) ++ Csrw("hstatus", t0)
    ++ LOAD_GP ++ Ld(sp, 2, sp)

\* The wrong temporary stored for sepc.
M_alltraps_k_program(m) ==
  m ++ Addi(sp, sp, -34) ++ SAVE_GP
    ++ Csrr(t0, "sstatus") ++ Csrr(t1, "sepc") ++ Sd(t0, SlotSstatus, sp) ++ Sd(t0, SlotSepc, sp)
    ++ Mv(a0, sp) ++ Csrr(t2, "sscratch")

\* The frame of a trap taken in the hypervisor, below its stack pointer.
alltraps_k_program(m) ==
  m ++ Addi(sp, sp, -34) ++ SAVE_GP
    ++ Csrr(t0, "sstatus") ++ Csrr(t1, "sepc") ++ Sd(t0, SlotSstatus, sp) ++ Sd(t1, SlotSepc, sp)
    ++ Mv(a0, sp) ++ Csrr(t2, "sscratch")

\* The hgatp check of hart_entry_1 and switch_to_guest.
set_hgatp(m) == [m EXCEPT !.csr.hgatp = m.mem[Add(TRAP_CONTEXT, SlotHgatp)]]

\* hart_entry_1 and hart_entry_2: __restore's loads, with a1 set last.
hart_entry ==
  /\ At("hart_entry_1")
  /\ LET m == SetReg(set_hgatp(set_user_trap_entry(hart)), a0, TRAP_CONTEXT)
     IN hart' = Sret(SetReg(restore_program(m), GprIndex.A1, GUEST_DTB_ADDR))
  /\ UNCHANGED <<hasH, path, probe, gen, req, given, caller>>

switch_to_guest ==
  /\ At("switch_to_guest")
  /\ LET m == SetReg(set_hgatp(set_user_trap_entry(hart)), a0, TRAP_CONTEXT)
     IN hart' = Sret(restore_program(m))
  /\ UNCHANGED <<hasH, path, probe, gen, req, given, caller>>

alltraps ==
  /\ At("__alltraps")
  /\ LET m == alltraps_program(hart)
     IN hart' = [m EXCEPT !.pc = m.x[t1]]
  /\ UNCHANGED <<hasH, path, probe, gen, req, given, caller>>

\* __alltraps_k ends in jalr t2: trap_from_kernel, which panics and never
\* returns to __restore_k.
alltraps_k ==
  /\ At("__alltraps_k")
  /\ LET m == alltraps_k_program(hart)
     IN hart' = [SetReg(m, GprIndex.RA, Sym("__restore_k")) EXCEPT !.pc = m.x[t2]]
  /\ UNCHANGED <<hasH, path, probe, gen, req, given, caller>>

-----------------------------------------------------------------------------
\* trap_handler, by what it reads and writes of the trap context

Ctx(k) == hart.mem[Add(TRAP_CONTEXT, k)]

Cause(name) == At("trap_handler") /\ hart.csr.scause = Sym(name)

\* The handler's own frame on the stack, and switch_to_guest called at the end.
Served(mem) ==
  /\ hart' = Goto(Clobber(set_kernel_trap_entry([hart EXCEPT !.mem = mem, !.x[sp] = Add(@, -4)]),
                          RustRegs), "switch_to_guest")
  /\ UNCHANGED <<hasH, path, probe, gen, req, caller>>

Panic ==
  /\ hart' = Goto(Clobber(set_kernel_trap_entry(hart), RustRegs), "panic")
  /\ UNCHANGED <<hasH, path, probe, gen, req, given, caller>>

\* The calls whose argument a0 goes to the firmware.
ArgCalls == {<<"BASE", "probe">>, <<"TIME", "set_timer">>,
             <<"PUTCHAR", "none">>, <<"SET_TIMER", "none">>}
SbiCalls == ArgCalls \cup {<<"BASE", "spec_version">>, <<"BASE", "vendor">>,
                           <<"TIME", "other">>, <<"GETCHAR", "none">>}
PanicCalls == {<<"BASE", "other">>, <<"other", "none">>}

\* SbiRet of each call; the firmware's answers are words of their own.
sbi_ret(call) ==
  CASE call \in {<<"BASE", "spec_version">>, <<"BASE", "probe">>} ->
         [error |-> <<"firmware", gen, 0>>, value |-> <<"firmware", gen, 1>>]
    [] call \in {<<"BASE", "vendor">>, <<"GETCHAR", "none">>} ->
         [error |-> Zero, value |-> <<"firmware", gen, 1>>]
    [] call = <<"TIME", "other">> -> [error |-> Sym("NOT_SUPPORTED"), value |-> Zero]
    [] OTHER -> [error |-> Zero, value |-> Zero]

sbi_vs_handler ==
  LET call == <<Ctx(GprIndex.A7)[1], Ctx(GprIndex.A6)[1]>> IN
  /\ Cause("ecall")
  /\ \/ /\ call \in SbiCalls
        /\ Served([hart.mem EXCEPT ![Add(TRAP_CONTEXT, GprIndex.A0)] = sbi_ret(call).error,
                                   ![Add(TRAP_CONTEXT, GprIndex.A1)] = sbi_ret(call).value,
                                   ![Add(TRAP_CONTEXT, SlotSepc)] = Add(@, 4)])
        /\ given' = IF call \in ArgCalls THEN Ctx(GprIndex.A0) ELSE given
     \/ call \in PanicCalls /\ Panic

\* guest_page_fault_handler and handle_plic_access: htinst stands for the decoded
\* instruction <<kind, register, length>>: "lw" of claim, "sw" of threshold or
\* complete, "beyond" for an access to a register behind these, for which there is
\* no branch, and "other" for what ends in an error or a panic.
handle_plic_access ==
  LET inst == hart.csr.htinst
      Slot == Add(TRAP_CONTEXT, inst[2])
      step == [hart.mem EXCEPT ![Add(TRAP_CONTEXT, SlotSepc)] = Add(@, inst[3])]
  IN /\ Cause("page_fault")
     /\ \/ /\ inst[1] = "lw"
           /\ Served([step EXCEPT ![Slot] = Sym("claim")])
           /\ UNCHANGED given
        \/ /\ inst[1] = "sw"
           /\ Served(step)
           /\ given' = hart.mem[Slot]
        \/ inst[1] = "beyond" /\ Served(step) /\ UNCHANGED given
        \/ inst[1] = "other" /\ Panic

\* The handler faults itself, on the read of the instruction or the access to
\* the PLIC: a trap from the hypervisor.
kernel_fault ==
  /\ Cause("page_fault")
  /\ hart' = Trap([Clobber(set_kernel_trap_entry(hart), RustRegs)
                     EXCEPT !.x[sp] = Add(@, -4), !.pc = Sym("rust_access")],
                  Sym("LoadFault"))
  /\ UNCHANGED <<hasH, path, probe, gen, req, given, caller>>

forward_exception ==
  /\ Cause("illegal")
  /\ Served([hart.mem EXCEPT ![Add(TRAP_CONTEXT, SlotSepc)] = Sym("vstvec")])
  /\ UNCHANGED given

\* handle_irq and the timer arm leave the context alone.
interrupt == Cause("irq") /\ Served(hart.mem) /\ UNCHANGED given

-----------------------------------------------------------------------------
\* guest.S

SwapCsr(m, c, from, to) == m ++ Ld(t1, from, a0) ++ Csrrw(t1, c, t1) ++ Sd(t1, to, a0)

\* ra gp tp s0 s1 a1-a7 s2-s11 sp, and for the guest t0-t6 too, in a table of
\* registers that starts at base.
HypGprs == {1, 2, 3, 4, 8, 9} \cup 11 .. 27
GuestGprs == HypGprs \cup 5 .. 7 \cup 28 .. 31
StoreGprs(S, base) == Sds([k \in {base + r : r \in S} |-> k - base], a0)
LoadGprs(S, base) == Lds([r \in S |-> base + r], a0)

SwapToGuest(m) ==
  LET n == SwapCsr(m, "sstatus", GuestCsr.sstatus, HypCsr.sstatus)
      k == SwapCsr(n, "hstatus", GuestCsr.hstatus, HypCsr.hstatus)
  IN SwapCsr(k, "scounteren", GuestCsr.scounteren, HypCsr.scounteren)

SwapToHyp(m) ==
  LET n == SwapCsr(m, "sstatus", HypCsr.sstatus, GuestCsr.sstatus)
      k == SwapCsr(n, "hstatus", HypCsr.hstatus, GuestCsr.hstatus)
  IN SwapCsr(k, "scounteren", HypCsr.scounteren, GuestCsr.scounteren)

run_guest_program(m) ==
  SwapToGuest(m ++ StoreGprs(HypGprs, hyp_gpr_offset(0)))
    ++ Ld(t1, GuestCsr.sepc, a0) ++ Csrw("sepc", t1)
    ++ La(t1, "_guest_exit") ++ Csrrw(t1, "stvec", t1) ++ Sd(t1, HypCsr.stvec, a0)
    ++ Csrrw(t1, "sscratch", a0) ++ Sd(t1, HypCsr.sscratch, a0)
    ++ LoadGprs(GuestGprs, guest_gpr_offset(0)) ++ Ld(a0, guest_gpr_offset(a0), a0)

\* The guest's registers saved, its a0 from sscratch.
SaveGuest(m) ==
  m ++ Csrrw(a0, "sscratch", a0) ++ StoreGprs(GuestGprs, guest_gpr_offset(0))
    ++ Csrr(t0, "sscratch") ++ Sd(t0, guest_gpr_offset(a0), a0)

\* The vector restored and the scratch register left at the guest's state.
M_guest_exit_program(m) ==
  SwapToHyp(SaveGuest(m))
    ++ Ld(t1, HypCsr.stvec, a0) ++ Csrw("stvec", t1)
    ++ Csrr(t1, "sepc") ++ Sd(t1, GuestCsr.sepc, a0) ++ LoadGprs(HypGprs, hyp_gpr_offset(0))

guest_exit_program(m) ==
  SwapToHyp(SaveGuest(m))
    ++ Ld(t1, HypCsr.stvec, a0) ++ Csrw("stvec", t1)
    ++ Ld(t1, HypCsr.sscratch, a0) ++ Csrw("sscratch", t1)
    ++ Csrr(t1, "sepc") ++ Sd(t1, GuestCsr.sepc, a0) ++ LoadGprs(HypGprs, hyp_gpr_offset(0))

\* External: a caller that keeps the guest's state in a VmCpuRegisters.
NewVmCpu(a) ==
  CASE a = Add(VmCpu, guest_gpr_offset(GprIndex.A1)) -> GUEST_DTB_ADDR
    [] a = Add(VmCpu, GuestCsr.sstatus) -> Sstatus(1, 0, 0)
    [] a = Add(VmCpu, GuestCsr.hstatus) -> Hstatus(1)
    [] a = Add(VmCpu, GuestCsr.sepc) -> GUEST_START_VA
    [] a = Add(VmCpu, GuestCsr.scounteren) -> Sym("guest_counteren")
    [] OTHER -> hart.mem[a]

\* _run_guest(&state), up to the sret into the guest.
run_guest ==
  /\ path = "guest.S" /\ (At("probed") \/ At("caller"))
  /\ caller' = [Clobber(hart, RustRegs) EXCEPT
                  !.x[a0] = VmCpu, !.x[GprIndex.RA] = Sym("caller"),
                  !.mem = IF At("probed") THEN [a \in Addresses |-> NewVmCpu(a)] ELSE @]
  /\ hart' = Sret(run_guest_program(caller'))
  /\ UNCHANGED <<hasH, path, probe, gen, req, given>>

\* _guest_exit, up to the ret into _run_guest's caller.
guest_exit ==
  /\ At("_guest_exit")
  /\ LET m == guest_exit_program(hart)
     IN hart' = [m EXCEPT !.pc = m.x[GprIndex.RA]]
  /\ UNCHANGED <<hasH, path, probe, gen, req, given, caller>>

-----------------------------------------------------------------------------
\* External: the guest.

GuestRuns ==
  /\ hart.virt = 1 /\ gen < MaxGen
  /\ gen' = gen + 1
  /\ \E priv \in {0, 1} :
       hart' = [hart EXCEPT !.x = [r \in Regs |-> IF r = 0 THEN Zero ELSE <<"guest", gen', r>>],
                            !.pc = <<"guest_pc", gen', 0>>, !.priv = priv]
  /\ req' = NoReq
  /\ UNCHANGED <<hasH, path, probe, given, caller>>

\* The guest's kernel loads the number of an SBI call.
GuestCalls ==
  /\ hart.virt = 1 /\ hart.priv = 1 /\ req = NoReq
  /\ \E call \in SbiCalls \cup PanicCalls :
       /\ hart' = [hart EXCEPT !.x = [@ EXCEPT ![GprIndex.A7] = Sym(call[1]),
                                               ![GprIndex.A6] = Sym(call[2])]]
       /\ req' = [NoReq EXCEPT !.kind = "calling", !.call = call]
  /\ UNCHANGED <<hasH, path, probe, gen, given, caller>>

GuestTraps(cause, q) ==
  /\ hart.virt = 1
  /\ hart' = [Trap(hart, Sym(cause)) EXCEPT !.csr.htinst = <<q.kind, q.reg, q.len>>]
  /\ req' = q
  /\ UNCHANGED <<hasH, path, probe, gen, given, caller>>

Accesses == [kind : {"lw"}, reg : LoadRegs, len : {2, 4}, call : {NoReq.call}]
            \cup [kind : {"sw"}, reg : StoreRegs, len : {2, 4}, call : {NoReq.call}]
            \cup [kind : {"beyond", "other"}, reg : {0}, len : {2, 4}, call : {NoReq.call}]

\* One exit, and perhaps an interrupt right after its answer, until the guest
\* has moved on.
GuestExits ==
  \/ path = "trap.S" /\ req.kind = "calling" /\ GuestTraps("ecall", [req EXCEPT !.kind = "ecall"])
  \/ /\ path = "trap.S" /\ req = NoReq /\ hart.priv = 1
     /\ \E q \in Accesses : GuestTraps("page_fault", q)
  \/ path = "trap.S" /\ req = NoReq /\ GuestTraps("illegal", [NoReq EXCEPT !.kind = "illegal"])
  \/ req.kind # "irq" /\ GuestTraps("irq", [NoReq EXCEPT !.kind = "irq"])

Probing == init_detect_trap \/ read_hgatp \/ on_detect_trap \/ restore_detect_trap

Handling == sbi_vs_handler \/ handle_plic_access \/ kernel_fault \/ forward_exception
            \/ interrupt

SwitchNext == Probing \/ Guest_new \/ hart_entry \/ switch_to_guest \/ alltraps
              \/ alltraps_k \/ Handling \/ run_guest \/ guest_exit
              \/ GuestRuns \/ GuestCalls \/ GuestExits

SwitchSpec == SwitchInit /\ [][SwitchNext]_switchVars

-----------------------------------------------------------------------------
\* Where the guest's state is: on the hart until it has been saved, then in the
\* trap context (tp stays on the hart) or in the VmCpuRegisters.
OnHart == hart.virt = 1 \/ At("__alltraps") \/ At("_guest_exit")

SavedReg(r) ==
  CASE r = 0 -> Zero
    [] r = tp /\ path = "trap.S" -> hart.x[tp]
    [] r # 0 /\ path = "guest.S" -> hart.mem[Add(VmCpu, guest_gpr_offset(r))]
    [] OTHER -> hart.mem[Add(TRAP_CONTEXT, r)]

SavedCsr(slot, field) ==
  hart.mem[IF path = "trap.S" THEN Add(TRAP_CONTEXT, slot) ELSE Add(VmCpu, field)]

Answered == hart.virt = 0 /\ (At("switch_to_guest") \/ At("caller"))

GuestState ==
  CASE hart.virt = 1 -> "running"
    [] Answered -> "answered"
    [] hart.virt = 0 /\ ~Answered /\ req # NoReq -> "exited"
    [] OTHER -> "off"

GuestPc ==
  CASE hart.virt = 1 -> hart.pc
    [] hart.virt = 0 /\ OnHart -> hart.csr.sepc
    [] OTHER -> SavedCsr(SlotSepc, GuestCsr.sepc)

GuestMode ==
  CASE hart.virt = 1 -> <<1, hart.priv>>
    [] hart.virt = 0 /\ OnHart -> <<SPV(hart.csr.hstatus), SPP(hart.csr.sstatus)>>
    [] OTHER -> <<SPV(SavedCsr(SlotHstatus, GuestCsr.hstatus)),
                  SPP(SavedCsr(SlotSstatus, GuestCsr.sstatus))>>

\* The processor that the guest sees, once it has one.
CpuRegs ==
  IF GuestState = "off" THEN <<>>
  ELSE [r \in Regs |-> IF OnHart THEN hart.x[r] ELSE SavedReg(r)]

CpuPc == IF GuestState = "off" THEN Zero ELSE GuestPc

CpuMode == IF GuestState = "off" THEN <<0, 0>> ELSE GuestMode

Cpu == INSTANCE GuestCpu WITH
  Entry <- GUEST_START_VA, Dtb <- GUEST_DTB_ADDR, Vector <- Sym("vstvec"),
  st <- GuestState, regs <- CpuRegs, pc <- CpuPc, mode <- CpuMode

\* The guest has a processor of its own: across any sequence of exits, by either
\* switch, every register, the pc and the mode are what the guest left, but for
\* the answer to the exit, and what it hands over is what arrives.
ImplementsGuestCpu == Cpu!CpuSpec

\* A store of the guest that the hypervisor carries out sends the register it
\* names, x0 to x31: handle_plic_access takes it from the trap context's x.
StoresArrive ==
  [][Cause("page_fault") /\ req.kind = "sw" /\ hart'.pc = Sym("switch_to_guest")
       => given' = SavedReg(req.reg)]_switchVars

\* _run_guest returns to its caller with the registers that it may rely on, and
\* with the hypervisor's sstatus, hstatus, scounteren, stvec and sscratch.
CallerKeepsState ==
  At("caller") =>
    /\ \A r \in Regs \ CallerSaved : hart.x[r] = caller.x[r]
    /\ \A c \in DOMAIN HypCsr : hart.csr[c] = caller.csr[c]

\* The registers, stvec and the interrupt enable are as before the probe.
ProbeUndone ==
  (At("probed") \/ (At("panic") /\ req = NoReq)) =>
    /\ At("probed") <=> hasH
    /\ \A r \in Regs \ {probe.rd} : hart.x[r] = probe.before.x[r]
    /\ ~hasH => hart.x = probe.before.x
    /\ hart.csr.stvec = probe.before.csr.stvec
    /\ SIE(hart.csr.sstatus) = SIE(probe.before.csr.sstatus)

\* The probe answers whether the hart has the H extension and leaves no trace:
\* every register but the one the csrr writes, stvec and the interrupt enable.
\* The trap it takes on purpose resumes exactly behind the csrr.
ProbeTransparent == ProbeUndone /\ (hart.pc[1] = "csrr" => hart.pc[3] \in {0, 4})

\* No interrupt reaches the hypervisor between two of its instructions, not even
\* between __restore's write of sstatus and its sret: neither its sstatus nor
\* any that it is about to write enables them.  So the routines are atomic.
HostUninterrupted ==
  /\ hart.virt = 0 => SIE(hart.csr.sstatus) = 0
  /\ SIE(Ctx(SlotSstatus)) = 0
  /\ \A slot \in {HypCsr.sstatus, GuestCsr.sstatus} : SIE(hart.mem[Add(VmCpu, slot)]) = 0

\* Rust code entered from a trap runs on the hypervisor's stack, and a trap in
\* the hypervisor reaches trap_from_kernel with the pc that it reports.
HypervisorStack ==
  /\ At("trap_handler") => hart.x[sp] = HStackTop
  /\ At("trap_from_kernel") => /\ hart.x[sp] = Add(HStackTop, -38)
                               /\ hart.mem[Add(hart.x[a0], SlotSepc)] = Sym("rust_access")
=============================================================================
