-------------------------------- MODULE VmExit --------------------------------
(***************************************************************************)
(* The hart: the guest runs, traps into __alltraps, trap_handler takes the *)
(* HOST_VMM lock, serves the cause, releases the lock, and switch_to_guest *)
(* returns.  One step per point at which the devices or the clock can be   *)
(* seen to move.  It drives the interrupt and timer emulation of VirtPlic  *)
(* and VirtTimer, whose operations are the arms of trap_handler's match.   *)
(* Supervisor interrupts are off while the hypervisor runs (sstatus.SIE is *)
(* clear from trap entry to sret) and always on while the guest runs.      *)
(***************************************************************************)
EXTENDS VirtPlic, VirtTimer

CONSTANT Insns      \* the guest instructions that may leave the guest

\* What an instruction causes is an exception, never an interrupt.
ASSUME InsnsAssumption ==
  /\ Insns \subseteq [cause : STRING, call : STRING, addr : Nat, op : STRING]
  /\ \A i \in Insns : i.cause \notin {"SupervisorExternal", "SupervisorTimer"}

base_addr == 201326592                   \* 0x0c00_0000

is_plic_access(addr) == addr >= base_addr /\ addr < 268435456

\* Of the contexts' registers the guest uses the threshold and the claim register
\* of its own; what lies beyond them in a context is not emulated.
ASSUME DriverAssumption ==
  \A i \in Insns :
    (is_plic_access(i.addr) /\ InContextArea(i.addr - base_addr)) =>
      \/ i.addr - base_addr \in {ThresholdReg, ClaimReg}
      \/ indexOf(i.addr - base_addr) > 1

NoInsn == [cause |-> "none", call |-> "none", addr |-> 0, op |-> "none"]

VARIABLES hart,     \* where the hart is
          locked,   \* HOST_VMM's mutex
          cause,    \* scause, "none" while the guest runs: only a trap sets it again
          err,      \* trap_handler's err, or the panic it stopped with
          sepc,     \* ctx.sepc: at the trapped instruction, next, or vstvec
          spp,      \* ctx.sstatus.SPP: the mode sret returns to
          stvec, sscratch, hgatp,
          mode,     \* the guest's mode, VS or VU
          gpc,      \* the guest is at its trap vector, or anywhere else
          insn,     \* the exiting instruction the guest is at
          preempt   \* a supervisor interrupt was pending at the last sret

ctx == <<sepc, spp>>
csrs == <<stvec, sscratch, hgatp>>
guestVars == <<mode, gpc, insn, preempt>>
vmVars == <<hart, locked, cause, err, ctx, csrs, guestVars, plicVars, timerVars>>

\* hentry up to hart_entry_1: trap_init, TrapContext::initialize_context.
VmInit ==
  /\ PlicInit /\ TimerInit
  /\ hart = "boot" /\ locked = FALSE /\ cause = "none" /\ err = "none"
  /\ sepc = "at" /\ spp = "VS"
  /\ stvec = "__alltraps_k" /\ sscratch = "trap_from_kernel" /\ hgatp = "none"
  /\ mode = "VS" /\ gpc = "run" /\ insn = NoInsn /\ preempt = FALSE

\* sie.STIE not among the interrupts that init_vmm enables.
M_HsIrq == seip

HsIrq == seip \/ (stie /\ stip)

\* init_vmm: exceptions that go to the guest without the hypervisor.
M_hedeleg == {"InstAddrMisalign", "Breakpoint", "InstPageFault",
              "LoadPageFault", "StorePageFault"}

hedeleg == {"InstAddrMisalign", "Breakpoint", "UserEnvCall", "InstPageFault",
            "LoadPageFault", "StorePageFault"}

-----------------------------------------------------------------------------
\* __restore and sret.  Interrupt conditions are evaluated at the sret.
restore ==
  /\ sscratch' = "TRAP_CONTEXT"
  /\ mode' = spp
  /\ gpc' = IF sepc = "vstvec" THEN "vstvec" ELSE "run"
  /\ insn' = IF sepc = "at" THEN insn ELSE NoInsn
  /\ preempt' = HsIrq
  /\ cause' = "none"
  /\ hart' = "guest"

M_switch_to_guest ==
  /\ hart = "resume"
  /\ hgatp' = "gpm"
  /\ restore
  /\ UNCHANGED <<stvec, locked, err, ctx, plicVars, timerVars>>

\* set_user_trap_entry, the hgatp check, then __restore.
switch_to_guest ==
  /\ hart = "resume"
  /\ stvec' = "__alltraps"
  /\ hgatp' = "gpm"
  /\ restore
  /\ UNCHANGED <<locked, err, ctx, plicVars, timerVars>>

\* hart_entry_1 and hart_entry_2: the first entry, with the same effect.
hart_entry ==
  /\ hart = "boot"
  /\ stvec' = "__alltraps"
  /\ hgatp' = "gpm"
  /\ restore
  /\ UNCHANGED <<locked, err, ctx, plicVars, timerVars>>

\* __alltraps: sp and sscratch swapped, the context saved, trap_handler entered.
alltraps(c) ==
  /\ hart' = IF stvec = "__alltraps" /\ sscratch = "TRAP_CONTEXT"
               THEN "entry" ELSE "stopped"
  /\ cause' = c
  /\ spp' = mode
  /\ sepc' = IF gpc = "vstvec" THEN "vstvec" ELSE "at"
  /\ sscratch' = "guest sp"
  /\ UNCHANGED <<locked, err, stvec, hgatp, plicVars, timerVars>>

\* A supervisor interrupt while the guest runs; external before timer.
TakeIrq ==
  /\ hart = "guest"
  /\ HsIrq
  /\ alltraps(IF seip THEN "SupervisorExternal" ELSE "SupervisorTimer")
  /\ preempt' = FALSE
  /\ UNCHANGED <<mode, gpc, insn>>

\* The guest executes the instruction it is at.
TakeException ==
  /\ hart = "guest" /\ ~preempt
  /\ insn # NoInsn /\ insn.cause \notin hedeleg
  /\ alltraps(insn.cause)
  /\ UNCHANGED guestVars

-----------------------------------------------------------------------------
\* trap_handler: set_kernel_trap_entry, then the lock.
enter_handler ==
  /\ hart = "entry"
  /\ stvec' = "__alltraps_k" /\ sscratch' = "trap_from_kernel"
  /\ ~locked
  /\ locked' = TRUE
  /\ hart' = "handler"
  /\ UNCHANGED <<cause, err, ctx, hgatp, guestVars, plicVars, timerVars>>

Serving(c) == hart = "handler" /\ cause = c

\* The guard never dropped: switch_to_guest does not return.
M_Served(e) ==
  /\ hart' = IF e = "none" THEN "resume" ELSE "stopped"
  /\ err' = e
  /\ UNCHANGED <<locked, cause, spp, csrs, mode, gpc, insn, preempt>>

\* The arm returned: the guard is dropped; handle_internal_vmm_error panics on
\* any error, otherwise switch_to_guest follows.
Served(e) ==
  /\ hart' = IF e = "none" THEN "resume" ELSE "stopped"
  /\ locked' = FALSE
  /\ err' = e
  /\ UNCHANGED <<cause, spp, csrs, mode, gpc, insn, preempt>>

\* A panic inside an arm: the panic handler shuts the machine down.
Panic ==
  /\ hart' = "stopped"
  /\ err' = "panic"
  /\ UNCHANGED <<locked, cause, ctx, csrs, guestVars, plicVars, timerVars>>

\* The guest goes on behind the trapped instruction.
SteppedOver == sepc' = "next" /\ Served("none")

\* sbi_vs_handler: set_timer of either extension; calls that only answer in a0
\* and a1 (base, console, TIME with another fid); a panic for the rest.
sbi_vs_handler ==
  /\ Serving("VirtualSupervisorEnvCall")
  /\ \/ /\ insn.call = "set_timer"
        /\ \E t \in 0 .. Never : set_timer(t)
        /\ UNCHANGED plicVars
        /\ SteppedOver
     \/ /\ insn.call \in {"console", "base", "time_bad_fid"}
        /\ UNCHANGED <<plicVars, timerVars>>
        /\ SteppedOver
     \/ insn.call \in {"unknown", "base_bad_fid"} /\ Panic

-----------------------------------------------------------------------------
Failed(e) == Served(e) /\ UNCHANGED <<ctx, plicVars, timerVars>>

\* The emulated register cleared by the claim, as the machine's PLIC would.
M_handle_plic_access(offset) ==
  /\ InContextArea(offset)
  /\ \/ \E v \in Thresholds : insn.op = "Sw" /\ WriteThreshold(offset, v)
     \/ insn.op = "Sw" /\ WriteComplete(offset, handling)
     \/ /\ insn.op = "Lw" /\ indexOf(offset) = 1
        /\ handling' = claim_complete[hartOf(offset)]
        /\ isr' = (handling' # 0)
        /\ claim_complete' = [claim_complete EXCEPT ![hartOf(offset)] = 0]
        /\ UNCHANGED <<hwPlic, vseip, irq_pending>>
  /\ UNCHANGED timerVars
  /\ SteppedOver

\* handle_plic_access on the decoded instruction.  For a register beyond the claim
\* register it has no branch: the access has no effect and is stepped over.
handle_plic_access(offset) ==
  \/ ~InContextArea(offset) /\ Panic
  \/ /\ InContextArea(offset)
     /\ \/ /\ \/ /\ insn.op = "Sw"
                 /\ \/ \E v \in Thresholds : WriteThreshold(offset, v)
                    \/ WriteComplete(offset, handling)
              \/ insn.op = "Lw" /\ ReadClaim(offset)
              \/ indexOf(offset) > 1 /\ UNCHANGED plicVars
           /\ UNCHANGED timerVars
           /\ SteppedOver
        \/ /\ \/ indexOf(offset) = 0 /\ insn.op # "Sw"
              \/ indexOf(offset) = 1 /\ insn.op \notin {"Sw", "Lw"}
           /\ Failed("UnexpectedInst")

\* guest_page_fault_handler.  insn.op stands for what htinst, the first-stage
\* walk and the decoder give for the access: an operation or one of the errors.
DecodeErrors == {"TranslationError", "PseudoInst", "DecodeInstError"}

guest_page_fault_handler ==
  /\ Serving("GuestPageFault")
  /\ \/ ~is_plic_access(insn.addr) /\ Failed("DeviceNotFound")
     \/ /\ is_plic_access(insn.addr)
        /\ \/ insn.op \in DecodeErrors /\ Failed(insn.op)
           \/ /\ insn.op \notin DecodeErrors
              /\ handle_plic_access(insn.addr - base_addr)

\* The fetch fault arm takes HOST_VMM's lock, which this handler holds: a spin
\* lock, so the hart waits for itself and the panic that follows is not reached.
instruction_guest_page_fault ==
  /\ Serving("InstructionGuestPageFault")
  /\ locked
  /\ hart' = "spinning"
  /\ UNCHANGED <<locked, cause, err, ctx, csrs, guestVars, plicVars, timerVars>>

\* privileged_inst_handler is todo!(), and the arm for VU-mode calls panics.
panicking_arm ==
  /\ \E c \in {"VirtualInstruction", "UserEnvCall"} : Serving(c)
  /\ Panic

\* VSEIP raised without a claim.
M_external_irq ==
  /\ Serving("SupervisorExternal")
  /\ vseip' = TRUE
  /\ UNCHANGED <<hwPlic, claim_complete, irq_pending, isr, handling>>
  /\ Served("none") /\ UNCHANGED <<sepc, timerVars>>

external_irq ==
  /\ Serving("SupervisorExternal")
  /\ handle_irq
  /\ Served("none") /\ UNCHANGED <<sepc, timerVars>>

\* The interrupt disabled and not forwarded.
M_supervisor_timer ==
  /\ Serving("SupervisorTimer")
  /\ stie' = FALSE
  /\ UNCHANGED <<time, stimecmp, vstip>>
  /\ Served("none") /\ UNCHANGED <<sepc, plicVars>>

\* The interrupt forwarded and not disabled.
M2_supervisor_timer ==
  /\ Serving("SupervisorTimer")
  /\ vstip' = TRUE
  /\ UNCHANGED <<time, stimecmp, stie>>
  /\ Served("none") /\ UNCHANGED <<sepc, plicVars>>

supervisor_timer ==
  /\ Serving("SupervisorTimer")
  /\ timer_irq
  /\ Served("none") /\ UNCHANGED <<sepc, plicVars>>

\* Any other cause: vsepc and vscause are written, the guest resumes at vstvec.
forward_exception ==
  /\ Serving("IllegalInstruction")
  /\ sepc' = "vstvec"
  /\ Served("none") /\ UNCHANGED <<plicVars, timerVars>>

trap_handler ==
  \/ enter_handler
  \/ sbi_vs_handler \/ guest_page_fault_handler \/ instruction_guest_page_fault
  \/ panicking_arm
  \/ external_irq \/ supervisor_timer \/ forward_exception
  \/ switch_to_guest

-----------------------------------------------------------------------------
\* External: the guest.  Its PLIC driver reads claim and writes complete only
\* inside its interrupt handler, in turn; SBI calls come from VS-mode.
MayIssue(i) ==
  /\ i.cause = "VirtualSupervisorEnvCall" => mode = "VS"
  /\ i.cause = "UserEnvCall" => mode = "VU"
  /\ i.cause = "GuestPageFault" => mode = "VS"
  /\ i.addr = base_addr + ClaimReg => /\ isr
                                      /\ (i.op = "Lw" <=> handling = 0)

GuestMoves == hart = "guest" /\ ~preempt /\ insn = NoInsn

onlyGuest == <<hart, locked, cause, err, ctx, csrs, preempt, timerVars>>

Issue(i) ==
  /\ GuestMoves /\ gpc = "run"
  /\ MayIssue(i) /\ insn' = i
  /\ UNCHANGED <<onlyGuest, mode, gpc, plicVars>>

GuestIssue == \E i \in Insns : Issue(i)

\* A delegated exception: the guest traps into its own vector in VS-mode.
GuestOwnTrap ==
  /\ hart = "guest" /\ ~preempt
  /\ insn # NoInsn /\ insn.cause \in hedeleg
  /\ mode' = "VS" /\ gpc' = "vstvec" /\ insn' = NoInsn
  /\ UNCHANGED <<onlyGuest, plicVars>>

\* The guest leaves its trap vector, or returns to user mode.
GuestRuns ==
  /\ GuestMoves
  /\ gpc' = "run"
  /\ mode' \in {mode} \cup (IF isr THEN {} ELSE {"VU"})
  /\ UNCHANGED <<onlyGuest, insn, plicVars>>

\* The guest takes its external interrupt.
GuestVsInterrupt ==
  /\ GuestMoves
  /\ GuestEnterIsr
  /\ mode' = "VS" /\ gpc' = "run"
  /\ UNCHANGED <<onlyGuest, insn>>

Environment ==
  /\ hart # "stopped"
  /\ \/ Tick /\ UNCHANGED plicVars
     \/ (\E s \in Sources : DeviceRaise(s)) /\ UNCHANGED timerVars
  /\ UNCHANGED <<hart, locked, cause, err, ctx, csrs, guestVars>>

GuestNext == GuestIssue \/ GuestOwnTrap \/ GuestRuns \/ GuestVsInterrupt

VmNext == hart_entry \/ trap_handler \/ TakeIrq \/ TakeException
          \/ GuestNext \/ Environment

VmSafety == VmInit /\ [][VmNext]_vmVars

\* The hart executes: the hypervisor's code, an interrupt, or the instruction that
\* the guest is at.
HartFairness ==
  /\ WF_vmVars(hart_entry \/ trap_handler)
  /\ WF_vmVars(TakeIrq)
  /\ WF_vmVars(TakeException \/ GuestOwnTrap)

\* The guest's kernel: it leaves its vector, does not put off its external
\* interrupt for ever, and in its handler goes on to claim and complete.
GuestFairness ==
  /\ WF_vmVars(gpc = "vstvec" /\ GuestRuns)
  /\ SF_vmVars(GuestVsInterrupt)
  /\ SF_vmVars(\E i \in Insns : i.addr = base_addr + ClaimReg /\ Issue(i))

VmSpec == VmSafety /\ HartFairness /\ GuestFairness

-----------------------------------------------------------------------------
\* While the guest runs, everything the next trap relies on is in place: the
\* HOST_VMM lock is free, stvec is __alltraps, sscratch points at the trap
\* context and hgatp holds the guest's page table (switch_to_guest, __restore).
GuestRunsReady ==
  hart = "guest" => /\ ~locked
                    /\ stvec = "__alltraps" /\ sscratch = "TRAP_CONTEXT"
                    /\ hgatp = "gpm"

\* What the hypervisor puts up with: a guest's own exceptions, the SBI calls it
\* answers, and word accesses to the PLIC's contexts, but for a load of the
\* threshold.
Supported(i) ==
  LET offset == i.addr - base_addr IN
  \/ i = NoInsn
  \/ i.cause \in {"InstAddrMisalign", "Breakpoint", "UserEnvCall", "InstPageFault",
                  "LoadPageFault", "StorePageFault", "IllegalInstruction"}
  \/ /\ i.cause = "VirtualSupervisorEnvCall"
     /\ i.call \in {"set_timer", "console", "base", "time_bad_fid"}
  \/ /\ i.cause = "GuestPageFault" /\ is_plic_access(i.addr) /\ InContextArea(offset)
     /\ i.op = "Sw" \/ (i.op = "Lw" /\ indexOf(offset) >= 1)

\* Only an instruction that is not supported stops the hart: neither a supported
\* one, whatever interrupts arrive around it, nor an interrupt by itself does.
OnlyUnsupportedStops ==
  hart \in {"stopped", "spinning"} => cause = insn.cause /\ ~Supported(insn)

\* The composed hart drives the interrupt emulation as VirtPlic allows, and the
\* timer as VirtTimer does.
ImplementsPlic == PlicSafety
ImplementsTimer == TimerInit /\ [][TimerNext]_timerVars

Halted == hart \in {"stopped", "spinning"}

\* Every exit from the guest ends with the guest running again, or a stop (but
\* for a fetch fault, see FetchFaultReported).
ExitsEnd ==
  (hart = "entry" /\ cause # "InstructionGuestPageFault") ~> hart \in {"guest", "stopped"}

\* What the guest sees of its timer, whatever else it does: arming lowers the
\* line, which rises once per arming, never early, and always in the end while
\* the hart runs: exits of the guest's own never keep the interrupt out.
HartTimer == INSTANCE GuestTimer WITH
               Times <- 0 .. MaxTime, Deadlines <- 0 .. Never,
               clock <- time, deadline <- stimecmp, line <- vstip,
               running <- ~Halted

ImplementsGuestTimer == HartTimer!GTSpec

\* A device interrupt above the threshold is claimed from the PLIC.
IrqClaimed ==
  \A s \in Sources : s \in pending ~>
    (s \notin pending \/ threshold >= Priority[s] \/ Halted)

\* Until for the first time two interrupts are outstanding at once, one above the
\* threshold reaches the guest's handler: handle_irq claims it and raises VSEIP,
\* and the guest's load of the claim register is answered with its id.
PendingIsServed ==
  \A s \in Sources : s \in pending ~>
    (handling = s \/ threshold >= Priority[s] \/ burst \/ Halted)

\* A source the guest serves is eventually free to interrupt again: the store to
\* the claim register traps, and its completion reaches the machine's PLIC.
ServedIsCompleted ==
  \A s \in Sources : handling = s ~> (s \notin inService \/ Halted)

\* An instruction that exits is behind the guest in the end, stepped over or
\* forwarded: no interrupt comes back at each sret, before the instruction, since
\* every handler removes what it interrupts for (the claim, clear_stimer).
GuestGoesOn == insn # NoInsn ~> (insn = NoInsn \/ Halted)

\* A fetch fault ends in the panic that reports it.
FetchFaultReported ==
  (hart = "handler" /\ cause = "InstructionGuestPageFault") ~> hart = "stopped"

\* A forwarded exception resumes the guest at its trap vector in supervisor mode.
VectorInSupervisor == (hart = "guest" /\ gpc = "vstvec") => mode = "VS"
=============================================================================
