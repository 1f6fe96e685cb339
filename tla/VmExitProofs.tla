----------------------------- MODULE VmExitProofs -----------------------------
(***************************************************************************)
(* The hart and the two devices it emulates.  First the guest timer, for   *)
(* every bound on the clock; then the emulated claim/complete register,    *)
(* for any set of sources, any priorities and any thresholds; then the     *)
(* hart, for every set of guest instructions, which drives the two         *)
(* emulations only in the ways VirtTimer and VirtPlic allow, so that their *)
(* invariants hold of the whole.                                           *)
(***************************************************************************)
EXTENDS VmExit, TLAPS

-----------------------------------------------------------------------------
(* The guest timer.  NoEarlyTick and OwedIffEnabled are proved together    *)
(* with the types: that the interrupt handler finds the line down, which   *)
(* the refinement needs, is OwedIffEnabled, and neither is inductive       *)
(* without the ranges.                                                     *)

TimerInv == TimerTypeOK /\ NoEarlyTick /\ OwedIffEnabled

\* init_vmm establishes the invariant.
LEMMA TimerInitInv == TimerInit => TimerInv
<1> SUFFICES ASSUME TimerInit PROVE TimerInv
  OBVIOUS
<1>1. TimerTypeOK
  <2>1. time \in 0 .. MaxTime /\ stimecmp \in 0 .. Never
    BY TimeAssumption DEF TimerInit, Never
  <2>2. QED
    BY <2>1 DEF TimerInit, TimerTypeOK
<1>2. NoEarlyTick /\ OwedIffEnabled
  BY Zenon DEF TimerInit, NoEarlyTick, OwedIffEnabled
<1>3. QED
  BY <1>1, <1>2 DEF TimerInv

\* The clock, set_timer and the timer interrupt preserve it.
LEMMA TimerStepInv == TimerInv /\ [TimerNext]_timerVars => TimerInv'
<1> SUFFICES ASSUME TimerInv, [TimerNext]_timerVars
             PROVE  TimerInv'
  OBVIOUS
<1> USE TimeAssumption DEF TimerInv, TimerTypeOK, NoEarlyTick, OwedIffEnabled, Never
<1>1. CASE Tick
  BY <1>1 DEF Tick
<1>2. CASE TimerInterrupt
  BY <1>2 DEF TimerInterrupt, timer_irq, stip
<1>3. CASE \E t \in 0 .. Never : set_timer(t)
  BY <1>3 DEF set_timer
<1>4. CASE UNCHANGED timerVars
  BY <1>4 DEF timerVars
<1>5. QED
  BY <1>1, <1>2, <1>3, <1>4 DEF TimerNext

\* The clock, the deadline and the interrupt bits keep their types.
THEOREM TimerTypeCorrect == TimerSpec => []TimerTypeOK
<1>1. TimerInv => TimerTypeOK
  BY DEF TimerInv
<1>2. QED
  BY <1>1, TimerInitInv, TimerStepInv, PTL DEF TimerSpec

\* The guest's timer line is never up before the deadline of its last set_timer.
THEOREM TimerNoEarlyTick == TimerSpec => []NoEarlyTick
<1>1. TimerInv => NoEarlyTick
  BY DEF TimerInv
<1>2. QED
  BY <1>1, TimerInitInv, TimerStepInv, PTL DEF TimerSpec

\* sie.STIE is set exactly while the guest's line is down, after any sequence of
\* set_timer calls and timer interrupts.
THEOREM TimerOwedIffEnabled == TimerSpec => []OwedIffEnabled
<1>1. TimerInv => OwedIffEnabled
  BY DEF TimerInv
<1>2. QED
  BY <1>1, TimerInitInv, TimerStepInv, PTL DEF TimerSpec

LEMMA TimerInitRefines == TimerInit => Guest!GTInit
BY TimeAssumption DEF TimerInit, Guest!GTInit, Never

\* A step of the virtual timer is a step of the timer the guest assumes: STIE,
\* which that timer does not have, says when it may expire.
LEMMA TimerStepRefines ==
  TimerInv /\ [TimerNext]_timerVars => [Guest!GTNext]_(Guest!gtVars)
<1> SUFFICES ASSUME TimerInv, [TimerNext]_timerVars
             PROVE  [Guest!GTNext]_(Guest!gtVars)
  OBVIOUS
<1> USE DEF Guest!GTNext, Guest!gtVars
<1>1. CASE Tick
  <2>1. time + 1 \in 0 .. MaxTime
    BY <1>1, TimeAssumption DEF Tick, TimerInv, TimerTypeOK
  <2>2. QED
    BY <1>1, <2>1 DEF Tick, Guest!Advance
<1>2. CASE TimerInterrupt
  <2>1. ~vstip
    BY <1>2 DEF TimerInterrupt, TimerInv, OwedIffEnabled
  <2>2. QED
    BY <1>2, <2>1 DEF TimerInterrupt, timer_irq, stip, Guest!Expire
<1>3. CASE \E t \in 0 .. Never : set_timer(t)
  BY <1>3 DEF set_timer, Guest!Arm
<1>4. CASE UNCHANGED timerVars
  BY <1>4 DEF timerVars
<1>5. QED
  BY <1>1, <1>2, <1>3, <1>4 DEF TimerNext

\* Every step of the virtual timer is a step of the timer the guest assumes: the
\* line rises once per arming and never early.  (That it does rise is liveness,
\* which TLC checks.)
THEOREM TimerRefinesGuestTimer == TimerSpec => Guest!GTSafety
BY TimerInitRefines, TimerStepRefines, TimerInitInv, TimerStepInv, PTL
   DEF TimerSpec, Guest!GTSafety

-----------------------------------------------------------------------------
(* The claim/complete register.  The line, the register and the guest's id *)
(* agree whatever the devices do.  That no claimed interrupt is lost holds *)
(* only until two are outstanding at once, and needs the fact that until   *)
(* then at most one source is pending or in service.                       *)

PlicInv == PlicTypeOK /\ LineMatchesClaim /\ GuestSeesInService

\* Until the first burst there is at most one to lose.
AtMostOne ==
  ~burst => /\ \A s, t \in pending \cup inService : s = t
            /\ pending \cap inService = {}

\* The registers the guest's driver uses are those of context 1.
LEMMA DriverRegisters ==
  /\ context_id = 1 /\ hartOf(ClaimReg) = context_id
  /\ indexOf(ClaimReg) = 1 /\ InContextArea(ClaimReg)
BY DEF context_id, guest_id, hartOf, indexOf, ClaimReg, ThresholdReg,
       InContextArea, CONTEXT_BASE, MAX_CONTEXTS

LEMMA PlicInitInv == PlicInit => PlicInv /\ AtMostOne /\ DeliveredOneAtATime
<1> SUFFICES ASSUME PlicInit
             PROVE  PlicInv /\ AtMostOne /\ DeliveredOneAtATime
  OBVIOUS
<1>1. claim_complete[context_id] = 0
  BY DriverRegisters DEF PlicInit, MAX_CONTEXTS
<1>2. PlicTypeOK
  BY PlicAssumption DEF PlicInit, PlicTypeOK
<1>3. LineMatchesClaim
  BY <1>1, Zenon DEF PlicInit, LineMatchesClaim
<1>4. GuestSeesInService
  BY <1>1 DEF PlicInit, GuestSeesInService
<1>5. AtMostOne /\ DeliveredOneAtATime
  BY DEF PlicInit, AtMostOne, DeliveredOneAtATime, ClaimedIsDelivered
<1>6. QED
  BY <1>2, <1>3, <1>4, <1>5 DEF PlicInv

\* What handle_irq does while the PLIC interrupts, to the part of the state the
\* invariants are about: there is something to claim.
LEMMA HandleIrqEffect ==
  ASSUME PlicInv, ExternalInterrupt
  PROVE  \E irq \in pending :
           /\ irq \in Sources
           /\ pending' = pending \ {irq}
           /\ inService' = inService \cup {irq}
           /\ claim_complete' \in [0 .. MAX_CONTEXTS - 1 -> Sources \cup {0}]
           /\ claim_complete'[context_id] = irq
           /\ vseip' = TRUE /\ irq_pending' = TRUE
           /\ UNCHANGED <<threshold, burst, isr, handling>>
<1>1. pending # {} /\ handle_irq
  BY DEF ExternalInterrupt, seip
<1>2. PICK irq \in ClaimIds :
        /\ pending' = pending \ {irq}
        /\ inService' = inService \cup ({irq} \ {0})
        /\ claim_complete' = [claim_complete EXCEPT ![context_id] = irq]
  BY <1>1 DEF handle_irq, Claimable
<1>3. irq \in pending /\ irq \in Sources /\ irq # 0
  BY PlicAssumption DEF ClaimIds, PlicInv, PlicTypeOK
<1>4. context_id \in 0 .. MAX_CONTEXTS - 1
  BY DriverRegisters DEF MAX_CONTEXTS
<1>5. /\ claim_complete' \in [0 .. MAX_CONTEXTS - 1 -> Sources \cup {0}]
      /\ claim_complete'[context_id] = irq
  BY <1>2, <1>3, <1>4 DEF PlicInv, PlicTypeOK
<1>6. inService' = inService \cup {irq}
  BY <1>2, <1>3
<1>7. QED
  BY <1>1, <1>2, <1>3, <1>5, <1>6 DEF handle_irq

\* What the guest's completion does.
LEMMA CompleteEffect ==
  ASSUME PlicInv, GuestComplete
  PROVE  /\ handling # 0
         /\ inService' = inService \ {handling}
         /\ claim_complete' \in [0 .. MAX_CONTEXTS - 1 -> Sources \cup {0}]
         /\ claim_complete'[context_id] = 0
         /\ vseip' = FALSE /\ handling' = 0
         /\ UNCHANGED <<pending, threshold, burst, irq_pending, isr>>
<1>1. claim_complete' = [claim_complete EXCEPT ![context_id] = 0]
  BY DriverRegisters DEF GuestComplete, WriteComplete
<1>2. context_id \in 0 .. MAX_CONTEXTS - 1
  BY DriverRegisters DEF MAX_CONTEXTS
<1>3. /\ claim_complete' \in [0 .. MAX_CONTEXTS - 1 -> Sources \cup {0}]
      /\ claim_complete'[context_id] = 0
  BY <1>1, <1>2 DEF PlicInv, PlicTypeOK
<1>4. QED
  BY <1>3 DEF GuestComplete, WriteComplete

\* The types, the line and the ids are preserved by every step.
LEMMA PlicStepInv == PlicInv /\ [PlicNext]_plicVars => PlicInv'
<1> SUFFICES ASSUME PlicInv, [PlicNext]_plicVars
             PROVE  PlicInv'
  OBVIOUS
<1> USE DEF PlicInv, PlicTypeOK, LineMatchesClaim, GuestSeesInService
<1>1. ASSUME NEW s \in Sources, DeviceRaise(s)
      PROVE  PlicInv'
  BY <1>1 DEF DeviceRaise
<1>2. CASE ExternalInterrupt
  <2>1. PICK irq \in pending :
           /\ irq \in Sources
           /\ pending' = pending \ {irq}
           /\ inService' = inService \cup {irq}
           /\ claim_complete' \in [0 .. MAX_CONTEXTS - 1 -> Sources \cup {0}]
           /\ claim_complete'[context_id] = irq
           /\ vseip' = TRUE /\ irq_pending' = TRUE
           /\ UNCHANGED <<threshold, burst, isr, handling>>
    BY <1>2, HandleIrqEffect
  <2>2. irq # 0
    BY <2>1, PlicAssumption
  <2>3. QED
    BY <2>1, <2>2
<1>3. CASE GuestEnterIsr
  BY <1>3 DEF GuestEnterIsr, hwPlic
<1>4. CASE GuestClaim
  <2>1. handling' = claim_complete[context_id]
    BY <1>4, DriverRegisters DEF GuestClaim, ReadClaim
  <2>2. claim_complete[context_id] \in Sources \cup {0}
    BY DriverRegisters DEF MAX_CONTEXTS
  <2>3. isr' \in BOOLEAN
    BY <1>4 DEF GuestClaim, ReadClaim
  <2>4. UNCHANGED <<hwPlic, claim_complete, vseip, irq_pending>>
    BY <1>4 DEF GuestClaim, ReadClaim
  <2>5. QED
    BY <2>1, <2>2, <2>3, <2>4 DEF hwPlic
<1>5. CASE GuestComplete
  BY <1>5, CompleteEffect
<1>6. CASE GuestThreshold
  BY <1>6 DEF GuestThreshold, WriteThreshold
<1>7. CASE UNCHANGED plicVars
  BY <1>7 DEF plicVars
<1>8. QED
  BY <1>1, <1>2, <1>3, <1>4, <1>5, <1>6, <1>7 DEF PlicNext

\* One interrupt at a time stays one, and it is the one the guest sees.
LEMMA PlicStepDelivered ==
  PlicInv /\ AtMostOne /\ DeliveredOneAtATime /\ [PlicNext]_plicVars
    => AtMostOne' /\ DeliveredOneAtATime'
<1> SUFFICES ASSUME PlicInv, AtMostOne, DeliveredOneAtATime, [PlicNext]_plicVars,
                    ~burst'
             PROVE  AtMostOne' /\ ClaimedIsDelivered'
  BY DEF AtMostOne, DeliveredOneAtATime
<1>0. ~burst
  BY DEF PlicNext, plicVars, DeviceRaise, ExternalInterrupt, handle_irq, GuestEnterIsr, GuestClaim,
         ReadClaim, GuestComplete, WriteComplete, GuestThreshold, WriteThreshold, hwPlic
<1> USE DEF AtMostOne, DeliveredOneAtATime, ClaimedIsDelivered
<1>1. ASSUME NEW s \in Sources, DeviceRaise(s)
      PROVE  AtMostOne' /\ ClaimedIsDelivered'
  BY <1>0, <1>1 DEF DeviceRaise
<1>2. CASE ExternalInterrupt
  <2>1. PICK irq \in pending :
           /\ pending' = pending \ {irq}
           /\ inService' = inService \cup {irq}
           /\ claim_complete'[context_id] = irq
    BY <1>2, HandleIrqEffect
  <2>2. inService = {}
    BY <1>0, <2>1
  <2>3. QED
    BY <1>0, <2>1, <2>2
<1>3. CASE GuestEnterIsr
  BY <1>0, <1>3 DEF GuestEnterIsr, hwPlic
<1>4. CASE GuestClaim
  <2>1. handling' = claim_complete[context_id] /\ handling = 0
    BY <1>4, DriverRegisters DEF GuestClaim, ReadClaim
  <2>2. UNCHANGED <<pending, inService, claim_complete>>
    BY <1>4 DEF GuestClaim, ReadClaim, hwPlic
  <2>3. 0 \notin inService
    BY PlicAssumption DEF PlicInv, PlicTypeOK
  <2>4. QED
    BY <1>0, <2>1, <2>2, <2>3
<1>5. CASE GuestComplete
  <2>1. handling \in inService
    BY <1>5, CompleteEffect DEF PlicInv, GuestSeesInService
  <2>2. inService' = {} /\ pending' = pending
    BY <1>0, <1>5, <2>1, CompleteEffect
  <2>3. QED
    BY <1>0, <2>2
<1>6. CASE GuestThreshold
  BY <1>0, <1>6 DEF GuestThreshold, WriteThreshold
<1>7. CASE UNCHANGED plicVars
  BY <1>0, <1>7 DEF plicVars
<1>8. QED
  BY <1>1, <1>2, <1>3, <1>4, <1>5, <1>6, <1>7 DEF PlicNext

\* The hardware's and the emulated interrupt state keep their types.
THEOREM PlicTypeCorrect == PlicSafety => []PlicTypeOK
<1>1. PlicInv => PlicTypeOK
  BY DEF PlicInv
<1>2. QED
  BY <1>1, PlicInitInv, PlicStepInv, PTL DEF PlicSafety

\* VSEIP is up exactly while the emulated claim register holds an id.
THEOREM PlicLineMatchesClaim == PlicSafety => []LineMatchesClaim
<1>1. PlicInv => LineMatchesClaim
  BY DEF PlicInv
<1>2. QED
  BY <1>1, PlicInitInv, PlicStepInv, PTL DEF PlicSafety

\* The guest only ever sees ids the machine's PLIC has in service.
THEOREM PlicGuestSeesInService == PlicSafety => []GuestSeesInService
<1>1. PlicInv => GuestSeesInService
  BY DEF PlicInv
<1>2. QED
  BY <1>1, PlicInitInv, PlicStepInv, PTL DEF PlicSafety

\* No interrupt claimed by handle_irq is lost before two are outstanding at once.
THEOREM PlicDeliveredOneAtATime == PlicSafety => []DeliveredOneAtATime
<1> DEFINE Inv == PlicInv /\ AtMostOne /\ DeliveredOneAtATime
<1>1. PlicInit => Inv
  BY PlicInitInv
<1>2. Inv /\ [PlicNext]_plicVars => Inv'
  BY PlicStepInv, PlicStepDelivered
<1>3. Inv => DeliveredOneAtATime
  OBVIOUS
<1>4. QED
  BY <1>1, <1>2, <1>3, PTL DEF PlicSafety

-----------------------------------------------------------------------------
(* The hart.  HartInv says what holds at each point of the path guest,     *)
(* entry, handler, resume, guest: who has the lock, where sepc points,     *)
(* and what the guest's driver was promised when it issued its access.     *)

Running == {"boot", "guest", "entry", "handler"}

\* The instruction the guest is at is one its driver may issue now.
DriverInStep ==
  insn.addr = base_addr + ClaimReg => isr /\ (insn.op = "Lw" <=> handling = 0)

HartInv ==
  /\ insn \in Insns \cup {NoInsn}
  /\ hart = "boot" => insn = NoInsn
  /\ hart \in {"boot", "guest", "entry", "resume"} => ~locked
  /\ hart = "guest" => /\ stvec = "__alltraps" /\ sscratch = "TRAP_CONTEXT"
                       /\ hgatp = "gpm"
  /\ (hart \in Running \/ (hart = "resume" /\ sepc = "at")) => DriverInStep

\* No instruction at all is in step with the driver.
LEMMA NoInsnInStep == insn = NoInsn => DriverInStep
BY DEF NoInsn, DriverInStep, base_addr, ClaimReg, ThresholdReg, CONTEXT_BASE

LEMMA HartInitInv == VmInit => HartInv
<1> SUFFICES ASSUME VmInit PROVE HartInv
  OBVIOUS
<1>1. DriverInStep
  BY NoInsnInStep DEF VmInit
<1>2. QED
  BY <1>1, Zenon DEF VmInit, HartInv, Running

\* The arms of trap_handler.
Arm == \/ sbi_vs_handler \/ guest_page_fault_handler
       \/ instruction_guest_page_fault \/ panicking_arm
       \/ external_irq \/ supervisor_timer \/ forward_exception

\* How an arm ends.  It steps over the instruction, or it leaves it alone and the
\* driver's state too, or the hart does not resume there.
LEMMA ArmEnds ==
  ASSUME Arm
  PROVE  /\ hart = "handler" /\ insn' = insn
         /\ \/ hart' \in {"stopped", "spinning"}
            \/ hart' = "resume" /\ locked' = FALSE /\ sepc' \in {"next", "vstvec"}
            \/ /\ hart' = "resume" /\ locked' = FALSE
               /\ sepc' = sepc /\ UNCHANGED <<isr, handling>>
<1> USE DEF Serving
<1>1. CASE sbi_vs_handler
  BY <1>1 DEF sbi_vs_handler, SteppedOver, Served, Panic, guestVars
<1>2. CASE guest_page_fault_handler
  <2>1. /\ hart = "handler"
        /\ \/ \E e \in DecodeErrors \cup {"DeviceNotFound"} : Failed(e)
           \/ handle_plic_access(insn.addr - base_addr)
    BY <1>2, Zenon DEF guest_page_fault_handler
  <2>2. ASSUME NEW e \in DecodeErrors \cup {"DeviceNotFound", "UnexpectedInst"}, Failed(e)
        PROVE  hart' = "stopped" /\ insn' = insn
    BY <2>2 DEF Failed, Served, DecodeErrors
  <2>3. Panic => hart' = "stopped" /\ insn' = insn
    BY DEF Panic, guestVars
  <2>4. SteppedOver => /\ hart' = "resume" /\ insn' = insn /\ locked' = FALSE
                       /\ sepc' = "next"
    BY DEF SteppedOver, Served
  <2>5. handle_plic_access(insn.addr - base_addr) =>
          Panic \/ SteppedOver \/ Failed("UnexpectedInst")
    BY Zenon DEF handle_plic_access
  <2>6. QED
    BY <2>1, <2>2, <2>3, <2>4, <2>5
<1>3. CASE instruction_guest_page_fault
  BY <1>3 DEF instruction_guest_page_fault, guestVars
<1>4. CASE panicking_arm
  BY <1>4 DEF panicking_arm, Panic, guestVars
<1>5. CASE external_irq
  BY <1>5 DEF external_irq, handle_irq, Served
<1>6. CASE supervisor_timer
  BY <1>6 DEF supervisor_timer, Served, plicVars
<1>7. CASE forward_exception
  BY <1>7 DEF forward_exception, Served
<1>8. QED
  BY <1>1, <1>2, <1>3, <1>4, <1>5, <1>6, <1>7 DEF Arm

\* The return to the guest, from switch_to_guest or from hart_entry.
LEMMA RestoreInv ==
  ASSUME HartInv, hart \in {"resume", "boot"}, restore,
         stvec' = "__alltraps", hgatp' = "gpm",
         UNCHANGED <<locked, err, ctx, plicVars, timerVars>>
  PROVE  HartInv'
<1>1. /\ hart' = "guest" /\ sscratch' = "TRAP_CONTEXT"
      /\ insn' = IF sepc = "at" THEN insn ELSE NoInsn
  BY DEF restore
<1>3. ~locked'
  BY Zenon DEF HartInv
<1>4. insn' \in Insns \cup {NoInsn}
  BY <1>1, Zenon DEF HartInv
<1>5. DriverInStep'
  <2>1. UNCHANGED <<isr, handling>>
    BY DEF plicVars
  <2>2. CASE sepc = "at"
    <3>1. DriverInStep /\ insn' = insn
      BY <1>1, <2>2, Zenon DEF HartInv, Running
    <3>2. QED
      BY <2>1, <3>1, Zenon DEF DriverInStep
  <2>3. CASE sepc # "at"
    <3>1. insn' = NoInsn
      BY <1>1, <2>3, Zenon
    <3>2. insn'.addr # base_addr + ClaimReg
      BY <3>1 DEF NoInsn, base_addr, ClaimReg, ThresholdReg, CONTEXT_BASE
    <3>3. QED
      BY <3>2, Zenon DEF DriverInStep
  <2>4. QED
    BY <2>2, <2>3
<1>6. QED
  BY <1>1, <1>3, <1>4, <1>5, Zenon DEF HartInv, Running

\* The trap into the hypervisor: the ready guest's trap always reaches entry.
LEMMA TrapInv ==
  ASSUME HartInv, hart = "guest", NEW c, alltraps(c),
         UNCHANGED <<mode, gpc, insn>>
  PROVE  HartInv'
<1>1. hart' = "entry" /\ locked' = locked /\ UNCHANGED plicVars
  BY Zenon DEF alltraps, HartInv
<1>2. DriverInStep'
  BY <1>1, Zenon DEF HartInv, Running, DriverInStep, plicVars
<1>3. QED
  BY <1>1, <1>2, Zenon DEF HartInv, Running

\* The guest's own steps and the environment's leave the hypervisor ready.
LEMMA QuietInv ==
  ASSUME HartInv, UNCHANGED <<hart, locked, sepc, csrs>>,
         insn' \in Insns \cup {NoInsn}, hart = "boot" => insn' = NoInsn,
         DriverInStep' \/ (DriverInStep => DriverInStep')
  PROVE  HartInv'
BY Zenon DEF HartInv, Running, csrs

LEMMA HartStepInv == HartInv /\ [VmNext]_vmVars => HartInv'
<1> SUFFICES ASSUME HartInv, [VmNext]_vmVars
             PROVE  HartInv'
  OBVIOUS
<1>1. CASE hart_entry
  BY <1>1, RestoreInv DEF hart_entry
<1>2. CASE switch_to_guest
  BY <1>2, RestoreInv DEF switch_to_guest
<1>3. CASE enter_handler
  <2>1. /\ hart = "entry" /\ hart' = "handler"
        /\ UNCHANGED <<sepc, insn, isr, handling>>
    BY <1>3 DEF enter_handler, ctx, guestVars, plicVars
  <2>2. DriverInStep'
    BY <2>1, Zenon DEF HartInv, Running, DriverInStep
  <2>3. QED
    BY <2>1, <2>2, Zenon DEF HartInv, Running
<1>4. CASE Arm
  <2>1. /\ hart = "handler" /\ insn' = insn
        /\ \/ hart' \in {"stopped", "spinning"}
           \/ hart' = "resume" /\ locked' = FALSE /\ sepc' \in {"next", "vstvec"}
           \/ /\ hart' = "resume" /\ locked' = FALSE
              /\ sepc' = sepc /\ UNCHANGED <<isr, handling>>
    BY <1>4, ArmEnds
  <2>2. DriverInStep /\ insn \in Insns \cup {NoInsn}
    BY <2>1, Zenon DEF HartInv, Running
  <2>3. hart' \notin Running /\ hart' # "guest"
    BY <2>1 DEF Running
  <2>4. hart' = "resume" => ~locked'
    BY <2>1, Zenon
  <2>5. (hart' = "resume" /\ sepc' = "at") => DriverInStep'
    BY <2>1, <2>2, Zenon DEF DriverInStep
  <2>6. QED
    BY <2>1, <2>2, <2>3, <2>4, <2>5, Zenon DEF HartInv, Running
<1>5. CASE TakeIrq
  BY <1>5, TrapInv DEF TakeIrq
<1>6. CASE TakeException
  BY <1>6, TrapInv DEF TakeException, guestVars
<1>7. CASE GuestIssue
  <2>1. PICK i \in Insns : MayIssue(i) /\ insn' = i
    BY <1>7 DEF GuestIssue, Issue
  <2>2. DriverInStep'
    BY <1>7, <2>1 DEF GuestIssue, Issue, MayIssue, DriverInStep, plicVars
  <2>3. hart = "guest" /\ UNCHANGED <<hart, locked, sepc, csrs>>
    BY <1>7 DEF GuestIssue, Issue, GuestMoves, onlyGuest, ctx
  <2>4. QED
    BY <2>1, <2>2, <2>3, QuietInv
<1>8. CASE GuestOwnTrap \/ GuestRuns \/ GuestVsInterrupt
  <2>1. /\ hart = "guest" /\ UNCHANGED <<hart, locked, sepc, csrs>>
        /\ insn' = NoInsn
    BY <1>8 DEF GuestOwnTrap, GuestRuns, GuestVsInterrupt, GuestMoves, onlyGuest, ctx
  <2>2. DriverInStep'
    BY <2>1 DEF NoInsn, DriverInStep, base_addr, ClaimReg, ThresholdReg, CONTEXT_BASE
  <2>3. QED
    BY <2>1, <2>2, QuietInv
<1>9. CASE Environment \/ UNCHANGED vmVars
  <2>1. /\ UNCHANGED <<hart, locked, sepc, csrs>>
        /\ UNCHANGED <<insn, isr, handling>>
    BY <1>9 DEF Environment, DeviceRaise, vmVars, ctx, guestVars, plicVars
  <2>2. DriverInStep => DriverInStep'
    BY <2>1, Zenon DEF DriverInStep
  <2>3. insn' \in Insns \cup {NoInsn} /\ (hart = "boot" => insn' = NoInsn)
    BY <2>1, Zenon DEF HartInv
  <2>4. QED
    BY <2>1, <2>2, <2>3, QuietInv
<1>10. QED
  BY <1>1, <1>2, <1>3, <1>4, <1>5, <1>6, <1>7, <1>8, <1>9
     DEF VmNext, trap_handler, Arm, GuestNext

\* HartInv holds of every behaviour.
THEOREM HartInvariant == VmSafety => []HartInv
  BY HartInitInv, HartStepInv, PTL DEF VmSafety

\* Whenever the guest runs, the lock is free and stvec, sscratch and hgatp are
\* set for its next trap.
THEOREM VmGuestRunsReady == VmSafety => []GuestRunsReady
<1>1. HartInv => GuestRunsReady
  BY Zenon DEF HartInv, GuestRunsReady
<1>2. QED
  BY <1>1, HartInvariant, PTL

-----------------------------------------------------------------------------
\* A trap that is no interrupt is of the instruction the guest is at, which is
\* not one whose exception init_vmm delegates.
OwnTrap == cause = insn.cause /\ insn.cause \notin hedeleg

StopInv ==
  /\ hart \in {"entry", "handler"} =>
       cause \in {"SupervisorExternal", "SupervisorTimer"} \/ OwnTrap
  /\ OnlyUnsupportedStops

\* Only an unsupported instruction takes an arm that does not resume the guest.
LEMMA ArmStops ==
  ASSUME StopInv, Arm, hart' \in {"stopped", "spinning"}
  PROVE  cause' = insn'.cause /\ ~Supported(insn')
<1> DEFINE i == insn
           offset == i.addr - base_addr
<1>1. hart = "handler" /\ insn' = i /\ cause' = cause
  BY ArmEnds DEF Arm, sbi_vs_handler, guest_page_fault_handler, handle_plic_access,
     instruction_guest_page_fault, panicking_arm, external_irq, supervisor_timer,
     forward_exception, SteppedOver, Failed, Served, Panic
<1>2. cause \in {"SupervisorExternal", "SupervisorTimer"} \/ OwnTrap
  BY <1>1 DEF StopInv
<1>3. CASE sbi_vs_handler
  <2>1. cause = "VirtualSupervisorEnvCall" /\ i.call \in {"unknown", "base_bad_fid"}
    BY <1>3 DEF sbi_vs_handler, Serving, SteppedOver, Served
  <2>2. OwnTrap
    BY <1>2, <2>1
  <2>3. QED
    BY <1>1, <2>1, <2>2 DEF OwnTrap, Supported, NoInsn
<1>4. CASE guest_page_fault_handler
  <2>1. cause = "GuestPageFault"
    BY <1>4 DEF guest_page_fault_handler, Serving
  <2>2. OwnTrap
    BY <1>2, <2>1
  <2>3. \/ ~is_plic_access(i.addr)
        \/ i.op \in DecodeErrors
        \/ handle_plic_access(offset)
    BY <1>4 DEF guest_page_fault_handler
  <2>4. handle_plic_access(offset) =>
          \/ ~InContextArea(offset)
          \/ indexOf(offset) = 0 /\ i.op # "Sw"
          \/ i.op \notin {"Sw", "Lw"}
    BY DEF handle_plic_access, SteppedOver, Served
  <2>5. ~(/\ is_plic_access(i.addr) /\ InContextArea(offset)
          /\ i.op = "Sw" \/ (i.op = "Lw" /\ indexOf(offset) >= 1))
    BY <2>3, <2>4 DEF DecodeErrors
  <2>6. QED
    BY <1>1, <2>1, <2>2, <2>5 DEF OwnTrap, Supported, NoInsn
<1>5. CASE instruction_guest_page_fault
  <2>1. cause = "InstructionGuestPageFault"
    BY <1>5 DEF instruction_guest_page_fault, Serving
  <2>2. QED
    BY <1>1, <1>2, <2>1 DEF OwnTrap, Supported, NoInsn
<1>6. CASE panicking_arm
  <2>1. cause \in {"VirtualInstruction", "UserEnvCall"}
    BY <1>6 DEF panicking_arm, Serving
  <2>2. OwnTrap
    BY <1>2, <2>1
  <2>3. cause = "VirtualInstruction"
    BY <2>1, <2>2 DEF OwnTrap, hedeleg
  <2>4. insn.cause = "VirtualInstruction" /\ cause = insn.cause
    BY <2>2, <2>3 DEF OwnTrap
  <2>5. ~Supported(insn)
    BY <2>4 DEF Supported, NoInsn
  <2>6. QED
    BY <1>1, <2>4, <2>5
<1>7. ~external_irq /\ ~supervisor_timer /\ ~forward_exception
  BY DEF external_irq, supervisor_timer, forward_exception, Served
<1>8. QED
  BY <1>3, <1>4, <1>5, <1>6, <1>7 DEF Arm

\* A trap of the ready guest reaches the entry, and its cause is the guest's
\* instruction or an interrupt.
LEMMA TrapStopInv ==
  ASSUME HartInv, hart = "guest", NEW c, alltraps(c), insn' = insn,
         \/ c \in {"SupervisorExternal", "SupervisorTimer"}
         \/ c = insn.cause /\ insn.cause \notin hedeleg
  PROVE  StopInv'
<1>1. hart' = "entry" /\ cause' = c
  BY Zenon DEF alltraps, HartInv
<1>2. QED
  BY <1>1 DEF StopInv, OwnTrap, OnlyUnsupportedStops, hedeleg

LEMMA StopStepInv == HartInv /\ StopInv /\ [VmNext]_vmVars => StopInv'
<1> SUFFICES ASSUME HartInv, StopInv, [VmNext]_vmVars
             PROVE  StopInv'
  OBVIOUS
<1>1. CASE Arm
  <2>1. hart' \in {"resume", "stopped", "spinning"}
    BY <1>1, ArmEnds
  <2>2. QED
    BY <1>1, <2>1, ArmStops DEF StopInv, OnlyUnsupportedStops
<1>2. CASE hart_entry \/ switch_to_guest
  BY <1>2 DEF hart_entry, switch_to_guest, restore, StopInv, OnlyUnsupportedStops
<1>3. CASE enter_handler
  BY <1>3 DEF enter_handler, guestVars, StopInv, OwnTrap, OnlyUnsupportedStops, hedeleg
<1>4. CASE TakeIrq
  <2>1. \E c \in {"SupervisorExternal", "SupervisorTimer"} : alltraps(c)
    BY <1>4, Zenon DEF TakeIrq
  <2>2. QED
    BY <1>4, <2>1, TrapStopInv DEF TakeIrq
<1>5. CASE TakeException
  BY <1>5, TrapStopInv DEF TakeException, guestVars
<1>6. CASE GuestNext
  BY <1>6 DEF GuestNext, GuestIssue, Issue, GuestOwnTrap, GuestRuns, GuestVsInterrupt,
     GuestMoves, onlyGuest, StopInv, OnlyUnsupportedStops
<1>7. CASE Environment \/ UNCHANGED vmVars
  <2>1. UNCHANGED <<hart, cause, insn>>
    BY <1>7 DEF Environment, vmVars, guestVars
  <2>2. Supported(insn') = Supported(insn)
    BY <2>1
  <2>3. QED
    BY <2>1, <2>2 DEF StopInv, OwnTrap, OnlyUnsupportedStops, hedeleg
<1>8. QED
  BY <1>1, <1>2, <1>3, <1>4, <1>5, <1>6, <1>7 DEF VmNext, trap_handler, Arm

\* Whatever instructions the guest may issue, and whatever interrupts arrive
\* around them, only one that is not supported ends in a panic or a spin.
THEOREM VmOnlyUnsupportedStops == VmSafety => []OnlyUnsupportedStops
<1>1. VmInit => StopInv
  BY DEF VmInit, StopInv, OnlyUnsupportedStops
<1>2. StopInv => OnlyUnsupportedStops
  BY DEF StopInv
<1>3. QED
  BY <1>1, <1>2, StopStepInv, HartInvariant, PTL DEF VmSafety

-----------------------------------------------------------------------------
(* The handlers test nothing: that the timer handler finds an expired      *)
(* deadline, and handle_irq something to claim, is because neither can go  *)
(* away between the trap and the handler.  CauseInv says so; it needs the  *)
(* ranges of the clock, and the timer's invariant needs it, so the two are *)
(* proved together.                                                        *)

CauseInv ==
  hart \in {"entry", "handler"} =>
    /\ cause = "SupervisorExternal" => seip
    /\ cause = "SupervisorTimer" => stie /\ stip

\* A device or the clock takes nothing away.
LEMMA EnvironmentKeeps ==
  ASSUME TimerTypeOK, Environment
  PROVE  (seip => seip') /\ (stie /\ stip => stie' /\ stip')
<1>1. CASE Tick /\ UNCHANGED plicVars
  <2>1. time \in Nat /\ stimecmp \in Nat
    BY TimeAssumption DEF TimerTypeOK, Never
  <2>2. QED
    BY <1>1, <2>1 DEF Tick, plicVars, seip, stip
<1>2. ASSUME NEW s \in Sources, DeviceRaise(s), UNCHANGED timerVars
      PROVE  (seip => seip') /\ (stie /\ stip => stie' /\ stip')
  BY <1>2 DEF DeviceRaise, timerVars, seip, stip
<1>3. QED
  BY <1>1, <1>2 DEF Environment

LEMMA CauseStepInv ==
  HartInv /\ CauseInv /\ TimerTypeOK /\ [VmNext]_vmVars => CauseInv'
<1> SUFFICES ASSUME HartInv, CauseInv, TimerTypeOK, [VmNext]_vmVars,
                    hart' \in {"entry", "handler"}
             PROVE  /\ cause' = "SupervisorExternal" => seip'
                    /\ cause' = "SupervisorTimer" => stie' /\ stip'
  BY DEF CauseInv
<1>1. CASE enter_handler
  BY <1>1 DEF enter_handler, CauseInv, plicVars, timerVars, seip, stip
<1>2. CASE TakeIrq
  BY <1>2 DEF TakeIrq, alltraps, HsIrq, plicVars, timerVars, seip, stip
<1>3. CASE TakeException
  <2>1. insn \in Insns /\ cause' = insn.cause
    BY <1>3 DEF TakeException, alltraps, HartInv
  <2>2. QED
    BY <2>1, InsnsAssumption
<1>4. CASE Environment
  <2>1. UNCHANGED <<hart, cause>>
    BY <1>4 DEF Environment
  <2>2. QED
    BY <1>4, <2>1, EnvironmentKeeps, Zenon DEF CauseInv
<1>5. CASE UNCHANGED vmVars
  BY <1>5 DEF vmVars, CauseInv, plicVars, timerVars, seip, stip
<1>6. CASE Arm
  <2>1. hart' \in {"resume", "stopped", "spinning"}
    BY <1>6, ArmEnds
  <2>2. QED
    BY <2>1
<1>7. CASE hart_entry \/ switch_to_guest \/ GuestNext
  <2>1. hart' = "guest"
    BY <1>7 DEF hart_entry, switch_to_guest, restore, GuestNext, GuestIssue, Issue,
       GuestOwnTrap, GuestRuns, GuestVsInterrupt, GuestMoves, onlyGuest
  <2>2. QED
    BY <2>1
<1>8. QED
  BY <1>1, <1>2, <1>3, <1>4, <1>5, <1>6, <1>7 DEF VmNext, trap_handler, Arm

\* Every step of the hart is a step of the timer, or leaves it alone.
LEMMA VmTimerStep == CauseInv /\ [VmNext]_vmVars => [TimerNext]_timerVars
<1> SUFFICES ASSUME CauseInv, [VmNext]_vmVars PROVE [TimerNext]_timerVars
  OBVIOUS
<1>1. CASE sbi_vs_handler
  <2>1. (\E t \in 0 .. Never : set_timer(t)) \/ UNCHANGED timerVars
    BY <1>1, Zenon DEF sbi_vs_handler, Panic
  <2>2. QED
    BY <2>1, Zenon DEF TimerNext
<1>2. CASE supervisor_timer
  BY <1>2, Zenon DEF supervisor_timer, Serving, CauseInv, TimerInterrupt, TimerNext
<1>3. CASE Environment
  BY <1>3, Zenon DEF Environment, TimerNext
<1>4. CASE guest_page_fault_handler
  BY <1>4, Zenon DEF guest_page_fault_handler, handle_plic_access, Failed, Panic
<1>5. CASE instruction_guest_page_fault \/ panicking_arm \/ external_irq
           \/ forward_exception
  BY <1>5, Zenon DEF instruction_guest_page_fault, panicking_arm, external_irq,
     forward_exception, Panic
<1>6. CASE enter_handler \/ switch_to_guest \/ hart_entry
  BY <1>6, Zenon DEF enter_handler, switch_to_guest, hart_entry
<1>7. CASE TakeIrq \/ TakeException
  BY <1>7, Zenon DEF TakeIrq, TakeException, alltraps
<1>8. CASE GuestNext
  BY <1>8, Zenon DEF GuestNext, GuestIssue, Issue, GuestOwnTrap, GuestRuns,
     GuestVsInterrupt, onlyGuest
<1>9. CASE UNCHANGED vmVars
  BY <1>9, Zenon DEF vmVars
<1>10. QED
  BY <1>1, <1>2, <1>3, <1>4, <1>5, <1>6, <1>7, <1>8, <1>9, Zenon
     DEF VmNext, trap_handler

\* An interrupt that the hart trapped for is still there when its handler runs.
THEOREM VmCauseStays == VmSafety => [](CauseInv /\ TimerInv)
<1>1. VmInit => CauseInv /\ TimerInv
  BY TimerInitInv DEF VmInit, CauseInv
<1>2. HartInv /\ CauseInv /\ TimerInv /\ [VmNext]_vmVars => CauseInv' /\ TimerInv'
  BY CauseStepInv, VmTimerStep, TimerStepInv DEF TimerInv
<1>3. QED
  BY <1>1, <1>2, HartInvariant, PTL DEF VmSafety

\* The hart drives the timer as VirtTimer allows, whatever the guest executes.
THEOREM VmImplementsTimer == VmSafety => ImplementsTimer
<1>1. VmInit => TimerInit
  BY DEF VmInit
<1>2. QED
  BY <1>1, VmTimerStep, VmCauseStays, PTL DEF VmSafety, ImplementsTimer

\* So on the whole hart too, an expired deadline is never both unannounced and
\* unable to interrupt, and no tick is early.
THEOREM VmTimerOwed == VmSafety => [](OwedIffEnabled /\ NoEarlyTick)
<1>1. TimerInv => OwedIffEnabled /\ NoEarlyTick
  BY DEF TimerInv
<1>2. QED
  BY <1>1, VmImplementsTimer, TimerInitInv, TimerStepInv, PTL DEF ImplementsTimer

\* And on the whole hart the guest gets the timer it assumes: the line rises
\* once per arming and never before the deadline (the safety of GTSpec).
THEOREM VmRefinesGuestTimer == VmSafety => HartTimer!GTSafety
<1>1. Guest!GTInit => HartTimer!GTInit
  BY DEF Guest!GTInit, HartTimer!GTInit
<1>2. [Guest!GTNext]_(Guest!gtVars) => [HartTimer!GTNext]_(HartTimer!gtVars)
  BY DEF Guest!GTNext, Guest!Advance, Guest!Expire, Guest!Arm, Guest!gtVars,
         HartTimer!GTNext, HartTimer!Advance, HartTimer!Expire, HartTimer!Arm,
         HartTimer!gtVars
<1>3. QED
  BY <1>1, <1>2, VmImplementsTimer, TimerInitRefines, TimerStepRefines,
     TimerInitInv, TimerStepInv, PTL DEF ImplementsTimer, HartTimer!GTSafety

-----------------------------------------------------------------------------
LEMMA RegisterIndexes ==
  /\ indexOf(ThresholdReg) = 0 /\ indexOf(ClaimReg) = 1
  /\ base_addr \in Nat /\ ClaimReg \in Nat /\ ThresholdReg \in Nat
BY DEF indexOf, ClaimReg, ThresholdReg, CONTEXT_BASE, base_addr

\* An emulated access is a step of the guest's driver.
LEMMA PlicAccessStep ==
  ASSUME HartInv, hart = "handler", is_plic_access(insn.addr),
         NEW offset, offset = insn.addr - base_addr,
         handle_plic_access(offset)
  PROVE  [PlicNext]_plicVars
<1>1. insn \in Insns /\ DriverInStep
  <2>1. ~is_plic_access(NoInsn.addr)
    BY DEF is_plic_access, NoInsn, base_addr
  <2>2. QED
    BY <2>1, Zenon DEF HartInv, Running
<1>2. insn.addr \in Nat
  BY <1>1, InsnsAssumption
<1>3. InContextArea(offset) =>
        offset \in {ThresholdReg, ClaimReg} \/ indexOf(offset) > 1
  BY <1>1, DriverAssumption, Zenon
<1>c. ASSUME offset = ClaimReg PROVE insn.addr = base_addr + ClaimReg
  <2>1. base_addr \in Nat /\ ClaimReg \in Nat
    BY Zenon, RegisterIndexes
  <2>2. insn.addr - base_addr = ClaimReg
    BY Zenon, <1>c
  <2>3. QED
    BY <1>2, <2>1, <2>2
<1>4. ASSUME NEW v \in Thresholds, WriteThreshold(offset, v)
      PROVE  [PlicNext]_plicVars
  <2>1. InContextArea(offset) /\ indexOf(offset) = 0 /\ threshold' = v
        /\ UNCHANGED <<pending, inService, burst, claim_complete, vseip, irq_pending,
                       isr, handling>>
    BY <1>4 DEF WriteThreshold
  <2>2. offset = ThresholdReg
    BY <1>3, <2>1, RegisterIndexes
  <2>3. CASE v = threshold
    BY <2>1, <2>3 DEF plicVars
  <2>4. CASE v # threshold
    BY <1>4, <2>2, <2>4 DEF GuestThreshold, PlicNext
  <2>5. QED
    BY <2>3, <2>4
<1>5. ASSUME insn.op = "Sw", WriteComplete(offset, handling)
      PROVE  [PlicNext]_plicVars
  <2>1. InContextArea(offset) /\ indexOf(offset) = 1
    BY <1>5 DEF WriteComplete
  <2>2. offset = ClaimReg
    BY <1>3, <2>1, RegisterIndexes
  <2>3. insn.addr = base_addr + ClaimReg
    BY Zenon, <1>c, <2>2
  <2>4. isr /\ handling # 0
    BY <1>1, <1>5, <2>3 DEF DriverInStep
  <2>5. QED
    BY <1>5, <2>2, <2>4 DEF GuestComplete, PlicNext
<1>6. ASSUME insn.op = "Lw", ReadClaim(offset)
      PROVE  [PlicNext]_plicVars
  <2>1. InContextArea(offset) /\ indexOf(offset) = 1
    BY <1>6 DEF ReadClaim
  <2>2. offset = ClaimReg
    BY <1>3, <2>1, RegisterIndexes
  <2>3. insn.addr = base_addr + ClaimReg
    BY Zenon, <1>c, <2>2
  <2>4. isr /\ handling = 0
    BY <1>1, <1>6, <2>3 DEF DriverInStep
  <2>5. QED
    BY <1>6, <2>2, <2>4 DEF GuestClaim, PlicNext
<1>7. QED
  BY <1>4, <1>5, <1>6, Zenon DEF handle_plic_access, Failed, Panic

\* Every step of the hart is a step of the interrupt emulation, or leaves it
\* alone.
LEMMA VmPlicStep == HartInv /\ CauseInv /\ [VmNext]_vmVars => [PlicNext]_plicVars
<1> SUFFICES ASSUME HartInv, CauseInv, [VmNext]_vmVars PROVE [PlicNext]_plicVars
  OBVIOUS
<1>1. CASE guest_page_fault_handler
  <2>1. hart = "handler"
    BY <1>1 DEF guest_page_fault_handler, Serving
  <2>2. \/ UNCHANGED plicVars
        \/ is_plic_access(insn.addr) /\ handle_plic_access(insn.addr - base_addr)
    BY <1>1, Zenon DEF guest_page_fault_handler, Failed
  <2>3. QED
    BY <2>1, <2>2, PlicAccessStep
<1>2. CASE external_irq
  BY <1>2, Zenon DEF external_irq, Serving, CauseInv, ExternalInterrupt, PlicNext
<1>3. CASE Environment
  BY <1>3, Zenon DEF Environment, PlicNext
<1>4. CASE GuestVsInterrupt
  BY <1>4, Zenon DEF GuestVsInterrupt, PlicNext
<1>5. CASE sbi_vs_handler \/ supervisor_timer \/ forward_exception
           \/ instruction_guest_page_fault \/ panicking_arm
  BY <1>5, Zenon DEF sbi_vs_handler, supervisor_timer, forward_exception,
     instruction_guest_page_fault, panicking_arm, Panic
<1>6. CASE enter_handler \/ switch_to_guest \/ hart_entry
  BY <1>6, Zenon DEF enter_handler, switch_to_guest, hart_entry
<1>7. CASE TakeIrq \/ TakeException
  BY <1>7, Zenon DEF TakeIrq, TakeException, alltraps
<1>8. CASE GuestIssue \/ GuestOwnTrap \/ GuestRuns
  BY <1>8, Zenon DEF GuestIssue, Issue, GuestOwnTrap, GuestRuns
<1>9. CASE UNCHANGED vmVars
  BY <1>9, Zenon DEF vmVars
<1>10. QED
  BY <1>1, <1>2, <1>3, <1>4, <1>5, <1>6, <1>7, <1>8, <1>9, Zenon
     DEF VmNext, trap_handler, GuestNext

\* The hart drives the interrupt emulation as VirtPlic allows: an access issued
\* before an interrupt and emulated after it still finds its driver in step.
THEOREM VmImplementsPlic == VmSafety => ImplementsPlic
<1>1. VmInit => PlicInit
  BY DEF VmInit
<1>2. QED
  BY <1>1, VmPlicStep, HartInvariant, VmCauseStays, PTL
     DEF VmSafety, ImplementsPlic, PlicSafety

\* So on the whole hart too, VSEIP and the emulated claim register agree, and
\* the guest sees only ids in service.
THEOREM VmLineMatchesClaim == VmSafety => [](LineMatchesClaim /\ GuestSeesInService)
<1>1. PlicInv => LineMatchesClaim /\ GuestSeesInService
  BY DEF PlicInv
<1>2. QED
  BY <1>1, VmImplementsPlic, PlicInitInv, PlicStepInv, PTL
     DEF ImplementsPlic, PlicSafety

\* Nor does the hart lose an interrupt that handle_irq has claimed, whatever it
\* does for the guest in between, before two are outstanding at once.
THEOREM VmDeliversOneAtATime == VmSafety => []DeliveredOneAtATime
BY VmImplementsPlic, PlicDeliveredOneAtATime, PTL DEF ImplementsPlic
==============================================================================
