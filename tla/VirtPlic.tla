------------------------------- MODULE VirtPlic -------------------------------
(***************************************************************************)
(* External interrupts: the machine's PLIC, the one-entry-per-context      *)
(* claim/complete register the hypervisor emulates on top of it, and the   *)
(* guest's interrupt handler.  The hypervisor claims from the hardware on  *)
(* the guest's behalf (handle_irq), keeps the id in claim_complete and     *)
(* raises VSEIP; the guest's accesses to its claim/complete and threshold  *)
(* registers trap and are emulated by handle_plic_access.  The rest of the *)
(* PLIC (priorities, pending bits, enables) the guest reaches directly.    *)
(***************************************************************************)
EXTENDS Naturals

CONSTANTS Sources,        \* interrupt ids of the devices
          Priority,       \* the priority the guest gave each source
          Thresholds      \* the threshold values the guest writes

MAX_CONTEXTS == 32

ASSUME PlicAssumption ==
  /\ Sources \subseteq Nat \ {0}
  /\ Priority \in [Sources -> Nat \ {0}]
  /\ Thresholds \subseteq Nat /\ 0 \in Thresholds

guest_id == 0             \* HostVmm.guest_id: set by init_vmm, never assigned again

context_id == 2 * guest_id + 1

VARIABLES pending,        \* PLIC: sources waiting to be claimed
          inService,      \* PLIC: sources claimed and not yet completed
          threshold,      \* PLIC: threshold of the guest's context
          burst,          \* history: a device has interrupted while another
                          \* interrupt was pending or in service
          claim_complete, \* PlicState.claim_complete
          vseip,          \* hvip.VSEIP: the guest's external interrupt line
          irq_pending,    \* HostVmm.irq_pending
          isr,            \* the guest is in its external interrupt handler
          handling        \* the id the guest read from claim, 0 if none

hwPlic == <<pending, inService, threshold, burst>>
plicVars == <<pending, inService, threshold, burst, claim_complete, vseip,
              irq_pending, isr, handling>>

\* PlicState::new and init_vmm.
PlicInit ==
  /\ pending = {} /\ inService = {} /\ threshold = 0 /\ burst = FALSE
  /\ claim_complete = [c \in 0 .. MAX_CONTEXTS - 1 |-> 0]
  /\ vseip = FALSE /\ irq_pending = FALSE
  /\ isr = FALSE /\ handling = 0

-----------------------------------------------------------------------------
\* External: a device interrupt passes its gateway, which stays closed until the
\* source is completed.
DeviceRaise(s) ==
  /\ s \notin pending \cup inService
  /\ pending' = pending \cup {s}
  /\ burst' = (burst \/ pending \cup inService # {})
  /\ UNCHANGED <<inService, threshold, claim_complete, vseip, irq_pending,
                 isr, handling>>

\* External: the PLIC interrupts the hypervisor's context.
seip == \E s \in pending : Priority[s] > threshold

\* External: the ids a claim may return: the highest priority, then the lowest id.
ClaimIds ==
  {s \in pending : \A t \in pending :
     Priority[t] < Priority[s] \/ (Priority[t] = Priority[s] /\ s <= t)}

\* External: what a claim returns, 0 when nothing is pending.
Claimable == IF pending = {} THEN {0} ELSE ClaimIds

\* A claim whose id never reaches the guest's register.
M_handle_irq ==
  /\ \E irq \in Claimable :
       /\ pending' = pending \ {irq}
       /\ inService' = inService \cup ({irq} \ {0})
       /\ claim_complete' = [claim_complete EXCEPT ![2 * guest_id] = irq]
  /\ vseip' = TRUE
  /\ irq_pending' = TRUE
  /\ UNCHANGED <<threshold, burst, isr, handling>>

\* handle_irq: claim from the hardware, record whatever that returns, raise VSEIP.
handle_irq ==
  /\ \E irq \in Claimable :
       /\ pending' = pending \ {irq}
       /\ inService' = inService \cup ({irq} \ {0})
       /\ claim_complete' = [claim_complete EXCEPT ![context_id] = irq]
  /\ vseip' = TRUE
  /\ irq_pending' = TRUE
  /\ UNCHANGED <<threshold, burst, isr, handling>>

\* The hart traps for it while the PLIC interrupts.
ExternalInterrupt == seip /\ handle_irq

-----------------------------------------------------------------------------
\* handle_plic_access splits the offset of the access into context and register.
CONTEXT_BASE == 2097152                  \* 0x20_0000
InContextArea(offset) == offset >= CONTEXT_BASE
                         /\ offset < CONTEXT_BASE + 4096 * MAX_CONTEXTS
hartOf(offset) == (offset - CONTEXT_BASE) \div 4096
indexOf(offset) == ((offset - CONTEXT_BASE) % 4096) \div 4

\* Register 0: the threshold goes to the machine's PLIC.
WriteThreshold(offset, value) ==
  /\ InContextArea(offset) /\ indexOf(offset) = 0
  /\ threshold' = value
  /\ UNCHANGED <<pending, inService, burst, claim_complete, vseip, irq_pending,
                 isr, handling>>

\* Register 1, load: the emulated claim.  The guest's handler leaves when it
\* reads 0 and otherwise serves the id it read.
ReadClaim(offset) ==
  /\ InContextArea(offset) /\ indexOf(offset) = 1
  /\ handling' = claim_complete[hartOf(offset)]
  /\ isr' = (handling' # 0)
  /\ UNCHANGED <<hwPlic, claim_complete, vseip, irq_pending>>

\* The line lowered, the emulated register left as it was.
M_WriteComplete(offset, value) ==
  /\ InContextArea(offset) /\ indexOf(offset) = 1
  /\ inService' = inService \ {value}
  /\ vseip' = FALSE
  /\ handling' = 0
  /\ UNCHANGED <<pending, threshold, burst, irq_pending, isr, claim_complete>>

\* The register and the line cleared, the machine's PLIC not told.
M2_WriteComplete(offset, value) ==
  /\ InContextArea(offset) /\ indexOf(offset) = 1
  /\ claim_complete' = [claim_complete EXCEPT ![hartOf(offset)] = 0]
  /\ vseip' = FALSE
  /\ handling' = 0
  /\ UNCHANGED <<hwPlic, irq_pending, isr>>

\* Register 1, store: complete at the hardware, clear the register and VSEIP.
WriteComplete(offset, value) ==
  /\ InContextArea(offset) /\ indexOf(offset) = 1
  /\ inService' = inService \ {value}
  /\ claim_complete' = [claim_complete EXCEPT ![hartOf(offset)] = 0]
  /\ vseip' = FALSE
  /\ handling' = 0
  /\ UNCHANGED <<pending, threshold, burst, irq_pending, isr>>

-----------------------------------------------------------------------------
\* External: the guest's driver.  It enters its handler on VSEIP, reads claim,
\* serves and completes the id, and reads claim again until that returns 0.
ThresholdReg == CONTEXT_BASE + 4096 * 1
ClaimReg == ThresholdReg + 4

GuestEnterIsr ==
  /\ vseip /\ ~isr
  /\ isr' = TRUE
  /\ UNCHANGED <<hwPlic, claim_complete, vseip, irq_pending, handling>>

GuestClaim == isr /\ handling = 0 /\ ReadClaim(ClaimReg)

GuestComplete == isr /\ handling # 0 /\ WriteComplete(ClaimReg, handling)

GuestThreshold ==
  \E v \in Thresholds : v # threshold /\ WriteThreshold(ThresholdReg, v)

PlicNext ==
  \/ \E s \in Sources : DeviceRaise(s)
  \/ ExternalInterrupt
  \/ GuestEnterIsr \/ GuestClaim \/ GuestComplete \/ GuestThreshold

PlicSafety == PlicInit /\ [][PlicNext]_plicVars

-----------------------------------------------------------------------------
\* Every part of the interrupt state has its type.
PlicTypeOK ==
  /\ pending \subseteq Sources
  /\ inService \subseteq Sources
  /\ threshold \in Thresholds /\ burst \in BOOLEAN
  /\ claim_complete \in [0 .. MAX_CONTEXTS - 1 -> Sources \cup {0}]
  /\ vseip \in BOOLEAN /\ irq_pending \in BOOLEAN /\ isr \in BOOLEAN
  /\ handling \in Sources \cup {0}

\* The guest's external interrupt line is up exactly while its emulated claim
\* register holds an id, so an interrupt the guest takes is never spurious and
\* an id in the register is always announced (handle_irq, handle_plic_access).
LineMatchesClaim == vseip <=> claim_complete[context_id] # 0

\* An id the guest can read, or has read, is one the machine's PLIC considers
\* in service: the completion the guest writes is never for an idle source.
GuestSeesInService ==
  {claim_complete[context_id], handling} \subseteq inService \cup {0}

\* A source the hypervisor has claimed from the machine's PLIC is not lost: the
\* guest can still read its id, or is serving it.
ClaimedIsDelivered == inService \subseteq {claim_complete[context_id], handling}

\* The same, until for the first time two interrupts are outstanding at once.
DeliveredOneAtATime == ~burst => ClaimedIsDelivered
=============================================================================
