------------------------------ MODULE VirtTimer ------------------------------
(***************************************************************************)
(* The guest's timer as the hypervisor builds it out of the one supervisor *)
(* timer: SBI set_timer from the guest programs the machine timer, lowers  *)
(* VSTIP and enables the supervisor timer interrupt; the interrupt raises  *)
(* VSTIP and disables itself until the guest arms the timer again.         *)
(***************************************************************************)
EXTENDS Naturals

CONSTANT MaxTime         \* bound on the clock; nothing in the code depends on it

ASSUME TimeAssumption == MaxTime \in Nat

Never == MaxTime + 1     \* a deadline the clock does not reach

VARIABLES time,          \* the platform clock
          stimecmp,      \* the deadline the SBI firmware holds for the hypervisor
          stie,          \* sie.STIE: supervisor timer interrupt enabled
          vstip          \* hvip.VSTIP: the guest's timer interrupt line

timerVars == <<time, stimecmp, stie, vstip>>

\* init_vmm clears VSTIP and enables the timer; no deadline has been set.
TimerInit ==
  /\ time = 0
  /\ stimecmp = Never
  /\ stie = TRUE
  /\ vstip = FALSE

\* External: the supervisor timer interrupt is pending (sip.STIP).
stip == time >= stimecmp

\* External: the clock advances on its own.
Tick ==
  /\ time < MaxTime
  /\ time' = time + 1
  /\ UNCHANGED <<stimecmp, stie, vstip>>

\* SBI set_timer, by the TIME extension or by the legacy call.
set_timer(t) ==
  /\ stimecmp' = t
  /\ vstip' = FALSE
  /\ stie' = TRUE
  /\ UNCHANGED time

\* trap_handler on a supervisor timer interrupt, which it does not check for.
timer_irq ==
  /\ vstip' = TRUE
  /\ stie' = FALSE
  /\ UNCHANGED <<time, stimecmp>>

\* The hart traps for it while it is enabled and pending.
TimerInterrupt == stie /\ stip /\ timer_irq

TimerNext ==
  \/ Tick
  \/ TimerInterrupt
  \/ \E t \in 0 .. Never : set_timer(t)

\* The hardware takes an enabled supervisor interrupt whenever the guest runs,
\* so one that stays pending is eventually handled.
TimerSpec == TimerInit /\ [][TimerNext]_timerVars /\ WF_timerVars(TimerInterrupt)

-----------------------------------------------------------------------------
\* The clock, the deadline and the two interrupt bits have their types.
TimerTypeOK ==
  /\ time \in 0 .. MaxTime
  /\ stimecmp \in 0 .. Never
  /\ stie \in BOOLEAN
  /\ vstip \in BOOLEAN

\* The guest's line is up only after its latest deadline has passed: neither
\* set_timer nor the interrupt handler leaves an early interrupt behind.
NoEarlyTick == vstip => time >= stimecmp

\* The timer interrupt is enabled exactly while the guest is owed one, so an
\* expired deadline is never both unannounced and unable to interrupt.
OwedIffEnabled == stie <=> ~vstip

\* The timer the guest assumes, which knows nothing of sie.STIE.
Guest == INSTANCE GuestTimer WITH
           Times <- 0 .. MaxTime, Deadlines <- 0 .. Never,
           clock <- time, deadline <- stimecmp, line <- vstip, running <- TRUE
=============================================================================
