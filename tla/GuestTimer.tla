------------------------------ MODULE GuestTimer ------------------------------
(***************************************************************************)
(* What a guest may assume of the timer the hypervisor gives it: arming    *)
(* lowers its interrupt line, the line rises once per arming, never before *)
(* the deadline, and it does rise when the deadline has passed, unless the *)
(* machine stops.                                                          *)
(***************************************************************************)
EXTENDS Naturals

CONSTANTS Times,      \* the values the clock takes
          Deadlines   \* the deadlines the guest may ask for

VARIABLES clock, deadline, line,
          running     \* the machine has not stopped; not of the timer's making

gtVars == <<clock, deadline, line>>

GTInit ==
  /\ clock = 0
  /\ deadline \in Deadlines
  /\ line = FALSE

Advance ==
  /\ clock' = clock + 1
  /\ clock' \in Times
  /\ UNCHANGED <<deadline, line>>

Arm(t) ==
  /\ deadline' = t
  /\ line' = FALSE
  /\ UNCHANGED clock

Expire ==
  /\ ~line
  /\ clock >= deadline
  /\ line' = TRUE
  /\ UNCHANGED <<clock, deadline>>

GTNext == Advance \/ Expire \/ \E t \in Deadlines : Arm(t)

GTSafety == GTInit /\ [][GTNext]_gtVars

GTSpec == GTSafety /\ WF_gtVars(running /\ Expire)
=============================================================================
