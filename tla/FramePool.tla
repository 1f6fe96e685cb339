------------------------------ MODULE FramePool ------------------------------
(***************************************************************************)
(* What the frame allocator of hyp_alloc promises its callers, with no     *)
(* word about how: a pool of page frames.  A frame is handed out only      *)
(* while nobody owns it, an owner gives it back when its FrameTracker is   *)
(* dropped, and an allocation fails only when every frame has an owner.    *)
(* FrameAllocator is shown to implement this specification.                *)
(***************************************************************************)
CONSTANT Frames        \* the page frames the pool manages

VARIABLES owned,       \* frames that have a FrameTracker
          exhausted    \* an allocation found the pool empty

poolVars == <<owned, exhausted>>

PoolInit == owned = {} /\ exhausted = FALSE

Take(f) ==
  /\ ~exhausted
  /\ f \notin owned
  /\ owned' = owned \cup {f}
  /\ UNCHANGED exhausted

Give(f) ==
  /\ ~exhausted
  /\ f \in owned
  /\ owned' = owned \ {f}
  /\ UNCHANGED exhausted

Exhaust ==
  /\ ~exhausted
  /\ owned = Frames
  /\ exhausted' = TRUE
  /\ UNCHANGED owned

PoolNext == \/ \E f \in Frames : Take(f) \/ Give(f)
            \/ Exhaust

PoolSpec == PoolInit /\ [][PoolNext]_poolVars
=============================================================================
