------------------------------- MODULE GuestRoot -------------------------------
(***************************************************************************)
(* PageTableSv39::new_guest: the root of a guest's second-stage table.     *)
(* The hardware reads four consecutive, 16 KiB aligned pages; the code     *)
(* asks the frame allocator for single frames until one is aligned, then   *)
(* for three more.  The frames it skips stay with the table.  Before the   *)
(* call other owners have taken frames and, perhaps, returned some.        *)
(***************************************************************************)
EXTENDS FrameAllocator

VARIABLES phase,         \* where new_guest is
          frames,        \* new_guest's frames
          root_ppn,      \* the aligned frame, once found
          left,          \* allocations still to make after it
          returned       \* history: a frame was returned before the call

rootVars == <<phase, frames, root_ppn, left, returned>>
guestRootVars == <<rootVars, allocVars>>

RootInit ==
  /\ init_frame_allocator
  /\ phase = "before" /\ frames = {} /\ root_ppn = 0 /\ left = 3
  /\ returned = FALSE

\* The rest of the hypervisor, before the call.
Others ==
  /\ phase = "before"
  /\ \/ frame_alloc /\ UNCHANGED returned
     \/ (\E f \in trackers : frame_dealloc(f)) /\ returned' = TRUE
  /\ UNCHANGED <<phase, frames, root_ppn, left>>

new_guest ==
  /\ phase = "before" /\ panic = "no"
  /\ phase' = "align"
  /\ UNCHANGED <<frames, root_ppn, left, returned, allocVars>>

\* The frame that frame_alloc has just returned.
Allocated == trackers' \ trackers

\* The aligned frame taken, the alignment tested against half the size.
M_AlignStep ==
  /\ phase = "align"
  /\ frame_alloc
  /\ frames' = frames \cup Allocated
  /\ \/ /\ \E f \in Allocated : f % 2 = 0 /\ root_ppn' = f
        /\ phase' = "tail"
     \/ (\A f \in Allocated : f % 2 # 0) /\ UNCHANGED <<phase, root_ppn>>
  /\ UNCHANGED <<left, returned>>

\* One turn of the while loop, the first allocation included.
AlignStep ==
  /\ phase = "align"
  /\ frame_alloc
  /\ frames' = frames \cup Allocated
  /\ \/ /\ \E f \in Allocated : f % 4 = 0 /\ root_ppn' = f
        /\ phase' = "tail"
     \/ (\A f \in Allocated : f % 4 # 0) /\ UNCHANGED <<phase, root_ppn>>
  /\ UNCHANGED <<left, returned>>

\* One turn of the for loop.
TailStep ==
  /\ phase = "tail"
  /\ frame_alloc
  /\ frames' = frames \cup Allocated
  /\ left' = left - 1
  /\ phase' = IF left' = 0 /\ panic' = "no" THEN "done" ELSE "tail"
  /\ UNCHANGED <<root_ppn, returned>>

RootNext == Others \/ new_guest \/ AlignStep \/ TailStep

RootSpec == RootInit /\ [][RootNext]_guestRootVars

-----------------------------------------------------------------------------
\* The finished root is four consecutive frames, 16 KiB aligned, all of them
\* owned by the table: the hardware's walk reads no other owner's memory.
RootContiguous ==
  phase = "done" => root_ppn % 4 = 0 /\ root_ppn .. root_ppn + 3 \subseteq frames

\* The same, when no frame has been returned before the call: the bump pointer
\* alone serves new_guest, as it does in hentry.
RootContiguousAtBoot == ~returned => RootContiguous
=============================================================================
