---------------------------- MODULE FrameAllocator ----------------------------
(***************************************************************************)
(* The physical frame allocator (hyp_alloc/frame_allocator.rs): a bump     *)
(* pointer and a stack of recycled frame numbers behind one mutex, and the *)
(* FrameTrackers whose creation and drop are the only calls made to it.    *)
(* FRAME_ALLOCATOR's lock is taken and released inside frame_alloc and     *)
(* frame_dealloc, so each call is one step.                                *)
(***************************************************************************)
EXTENDS Naturals, Sequences

CONSTANTS ekernel,      \* first byte after the hypervisor image
          MEMORY_END    \* first byte after the hypervisor's memory

PAGE_SIZE == 4096

ASSUME LayoutAssumption ==
  /\ ekernel \in Nat \ {0}
  /\ MEMORY_END \in Nat
  /\ ekernel + PAGE_SIZE <= MEMORY_END

PhysAddrFloor(a) == a \div PAGE_SIZE

\* A plausible slip: the partly used page of the image's end counted as free.
M_PhysAddrCeil(a) == a \div PAGE_SIZE

PhysAddrCeil(a) == (a - 1 + PAGE_SIZE) \div PAGE_SIZE

VARIABLES current,      \* StackFrameAllocator.current, the bump pointer
          end,          \* StackFrameAllocator.end
          recycled,     \* StackFrameAllocator.recycled, top of stack last
          trackers,     \* frames for which a FrameTracker is alive
          panic         \* "no", or the panic the hypervisor stopped with

allocVars == <<current, end, recycled, trackers, panic>>

AllFrames == PhysAddrCeil(ekernel) .. PhysAddrFloor(MEMORY_END) - 1

RecycledSet == {recycled[i] : i \in DOMAIN recycled}

-----------------------------------------------------------------------------
init_frame_allocator ==
  /\ current = PhysAddrCeil(ekernel)
  /\ end = PhysAddrFloor(MEMORY_END)
  /\ recycled = <<>>
  /\ trackers = {}
  /\ panic = "no"

\* The top of the stack read and not popped.
M_PopRecycled ==
  /\ recycled # <<>>
  /\ trackers' = trackers \cup {recycled[Len(recycled)]}
  /\ UNCHANGED <<current, end, recycled, panic>>

\* alloc's three outcomes, in the order the code tries them.  FrameTracker::new
\* wraps the frame number that alloc returns.
PopRecycled ==
  /\ recycled # <<>>
  /\ trackers' = trackers \cup {recycled[Len(recycled)]}
  /\ recycled' = SubSeq(recycled, 1, Len(recycled) - 1)
  /\ UNCHANGED <<current, end, panic>>

BumpCurrent ==
  /\ recycled = <<>>
  /\ current # end
  /\ current' = current + 1
  /\ trackers' = trackers \cup {current}
  /\ UNCHANGED <<end, recycled, panic>>

\* The bound tested before the recycled stack is tried.
M_OutOfFrames ==
  /\ current = end
  /\ panic' = "out of frames"
  /\ UNCHANGED <<current, end, recycled, trackers>>

\* A caller that tries again instead of unwrapping.
M2_OutOfFrames ==
  /\ recycled = <<>>
  /\ current = end
  /\ UNCHANGED allocVars

\* Every caller of frame_alloc unwraps the result.
OutOfFrames ==
  /\ recycled = <<>>
  /\ current = end
  /\ panic' = "out of frames"
  /\ UNCHANGED <<current, end, recycled, trackers>>

frame_alloc ==
  /\ panic = "no"
  /\ PopRecycled \/ BumpCurrent \/ OutOfFrames

\* The last frame handed out taken for one that was not.
M_frame_dealloc(ppn) ==
  /\ panic = "no"
  /\ ppn \in trackers
  /\ IF ppn + 1 >= current \/ ppn \in RecycledSet
       THEN panic' = "not allocated" /\ UNCHANGED recycled
       ELSE recycled' = Append(recycled, ppn) /\ UNCHANGED panic
  /\ trackers' = trackers \ {ppn}
  /\ UNCHANGED <<current, end>>

\* The drop of a FrameTracker: dealloc's validity check, then the push.
frame_dealloc(ppn) ==
  /\ panic = "no"
  /\ ppn \in trackers
  /\ IF ppn >= current \/ ppn \in RecycledSet
       THEN panic' = "not allocated" /\ UNCHANGED recycled
       ELSE recycled' = Append(recycled, ppn) /\ UNCHANGED panic
  /\ trackers' = trackers \ {ppn}
  /\ UNCHANGED <<current, end>>

AllocNext == frame_alloc \/ \E ppn \in trackers : frame_dealloc(ppn)

AllocSpec == init_frame_allocator /\ [][AllocNext]_allocVars

-----------------------------------------------------------------------------
\* The allocator's state has the shape the code gives it: a bump pointer
\* between the two ends, and frame numbers of the managed range everywhere else.
AllocTypeOK ==
  /\ current \in PhysAddrCeil(ekernel) .. end
  /\ end = PhysAddrFloor(MEMORY_END)
  /\ recycled \in Seq(AllFrames)
  /\ trackers \subseteq AllFrames
  /\ panic \in {"no", "out of frames", "not allocated"}

\* Every frame the bump pointer has passed is in exactly one place: it has a
\* live FrameTracker, or it is one entry of the recycled stack (alloc, dealloc).
FramesConserved ==
  panic # "not allocated" =>
    /\ trackers \cup RecycledSet = PhysAddrCeil(ekernel) .. current - 1
    /\ trackers \cap RecycledSet = {}
    /\ \A i, j \in DOMAIN recycled : recycled[i] = recycled[j] => i = j

\* Dropping a live FrameTracker never trips dealloc's "has not been allocated".
DropNeverPanics == panic # "not allocated"

\* A frame handed out lies wholly between the end of the hypervisor image and
\* the end of its memory, so zeroing it (FrameTracker::new) destroys neither.
FramesInBounds ==
  \A f \in trackers : f * PAGE_SIZE >= ekernel /\ (f + 1) * PAGE_SIZE <= MEMORY_END

\* The allocator implements the pool: no frame has two owners, and frame_alloc
\* returns None only when every frame is owned.
Pool == INSTANCE FramePool WITH
          Frames <- AllFrames, owned <- trackers,
          exhausted <- (panic = "out of frames")

ImplementsPool == Pool!PoolSpec
=============================================================================
