------------------------- MODULE FrameAllocatorProofs -------------------------
(***************************************************************************)
(* The frame allocator, for every image end and memory end.  The inductive *)
(* invariant is conservation: the frames the bump pointer has passed are   *)
(* split, without repetition, between the live trackers and the recycled   *)
(* stack.  From it follow that a drop never panics, that no frame has two  *)
(* owners, and that an allocation fails only when every frame is owned.    *)
(***************************************************************************)
EXTENDS FrameAllocator, TLAPS

AllocInv == AllocTypeOK /\ DropNeverPanics /\ FramesConserved

\* The frames on a stack, and that none is there twice.
Elements(s) == {s[i] : i \in DOMAIN s}
Distinct(s) == \A i, j \in DOMAIN s : s[i] = s[j] => i = j

\* The managed range is one of frame numbers.
LEMMA RangeNat ==
  /\ PhysAddrCeil(ekernel) \in Nat
  /\ PhysAddrFloor(MEMORY_END) \in Nat
  /\ PhysAddrCeil(ekernel) <= PhysAddrFloor(MEMORY_END)
BY LayoutAssumption DEF PhysAddrCeil, PhysAddrFloor, PAGE_SIZE

\* It starts after the image and ends before the end of memory.
LEMMA RangeBounds ==
  /\ PhysAddrCeil(ekernel) * PAGE_SIZE >= ekernel
  /\ PhysAddrFloor(MEMORY_END) * PAGE_SIZE <= MEMORY_END
BY LayoutAssumption DEF PhysAddrCeil, PhysAddrFloor, PAGE_SIZE

\* The stack without its top holds every frame but the top, once each.
LEMMA PopEffect ==
  ASSUME NEW S, NEW s \in Seq(S), s # <<>>, Distinct(s)
  PROVE  /\ SubSeq(s, 1, Len(s) - 1) \in Seq(S)
         /\ s[Len(s)] \in S
         /\ Elements(SubSeq(s, 1, Len(s) - 1)) = Elements(s) \ {s[Len(s)]}
         /\ s[Len(s)] \in Elements(s)
         /\ Distinct(SubSeq(s, 1, Len(s) - 1))
<1> DEFINE r == SubSeq(s, 1, Len(s) - 1)
<1>0. \A i, j \in DOMAIN s : s[i] = s[j] => i = j
  BY DEF Distinct
<1>1. Len(s) \in Nat /\ Len(s) >= 1 /\ DOMAIN s = 1 .. Len(s)
  OBVIOUS
<1>2. /\ r \in Seq(S) /\ DOMAIN r = 1 .. Len(s) - 1
      /\ \A i \in 1 .. Len(s) - 1 : r[i] = s[i]
  BY <1>1
<1> HIDE DEF r
<1>3. s[Len(s)] \in S /\ Len(s) \in DOMAIN s
  BY <1>1
<1>4. \A i \in DOMAIN s : i \in DOMAIN r <=> i # Len(s)
  BY <1>1, <1>2
<1>5. DOMAIN r \subseteq DOMAIN s /\ \A i \in DOMAIN r : r[i] = s[i]
  BY <1>1, <1>2
<1>6. {r[i] : i \in DOMAIN r} = {s[i] : i \in DOMAIN s} \ {s[Len(s)]}
  <2>1. ASSUME NEW x \in {r[i] : i \in DOMAIN r}
        PROVE  x \in {s[i] : i \in DOMAIN s} \ {s[Len(s)]}
    <3>1. PICK i \in DOMAIN r : x = r[i]
      OBVIOUS
    <3>2. QED
      BY <1>0, <1>3, <1>4, <1>5, <3>1, Zenon
  <2>2. ASSUME NEW x \in {s[i] : i \in DOMAIN s} \ {s[Len(s)]}
        PROVE  x \in {r[i] : i \in DOMAIN r}
    <3>1. PICK i \in DOMAIN s : x = s[i] /\ x # s[Len(s)]
      OBVIOUS
    <3>2. QED
      BY <1>4, <1>5, <3>1, Zenon
  <2>3. QED
    BY <2>1, <2>2, Zenon
<1>7. \A i, j \in DOMAIN r : r[i] = r[j] => i = j
  BY <1>0, <1>5, Zenon
<1>8. s[Len(s)] \in {s[i] : i \in DOMAIN s}
  BY <1>3, Zenon
<1>9. QED
  BY <1>2, <1>3, <1>6, <1>7, <1>8, Zenon DEF r, Elements, Distinct

\* A pushed frame is added to the stack's frames, once.
LEMMA PushEffect ==
  ASSUME NEW S, NEW s \in Seq(S), NEW f \in S, f \notin Elements(s), Distinct(s)
  PROVE  /\ Append(s, f) \in Seq(S)
         /\ Elements(Append(s, f)) = Elements(s) \cup {f}
         /\ Distinct(Append(s, f))
<1> USE DEF Elements, Distinct
<1>1. Len(s) \in Nat /\ DOMAIN s = 1 .. Len(s)
  OBVIOUS
<1> DEFINE r == Append(s, f)
<1>2. /\ r \in Seq(S) /\ DOMAIN r = 1 .. Len(s) + 1
      /\ \A i \in 1 .. Len(s) : r[i] = s[i]
      /\ r[Len(s) + 1] = f
  BY <1>1
<1> HIDE DEF r
<1>3. Elements(r) = Elements(s) \cup {f}
  BY <1>1, <1>2
<1>4. Distinct(r)
  BY <1>1, <1>2
<1>5. QED
  BY <1>2, <1>3, <1>4 DEF r

LEMMA EmptyStack ==
  ASSUME recycled = <<>> PROVE RecycledSet = {}
BY DEF RecycledSet

\* What the invariant says while the hypervisor runs.
LEMMA AllocFacts ==
  ASSUME AllocInv
  PROVE  /\ current \in PhysAddrCeil(ekernel) .. PhysAddrFloor(MEMORY_END)
         /\ end = PhysAddrFloor(MEMORY_END)
         /\ recycled \in Seq(AllFrames) /\ trackers \subseteq AllFrames
         /\ trackers \cup RecycledSet = PhysAddrCeil(ekernel) .. current - 1
         /\ trackers \cap RecycledSet = {}
         /\ Distinct(recycled)
<1>1. AllocTypeOK /\ DropNeverPanics /\ FramesConserved
  BY DEF AllocInv
<1>2. /\ end = PhysAddrFloor(MEMORY_END) /\ current \in PhysAddrCeil(ekernel) .. end
      /\ recycled \in Seq(AllFrames) /\ trackers \subseteq AllFrames
  BY <1>1, Zenon DEF AllocTypeOK
<1>3. /\ trackers \cup RecycledSet = PhysAddrCeil(ekernel) .. current - 1
      /\ trackers \cap RecycledSet = {}
      /\ Distinct(recycled)
  BY <1>1, Zenon DEF Distinct, FramesConserved, DropNeverPanics
<1>4. QED
  BY <1>2, <1>3, Zenon

LEMMA AllocInitInv == init_frame_allocator => AllocInv
<1> SUFFICES ASSUME init_frame_allocator PROVE AllocInv
  OBVIOUS
<1> USE DEF init_frame_allocator
<1>1. AllocTypeOK
  BY RangeNat DEF AllocTypeOK
<1>2. FramesConserved
  BY RangeNat DEF FramesConserved, RecycledSet
<1>3. QED
  BY <1>1, <1>2 DEF AllocInv, DropNeverPanics

\* The recycled outcome of alloc: the top frame moves to the trackers.
LEMMA PopStep ==
  ASSUME AllocInv, PopRecycled
  PROVE  /\ AllocInv'
         /\ recycled[Len(recycled)] \in AllFrames \ trackers
<1> DEFINE top == recycled[Len(recycled)]
<1>1. recycled # <<>> /\ recycled' = SubSeq(recycled, 1, Len(recycled) - 1)
  BY DEF PopRecycled
<1>2. /\ recycled' \in Seq(AllFrames) /\ top \in AllFrames
      /\ RecycledSet' = RecycledSet \ {top} /\ top \in RecycledSet
      /\ Distinct(recycled')
  <2>1. recycled \in Seq(AllFrames) /\ Distinct(recycled)
    BY AllocFacts
  <2>2. RecycledSet = Elements(recycled) /\ RecycledSet' = Elements(recycled')
    BY DEF RecycledSet, Elements
  <2>3. QED
    BY <1>1, <2>1, <2>2, PopEffect, Zenon
<1> HIDE DEF top
<1>3. trackers' = trackers \cup {top} /\ UNCHANGED <<current, end, panic>>
  BY DEF PopRecycled, top
<1>4. AllocTypeOK'
  BY <1>2, <1>3, AllocFacts, Zenon DEF AllocTypeOK, AllocInv
<1>5. /\ trackers' \cup RecycledSet' = PhysAddrCeil(ekernel) .. current' - 1
      /\ trackers' \cap RecycledSet' = {}
  <2>1. /\ trackers \cup RecycledSet = PhysAddrCeil(ekernel) .. current - 1
        /\ trackers \cap RecycledSet = {}
    BY AllocFacts
  <2>2. trackers' \cup RecycledSet' = trackers \cup RecycledSet
    BY <1>2, <1>3, Zenon
  <2>3. QED
    BY <1>2, <1>3, <2>1, <2>2, Zenon
<1>6. AllocInv'
  BY <1>2, <1>3, <1>4, <1>5, Zenon DEF Distinct, FramesConserved, AllocInv, DropNeverPanics
<1>7. top \notin trackers
  BY <1>2, AllocFacts, Zenon
<1>8. QED
  BY <1>2, <1>6, <1>7 DEF top

\* The bump outcome: the frame at the pointer gets its first owner.
LEMMA BumpStep ==
  ASSUME AllocInv, BumpCurrent
  PROVE  /\ AllocInv'
         /\ current \in AllFrames \ trackers
<1>1. /\ recycled = <<>> /\ recycled' = <<>> /\ current' = current + 1
      /\ trackers' = trackers \cup {current} /\ UNCHANGED <<end, recycled, panic>>
      /\ current # end
  BY DEF BumpCurrent
<1>2. /\ current \in PhysAddrCeil(ekernel) .. PhysAddrFloor(MEMORY_END)
      /\ end = PhysAddrFloor(MEMORY_END)
  BY AllocFacts
<1>3. current \in AllFrames /\ current' \in PhysAddrCeil(ekernel) .. end'
  BY <1>1, <1>2, RangeNat DEF AllFrames
<1>4. RecycledSet = {} /\ RecycledSet' = {}
  BY <1>1, EmptyStack DEF RecycledSet
<1>5. /\ PhysAddrCeil(ekernel) .. current' - 1
           = (PhysAddrCeil(ekernel) .. current - 1) \cup {current}
      /\ current \notin PhysAddrCeil(ekernel) .. current - 1
  BY <1>1, <1>2, RangeNat
<1>6. trackers = PhysAddrCeil(ekernel) .. current - 1
  BY <1>4, AllocFacts, Zenon
<1>7. AllocTypeOK'
  BY <1>1, <1>3, Zenon DEF AllocTypeOK, AllocInv
<1>8. FramesConserved'
  <2>1. Distinct(recycled')
    BY <1>1, AllocFacts, Zenon
  <2>2. trackers' \cup RecycledSet' = PhysAddrCeil(ekernel) .. current' - 1
    BY <1>1, <1>4, <1>5, <1>6, Zenon
  <2>3. QED
    BY <1>4, <2>1, <2>2, Zenon DEF Distinct, FramesConserved
<1>9. QED
  BY <1>1, <1>3, <1>5, <1>6, <1>7, <1>8, Zenon DEF AllocInv, DropNeverPanics

\* The failing outcome: every frame has a tracker.
LEMMA ExhaustStep ==
  ASSUME AllocInv, OutOfFrames
  PROVE  /\ AllocInv'
         /\ trackers = AllFrames
<1>1. /\ recycled = <<>> /\ current = end /\ panic' = "out of frames"
      /\ UNCHANGED <<current, end, recycled, trackers>>
  BY DEF OutOfFrames
<1>2. RecycledSet = {}
  BY <1>1, EmptyStack
<1>3. trackers = AllFrames
  BY <1>1, <1>2, AllocFacts, Zenon DEF AllFrames
<1>4. AllocTypeOK'
  BY <1>1, Zenon DEF AllocTypeOK, AllocInv
<1>5. FramesConserved'
  <2>1. RecycledSet' = RecycledSet
    BY <1>1, Zenon DEF RecycledSet
  <2>2. QED
    BY <1>1, <2>1, AllocFacts, Zenon DEF Distinct, FramesConserved
<1>6. QED
  BY <1>1, <1>3, <1>4, <1>5 DEF AllocInv, DropNeverPanics

\* The drop of a live tracker finds its frame allocated, and keeps the invariant.
LEMMA DeallocStep ==
  ASSUME AllocInv, NEW ppn \in trackers, frame_dealloc(ppn)
  PROVE  AllocInv' /\ panic = "no" /\ panic' = "no"
<1>1. ppn \in AllFrames /\ ppn \notin RecycledSet
      /\ ppn \in PhysAddrCeil(ekernel) .. current - 1
  BY AllocFacts, Zenon
<1>2. ~(ppn >= current)
  <2>1. current \in Nat
    BY AllocFacts, RangeNat
  <2>2. QED
    BY <1>1, <2>1, RangeNat
<1>3. /\ recycled' = Append(recycled, ppn) /\ panic' = "no" /\ panic = "no"
      /\ UNCHANGED <<current, end>> /\ trackers' = trackers \ {ppn}
  BY <1>1, <1>2, Zenon DEF frame_dealloc
<1>4. /\ recycled' \in Seq(AllFrames)
      /\ RecycledSet' = RecycledSet \cup {ppn}
      /\ Distinct(recycled')
  <2>1. recycled \in Seq(AllFrames) /\ Distinct(recycled)
    BY AllocFacts
  <2>2. RecycledSet = Elements(recycled) /\ RecycledSet' = Elements(recycled')
    BY DEF RecycledSet, Elements
  <2>3. ppn \in AllFrames /\ ppn \notin Elements(recycled)
    BY <1>1, <2>2
  <2>4. /\ Append(recycled, ppn) \in Seq(AllFrames)
        /\ Elements(Append(recycled, ppn)) = Elements(recycled) \cup {ppn}
        /\ Distinct(Append(recycled, ppn))
    BY <2>1, <2>3, PushEffect, Zenon
  <2>5. QED
    BY <1>3, <2>2, <2>4, Zenon
<1>5. AllocTypeOK'
  BY <1>3, <1>4, Zenon DEF AllocTypeOK, AllocInv
<1>6. FramesConserved'
  <2>1. /\ trackers' \cup RecycledSet' = trackers \cup RecycledSet
        /\ trackers' \cap RecycledSet' = trackers \cap RecycledSet
    BY <1>1, <1>3, <1>4
  <2>2. QED
    BY <1>3, <1>4, <2>1, AllocFacts, Zenon DEF Distinct, FramesConserved
<1>7. QED
  BY <1>3, <1>5, <1>6 DEF AllocInv, DropNeverPanics

LEMMA AllocNextInv == AllocInv /\ [AllocNext]_allocVars => AllocInv'
<1> SUFFICES ASSUME AllocInv, [AllocNext]_allocVars
             PROVE  AllocInv'
  OBVIOUS
<1>1. CASE frame_alloc
  BY <1>1, PopStep, BumpStep, ExhaustStep DEF frame_alloc
<1>2. ASSUME NEW ppn \in trackers, frame_dealloc(ppn)
      PROVE  AllocInv'
  BY <1>2, DeallocStep
<1>3. CASE UNCHANGED allocVars
  BY <1>3 DEF allocVars, AllocInv, AllocTypeOK, DropNeverPanics, FramesConserved,
              RecycledSet
<1>4. QED
  BY <1>1, <1>2, <1>3 DEF AllocNext

\* The invariant is one of the specification.
THEOREM AllocInvariant == AllocSpec => []AllocInv
  BY AllocInitInv, AllocNextInv, PTL DEF AllocSpec

\* The allocator's fields keep their types and ranges.
THEOREM AllocTypeCorrect == AllocSpec => []AllocTypeOK
<1>1. AllocInv => AllocTypeOK
  BY DEF AllocInv
<1>2. QED
  BY <1>1, AllocInvariant, PTL

\* Every frame handed out so far is tracked or recycled, never both, never twice.
THEOREM AllocFramesConserved == AllocSpec => []FramesConserved
<1>1. AllocInv => FramesConserved
  BY DEF AllocInv
<1>2. QED
  BY <1>1, AllocInvariant, PTL

\* Dropping a FrameTracker never reaches dealloc's panic.
THEOREM AllocDropNeverPanics == AllocSpec => []DropNeverPanics
<1>1. AllocInv => DropNeverPanics
  BY DEF AllocInv
<1>2. QED
  BY <1>1, AllocInvariant, PTL

\* A frame handed out lies between the end of the image and the end of memory.
THEOREM AllocFramesInBounds == AllocSpec => []FramesInBounds
<1>1. AllocInv => FramesInBounds
  <2> SUFFICES ASSUME AllocInv, NEW f \in trackers
               PROVE  f * PAGE_SIZE >= ekernel /\ (f + 1) * PAGE_SIZE <= MEMORY_END
    BY DEF FramesInBounds
  <2>1. /\ f \in Nat /\ f >= PhysAddrCeil(ekernel)
        /\ f + 1 <= PhysAddrFloor(MEMORY_END)
    BY AllocFacts, RangeNat DEF AllFrames
  <2>2. QED
    BY <2>1, RangeNat, RangeBounds, LayoutAssumption DEF PAGE_SIZE
<1>2. QED
  BY <1>1, AllocInvariant, PTL

\* The allocator implements the abstract pool: alloc never returns an owned frame,
\* and fails only when every frame has an owner.
THEOREM AllocRefinesPool == AllocSpec => ImplementsPool
<1>1. init_frame_allocator => Pool!PoolInit
  BY DEF init_frame_allocator, Pool!PoolInit
<1>2. ASSUME AllocInv, [AllocNext]_allocVars
      PROVE  [Pool!PoolNext]_(Pool!poolVars)
  <2> USE DEF Pool!PoolNext, Pool!poolVars
  <2>1. CASE frame_alloc
    <3>0. panic = "no"
      BY <2>1 DEF frame_alloc
    <3>1. CASE PopRecycled
      <4>1. recycled[Len(recycled)] \in AllFrames \ trackers
        BY <1>2, <3>1, PopStep
      <4>2. Pool!Take(recycled[Len(recycled)])
        BY <3>0, <3>1, <4>1 DEF PopRecycled, Pool!Take
      <4>3. QED
        BY <4>1, <4>2
    <3>2. CASE BumpCurrent
      <4>1. current \in AllFrames \ trackers
        BY <1>2, <3>2, BumpStep
      <4>2. Pool!Take(current)
        BY <3>0, <3>2, <4>1 DEF BumpCurrent, Pool!Take
      <4>3. QED
        BY <4>1, <4>2
    <3>3. CASE OutOfFrames
      BY <1>2, <3>0, <3>3, ExhaustStep DEF OutOfFrames, Pool!Exhaust
    <3>4. QED
      BY <2>1, <3>1, <3>2, <3>3 DEF frame_alloc
  <2>2. ASSUME NEW ppn \in trackers, frame_dealloc(ppn)
        PROVE  [Pool!PoolNext]_(Pool!poolVars)
    <3>1. ppn \in AllFrames
      BY <1>2, AllocFacts
    <3>2. panic = "no" /\ panic' = "no"
      BY <1>2, <2>2, DeallocStep
    <3>3. Pool!Give(ppn)
      BY <2>2, <3>2 DEF frame_dealloc, Pool!Give
    <3>4. QED
      BY <3>1, <3>3
  <2>3. CASE UNCHANGED allocVars
    BY <2>3 DEF allocVars
  <2>4. QED
    BY <1>2, <2>1, <2>2, <2>3 DEF AllocNext
<1>3. QED
  BY <1>1, <1>2, AllocInvariant, PTL DEF AllocSpec, ImplementsPool, Pool!PoolSpec
=============================================================================
