--------------------------- MODULE GuestTableProofs ---------------------------
(***************************************************************************)
(* The tables a guest is translated by.                                    *)
(*                                                                         *)
(* The second stage, for every layout: new_guest's root is four            *)
(* consecutive aligned frames as long as no frame was returned before the  *)
(* call.  The argument is that with an empty recycled stack alloc is the   *)
(* bump pointer, so the frames after the aligned one follow it in memory.  *)
(*                                                                         *)
(* The first stage, for every size of table and page, every memory and     *)
(* every content of the tables: the software walk of the guest's tables    *)
(* agrees with the hart's.                                                 *)
(***************************************************************************)
EXTENDS GuestRoot, GuestWalk, FrameAllocatorProofs

(***************************************************************************)
(* The second stage: new_guest.                                            *)
(***************************************************************************)

\* The frames taken since the aligned one are the ones the pointer has passed.
BootInv ==
  /\ AllocInv
  /\ recycled = <<>>
  /\ phase \in {"before", "align", "tail", "done"}
  /\ phase \in {"before", "align"} => left = 3
  /\ (phase = "tail" /\ panic = "no") =>
       /\ left \in 1 .. 3 /\ root_ppn \in Nat /\ root_ppn % 4 = 0
       /\ current = root_ppn + (4 - left)
       /\ root_ppn .. current - 1 \subseteq frames
  /\ phase = "done" => root_ppn % 4 = 0 /\ root_ppn .. root_ppn + 3 \subseteq frames

LEMMA BootInitInv == RootInit => BootInv
<1> SUFFICES ASSUME RootInit PROVE BootInv
  OBVIOUS
<1>1. AllocInv
  BY AllocInitInv DEF RootInit
<1>2. QED
  BY <1>1 DEF RootInit, BootInv, init_frame_allocator

\* With nothing recycled, alloc bumps the pointer or finds no frame.
LEMMA BootAlloc ==
  ASSUME AllocInv, recycled = <<>>, frame_alloc
  PROVE  /\ AllocInv' /\ recycled' = <<>> /\ panic = "no"
         /\ \/ /\ panic' = "no" /\ current' = current + 1 /\ current \in Nat
               /\ Allocated = {current}
            \/ /\ panic' = "out of frames" /\ Allocated = {}
<1>1. panic = "no"
  BY DEF frame_alloc
<1>2. CASE BumpCurrent
  <2>1. AllocInv' /\ current \in AllFrames \ trackers
    BY <1>2, BumpStep
  <2>2. current \in Nat
    BY <2>1, RangeNat DEF AllFrames
  <2>3. trackers' = trackers \cup {current} /\ current' = current + 1
        /\ recycled' = <<>> /\ panic' = "no"
    BY <1>1, <1>2 DEF BumpCurrent
  <2>4. Allocated = {current}
    BY <2>1, <2>3 DEF Allocated
  <2>5. QED
    BY <1>1, <2>1, <2>2, <2>3, <2>4
<1>3. CASE OutOfFrames
  <2>1. AllocInv'
    BY <1>3, ExhaustStep
  <2>2. QED
    BY <1>1, <1>3, <2>1 DEF OutOfFrames, Allocated
<1>4. QED
  BY <1>2, <1>3 DEF frame_alloc, PopRecycled

LEMMA BootStepInv == ~returned' /\ BootInv /\ [RootNext]_guestRootVars => BootInv'
<1> SUFFICES ASSUME ~returned', BootInv, [RootNext]_guestRootVars
             PROVE  BootInv'
  OBVIOUS
<1>0. AllocInv /\ recycled = <<>>
  BY DEF BootInv
<1>1. CASE Others
  <2>1. frame_alloc /\ phase = "before" /\ UNCHANGED rootVars
    BY <1>1 DEF Others, rootVars
  <2>2. AllocInv' /\ recycled' = <<>>
    BY <1>0, <2>1, BootAlloc
  <2>3. QED
    BY <2>1, <2>2 DEF BootInv, rootVars
<1>2. CASE new_guest
  <2>1. UNCHANGED allocVars /\ AllocInv'
    BY <1>0, <1>2, AllocNextInv DEF new_guest
  <2>2. QED
    BY <1>2, <2>1 DEF new_guest, BootInv, allocVars
<1>3. CASE AlignStep
  <2>1. phase = "align" /\ frame_alloc /\ left' = left /\ left = 3
        /\ frames' = frames \cup Allocated
    BY <1>3 DEF AlignStep, BootInv
  <2>2. /\ AllocInv' /\ recycled' = <<>>
        /\ \/ /\ panic' = "no" /\ current' = current + 1 /\ current \in Nat
              /\ Allocated = {current}
           \/ panic' = "out of frames" /\ Allocated = {}
    BY <1>0, <2>1, BootAlloc
  <2>3. \/ /\ \E f \in Allocated : f % 4 = 0 /\ root_ppn' = f
           /\ phase' = "tail"
        \/ phase' = "align"
    BY <1>3, <2>1 DEF AlignStep
  <2>4. CASE phase' = "align"
    BY <2>1, <2>2, <2>4 DEF BootInv
  <2>5. CASE phase' = "tail" /\ \E f \in Allocated : f % 4 = 0 /\ root_ppn' = f
    <3>1. /\ current \in Nat /\ root_ppn' = current /\ current % 4 = 0
          /\ current' = current + 1 /\ Allocated = {current}
      BY <2>2, <2>5
    <3>2. /\ left' \in 1 .. 3 /\ root_ppn' \in Nat /\ root_ppn' % 4 = 0
          /\ current' = root_ppn' + (4 - left')
      BY <2>1, <3>1
    <3>3. root_ppn' .. current' - 1 \subseteq frames'
      BY <2>1, <3>1
    <3>4. QED
      BY <2>2, <2>5, <3>2, <3>3, Zenon DEF BootInv
  <2>6. QED
    BY <2>3, <2>4, <2>5
<1>4. CASE TailStep
  <2>1. phase = "tail" /\ frame_alloc /\ left' = left - 1 /\ root_ppn' = root_ppn
        /\ frames' = frames \cup Allocated
        /\ phase' = IF left' = 0 /\ panic' = "no" THEN "done" ELSE "tail"
    BY <1>4 DEF TailStep
  <2>2. /\ AllocInv' /\ recycled' = <<>> /\ panic = "no"
        /\ \/ /\ panic' = "no" /\ current' = current + 1 /\ current \in Nat
              /\ Allocated = {current}
           \/ panic' = "out of frames" /\ Allocated = {}
    BY <1>0, <2>1, BootAlloc
  <2>3. /\ left \in 1 .. 3 /\ root_ppn \in Nat /\ root_ppn % 4 = 0
        /\ current = root_ppn + (4 - left)
        /\ root_ppn .. current - 1 \subseteq frames
    BY <2>1, <2>2 DEF BootInv
  <2>4. CASE panic' = "out of frames"
    BY <2>1, <2>2, <2>4 DEF BootInv
  <2>5. CASE panic' = "no"
    <3>1. current' = current + 1 /\ frames' = frames \cup {current}
      BY <2>1, <2>2, <2>5
    <3>2. root_ppn' .. current' - 1 \subseteq frames'
      BY <2>1, <2>3, <3>1
    <3>3. root_ppn' \in Nat /\ root_ppn' % 4 = 0 /\ current' = root_ppn' + (4 - left')
      BY <2>1, <2>3, <3>1
    <3>4. CASE left' = 0
      <4>1. phase' = "done"
        BY <2>1, <2>5, <3>4, Zenon
      <4>2. current' - 1 = root_ppn' + 3
        BY <3>3, <3>4
      <4>3. QED
        BY <2>2, <3>2, <3>3, <4>1, <4>2 DEF BootInv
    <3>5. CASE left' # 0
      <4>1. phase' = "tail" /\ left' \in 1 .. 3
        BY <2>1, <2>3, <3>5
      <4>2. QED
        BY <2>2, <3>2, <3>3, <4>1, Zenon DEF BootInv
    <3>6. QED
      BY <3>4, <3>5
  <2>6. QED
    BY <2>2, <2>4, <2>5
<1>5. CASE UNCHANGED guestRootVars
  <2>1. UNCHANGED rootVars /\ UNCHANGED allocVars
    BY <1>5 DEF guestRootVars
  <2>2. AllocInv'
    BY <1>0, <2>1, AllocNextInv
  <2>3. QED
    BY <2>1, <2>2 DEF BootInv, rootVars, allocVars
<1>6. QED
  BY <1>1, <1>2, <1>3, <1>4, <1>5 DEF RootNext

\* For any layout, a root made while nothing has been recycled, as hentry makes
\* it, is four consecutive frames on a 16 KiB boundary, owned by the table.
THEOREM RootIsContiguousAtBoot == RootSpec => []RootContiguousAtBoot
<1> DEFINE Inv == ~returned => BootInv
<1>1. RootInit => Inv
  BY BootInitInv
<1>2. Inv /\ [RootNext]_guestRootVars => Inv'
  <2>1. [RootNext]_guestRootVars /\ returned => returned'
    BY DEF RootNext, Others, new_guest, AlignStep, TailStep, guestRootVars, rootVars
  <2>2. QED
    BY <2>1, BootStepInv
<1>3. Inv => RootContiguousAtBoot
  BY DEF BootInv, RootContiguousAtBoot, RootContiguous
<1>4. QED
  BY <1>1, <1>2, <1>3, PTL DEF RootSpec

(***************************************************************************)
(* The first stage: the walk.                                              *)
(***************************************************************************)

WalkTypeOK ==
  /\ mem \in [Tables -> [0 .. Fanout - 1 -> Pte]]
  /\ vsatp \in {0} \cup Tables

\* A number divides exactly when nothing remains: the ppn of an aligned superpage.
LEMMA DivExact ==
  ASSUME NEW n \in Nat, NEW d \in Nat \ {0}, n % d = 0
  PROVE  (n \div d) * d = n
  OBVIOUS

\* What a level covers is at least a page.
LEMMA LevelSize ==
  ASSUME NEW level \in 0 .. 2
  PROVE  LevelPages(level) \in Nat \ {0} /\ LevelSpan(level) \in Nat \ {0}
<1>1. LevelPages(level) \in Nat \ {0}
  BY WalkAssumption DEF LevelPages
<1>2. \A a, b \in Nat \ {0} : a * b \in Nat \ {0}
  OBVIOUS
<1> QED BY <1>1, <1>2, WalkAssumption DEF LevelSpan

\* The index is one of the table's.
LEMMA IndexInTable ==
  ASSUME NEW va \in Nat, NEW level \in 0 .. 2
  PROVE  pte_index(va, level) \in 0 .. Fanout - 1
<1>1. LevelSpan(level) \in Nat \ {0}
  BY LevelSize
<1>2. va \div LevelSpan(level) \in Nat
  BY <1>1
<1> QED BY <1>2, WalkAssumption DEF pte_index

\* The guest's entries stay entries.
THEOREM WalkTypeCorrect == WalkSpec => []WalkTypeOK
<1>1. WalkInit => WalkTypeOK
  BY DEF WalkInit, WalkTypeOK, EmptyPte, Pte
<1>2. WalkTypeOK /\ [WalkNext]_walkVars => WalkTypeOK'
  <2> SUFFICES ASSUME WalkTypeOK, [WalkNext]_walkVars
               PROVE  WalkTypeOK'
    OBVIOUS
  <2>0. \A m, t, i, pte : m \in [Tables -> [0 .. Fanout - 1 -> Pte]] /\ pte \in Pte
                            => Written(m, t, i, pte) \in [Tables -> [0 .. Fanout - 1 -> Pte]]
    BY DEF Written
  <2>1. CASE GuestPaging
    <3>1. PICK s1 \in Slots, s2 \in Slots, p1 \in Ptes, p2 \in Ptes :
            mem' = Written(Written(mem, s1[1], s1[2], p1), s2[1], s2[2], p2)
      BY <2>1 DEF GuestPaging
    <3>2. mem' \in [Tables -> [0 .. Fanout - 1 -> Pte]]
      BY <3>1, <2>0, WalkAssumption DEF WalkTypeOK
    <3> QED BY <3>2, <2>1, WalkAssumption DEF GuestPaging, WalkTypeOK
  <2>2. CASE GuestWrites
    <3>1. PICK s \in Slots, pte \in Ptes : mem' = Written(mem, s[1], s[2], pte)
      BY <2>2 DEF GuestWrites
    <3>2. mem' \in [Tables -> [0 .. Fanout - 1 -> Pte]]
      BY <3>1, <2>0, WalkAssumption DEF WalkTypeOK
    <3> QED BY <3>2, <2>2 DEF GuestWrites, WalkTypeOK
  <2>3. CASE GuestRuns \/ GuestAccesses \/ GuestWalkFaults
    BY <2>3 DEF GuestRuns, GuestAccesses, GuestWalkFaults, WalkTypeOK
  <2>4. CASE guest_page_fault_handler
    BY <2>4 DEF guest_page_fault_handler, Handle, Stopped, WalkTypeOK
  <2>5. CASE UNCHANGED walkVars
    BY <2>5 DEF walkVars, WalkTypeOK
  <2> QED BY <2>1, <2>2, <2>3, <2>4, <2>5 DEF WalkNext
<1> QED BY <1>1, <1>2, PTL DEF WalkSpec

\* A turn of the loop at an entry the hart executes from ends it, at the hart's
\* address: the shifts drop only the zeros of an aligned ppn.
LEMMA LeafAgrees ==
  ASSUME WalkTypeOK, NEW table \in Tables, NEW va \in Nat, NEW level \in 0 .. 2,
         Executable(Entry(table, va, level), level)
  PROVE  walk_level(table, va, level)
           = Some(Entry(table, va, level).ppn * PageSize + (va % LevelSpan(level)))
<1> DEFINE pte == Entry(table, va, level)
<1>1. pte \in Pte
  BY IndexInTable DEF WalkTypeOK, Entry
<1>2. (pte.ppn \div LevelPages(level)) * LevelPages(level) = pte.ppn
  BY <1>1, DivExact, LevelSize DEF Pte, Executable
<1>3. \A a, b, c \in Nat : a * (b * c) = (a * b) * c
  OBVIOUS
<1>4. (pte.ppn \div LevelPages(level)) * LevelSpan(level) = pte.ppn * PageSize
  <2>1. pte.ppn \div LevelPages(level) \in Nat
    BY <1>1, LevelSize DEF Pte
  <2> HIDE DEF pte
  <2> QED BY <2>1, <1>2, <1>3, LevelSize, WalkAssumption DEF LevelSpan
<1>5. leaf_pa(pte, va, level) = pte.ppn * PageSize + (va % LevelSpan(level))
  BY <1>4 DEF leaf_pa
<1>6. pte.v /\ ~(pte.w /\ ~pte.r) /\ (pte.r \/ (pte.x /\ ~pte.w))
  BY <1>1 DEF Executable, Pte
<1> QED BY <1>5, <1>6 DEF walk_level, Entry

\* A turn of the loop at a pointer goes on with the table it points to.
LEMMA PointerAgrees ==
  ASSUME WalkTypeOK, NEW t \in Tables, NEW va \in Nat, NEW level \in 0 .. 2,
         NEW u, PointsTo(t, va, level, u)
  PROVE  walk_level(t, va, level) = [is |-> "table", at |-> u]
  BY DEF PointsTo, walk_level

\* The walk agrees with the hart's at every address.
LEMMA WalksAgree ==
  ASSUME WalkTypeOK, NEW root \in Tables, NEW va \in Nat, NEW pa \in ExecutesFrom(root, va)
  PROVE  walk_page_table(root, va) = Some(pa)
<1>1. PICK table \in Tables, level \in 0 .. 2 :
        /\ Reaches(root, va, level, table)
        /\ Executable(Entry(table, va, level), level)
        /\ pa = Entry(table, va, level).ppn * PageSize + (va % LevelSpan(level))
  BY DEF ExecutesFrom
<1>2. walk_level(table, va, level) = Some(pa)
  BY <1>1, LeafAgrees
<1>3. CASE level = 0
  BY <1>1, <1>2, <1>3 DEF Reaches, walk_page_table, Some
<1>4. CASE level = 1
  <2>1. walk_level(root, va, 0) = [is |-> "table", at |-> table]
    BY <1>1, <1>4, PointerAgrees DEF Reaches
  <2> QED BY <1>2, <1>4, <2>1 DEF walk_page_table, Some
<1>5. CASE level = 2
  <2>1. PICK t \in Tables : PointsTo(root, va, 0, t) /\ PointsTo(t, va, 1, table)
    BY <1>1, <1>5 DEF Reaches
  <2>2. walk_level(root, va, 0) = [is |-> "table", at |-> t]
    BY <2>1, PointerAgrees
  <2>3. walk_level(t, va, 1) = [is |-> "table", at |-> table]
    BY <2>1, PointerAgrees
  <2> QED BY <1>2, <1>5, <2>2, <2>3 DEF walk_page_table, Some
<1> QED BY <1>3, <1>4, <1>5

\* translate_guest_va finds where the guest executes, whatever its tables hold
\* and however large tables and pages are.
THEOREM WalkAgreement == WalkSpec => []WalkAgrees
<1>1. VirtualAddresses \subseteq Nat
  BY WalkAssumption DEF VirtualAddresses
<1>2. WalkTypeOK => WalkAgrees
  BY <1>1, WalksAgree DEF WalkTypeOK, WalkAgrees, translate_guest_va
<1> QED BY <1>2, WalkTypeCorrect, PTL

-----------------------------------------------------------------------------
\* Products keep the order of their factors.
LEMMA ProductMonotone ==
  ASSUME NEW a \in Nat, NEW b \in Nat, NEW d \in Nat, a <= b
  PROVE  a * d <= b * d
<1>1. (b - a) * d \in Nat
  OBVIOUS
<1>2. (b - a) * d = b * d - a * d
  OBVIOUS
<1> QED BY <1>1, <1>2

\* Quotient and remainder are unique.
LEMMA DivModUnique ==
  ASSUME NEW q \in Nat, NEW r \in Nat, NEW d \in Nat \ {0}, r < d
  PROVE  (q * d + r) \div d = q /\ (q * d + r) % d = r
<1> DEFINE n == q * d + r
<1>0. n \in Nat
  OBVIOUS
<1>1. PICK p \in Nat : p = n \div d
  BY <1>0
<1>2. n = p * d + (n % d) /\ n % d \in 0 .. d - 1
  BY <1>0, <1>1
<1>3. ~(p < q)
  <2> SUFFICES ASSUME p < q PROVE FALSE
    OBVIOUS
  <2>1. (p + 1) * d <= q * d
    BY ProductMonotone
  <2>2. (p + 1) * d = p * d + d
    OBVIOUS
  <2> QED BY <2>1, <2>2, <1>2
<1>4. ~(q < p)
  <2> SUFFICES ASSUME q < p PROVE FALSE
    OBVIOUS
  <2>1. (q + 1) * d <= p * d
    BY ProductMonotone
  <2>2. (q + 1) * d = q * d + d
    OBVIOUS
  <2> QED BY <2>1, <2>2, <1>2
<1>5. p = q
  BY <1>3, <1>4
<1> QED BY <1>1, <1>2, <1>5

\* Two halfwords of one page have the same entry at every level, and are next to
\* each other in what it covers.
LEMMA SamePage ==
  ASSUME NEW va \in Nat, (va % PageSize) + 2 <= PageSize, NEW level \in 0 .. 2
  PROVE  /\ pte_index(va + 1, level) = pte_index(va, level)
         /\ (va + 1) % LevelSpan(level) = (va % LevelSpan(level)) + 1
<1> DEFINE k == LevelPages(level)
           S == LevelSpan(level)
           P == PageSize
           page == va \div P
           off == va % P
           q == page \div k
           b == page % k
<1>1. k \in Nat \ {0} /\ S \in Nat \ {0} /\ S = k * P /\ P \in Nat \ {0}
  BY LevelSize, WalkAssumption DEF LevelSpan
<1> HIDE DEF k, S, P
<1>2. page \in Nat /\ off \in 0 .. P - 1 /\ va = page * P + off
  BY <1>1
<1> HIDE DEF page, off
<1>3. q \in Nat /\ b \in 0 .. k - 1 /\ page = q * k + b
  BY <1>1, <1>2
<1> HIDE DEF q, b
<1>4. off + 1 < P
  BY <1>1, <1>2 DEF off, P
<1>5. (b + 1) * P <= k * P
  BY <1>1, <1>3, ProductMonotone
<1>6. (b + 1) * P = b * P + P
  BY <1>1, <1>3
<1> DEFINE r == b * P + off
<1>7. r \in Nat /\ r + 1 \in Nat /\ r + 1 < S /\ r < S
  BY <1>1, <1>2, <1>3, <1>4, <1>5, <1>6
<1>8. va = q * S + r
  <2>1. (q * k + b) * P = q * (k * P) + b * P
    BY <1>1, <1>3
  <2> QED BY <2>1, <1>1, <1>2, <1>3
<1> HIDE DEF r
<1>9. va \div S = q /\ va % S = r
  BY <1>1, <1>3, <1>7, <1>8, DivModUnique
<1>10. va + 1 = q * S + (r + 1)
  BY <1>1, <1>3, <1>7, <1>8
<1>11. (va + 1) \div S = q /\ (va + 1) % S = r + 1
  <2>1. (q * S + (r + 1)) \div S = q /\ (q * S + (r + 1)) % S = r + 1
    BY <1>1, <1>3, <1>7, DivModUnique
  <2> QED BY <2>1, <1>10
<1> QED BY <1>9, <1>11 DEF pte_index, S

-----------------------------------------------------------------------------
\* Where the hart fetches from is one address, and the software finds it.
LEMMA FetchFound ==
  ASSUME WalkTypeOK, NEW va \in Nat, NEW pa \in FetchedFrom(va)
  PROVE  fast_two_stage_translation(va) = Some(pa)
<1>1. CASE vsatp = 0
  BY <1>1 DEF FetchedFrom, fast_two_stage_translation
<1>2. CASE vsatp # 0
  <2>1. vsatp \in Tables /\ pa \in ExecutesFrom(vsatp, va)
    BY <1>2 DEF FetchedFrom, WalkTypeOK
  <2> QED BY <2>1, <1>2, WalksAgree DEF fast_two_stage_translation, translate_guest_va
<1> QED BY <1>1, <1>2

\* The next halfword of the page is fetched from the next address.
LEMMA FetchNext ==
  ASSUME WalkTypeOK, NEW va \in Nat, (va % PageSize) + 2 <= PageSize,
         NEW pa \in FetchedFrom(va), NEW next \in FetchedFrom(va + 1)
  PROVE  next = pa + 1
<1>1. CASE vsatp = 0
  BY <1>1 DEF FetchedFrom
<1>2. CASE vsatp # 0
  <2>1. vsatp \in Tables /\ pa \in ExecutesFrom(vsatp, va) /\ next \in ExecutesFrom(vsatp, va + 1)
    BY <1>2 DEF FetchedFrom, WalkTypeOK
  <2>2. PICK table \in Tables, level \in 0 .. 2 :
          /\ Reaches(vsatp, va, level, table)
          /\ Executable(Entry(table, va, level), level)
          /\ pa = Entry(table, va, level).ppn * PageSize + (va % LevelSpan(level))
    BY <2>1 DEF ExecutesFrom
  <2>3. Entry(table, va + 1, level) = Entry(table, va, level)
    BY SamePage DEF Entry
  <2>4. \A t, u : \A l \in 0 .. 2 : PointsTo(t, va, l, u) => PointsTo(t, va + 1, l, u)
    BY SamePage DEF PointsTo
  <2>5. Reaches(vsatp, va + 1, level, table)
    BY <2>2, <2>4 DEF Reaches
  <2> DEFINE pb == Entry(table, va + 1, level).ppn * PageSize + ((va + 1) % LevelSpan(level))
  <2>6. pb \in ExecutesFrom(vsatp, va + 1)
    <3>1. <<table, level>> \in {d \in Tables \X (0 .. 2) :
                                  /\ Reaches(vsatp, va + 1, d[2], d[1])
                                  /\ Executable(Entry(d[1], va + 1, d[2]), d[2])}
      BY <2>2, <2>3, <2>5
    <3> QED BY <3>1 DEF ExecutesFrom
  <2>7. pb = pa + 1
    <3>1. Entry(table, va, level) \in Pte
      BY IndexInTable DEF WalkTypeOK, Entry
    <3>2. Entry(table, va, level).ppn * PageSize \in Nat
      BY <3>1, WalkAssumption DEF Pte
    <3>3. va % LevelSpan(level) \in Nat
      BY LevelSize
    <3> QED BY <2>2, <2>3, <3>2, <3>3, SamePage
  <2>8. Some(pb) = Some(next)
    BY <2>1, <2>6, WalksAgree
  <2> HIDE DEF pb
  <2> QED BY <2>7, <2>8 DEF Some
<1> QED BY <1>1, <1>2

\* What the hart fetches depends on the tables and on vsatp alone.
LEMMA SameFetch ==
  ASSUME mem' = mem, vsatp' = vsatp
  PROVE  \A va : FetchedFrom(va)' = FetchedFrom(va)
<1>1. \A va : \A t, u, l : PointsTo(t, va, l, u)' = PointsTo(t, va, l, u)
  BY DEF PointsTo
<1>2. \A va : \A r, t, l : Reaches(r, va, l, t)' = Reaches(r, va, l, t)
  BY <1>1 DEF Reaches
<1>3. \A va : \A t, l : Entry(t, va, l)' = Entry(t, va, l)
  BY DEF Entry
<1>4. \A va : \A r : ExecutesFrom(r, va)' = ExecutesFrom(r, va)
  BY <1>2, <1>3 DEF ExecutesFrom
<1> QED BY <1>4 DEF FetchedFrom

\* The handler runs for an access the guest made, by an instruction that the hart
\* fetched, or for the hart's own walk; its tables have not changed since.
FetchInv ==
  /\ WalkTypeOK
  /\ sepc \in Nat
  /\ hart = "handler" =>
       \/ fault.plic /\ fault.htinst = "pseudo"
       \/ /\ fault \in Fault
          /\ (sepc % PageSize) + fault.len <= PageSize
          /\ \A k \in 0 .. fault.len - 1 : FetchedFrom(sepc + k) # {}

LEMMA FetchInvariant ==
  ASSUME Straddle = FALSE
  PROVE  WalkSpec => []FetchInv
<1>1. WalkInit => FetchInv
  BY DEF WalkInit, FetchInv, WalkTypeOK, EmptyPte, Pte
<1>2. FetchInv /\ WalkTypeOK' /\ [WalkNext]_walkVars => FetchInv'
  <2> SUFFICES ASSUME FetchInv, WalkTypeOK', [WalkNext]_walkVars
               PROVE  FetchInv'
    OBVIOUS
  <2>1. CASE GuestPaging \/ GuestWrites \/ GuestRuns
    BY <2>1 DEF GuestPaging, GuestWrites, GuestRuns, Running, FetchInv
  <2>2. CASE GuestAccesses
    <3>1. PICK va \in VirtualAddresses, f \in Accesses :
            /\ FetchedFrom(va) # {}
            /\ (va % PageSize) + f.len <= PageSize
            /\ \A k \in 1 .. f.len - 1 : FetchedFrom(va + k) # {}
            /\ fault' = f /\ sepc' = va
      BY <2>2 DEF GuestAccesses
    <3>2. va \in Nat /\ f \in Fault
      BY WalkAssumption DEF VirtualAddresses
    <3>3. \A k \in 0 .. f.len - 1 : FetchedFrom(va + k) # {}
      BY <3>1, <3>2 DEF Fault
    <3>4. \A k \in 0 .. f.len - 1 : FetchedFrom(va + k)' # {}
      <4>1. mem' = mem /\ vsatp' = vsatp
        BY <2>2 DEF GuestAccesses
      <4> QED BY <3>3, <4>1, SameFetch
    <3> QED BY <3>1, <3>2, <3>4 DEF FetchInv
  <2>3. CASE GuestWalkFaults
    BY <2>3 DEF GuestWalkFaults, FetchInv
  <2>4. CASE guest_page_fault_handler
    <3>1. hart' # "handler" /\ (sepc' = sepc \/ fault.htinst \in {"zero", "insn"})
      BY <2>4, Zenon DEF guest_page_fault_handler, Handle, Stopped
    <3>2. CASE sepc' = sepc
      BY <3>1, <3>2 DEF FetchInv
    <3>3. CASE fault.htinst \in {"zero", "insn"}
      <4>1. hart = "handler"
        BY <2>4 DEF guest_page_fault_handler
      <4>2. fault.len \in {1, 2}
        BY <4>1, <3>3 DEF FetchInv, Fault
      <4>3. \A op : Own(op).len = fault.len
        BY DEF Own
      <4>4. \A pa : \A inst \in DecodesTo(pa) : inst.len \in {1, 2}
        BY <4>2, <4>3 DEF DecodesTo, Decoded
      <4>5. \A inst \in HtinstDecodesTo : inst.len \in {1, 2}
        BY <4>2, <4>3 DEF HtinstDecodesTo
      <4>6. \/ sepc' = sepc
            \/ \E pa : \E inst \in DecodesTo(pa) : Handle(inst)
            \/ \E inst \in HtinstDecodesTo : Handle(inst)
        BY <2>4, Zenon DEF guest_page_fault_handler, Stopped
      <4>7. \A inst : Handle(inst) => sepc' = sepc \/ sepc' = sepc + inst.len
        BY DEF Handle, Stopped
      <4>8. sepc' = sepc \/ \E n \in {1, 2} : sepc' = sepc + n
        BY <4>4, <4>5, <4>6, <4>7
      <4> QED BY <3>1, <4>8 DEF FetchInv
    <3> QED BY <3>1, <3>2, <3>3
  <2>5. CASE UNCHANGED walkVars
    BY <2>5, SameFetch DEF walkVars, FetchInv
  <2> QED BY <2>1, <2>2, <2>3, <2>4, <2>5 DEF WalkNext
<1> QED BY <1>1, <1>2, WalkTypeCorrect, PTL DEF WalkSpec

\* What the handler decodes for an access that htinst does not describe.
LEMMA ReadsTheInstruction ==
  ASSUME FetchInv, hart = "handler", fault.htinst = "zero"
  PROVE  \E pa \in FetchedFrom(sepc) :
           /\ fast_two_stage_translation(sepc) = Some(pa)
           /\ DecodesTo(pa) \subseteq {Own(fault.op)}
                \cup (IF fault.len = 1 THEN {Own("undecodable")} ELSE {})
<1>1. /\ fault \in Fault /\ sepc \in Nat /\ WalkTypeOK
      /\ (sepc % PageSize) + fault.len <= PageSize
      /\ \A k \in 0 .. fault.len - 1 : FetchedFrom(sepc + k) # {}
  BY DEF FetchInv
<1>2. fault.len \in {1, 2}
  BY <1>1 DEF Fault
<1> DEFINE pa == CHOOSE a \in FetchedFrom(sepc + 0) : TRUE
           next == CHOOSE a \in FetchedFrom(sepc + 1) : TRUE
<1>3. sepc + 0 = sepc
  BY <1>1
<1>4. pa \in FetchedFrom(sepc)
  BY <1>1, <1>2, <1>3
<1>5. Fetched(sepc, fault.len)[0] = pa
  BY <1>2 DEF Fetched
<1>6. fault.len = 2 => Fetched(sepc, fault.len)[1] = next /\ next = pa + 1
  <2> SUFFICES ASSUME fault.len = 2
               PROVE  Fetched(sepc, fault.len)[1] = next /\ next = pa + 1
    OBVIOUS
  <2>1. next \in FetchedFrom(sepc + 1)
    BY <1>1
  <2>2. Fetched(sepc, fault.len)[1] = next
    BY DEF Fetched
  <2> HIDE DEF pa, next
  <2> QED BY <1>1, <1>4, <2>1, <2>2, FetchNext
<1>7. fast_two_stage_translation(sepc) = Some(pa)
  BY <1>1, <1>4, FetchFound
<1>8. DecodesTo(pa) \subseteq {Own(fault.op)}
        \cup (IF fault.len = 1 THEN {Own("undecodable")} ELSE {})
  <2> HIDE DEF pa, next
  <2> QED BY <1>2, <1>5, <1>6 DEF DecodesTo
<1> HIDE DEF pa
<1> QED BY <1>4, <1>7, <1>8

\* An access is carried out as the guest made it, when no instruction lies across
\* the end of a page: for every content of the guest's tables.
THEOREM AccessEmulated ==
  ASSUME Straddle = FALSE
  PROVE  WalkSpec => EmulatesTheAccess
<1>1. FetchInv /\ [WalkNext]_walkVars =>
        [hart = "handler" /\ hart' = "guest" =>
           did' = Own(fault.op) /\ sepc' = sepc + fault.len]_walkVars
  <2> SUFFICES ASSUME FetchInv, WalkNext, hart = "handler", hart' = "guest"
               PROVE  did' = Own(fault.op) /\ sepc' = sepc + fault.len
    BY DEF walkVars
  <2>1. guest_page_fault_handler
    BY DEF WalkNext, GuestRuns, GuestWrites, GuestPaging, GuestAccesses, GuestWalkFaults, Running
  <2>5. \A inst \in {Own(fault.op), Own("other"), Own("undecodable")} :
          Handle(inst) => did' = Own(fault.op) /\ sepc' = sepc + fault.len
    <3> SUFFICES ASSUME NEW inst \in {Own(fault.op), Own("other"), Own("undecodable")},
                        Handle(inst)
                 PROVE  did' = Own(fault.op) /\ sepc' = sepc + fault.len
      OBVIOUS
    <3>1. inst.op \in {"lw", "sw"} /\ did' = inst /\ sepc' = sepc + inst.len
      BY DEF Handle, Stopped
    <3>2. Own("other").op = "other" /\ Own("undecodable").op = "undecodable"
      BY DEF Own
    <3>3. \A op : Own(op).len = fault.len
      BY DEF Own
    <3> QED BY <3>1, <3>2, <3>3
  <2>2. CASE fault.htinst = "zero"
    <3>1. PICK pa \in FetchedFrom(sepc) :
            /\ fast_two_stage_translation(sepc) = Some(pa)
            /\ DecodesTo(pa) \subseteq {Own(fault.op)}
                 \cup (IF fault.len = 1 THEN {Own("undecodable")} ELSE {})
      BY <2>2, ReadsTheInstruction
    <3>2. PICK inst \in DecodesTo(pa) : Handle(inst)
      BY <2>1, <2>2, <3>1 DEF guest_page_fault_handler, Stopped, Some
    <3>3. inst \in {Own(fault.op), Own("undecodable")}
      BY <3>1, <3>2
    <3> QED BY <3>2, <3>3, <2>5
  <2>3. CASE fault.htinst = "insn"
    <3>1. PICK inst \in HtinstDecodesTo : Handle(inst)
      BY <2>1, <2>3 DEF guest_page_fault_handler, Stopped
    <3>2. inst \in {Own(fault.op), Own("other"), Own("undecodable")}
      BY <3>1 DEF HtinstDecodesTo
    <3> QED BY <3>1, <3>2, <2>5
  <2>4. CASE fault.htinst \notin {"zero", "insn"}
    BY <2>1, <2>4 DEF guest_page_fault_handler, Stopped
  <2> QED BY <2>2, <2>3, <2>4
<1> QED BY <1>1, FetchInvariant, PTL DEF WalkSpec, EmulatesTheAccess

\* No access of the kind stops the machine: a load or store of a word to the PLIC by an
\* instruction of four bytes is carried out, whatever the guest's tables hold.
THEOREM SupportedGoesOn ==
  ASSUME Straddle = FALSE
  PROVE  WalkSpec => []WordAccessServed
<1>1. WalkInit => WordAccessServed
  BY DEF WalkInit, WordAccessServed
<1>2. FetchInv /\ WordAccessServed /\ [WalkNext]_walkVars => WordAccessServed'
  <2> SUFFICES ASSUME FetchInv, WordAccessServed, [WalkNext]_walkVars, hart' = "stopped",
                      fault'.plic, fault'.htinst # "pseudo", fault'.op \in {"lw", "sw"}, fault'.len = 2
               PROVE  AtEndOfRam(sepc)'
    BY DEF WordAccessServed
  <2>1. CASE UNCHANGED walkVars
    <3>1. AtEndOfRam(sepc)
      BY <2>1 DEF WordAccessServed, walkVars
    <3> QED BY <2>1, <3>1, SameFetch DEF walkVars, AtEndOfRam
  <2>2. CASE guest_page_fault_handler
    <3>1. Stopped /\ hart = "handler"
      BY <2>2 DEF guest_page_fault_handler, Handle, Stopped
    <3>2. UNCHANGED <<mem, vsatp, fault, sepc>>
      BY <3>1 DEF Stopped
    <3>3. fault \in Fault /\ fault.plic /\ fault.len = 2 /\ fault.op \in {"lw", "sw"}
      BY <3>1, <3>2 DEF FetchInv, Fault
    <3>4. Own(fault.op).op \in {"lw", "sw"}
      BY <3>3 DEF Own
    <3>5. ~Handle(Own(fault.op))
      BY <3>4 DEF Handle, Stopped
    <3>6. fault.htinst = "zero"
      <4>1. fault.htinst = "insn" => Handle(Own(fault.op))
        BY <2>2, <3>3 DEF guest_page_fault_handler, HtinstDecodesTo
      <4> QED BY <4>1, <3>3, <3>5 DEF Fault
    <3>7. PICK pa \in FetchedFrom(sepc) :
            /\ fast_two_stage_translation(sepc) = Some(pa)
            /\ DecodesTo(pa) \subseteq {Own(fault.op)}
                 \cup (IF fault.len = 1 THEN {Own("undecodable")} ELSE {})
      BY <3>1, <3>6, ReadsTheInstruction
    <3>8. DecodesTo(pa) \subseteq {Own(fault.op)}
      BY <3>3, <3>7
    <3>9. ~InRam(pa + 3)
      BY <2>2, <3>3, <3>5, <3>6, <3>7, <3>8 DEF guest_page_fault_handler, Some
    <3>10. AtEndOfRam(sepc)
      BY <3>7, <3>9 DEF AtEndOfRam
    <3> QED BY <3>2, <3>10, SameFetch DEF AtEndOfRam
  <2>3. CASE GuestRuns \/ GuestWrites \/ GuestPaging \/ GuestAccesses \/ GuestWalkFaults
    BY <2>3 DEF GuestRuns, GuestWrites, GuestPaging, GuestAccesses, GuestWalkFaults, Running
  <2> QED BY <2>1, <2>2, <2>3 DEF WalkNext
<1> QED BY <1>1, <1>2, FetchInvariant, PTL DEF WalkSpec

==============================================================================
