---------------------------- MODULE MemorySetProofs ----------------------------
(***************************************************************************)
(* The memory set, for every fanout, every set of areas and every amount   *)
(* of memory.  The page table is a tree: each table page is reached by one *)
(* path from the root, and shares no frame with a mapped page.  So a new   *)
(* table page changes no translation, a leaf changes one, and what is done *)
(* to a data frame changes none.  And as no frame has two owners, a page   *)
(* keeps what FrameTracker::new and copy_data put in it.                   *)
(***************************************************************************)
EXTENDS MemorySet, FrameAllocatorProofs, Integers

Perms == {"", "dirty", "data"} \cup {a.perm : a \in Areas}
Word == [v : BOOLEAN, ppn : Nat, perm : Perms]
Memory == [AllFrames -> [Idx -> Word]]

\* Slot i of table page t, and the path from root r through slots i and j.
Valid(m, t, i) == m[t][i].v = TRUE
Child(m, t, i) == m[t][i].ppn
Lowest(m, r, i, j) == Child(m, Child(m, r, i), j)
Exists(m, r, i, j) == Valid(m, r, i) /\ Valid(m, Child(m, r, i), j)
LeafAt(m, r, i, j, k) == IF Exists(m, r, i, j) THEN m[Lowest(m, r, i, j)][k] ELSE Empty

\* The table pages F form a tree: no table page is reached in two ways.
Tree(m, r, F) ==
  /\ r \in F
  /\ \A i \in Idx : Valid(m, r, i) => Child(m, r, i) \in F /\ Child(m, r, i) # r
  /\ \A i, j \in Idx :
       Valid(m, r, i) /\ Valid(m, r, j) /\ Child(m, r, i) = Child(m, r, j) => i = j
  /\ \A i, j \in Idx : Exists(m, r, i, j) =>
       Lowest(m, r, i, j) \in F /\ Lowest(m, r, i, j) # r
  /\ \A i, j, h \in Idx :
       Exists(m, r, i, j) /\ Valid(m, r, h) => Lowest(m, r, i, j) # Child(m, r, h)
  /\ \A i, j, g, h \in Idx :
       Exists(m, r, i, j) /\ Exists(m, r, g, h) /\ Lowest(m, r, i, j) = Lowest(m, r, g, h)
         => i = g /\ j = h

\* Memory outside the table pages does not matter.
LEMMA OutsideTree ==
  ASSUME NEW m, NEW n, NEW r, NEW F, Tree(m, r, F), \A f \in F : n[f] = m[f]
  PROVE  /\ Tree(n, r, F)
         /\ \A i, j \in Idx : Exists(n, r, i, j) <=> Exists(m, r, i, j)
         /\ \A i, j, k \in Idx : LeafAt(n, r, i, j, k) = LeafAt(m, r, i, j, k)
<1>1. r \in F
  BY Zenon DEF Tree
<1>2. ASSUME NEW t \in F, NEW i \in Idx
      PROVE  (Valid(n, t, i) <=> Valid(m, t, i)) /\ Child(n, t, i) = Child(m, t, i)
  <2>1. n[t][i] = m[t][i]
    BY Zenon
  <2> QED BY <2>1, Zenon DEF Valid, Child
<1>3. ASSUME NEW i \in Idx, Valid(m, r, i)
      PROVE  Child(m, r, i) \in F
  BY <1>3, Zenon DEF Tree
<1>4. ASSUME NEW i \in Idx, NEW j \in Idx
      PROVE  /\ Exists(n, r, i, j) <=> Exists(m, r, i, j)
             /\ Exists(m, r, i, j) => Lowest(n, r, i, j) = Lowest(m, r, i, j)
  BY <1>1, <1>2, <1>3, Zenon DEF Exists, Lowest
<1>5. Tree(n, r, F)
  <2>1. \A i \in Idx : (Valid(n, r, i) <=> Valid(m, r, i)) /\ Child(n, r, i) = Child(m, r, i)
    BY <1>1, <1>2, Zenon
  <2>2. ASSUME NEW i \in Idx, NEW j \in Idx, Exists(n, r, i, j)
        PROVE  /\ Lowest(n, r, i, j) \in F /\ Lowest(n, r, i, j) # r
               /\ \A h \in Idx : Valid(n, r, h) => Lowest(n, r, i, j) # Child(n, r, h)
    <3>1. Exists(m, r, i, j) /\ Lowest(n, r, i, j) = Lowest(m, r, i, j)
      BY <1>4, <2>2, Zenon
    <3>2. /\ Lowest(m, r, i, j) \in F /\ Lowest(m, r, i, j) # r
          /\ \A h \in Idx : Valid(m, r, h) => Lowest(m, r, i, j) # Child(m, r, h)
      BY <3>1, Zenon DEF Tree
    <3> QED BY <2>1, <3>1, <3>2, Zenon
  <2>3. ASSUME NEW i \in Idx, NEW j \in Idx, NEW g \in Idx, NEW h \in Idx,
               Exists(n, r, i, j), Exists(n, r, g, h),
               Lowest(n, r, i, j) = Lowest(n, r, g, h)
        PROVE  i = g /\ j = h
    <3>1. /\ Exists(m, r, i, j) /\ Exists(m, r, g, h)
          /\ Lowest(m, r, i, j) = Lowest(m, r, g, h)
      BY <1>4, <2>3, Zenon
    <3> QED BY <3>1, Zenon DEF Tree
  <2>4. \A i \in Idx : Valid(n, r, i) => Child(n, r, i) \in F /\ Child(n, r, i) # r
    BY <2>1, Zenon DEF Tree
  <2>5. \A i, j \in Idx :
          Valid(n, r, i) /\ Valid(n, r, j) /\ Child(n, r, i) = Child(n, r, j) => i = j
    BY <2>1, Zenon DEF Tree
  <2> QED BY <1>1, <2>2, <2>3, <2>4, <2>5, Zenon DEF Tree
<1>6. ASSUME NEW i \in Idx, NEW j \in Idx, NEW k \in Idx
      PROVE  LeafAt(n, r, i, j, k) = LeafAt(m, r, i, j, k)
  <2>1. CASE Exists(m, r, i, j)
    <3>1. Lowest(m, r, i, j) \in F
      BY <2>1, Zenon DEF Tree
    <3> QED BY <1>4, <2>1, <3>1, Zenon DEF LeafAt
  <2>2. CASE ~Exists(m, r, i, j)
    BY <1>4, <2>2, Zenon DEF LeafAt
  <2> QED BY <2>1, <2>2, Zenon
<1> QED BY <1>4, <1>5, <1>6, Zenon

\* An empty page has no valid slot.
LEMMA FreshPage ==
  ASSUME NEW n, NEW f, n[f] = ZeroPage, NEW i \in Idx
  PROVE  ~Valid(n, f, i) /\ n[f][i] = Empty
<1>1. n[f][i] = Empty
  BY Zenon DEF ZeroPage
<1>2. Empty.v = FALSE
  BY Zenon DEF Empty
<1> QED BY <1>1, <1>2, Zenon DEF Valid

\* A slot with a pointer to table page f.
LEMMA Pointer ==
  ASSUME NEW n, NEW t, NEW i, NEW f, n[t][i] = Table(f)
  PROVE  Valid(n, t, i) /\ Child(n, t, i) = f
<1>1. Table(f).v = TRUE /\ Table(f).ppn = f
  BY Zenon DEF Table
<1> QED BY <1>1, Zenon DEF Valid, Child

\* Slot j of the table page t is pointed to a cleared page f that was none of F,
\* and nothing else of F is written.
Linked(m, n, F, t, j, f) ==
  /\ f \notin F /\ n[f] = ZeroPage /\ n[t][j] = Table(f)
  /\ \A h \in Idx : h # j => n[t][h] = m[t][h]
  /\ \A u \in F : u # t => n[u] = m[u]

\* The tree has grown by f, and every translation is what it was.
Grown(m, n, r, F, f) ==
  /\ Tree(n, r, F \cup {f})
  /\ \A g, h, k \in Idx : LeafAt(n, r, g, h, k) = LeafAt(m, r, g, h, k)

\* A new table page in a free slot of the root.
LEMMA NewMiddle ==
  ASSUME NEW m, NEW n, NEW r, NEW F, Tree(m, r, F),
         NEW i \in Idx, ~Valid(m, r, i), NEW f, Linked(m, n, F, r, i, f)
  PROVE  Grown(m, n, r, F, f)
<1>0. /\ f \notin F /\ n[f] = ZeroPage /\ n[r][i] = Table(f)
      /\ \A h \in Idx : h # i => n[r][h] = m[r][h]
      /\ \A t \in F : t # r => n[t] = m[t]
  BY Zenon DEF Linked
<1> USE <1>0
<1>1. r \in F /\ r # f
  BY Zenon DEF Tree
<1>2. /\ Valid(n, r, i) /\ Child(n, r, i) = f
      /\ \A h \in Idx : ~Valid(n, f, h)
  BY Pointer, FreshPage
<1>3. ASSUME NEW h \in Idx, h # i
      PROVE  (Valid(n, r, h) <=> Valid(m, r, h)) /\ Child(n, r, h) = Child(m, r, h)
  <2>1. n[r][h] = m[r][h]
    BY <1>3, Zenon
  <2> QED BY <2>1, Zenon DEF Valid, Child
<1>4. ASSUME NEW h \in Idx, Valid(m, r, h)
      PROVE  /\ h # i /\ Child(m, r, h) \in F /\ Child(m, r, h) # r
             /\ n[Child(m, r, h)] = m[Child(m, r, h)]
  <2>1. Child(m, r, h) \in F /\ Child(m, r, h) # r
    BY <1>4, Zenon DEF Tree
  <2> QED BY <1>4, <2>1, Zenon
<1>5. ASSUME NEW g \in Idx, NEW h \in Idx
      PROVE  /\ Exists(n, r, g, h) <=> Exists(m, r, g, h)
             /\ Exists(m, r, g, h) => Lowest(n, r, g, h) = Lowest(m, r, g, h)
  <2>1. CASE g = i
    BY <1>2, <2>1, Zenon DEF Exists
  <2>2. CASE g # i
    <3>1. CASE Valid(m, r, g)
      <4>1. n[Child(m, r, g)] = m[Child(m, r, g)]
        BY <1>4, <3>1, Zenon
      <4>2. /\ Valid(n, Child(m, r, g), h) <=> Valid(m, Child(m, r, g), h)
            /\ Child(n, Child(m, r, g), h) = Child(m, Child(m, r, g), h)
        BY <4>1, Zenon DEF Valid, Child
      <4> QED BY <1>3, <2>2, <4>2, Zenon DEF Exists, Lowest
    <3>2. CASE ~Valid(m, r, g)
      BY <1>3, <2>2, <3>2, Zenon DEF Exists
    <3> QED BY <3>1, <3>2, Zenon
  <2> QED BY <2>1, <2>2, Zenon
<1>6. ASSUME NEW g \in Idx, NEW h \in Idx, Exists(m, r, g, h)
      PROVE  /\ Lowest(m, r, g, h) \in F /\ Lowest(m, r, g, h) # r
             /\ \A k \in Idx : Valid(m, r, k) => Lowest(m, r, g, h) # Child(m, r, k)
  BY <1>6, Zenon DEF Tree
<1>7. Tree(n, r, F \cup {f})
  <2>1. ASSUME NEW g \in Idx, Valid(n, r, g)
        PROVE  Child(n, r, g) \in F \cup {f} /\ Child(n, r, g) # r
    BY <1>1, <1>2, <1>3, <1>4, <2>1, Zenon
  <2>2. ASSUME NEW g \in Idx, NEW h \in Idx, Valid(n, r, g), Valid(n, r, h),
               Child(n, r, g) = Child(n, r, h)
        PROVE  g = h
    <3>1. CASE g = i \/ h = i
      BY <1>2, <1>3, <1>4, <2>2, <3>1, Zenon
    <3>2. CASE g # i /\ h # i
      <4>1. Valid(m, r, g) /\ Valid(m, r, h) /\ Child(m, r, g) = Child(m, r, h)
        BY <1>3, <2>2, <3>2, Zenon
      <4> QED BY <4>1, Zenon DEF Tree
    <3> QED BY <3>1, <3>2, Zenon
  <2>3. ASSUME NEW g \in Idx, NEW h \in Idx, Exists(n, r, g, h)
        PROVE  /\ Lowest(n, r, g, h) \in F \cup {f} /\ Lowest(n, r, g, h) # r
               /\ \A k \in Idx : Valid(n, r, k) => Lowest(n, r, g, h) # Child(n, r, k)
    <3>1. Exists(m, r, g, h) /\ Lowest(n, r, g, h) = Lowest(m, r, g, h)
      BY <1>5, <2>3, Zenon
    <3>2. ASSUME NEW k \in Idx, Valid(n, r, k)
          PROVE  Lowest(m, r, g, h) # Child(n, r, k)
      <4>1. CASE k = i
        BY <1>2, <1>6, <3>1, <4>1, Zenon
      <4>2. CASE k # i
        BY <1>3, <1>6, <3>1, <3>2, <4>2, Zenon
      <4> QED BY <4>1, <4>2, Zenon
    <3> QED BY <1>6, <3>1, <3>2, Zenon
  <2>4. ASSUME NEW g \in Idx, NEW h \in Idx, NEW a \in Idx, NEW b \in Idx,
               Exists(n, r, g, h), Exists(n, r, a, b),
               Lowest(n, r, g, h) = Lowest(n, r, a, b)
        PROVE  g = a /\ h = b
    <3>1. /\ Exists(m, r, g, h) /\ Exists(m, r, a, b)
          /\ Lowest(m, r, g, h) = Lowest(m, r, a, b)
      BY <1>5, <2>4, Zenon
    <3> QED BY <3>1, Zenon DEF Tree
  <2> QED BY <1>1, <2>1, <2>2, <2>3, <2>4, Zenon DEF Tree
<1>8. ASSUME NEW g \in Idx, NEW h \in Idx, NEW k \in Idx
      PROVE  LeafAt(n, r, g, h, k) = LeafAt(m, r, g, h, k)
  <2>1. CASE Exists(m, r, g, h)
    <3>1. n[Lowest(m, r, g, h)] = m[Lowest(m, r, g, h)]
      BY <1>6, <2>1, Zenon
    <3> QED BY <1>5, <2>1, <3>1, Zenon DEF LeafAt
  <2>2. CASE ~Exists(m, r, g, h)
    BY <1>5, <2>2, Zenon DEF LeafAt
  <2> QED BY <2>1, <2>2, Zenon
<1> QED BY <1>7, <1>8, Zenon DEF Grown

\* A new table page in a free slot of a table page of the second level.
LEMMA NewLowest ==
  ASSUME NEW m, NEW n, NEW r, NEW F, Tree(m, r, F),
         NEW i \in Idx, Valid(m, r, i), NEW t, t = Child(m, r, i),
         NEW j \in Idx, ~Valid(m, t, j), NEW f, Linked(m, n, F, t, j, f)
  PROVE  Grown(m, n, r, F, f)
<1>0. /\ f \notin F /\ n[f] = ZeroPage /\ n[t][j] = Table(f)
      /\ \A h \in Idx : h # j => n[t][h] = m[t][h]
      /\ \A u \in F : u # t => n[u] = m[u]
  BY Zenon DEF Linked
<1> USE <1>0
<1>1. t \in F /\ t # f /\ t # r /\ r \in F /\ r # f /\ n[r] = m[r]
  <2>1. t \in F /\ t # r /\ r \in F
    BY Zenon DEF Tree
  <2> QED BY <2>1, Zenon
<1>2. ASSUME NEW h \in Idx
      PROVE  (Valid(n, r, h) <=> Valid(m, r, h)) /\ Child(n, r, h) = Child(m, r, h)
  BY <1>1, Zenon DEF Valid, Child
<1>3. Exists(n, r, i, j) /\ Lowest(n, r, i, j) = f /\ ~Exists(m, r, i, j)
  <2>1. Valid(n, t, j) /\ Child(n, t, j) = f
    BY Pointer
  <2> QED BY <1>2, <2>1, Zenon DEF Exists, Lowest
<1>4. ASSUME NEW g \in Idx, NEW h \in Idx, ~(g = i /\ h = j)
      PROVE  /\ Exists(n, r, g, h) <=> Exists(m, r, g, h)
             /\ Exists(m, r, g, h) => Lowest(n, r, g, h) = Lowest(m, r, g, h)
  <2>1. CASE ~Valid(m, r, g)
    BY <1>2, <2>1, Zenon DEF Exists
  <2>2. CASE Valid(m, r, g)
    <3>1. Child(m, r, g) \in F /\ (Child(m, r, g) = t => g = i)
      BY <2>2, Zenon DEF Tree
    <3>2. n[Child(m, r, g)][h] = m[Child(m, r, g)][h]
      <4>1. CASE Child(m, r, g) = t
        BY <1>4, <3>1, <4>1, Zenon
      <4>2. CASE Child(m, r, g) # t
        BY <3>1, <4>2, Zenon
      <4> QED BY <4>1, <4>2, Zenon
    <3>3. /\ Valid(n, Child(m, r, g), h) <=> Valid(m, Child(m, r, g), h)
          /\ Child(n, Child(m, r, g), h) = Child(m, Child(m, r, g), h)
      BY <3>2, Zenon DEF Valid, Child
    <3> QED BY <1>2, <3>3, Zenon DEF Exists, Lowest
  <2> QED BY <2>1, <2>2, Zenon
<1>5. ASSUME NEW g \in Idx, NEW h \in Idx, Exists(m, r, g, h)
      PROVE  /\ Lowest(m, r, g, h) \in F /\ Lowest(m, r, g, h) # r
             /\ \A k \in Idx : Valid(m, r, k) => Lowest(m, r, g, h) # Child(m, r, k)
  BY <1>5, Zenon DEF Tree
<1>6. ASSUME NEW g \in Idx, NEW h \in Idx, Exists(n, r, g, h), ~(g = i /\ h = j)
      PROVE  /\ Exists(m, r, g, h) /\ Lowest(n, r, g, h) = Lowest(m, r, g, h)
             /\ Lowest(m, r, g, h) # f
  BY <1>4, <1>5, <1>6, ZenonT(30)
<1>7. Tree(n, r, F \cup {f})
  <2>1. ASSUME NEW g \in Idx, Valid(n, r, g)
        PROVE  Child(n, r, g) \in F \cup {f} /\ Child(n, r, g) # r
    BY <1>2, <2>1, Zenon DEF Tree
  <2>2. ASSUME NEW g \in Idx, NEW h \in Idx, Valid(n, r, g), Valid(n, r, h),
               Child(n, r, g) = Child(n, r, h)
        PROVE  g = h
    <3>1. Valid(m, r, g) /\ Valid(m, r, h) /\ Child(m, r, g) = Child(m, r, h)
      BY <1>2, <2>2, Zenon
    <3> QED BY <3>1, Zenon DEF Tree
  <2>3. ASSUME NEW g \in Idx, NEW h \in Idx, Exists(n, r, g, h)
        PROVE  /\ Lowest(n, r, g, h) \in F \cup {f} /\ Lowest(n, r, g, h) # r
               /\ \A k \in Idx : Valid(n, r, k) => Lowest(n, r, g, h) # Child(n, r, k)
    <3>1. CASE g = i /\ h = j
      <4>1. ASSUME NEW k \in Idx, Valid(n, r, k) PROVE f # Child(n, r, k)
        <5>1. Child(m, r, k) \in F
          BY <1>2, <4>1, Zenon DEF Tree
        <5> QED BY <1>2, <5>1, Zenon
      <4> QED BY <1>1, <1>3, <3>1, <4>1, Zenon
    <3>2. CASE ~(g = i /\ h = j)
      <4>1. Exists(m, r, g, h) /\ Lowest(n, r, g, h) = Lowest(m, r, g, h)
        BY <1>6, <2>3, <3>2, Zenon
      <4>2. /\ Lowest(m, r, g, h) \in F /\ Lowest(m, r, g, h) # r
            /\ \A k \in Idx : Valid(m, r, k) => Lowest(m, r, g, h) # Child(m, r, k)
        BY <1>5, <4>1, Zenon
      <4> QED BY <1>2, <4>1, <4>2, Zenon
    <3> QED BY <3>1, <3>2, Zenon
  <2>4. ASSUME NEW g \in Idx, NEW h \in Idx, NEW a \in Idx, NEW b \in Idx,
               Exists(n, r, g, h), Exists(n, r, a, b),
               Lowest(n, r, g, h) = Lowest(n, r, a, b)
        PROVE  g = a /\ h = b
    <3>1. CASE g = i /\ h = j
      BY <1>3, <1>6, <2>4, <3>1, SMTT(30)
    <3>2. CASE a = i /\ b = j
      <4>1. Lowest(n, r, g, h) = f
        BY <1>3, <2>4, <3>2, Zenon
      <4> QED BY <1>6, <2>4, <3>2, <4>1, Zenon
    <3>3. CASE ~(g = i /\ h = j) /\ ~(a = i /\ b = j)
      <4>1. /\ Exists(m, r, g, h) /\ Exists(m, r, a, b)
            /\ Lowest(m, r, g, h) = Lowest(m, r, a, b)
        BY <1>6, <2>4, <3>3, Zenon
      <4> QED BY <4>1, Zenon DEF Tree
    <3> QED BY <3>1, <3>2, <3>3, Zenon
  <2> QED BY <1>1, <2>1, <2>2, <2>3, <2>4, Zenon DEF Tree
<1>8. ASSUME NEW g \in Idx, NEW h \in Idx, NEW k \in Idx
      PROVE  LeafAt(n, r, g, h, k) = LeafAt(m, r, g, h, k)
  <2>1. CASE g = i /\ h = j
    <3>1. n[f][k] = Empty
      BY Zenon DEF ZeroPage
    <3> QED BY <1>3, <2>1, <3>1, Zenon DEF LeafAt
  <2>2. CASE ~(g = i /\ h = j) /\ Exists(m, r, g, h)
    <3>1. Lowest(m, r, g, h) \in F /\ Lowest(m, r, g, h) # t
      BY <1>5, <2>2, Zenon
    <3>2. n[Lowest(m, r, g, h)] = m[Lowest(m, r, g, h)]
      BY <3>1, Zenon
    <3> QED BY <1>4, <2>2, <3>2, Zenon DEF LeafAt
  <2>3. CASE ~(g = i /\ h = j) /\ ~Exists(m, r, g, h)
    BY <1>4, <2>3, Zenon DEF LeafAt
  <2> QED BY <2>1, <2>2, <2>3, Zenon
<1> QED BY <1>7, <1>8, Zenon DEF Grown

\* Among the table pages F, n differs from m at most in slot k of t.
DiffersAt(m, n, F, t, k) ==
  /\ \A l \in Idx : l # k => n[t][l] = m[t][l]
  /\ \A u \in F : u # t => n[u] = m[u]

\* n is the same tree as m, and translates all but one page as m does.
OneLeaf(m, n, r, F, i, j, k, t) ==
  /\ Tree(n, r, F)
  /\ LeafAt(n, r, i, j, k) = n[t][k]
  /\ \A g, h, l \in Idx : ~(g = i /\ h = j /\ l = k)
       => LeafAt(n, r, g, h, l) = LeafAt(m, r, g, h, l)

\* A leaf entry written: one translation changes.
LEMMA LeafWrite ==
  ASSUME NEW m, NEW n, NEW r, NEW F, Tree(m, r, F),
         NEW i \in Idx, NEW j \in Idx, Exists(m, r, i, j),
         NEW t, t = Lowest(m, r, i, j), NEW k \in Idx, DiffersAt(m, n, F, t, k)
  PROVE  OneLeaf(m, n, r, F, i, j, k, t)
<1> USE DEF DiffersAt
<1>1. /\ t \in F /\ t # r /\ r \in F /\ n[r] = m[r]
      /\ \A h \in Idx : Valid(m, r, h) => Child(m, r, h) # t
  <2>1. /\ t \in F /\ t # r /\ r \in F
        /\ \A h \in Idx : Valid(m, r, h) => Child(m, r, h) # t
    BY Zenon DEF Tree
  <2> QED BY <2>1, Zenon
<1>2. ASSUME NEW h \in Idx
      PROVE  (Valid(n, r, h) <=> Valid(m, r, h)) /\ Child(n, r, h) = Child(m, r, h)
  BY <1>1, Zenon DEF Valid, Child
<1>3. ASSUME NEW g \in Idx, NEW h \in Idx
      PROVE  /\ Exists(n, r, g, h) <=> Exists(m, r, g, h)
             /\ Exists(m, r, g, h) => Lowest(n, r, g, h) = Lowest(m, r, g, h)
  <2>1. CASE ~Valid(m, r, g)
    BY <1>2, <2>1, Zenon DEF Exists
  <2>2. CASE Valid(m, r, g)
    <3>1. Child(m, r, g) \in F /\ Child(m, r, g) # t
      BY <1>1, <2>2, Zenon DEF Tree
    <3>2. n[Child(m, r, g)] = m[Child(m, r, g)]
      BY <3>1, Zenon
    <3>3. /\ Valid(n, Child(m, r, g), h) <=> Valid(m, Child(m, r, g), h)
          /\ Child(n, Child(m, r, g), h) = Child(m, Child(m, r, g), h)
      BY <3>2, Zenon DEF Valid, Child
    <3> QED BY <1>2, <3>3, Zenon DEF Exists, Lowest
  <2> QED BY <2>1, <2>2, Zenon
<1>4. Tree(n, r, F)
  <2>1. ASSUME NEW g \in Idx, Valid(n, r, g)
        PROVE  Child(n, r, g) \in F /\ Child(n, r, g) # r
    BY <1>2, <2>1, Zenon DEF Tree
  <2>2. ASSUME NEW g \in Idx, NEW h \in Idx, Valid(n, r, g), Valid(n, r, h),
               Child(n, r, g) = Child(n, r, h)
        PROVE  g = h
    <3>1. Valid(m, r, g) /\ Valid(m, r, h) /\ Child(m, r, g) = Child(m, r, h)
      BY <1>2, <2>2, Zenon
    <3> QED BY <3>1, Zenon DEF Tree
  <2>3. ASSUME NEW g \in Idx, NEW h \in Idx, Exists(n, r, g, h)
        PROVE  /\ Lowest(n, r, g, h) \in F /\ Lowest(n, r, g, h) # r
               /\ \A l \in Idx : Valid(n, r, l) => Lowest(n, r, g, h) # Child(n, r, l)
    <3>1. Exists(m, r, g, h) /\ Lowest(n, r, g, h) = Lowest(m, r, g, h)
      BY <1>3, <2>3, Zenon
    <3>2. /\ Lowest(m, r, g, h) \in F /\ Lowest(m, r, g, h) # r
          /\ \A l \in Idx : Valid(m, r, l) => Lowest(m, r, g, h) # Child(m, r, l)
      BY <3>1, Zenon DEF Tree
    <3> QED BY <1>2, <3>1, <3>2, Zenon
  <2>4. ASSUME NEW g \in Idx, NEW h \in Idx, NEW a \in Idx, NEW b \in Idx,
               Exists(n, r, g, h), Exists(n, r, a, b),
               Lowest(n, r, g, h) = Lowest(n, r, a, b)
        PROVE  g = a /\ h = b
    <3>1. /\ Exists(m, r, g, h) /\ Exists(m, r, a, b)
          /\ Lowest(m, r, g, h) = Lowest(m, r, a, b)
      BY <1>3, <2>4, Zenon
    <3> QED BY <3>1, Zenon DEF Tree
  <2> QED BY <1>1, <2>1, <2>2, <2>3, <2>4, Zenon DEF Tree
<1>5. LeafAt(n, r, i, j, k) = n[t][k]
  BY <1>3, Zenon DEF LeafAt
<1>6. ASSUME NEW g \in Idx, NEW h \in Idx, NEW l \in Idx, ~(g = i /\ h = j /\ l = k)
      PROVE  LeafAt(n, r, g, h, l) = LeafAt(m, r, g, h, l)
  <2>1. CASE Exists(m, r, g, h)
    <3>1. Lowest(m, r, g, h) \in F /\ (Lowest(m, r, g, h) = t => g = i /\ h = j)
      BY <2>1, Zenon DEF Tree
    <3>2. n[Lowest(m, r, g, h)][l] = m[Lowest(m, r, g, h)][l]
      <4>1. CASE Lowest(m, r, g, h) = t
        BY <1>6, <3>1, <4>1, Zenon
      <4>2. CASE Lowest(m, r, g, h) # t
        BY <3>1, <4>2, Zenon
      <4> QED BY <4>1, <4>2, Zenon
    <3> QED BY <1>3, <2>1, <3>2, Zenon DEF LeafAt
  <2>2. CASE ~Exists(m, r, g, h)
    BY <1>3, <2>2, Zenon DEF LeafAt
  <2> QED BY <2>1, <2>2, Zenon
<1> QED BY <1>4, <1>5, <1>6, Zenon DEF OneLeaf

-----------------------------------------------------------------------------
\* Division by the fanout undoes multiplication by it.
LEMMA DigitUnique ==
  ASSUME NEW q \in Nat, NEW c \in Nat, NEW d \in Nat \ {0}, c < d
  PROVE  (q * d + c) \div d = q /\ (q * d + c) % d = c
<1> DEFINE n == q * d + c
           p == n \div d
           e == n % d
<1>1. n \in Nat
  OBVIOUS
<1>2. p \in Nat /\ e \in 0 .. d - 1 /\ n = p * d + e
  BY <1>1
<1> HIDE DEF p, e
<1>3. (p - q) * d = c - e /\ p - q \in Int
  BY <1>2
<1>4. CASE p - q >= 1
  <2>1. (p - q - 1) * d >= 0
    BY <1>2, <1>4
  <2>2. (p - q - 1) * d = (p - q) * d - d
    BY <1>2
  <2> QED BY <1>2, <1>3, <2>1, <2>2
<1>5. CASE q - p >= 1
  <2>1. (q - p - 1) * d >= 0
    BY <1>2, <1>5
  <2>2. (q - p - 1) * d = e - c - d
    BY <1>2, <1>3
  <2> QED BY <1>2, <2>1, <2>2
<1>6. p = q
  BY <1>2, <1>4, <1>5
<1> QED BY <1>2, <1>6 DEF p, e

\* A page number is given by its three indexes.
LEMMA IndexesDetermine ==
  ASSUME NEW v \in Vpns
  PROVE  /\ indexes(v)[1] \in Idx /\ indexes(v)[2] \in Idx /\ indexes(v)[3] \in Idx
         /\ v = (indexes(v)[1] * Fanout + indexes(v)[2]) * Fanout + indexes(v)[3]
<1> DEFINE F == Fanout
           G == F * F
           a == v \div G
           d == v % G
           b == d \div F
           c == d % F
<1>1. F \in Nat \ {0} /\ v \in Nat /\ v < G * F
  BY MemorySetAssumption DEF Vpns
<1>2. G \in Nat \ {0}
  BY <1>1
<1> HIDE DEF F
<1>3. a \in Nat /\ d \in 0 .. G - 1 /\ v = a * G + d
  <2> HIDE DEF G
  <2> QED BY <1>1, <1>2
<1> HIDE DEF a, d
<1>4. b \in Nat /\ c \in 0 .. F - 1 /\ d = b * F + c
  BY <1>1, <1>3
<1> HIDE DEF b, c
<1>5. b < F
  <2> SUFFICES ASSUME b >= F PROVE FALSE
    BY <1>1, <1>4
  <2>1. (b - F) * F >= 0
    BY <1>1, <1>4
  <2>2. (b - F) * F = b * F - G
    BY <1>1, <1>4
  <2> QED BY <1>1, <1>2, <1>3, <1>4, <2>1, <2>2
<1>6. a < F
  <2> SUFFICES ASSUME a >= F PROVE FALSE
    BY <1>1, <1>3
  <2>1. (a - F) * G >= 0
    <3> HIDE DEF G
    <3> QED BY <1>1, <1>2, <1>3
  <2>2. (a - F) * G = a * G - G * F
    <3> HIDE DEF G
    <3> QED BY <1>1, <1>2, <1>3
  <2> HIDE DEF G
  <2> QED BY <1>1, <1>2, <1>3, <2>1, <2>2
<1>7. v = (a * F + b) * F + c
  <2>1. (a * F + b) * F = a * G + b * F
    BY <1>1, <1>3, <1>4
  <2> QED BY <1>1, <1>3, <1>4, <2>1
<1>8. v \div F = a * F + b /\ v % F = c
  <2>1. a * F + b \in Nat
    BY <1>1, <1>3, <1>4
  <2> QED BY <1>1, <1>4, <1>7, <2>1, DigitUnique
<1>9. (a * F + b) % F = b
  BY Zenon, <1>1, <1>3, <1>4, <1>5, DigitUnique
<1>10. a % F = a
  BY <1>1, <1>3, <1>6
<1>11. indexes(v) = <<a, b, c>>
  BY Zenon, <1>8, <1>9, <1>10 DEF indexes, a, G, F
<1>12. a \in Idx /\ b \in Idx /\ c \in Idx
  BY <1>1, <1>3, <1>4, <1>5, <1>6 DEF Idx, F
<1> QED BY <1>7, <1>11, <1>12 DEF F

-----------------------------------------------------------------------------
(***************************************************************************)
(* The invariant, while the hypervisor runs.                               *)
(***************************************************************************)
TableInv ==
  /\ mem \in Memory
  /\ frames \subseteq AllFrames
  /\ Tree(mem, root_ppn, frames)

\* The operation in progress, on an area that is not in the set.
JobInv ==
  \/ job = Idle
  \/ \E a \in Areas \ areas : \E v \in PagesOf(a) :
       \/ job = [op |-> "map_one", area |-> a, vpn |-> v]
       \/ \E p \in Nat, l \in 1 .. 3, t \in frames :
            job = [op |-> "find_pte_create", area |-> a, vpn |-> v, ppn |-> p,
                   level |-> l, table |-> t]
       \/ /\ job = [op |-> "copy_data", area |-> a, vpn |-> v,
                    from |-> (v - a.start) * Fanout]
          /\ (v - a.start) * Fanout < a.data
       \/ job = [op |-> "unmap_one", area |-> a, vpn |-> v]

\* How far find_pte_create has come, and for which frame.
WalkInv ==
  job.op = "find_pte_create" =>
    LET i == indexes(job.vpn)[1]
        j == indexes(job.vpn)[2]
    IN /\ job.level = 1 => job.table = root_ppn
       /\ job.level = 2 => Valid(mem, root_ppn, i) /\ job.table = Child(mem, root_ppn, i)
       /\ job.level = 3 => /\ Exists(mem, root_ppn, i, j)
                           /\ job.table = Lowest(mem, root_ppn, i, j)
       /\ job.area.kind = "Framed" => job.ppn = data_frames[<<job.area, job.vpn>>]
       /\ job.ppn \in PhysPages

\* The pages for which the area in progress has its frame.
JobPages ==
  IF job.op = "find_pte_create" THEN job.area.start .. job.vpn ELSE InProgress

\* Page v of area a has a frame of its own.
HasFrame(a, v) ==
  /\ a.kind = "Framed"
  /\ \/ a \in areas /\ v \in PagesOf(a)
     \/ job.op # "idle" /\ a = job.area /\ v \in JobPages

\* That frame is still to be entered in the page table.
Pending(a, v) == job.op = "find_pte_create" /\ a = job.area /\ v = job.vpn

FrameInv ==
  /\ DOMAIN data_frames \subseteq Areas \X Vpns
  /\ \A a \in Areas, v \in Vpns : <<a, v>> \in DOMAIN data_frames <=> HasFrame(a, v)
  /\ \A a \in Areas, v \in Vpns :
       <<a, v>> \in DOMAIN data_frames /\ ~Pending(a, v)
       => Entry(v) = Leaf(data_frames[<<a, v>>], a.perm)

\* Page v is mapped on behalf of an area.
Claimed(v) == v \in InProgress \/ \E a \in areas : v \in PagesOf(a)

SpaceInv ==
  /\ areas \subseteq Areas
  /\ \A a, b \in areas : \A v \in Vpns : v \in PagesOf(a) /\ v \in PagesOf(b) => a = b
  /\ \A a \in areas : \A v \in Vpns : v \in PagesOf(a) => v \notin InProgress
  /\ \A v \in Vpns : Entry(v).v = TRUE <=> Claimed(v)

RunInv == AllocInv /\ TableInv /\ JobInv /\ WalkInv /\ FrameInv /\ SpaceInv

MsInv == (panic = "no" => RunInv) /\ OwnersDisjoint /\ UnmapNeverPanics

-----------------------------------------------------------------------------
\* What the assumptions say of an area.
LEMMA AreaFacts ==
  ASSUME NEW a \in Areas
  PROVE  /\ a.start \in Nat /\ a.end \in Nat /\ a.ppn \in Nat /\ a.data \in Nat
         /\ a.perm \in Perms /\ a.kind \in {"Linear", "Framed"}
         /\ a.start <= a.end /\ a.data <= (a.end - a.start) * Fanout
         /\ a.kind = "Linear" => a.start < a.end
         /\ \A v \in PagesOf(a) : v \in Vpns /\ v \in Nat /\ a.start <= v /\ v < a.end
<1>1. a \in [start : Nat, end : Nat, kind : {"Linear", "Framed"},
             ppn : Nat, perm : STRING, data : Nat]
  BY Zenon, MemorySetAssumption
<1>2. /\ a.start <= a.end /\ a.end <= Fanout * Fanout * Fanout
      /\ a.data <= (a.end - a.start) * Fanout
      /\ a.kind = "Linear" => a.start < a.end
  BY Zenon, MemorySetAssumption
<1>3. /\ a.start \in Nat /\ a.end \in Nat /\ a.ppn \in Nat /\ a.data \in Nat
      /\ a.kind \in {"Linear", "Framed"}
  BY Zenon, <1>1
<1>4. Fanout * Fanout * Fanout \in Nat
  BY MemorySetAssumption
<1>5. \A v \in PagesOf(a) : v \in Vpns /\ v \in Nat /\ a.start <= v /\ v < a.end
  <2> DEFINE C == Fanout * Fanout * Fanout
  <2>1. a.start \in Nat /\ a.end \in Nat /\ C \in Nat /\ a.end <= C
    BY Zenon, <1>2, <1>3, <1>4
  <2>2. Vpns = 0 .. C - 1
    BY Zenon DEF Vpns
  <2> HIDE DEF C
  <2> QED BY <2>1, <2>2 DEF PagesOf
<1>6. a.perm \in Perms
  BY Zenon DEF Perms
<1> QED BY Zenon, <1>2, <1>3, <1>5, <1>6

\* The page that a statement of push or unmap works on, and where it stands.
LEMMA JobShape ==
  ASSUME JobInv, job.op # "idle"
  PROVE  \E a \in Areas \ areas : \E v \in PagesOf(a) :
           /\ job.area = a /\ job.vpn = v
           /\ job.op = "map_one" => job = [op |-> "map_one", area |-> a, vpn |-> v]
           /\ job.op = "find_pte_create" =>
                \E p \in Nat, l \in 1 .. 3, t \in frames :
                  job = [op |-> "find_pte_create", area |-> a, vpn |-> v, ppn |-> p,
                         level |-> l, table |-> t]
           /\ job.op = "copy_data" =>
                /\ job = [op |-> "copy_data", area |-> a, vpn |-> v,
                          from |-> (v - a.start) * Fanout]
                /\ (v - a.start) * Fanout < a.data
           /\ job.op = "unmap_one" => job = [op |-> "unmap_one", area |-> a, vpn |-> v]
<1>1. job # Idle
  BY DEF Idle
<1>2. PICK a \in Areas \ areas : \E v \in PagesOf(a) :
        \/ job = [op |-> "map_one", area |-> a, vpn |-> v]
        \/ \E p \in Nat, l \in 1 .. 3, t \in frames :
             job = [op |-> "find_pte_create", area |-> a, vpn |-> v, ppn |-> p,
                    level |-> l, table |-> t]
        \/ /\ job = [op |-> "copy_data", area |-> a, vpn |-> v,
                     from |-> (v - a.start) * Fanout]
           /\ (v - a.start) * Fanout < a.data
        \/ job = [op |-> "unmap_one", area |-> a, vpn |-> v]
  BY <1>1, Zenon DEF JobInv
<1>3. PICK v \in PagesOf(a) :
        \/ job = [op |-> "map_one", area |-> a, vpn |-> v]
        \/ \E p \in Nat, l \in 1 .. 3, t \in frames :
             job = [op |-> "find_pte_create", area |-> a, vpn |-> v, ppn |-> p,
                    level |-> l, table |-> t]
        \/ /\ job = [op |-> "copy_data", area |-> a, vpn |-> v,
                     from |-> (v - a.start) * Fanout]
           /\ (v - a.start) * Fanout < a.data
        \/ job = [op |-> "unmap_one", area |-> a, vpn |-> v]
  BY Zenon, <1>2
<1>4. CASE job = [op |-> "map_one", area |-> a, vpn |-> v]
  <2>1. job.op = "map_one" /\ job.area = a /\ job.vpn = v
    BY Zenon, <1>4
  <2> QED BY Zenon, <1>4, <2>1
<1>5. CASE \E p \in Nat, l \in 1 .. 3, t \in frames :
             job = [op |-> "find_pte_create", area |-> a, vpn |-> v, ppn |-> p,
                    level |-> l, table |-> t]
  <2>1. job.op = "find_pte_create" /\ job.area = a /\ job.vpn = v
    BY <1>5
  <2> QED BY Zenon, <1>5, <2>1
<1>6. CASE /\ job = [op |-> "copy_data", area |-> a, vpn |-> v,
                     from |-> (v - a.start) * Fanout]
           /\ (v - a.start) * Fanout < a.data
  <2>1. job.op = "copy_data" /\ job.area = a /\ job.vpn = v
    BY Zenon, <1>6
  <2> QED BY Zenon, <1>6, <2>1
<1>7. CASE job = [op |-> "unmap_one", area |-> a, vpn |-> v]
  <2>1. job.op = "unmap_one" /\ job.area = a /\ job.vpn = v
    BY Zenon, <1>7
  <2> QED BY Zenon, <1>7, <2>1
<1> QED BY Zenon, <1>3, <1>4, <1>5, <1>6, <1>7

\* A word of memory has a truth value and a page number.
LEMMA WordFacts ==
  ASSUME NEW m \in Memory, NEW t \in AllFrames, NEW i \in Idx
  PROVE  m[t][i] \in Word /\ m[t][i].v \in BOOLEAN /\ m[t][i].ppn \in Nat
BY Zenon DEF Memory, Word

\* A leaf entry is valid.
LEMMA LeafValid ==
  ASSUME NEW e \in Leaves PROVE e.v = TRUE
BY DEF Leaves, Leaf

\* What find_pte returns, taken apart.
LEMMA PairParts ==
  ASSUME NEW p, NEW x, NEW y, p = <<x, y>>
  PROVE  p # <<>> /\ p[1] = x /\ p[2] = y
OBVIOUS

\* find_pte and translate, in terms of the tree.
LEMMA FindsLeaf ==
  ASSUME TableInv, NEW v \in Vpns
  PROVE  LET i == indexes(v)[1]
             j == indexes(v)[2]
             k == indexes(v)[3]
         IN /\ Entry(v) = LeafAt(mem, root_ppn, i, j, k)
            /\ Exists(mem, root_ppn, i, j) => find_pte(v) = <<Lowest(mem, root_ppn, i, j), k>>
            /\ ~Exists(mem, root_ppn, i, j) => find_pte(v) = <<>>
<1> DEFINE i == indexes(v)[1]
           j == indexes(v)[2]
           k == indexes(v)[3]
           p1 == mem[root_ppn][i]
           p2 == mem[p1.ppn][j]
<1>1. i \in Idx /\ j \in Idx /\ k \in Idx
  BY Zenon, IndexesDetermine
<1>2. find_pte(v) = IF p1.v /\ p2.v THEN <<p2.ppn, k>> ELSE <<>>
  BY Zenon DEF find_pte
<1>3. Entry(v) = IF find_pte(v) = <<>> THEN Empty ELSE mem[find_pte(v)[1]][find_pte(v)[2]]
  <2>1. translate(v) = IF find_pte(v) = <<>> THEN <<>>
                       ELSE <<mem[find_pte(v)[1]][find_pte(v)[2]]>>
    BY Zenon DEF translate
  <2>2. \A x : <<x>> # <<>> /\ <<x>>[1] = x
    OBVIOUS
  <2> QED BY <2>1, <2>2, Zenon DEF Entry
<1> HIDE DEF i, j, k
<1>4. p1.v \in BOOLEAN /\ (Valid(mem, root_ppn, i) <=> p1.v = TRUE)
  <2>1. root_ppn \in AllFrames
    BY Zenon DEF TableInv, Tree
  <2>2. p1.v \in BOOLEAN
    BY Zenon, <1>1, <2>1, WordFacts DEF TableInv
  <2> QED BY <2>2, Zenon DEF Valid
<1>5. Valid(mem, root_ppn, i) =>
        p2.v \in BOOLEAN /\ (Valid(mem, Child(mem, root_ppn, i), j) <=> p2.v = TRUE)
  <2> SUFFICES ASSUME Valid(mem, root_ppn, i)
               PROVE  p2.v \in BOOLEAN
                      /\ (Valid(mem, Child(mem, root_ppn, i), j) <=> p2.v = TRUE)
    BY Zenon
  <2>1. p1.ppn \in AllFrames
    BY <1>1, Zenon DEF TableInv, Tree, Child
  <2>2. p2.v \in BOOLEAN
    BY Zenon, <1>1, <2>1, WordFacts DEF TableInv
  <2> QED BY <2>2, Zenon DEF Valid, Child
<1>6. Lowest(mem, root_ppn, i, j) = p2.ppn
  BY Zenon DEF Lowest, Child
<1> HIDE DEF p1, p2
<1>7. Exists(mem, root_ppn, i, j) <=> p1.v /\ p2.v
  BY <1>4, <1>5, Zenon DEF Exists
<1>8. CASE Exists(mem, root_ppn, i, j)
  <2>1. find_pte(v) = <<Lowest(mem, root_ppn, i, j), k>>
    BY <1>2, <1>6, <1>7, <1>8, Zenon
  <2>2. find_pte(v) # <<>> /\ find_pte(v)[1] = Lowest(mem, root_ppn, i, j)
        /\ find_pte(v)[2] = k
    BY <2>1
  <2>3. Entry(v) = LeafAt(mem, root_ppn, i, j, k)
    BY <1>3, <1>8, <2>2, Zenon DEF LeafAt
  <2> QED BY <1>8, <2>1, <2>3, Zenon DEF i, j, k
<1>9. CASE ~Exists(mem, root_ppn, i, j)
  BY <1>2, <1>3, <1>7, <1>9, Zenon DEF LeafAt, i, j, k
<1> QED BY <1>8, <1>9, Zenon

\* Every page's entry is a leaf of the tree, in this state and in the next.
EntriesAreLeaves ==
  \A v \in Vpns :
    Entry(v) = LeafAt(mem, root_ppn, indexes(v)[1], indexes(v)[2], indexes(v)[3])

LEMMA LeafEntries == TableInv => EntriesAreLeaves
BY FindsLeaf, Zenon DEF EntriesAreLeaves

LEMMA LeafEntriesNext == TableInv' => EntriesAreLeaves'
BY LeafEntries, PTL

\* An allocation that does not fail takes a frame that has no tracker.
LEMMA TakeFrame ==
  ASSUME AllocInv, frame_alloc, CanAlloc
  PROVE  /\ AllocInv' /\ panic = "no" /\ panic' = "no"
         /\ NextFrame \in AllFrames \ trackers
         /\ trackers' = trackers \cup {NextFrame}
<1>1. panic = "no"
  BY Zenon DEF frame_alloc
<1>2. CASE PopRecycled
  <2>1. /\ recycled # <<>> /\ panic' = panic
        /\ trackers' = trackers \cup {recycled[Len(recycled)]}
    BY Zenon, <1>2 DEF PopRecycled
  <2>2. NextFrame = recycled[Len(recycled)]
    BY Zenon, <2>1 DEF NextFrame
  <2>3. AllocInv' /\ recycled[Len(recycled)] \in AllFrames \ trackers
    BY Zenon, <1>2, PopStep
  <2> QED BY <1>1, <2>1, <2>2, <2>3, Zenon
<1>3. CASE BumpCurrent
  <2>1. recycled = <<>> /\ panic' = panic /\ trackers' = trackers \cup {current}
    BY Zenon, <1>3 DEF BumpCurrent
  <2>2. NextFrame = current
    BY Zenon, <2>1 DEF NextFrame
  <2>3. AllocInv' /\ current \in AllFrames \ trackers
    BY Zenon, <1>3, BumpStep
  <2> QED BY <1>1, <2>1, <2>2, <2>3, Zenon
<1>4. ~OutOfFrames
  BY Zenon DEF CanAlloc, OutOfFrames
<1> QED BY Zenon, <1>2, <1>3, <1>4 DEF frame_alloc

\* One that fails leaves the trackers alone.
LEMMA NoFrame ==
  ASSUME frame_alloc, ~CanAlloc
  PROVE  panic' = "out of frames" /\ trackers' = trackers
BY Zenon DEF frame_alloc, CanAlloc, PopRecycled, BumpCurrent, OutOfFrames

\* The frames of F are table pages, those of D pages of areas, T both.
Owned(F, D, T) ==
  /\ \A p \in DOMAIN D : D[p] \notin F
  /\ \A p, q \in DOMAIN D : D[p] = D[q] => p = q
  /\ F \cup {D[p] : p \in DOMAIN D} = T

LEMMA OwnersOwned ==
  /\ panic = "no" /\ OwnersDisjoint => Owned(frames, data_frames, trackers)
  /\ Owned(frames, data_frames, trackers) => OwnersDisjoint
BY Zenon DEF OwnersDisjoint, Owned

LEMMA OwnersOwnedNext ==
  Owned(frames', data_frames', trackers') => OwnersDisjoint'
BY Zenon DEF OwnersDisjoint, Owned

LEMMA OwnTable ==
  ASSUME NEW F, NEW D, NEW T, Owned(F, D, T), NEW f, f \notin T
  PROVE  Owned(F \cup {f}, D, T \cup {f})
BY Zenon DEF Owned

LEMMA OwnPage ==
  ASSUME NEW F, NEW D, NEW T, Owned(F, D, T), NEW f, f \notin T, NEW key, key \notin DOMAIN D,
         NEW E, DOMAIN E = DOMAIN D \cup {key}, E[key] = f, \A p \in DOMAIN D : E[p] = D[p]
  PROVE  Owned(F, E, T \cup {f})
<1>1. \A p \in DOMAIN D : D[p] \in T
  BY Zenon DEF Owned
<1>2. \A p \in DOMAIN E : E[p] \notin F
  BY Zenon DEF Owned
<1>3. ASSUME NEW p \in DOMAIN E, NEW q \in DOMAIN E, E[p] = E[q]
      PROVE  p = q
  <2>1. CASE p = key
    BY <1>1, <1>3, <2>1, Zenon
  <2>2. CASE q = key
    BY <1>1, <1>3, <2>2, Zenon
  <2>3. CASE p \in DOMAIN D /\ q \in DOMAIN D
    BY <1>3, <2>3, Zenon DEF Owned
  <2> QED BY <2>1, <2>2, <2>3, Zenon
<1>4. F \cup {E[p] : p \in DOMAIN E} = T \cup {f}
  <2>1. {E[p] : p \in DOMAIN E} = {D[p] : p \in DOMAIN D} \cup {f}
    OBVIOUS
  <2> QED BY <2>1, Zenon DEF Owned
<1> QED BY <1>2, <1>3, <1>4, Zenon DEF Owned

LEMMA DisownPage ==
  ASSUME NEW F, NEW D, NEW T, Owned(F, D, T), NEW key \in DOMAIN D
  PROVE  Owned(F, [p \in DOMAIN D \ {key} |-> D[p]], T \ {D[key]})
<1> DEFINE E == [p \in DOMAIN D \ {key} |-> D[p]]
<1>1. DOMAIN E = DOMAIN D \ {key} /\ \A p \in DOMAIN E : E[p] = D[p]
  BY Zenon
<1> HIDE DEF E
<1>2. D[key] \notin F /\ \A p \in DOMAIN E : E[p] # D[key]
  BY <1>1, Zenon DEF Owned
<1>3. /\ \A p \in DOMAIN E : E[p] \notin F
      /\ \A p, q \in DOMAIN E : E[p] = E[q] => p = q
  BY <1>1, Zenon DEF Owned
<1>4. F \cup {E[p] : p \in DOMAIN E} = T \ {D[key]}
  <2>1. {E[p] : p \in DOMAIN E} = {D[p] : p \in DOMAIN D} \ {D[key]}
    BY Zenon, <1>1, <1>2
  <2>2. F \cup {D[p] : p \in DOMAIN D} = T
    BY Zenon DEF Owned
  <2> QED BY <1>2, <2>1, <2>2, Zenon
<1>5. Owned(F, E, T \ {D[key]})
  BY <1>3, <1>4, Zenon DEF Owned
<1> QED BY Zenon, <1>5 DEF E

-----------------------------------------------------------------------------
\* What a step that leaves translations, areas or frames alone preserves.
LEMMA SameEntries ==
  ASSUME UNCHANGED <<mem, root_ppn>>
  PROVE  \A v : Entry(v)' = Entry(v)
BY DEF Entry, translate, find_pte

LEMMA SameTables ==
  ASSUME TableInv, UNCHANGED <<mem, root_ppn, frames>>
  PROVE  TableInv'
BY Zenon DEF TableInv

LEMMA SameAlloc ==
  ASSUME AllocInv, UNCHANGED allocVars
  PROVE  AllocInv'
BY Zenon, AllocNextInv

LEMMA SameOwners ==
  ASSUME OwnersDisjoint, panic = "no", UNCHANGED <<frames, data_frames, trackers>>
  PROVE  OwnersDisjoint'
BY Zenon DEF OwnersDisjoint

LEMMA KeepFrames ==
  ASSUME FrameInv, UNCHANGED data_frames, \A v \in Vpns : Entry(v)' = Entry(v),
         \A a \in Areas, v \in Vpns : HasFrame(a, v)' <=> HasFrame(a, v),
         \A a \in Areas, v \in Vpns : Pending(a, v) => Pending(a, v)'
  PROVE  FrameInv'
<1>1. data_frames' = data_frames
  OBVIOUS
<1>2. ASSUME NEW a \in Areas, NEW v \in Vpns
      PROVE  <<a, v>> \in DOMAIN data_frames' <=> HasFrame(a, v)'
  BY <1>1, Zenon DEF FrameInv
<1>3. ASSUME NEW a \in Areas, NEW v \in Vpns, <<a, v>> \in DOMAIN data_frames',
             ~Pending(a, v)'
      PROVE  Entry(v)' = Leaf(data_frames'[<<a, v>>], a.perm)
  <2>1. <<a, v>> \in DOMAIN data_frames /\ ~Pending(a, v)
    BY <1>1, <1>3, Zenon
  <2>2. Entry(v) = Leaf(data_frames[<<a, v>>], a.perm)
    BY <2>1, Zenon DEF FrameInv
  <2> QED BY <1>1, <2>2, Zenon
<1>4. DOMAIN data_frames' \subseteq Areas \X Vpns
  BY <1>1, Zenon DEF FrameInv
<1> QED BY <1>2, <1>3, <1>4, Zenon DEF FrameInv

LEMMA KeepSpace ==
  ASSUME SpaceInv, UNCHANGED areas, \A v \in Vpns : Entry(v)' = Entry(v),
         InProgress' = InProgress
  PROVE  SpaceInv'
<1>1. areas' = areas
  OBVIOUS
<1>2. ASSUME NEW v \in Vpns
      PROVE  Claimed(v)' <=> Claimed(v)
  BY <1>1, Zenon DEF Claimed, PagesOf
<1>3. ASSUME NEW v \in Vpns
      PROVE  Entry(v)'.v = TRUE <=> Claimed(v)'
  BY <1>2, Zenon DEF SpaceInv
<1>4. areas' \subseteq Areas
  BY <1>1, Zenon DEF SpaceInv
<1>5. \A a, b \in areas' : \A v \in Vpns : v \in PagesOf(a) /\ v \in PagesOf(b) => a = b
  BY <1>1, Zenon DEF SpaceInv
<1>6. \A a \in areas' : \A v \in Vpns : v \in PagesOf(a) => v \notin InProgress'
  BY <1>1, Zenon DEF SpaceInv
<1> QED BY <1>3, <1>4, <1>5, <1>6, Zenon DEF SpaceInv, PagesOf

\* The words that the code writes to a frame.
LEMMA Words ==
  /\ Empty \in Word
  /\ \A f \in Nat : Table(f) \in Word
  /\ \A p \in Nat, perm \in Perms : Leaf(p, perm) \in Word
  /\ \A k \in Nat : DataWord(k) \in Word
<1>1. \A b \in BOOLEAN, p \in Nat, s \in Perms : [v |-> b, ppn |-> p, perm |-> s] \in Word
  BY Zenon DEF Word
<1>2. TRUE \in BOOLEAN /\ FALSE \in BOOLEAN /\ 0 \in Nat /\ "" \in Perms /\ "data" \in Perms
  <2>1. 0 \in Nat
    OBVIOUS
  <2> QED BY <2>1, Zenon DEF Perms
<1>3. Empty \in Word
  BY <1>1, <1>2, Zenon DEF Empty
<1>4. ASSUME NEW p \in Nat, NEW s \in Perms
      PROVE  Table(p) \in Word /\ Leaf(p, s) \in Word /\ DataWord(p) \in Word
  BY <1>1, <1>2, Zenon DEF Table, Leaf, DataWord
<1> QED BY <1>2, <1>3, <1>4, Zenon

LEMMA PagesOfWords == ZeroPage \in [Idx -> Word] /\ DirtyPage \in [Idx -> Word]
<1>1. PhysAddrCeil(ekernel) \in Nat /\ "dirty" \in Perms
  BY RangeNat, Zenon DEF Perms
<1>2. Empty \in Word /\ Leaf(PhysAddrCeil(ekernel), "dirty") \in Word
  BY <1>1, Words, Zenon
<1> QED BY Zenon, <1>2 DEF ZeroPage, DirtyPage

\* The empty set of the start.
LEMMA MsInitInv == MsInit => MsInv
<1> SUFFICES ASSUME MsInit PROVE MsInv
  OBVIOUS
<1> DEFINE root == PhysAddrCeil(ekernel)
<1>1. /\ current = root + 1 /\ end = PhysAddrFloor(MEMORY_END)
      /\ recycled = <<>> /\ trackers = {root} /\ panic = "no"
      /\ mem = [f \in AllFrames |-> IF f = root THEN ZeroPage ELSE DirtyPage]
      /\ root_ppn = root /\ frames = {root}
      /\ areas = {} /\ data_frames = <<>> /\ job = Idle
  BY Zenon DEF MsInit
<1>2. root \in Nat /\ root \in AllFrames /\ root + 1 \in root .. PhysAddrFloor(MEMORY_END)
  BY MemorySetAssumption, RangeNat DEF AllFrames
<1> HIDE DEF root
<1>3. AllocInv
  <2>1. RecycledSet = {}
    BY Zenon, <1>1, EmptyStack
  <2>2. root .. current - 1 = {root}
    BY <1>1, <1>2
  <2>3. \A i, j \in DOMAIN recycled : recycled[i] = recycled[j] => i = j
    BY <1>1
  <2>4. FramesConserved
    BY <1>1, <2>1, <2>2, <2>3, Zenon DEF FramesConserved, root
  <2>5. AllocTypeOK
    BY <1>1, <1>2 DEF AllocTypeOK, root
  <2> QED BY Zenon, <1>1, <2>4, <2>5 DEF AllocInv, DropNeverPanics
<1>4. DOMAIN data_frames = {}
  BY <1>1
<1>5. job.op = "idle" /\ InProgress = {}
  BY Zenon, <1>1 DEF Idle, InProgress
<1>6. mem[root] = ZeroPage /\ \A i \in Idx : ~Valid(mem, root, i)
  <2>1. mem[root] = ZeroPage
    BY Zenon, <1>1, <1>2
  <2> QED BY Zenon, <2>1, FreshPage
<1>7. TableInv
  <2>1. ZeroPage \in [Idx -> Word] /\ DirtyPage \in [Idx -> Word]
    BY Zenon, PagesOfWords
  <2>2. mem \in Memory
    BY Zenon, <1>1, <2>1 DEF Memory
  <2>3. Tree(mem, root_ppn, frames)
    BY <1>1, <1>6, Zenon DEF Tree, Exists
  <2> QED BY Zenon, <1>1, <1>2, <2>2, <2>3 DEF TableInv
<1>8. ASSUME NEW v \in Vpns PROVE Entry(v) = Empty
  <2>1. indexes(v)[1] \in Idx
    BY Zenon, IndexesDetermine
  <2>2. ~Exists(mem, root_ppn, indexes(v)[1], indexes(v)[2])
    BY <1>1, <1>6, <2>1, Zenon DEF Exists
  <2> QED BY <1>7, <2>2, LeafEntries, Zenon DEF EntriesAreLeaves, LeafAt
<1>9. JobInv /\ WalkInv
  BY Zenon, <1>1, <1>5 DEF JobInv, WalkInv
<1>10. FrameInv
  BY <1>1, <1>4, <1>5, Zenon DEF FrameInv, HasFrame
<1>11. SpaceInv
  <2>1. Empty.v # TRUE
    BY Zenon DEF Empty
  <2>2. \A v \in Vpns : ~Claimed(v)
    BY <1>1, <1>5, Zenon DEF Claimed
  <2>3. \A v \in Vpns : Entry(v).v # TRUE
    BY <1>8, <2>1, Zenon
  <2> QED BY <1>1, <2>2, <2>3, Zenon DEF SpaceInv
<1>12. OwnersDisjoint
  BY Zenon, <1>1, <1>4 DEF OwnersDisjoint
<1> QED BY Zenon, <1>1, <1>3, <1>7, <1>9, <1>10, <1>11, <1>12
        DEF MsInv, RunInv, UnmapNeverPanics

-----------------------------------------------------------------------------
\* What a step does to translations: nothing, or one page is mapped that was
\* not, or one unmapped that was.
EntryStep ==
  \/ \A v \in Vpns : Entry(v)' = Entry(v)
  \/ \E v \in Vpns :
       /\ \A w \in Vpns : w # v => Entry(w)' = Entry(w)
       /\ \/ Entry(v).v = FALSE /\ Entry(v)' \in Leaves
          \/ Entry(v).v = TRUE /\ Entry(v)' = Empty

(***************************************************************************)
(* One lemma per action.                                                   *)
(***************************************************************************)
LEMMA PushStep ==
  ASSUME MsInv, NEW a \in Areas, push(a)
  PROVE  MsInv' /\ EntryStep
<1>1. /\ panic = "no" /\ job.op = "idle" /\ a \notin areas
      /\ UNCHANGED <<mem, root_ppn, frames, data_frames>> /\ UNCHANGED allocVars
  BY Zenon DEF push, At
<1>2. RunInv /\ OwnersDisjoint
  BY Zenon, <1>1 DEF MsInv
<1>3. AllocInv' /\ TableInv' /\ OwnersDisjoint' /\ panic' = "no"
  <2>1. panic' = panic /\ trackers' = trackers
    BY Zenon, <1>1 DEF allocVars
  <2> QED BY Zenon, <1>1, <1>2, <2>1, SameAlloc, SameTables, SameOwners DEF RunInv
<1>4. \A v : Entry(v)' = Entry(v)
  BY Zenon, <1>1, SameEntries
<1>5. InProgress = {} /\ JobPages = {} /\ \A v : ~Pending(a, v)
  BY Zenon, <1>1 DEF InProgress, JobPages, Pending
<1>6. ASSUME a.kind = "Framed" /\ a.start = a.end
      PROVE  MsInv'
  <2>1. areas' = areas \cup {a} /\ job' = job /\ data_frames' = data_frames
    BY Zenon, <1>1, <1>6 DEF push
  <2>2. PagesOf(a) = {}
    BY <1>6, AreaFacts DEF PagesOf
  <2>3. job'.op = "idle" /\ InProgress' = {}
    BY Zenon, <1>1, <2>1 DEF InProgress
  <2>4. JobInv' /\ WalkInv'
    <3>1. job = Idle
      BY <1>1, <1>2 DEF RunInv, JobInv
    <3> QED BY Zenon, <2>1, <2>3, <3>1 DEF JobInv, WalkInv
  <2>5. FrameInv'
    <3>1. \A b \in Areas, v \in Vpns : HasFrame(b, v)' <=> HasFrame(b, v)
      BY <1>1, <2>1, <2>2, <2>3, Zenon DEF HasFrame, PagesOf
    <3>2. \A b \in Areas, v \in Vpns : Pending(b, v) => Pending(b, v)'
      BY Zenon, <1>1 DEF Pending
    <3> QED BY Zenon, <1>2, <1>4, <2>1, <3>1, <3>2, KeepFrames DEF RunInv
  <2>6. SpaceInv'
    <3>1. SpaceInv
      BY Zenon, <1>2 DEF RunInv
    <3>2. \A v \in Vpns : Claimed(v)' <=> Claimed(v)
      BY <1>5, <2>1, <2>2, <2>3, Zenon DEF Claimed, PagesOf
    <3>3. areas' \subseteq Areas
      BY <2>1, <3>1, Zenon DEF SpaceInv
    <3>4. \A b, c \in areas' : \A v \in Vpns : v \in PagesOf(b) /\ v \in PagesOf(c) => b = c
      BY <2>1, <2>2, <3>1, Zenon DEF SpaceInv
    <3> QED BY <1>4, <2>3, <3>1, <3>2, <3>3, <3>4, Zenon DEF SpaceInv, PagesOf
  <2> QED BY Zenon, <1>3, <2>4, <2>5, <2>6 DEF MsInv, RunInv, UnmapNeverPanics
<1>7. ASSUME ~(a.kind = "Framed" /\ a.start = a.end)
      PROVE  MsInv'
  <2>1. /\ areas' = areas /\ data_frames' = data_frames
        /\ job' = [op |-> "map_one", area |-> a, vpn |-> a.start]
    BY Zenon, <1>1, <1>7 DEF push
  <2>2. job'.op = "map_one" /\ job'.area = a /\ job'.vpn = a.start
    BY Zenon, <2>1
  <2>3. a.start \in PagesOf(a) /\ a.start \in Nat
    BY <1>7, AreaFacts DEF PagesOf
  <2>4. InProgress' = {} /\ JobPages' = {}
    BY <2>2, <2>3 DEF InProgress, JobPages
  <2>5. JobInv' /\ WalkInv'
    BY Zenon, <1>1, <2>1, <2>2, <2>3 DEF JobInv, WalkInv
  <2>6. FrameInv'
    <3>1. \A b \in Areas, v \in Vpns : HasFrame(b, v)' <=> HasFrame(b, v)
      BY <1>1, <2>1, <2>4, Zenon DEF HasFrame, PagesOf
    <3>2. \A b \in Areas, v \in Vpns : Pending(b, v) => Pending(b, v)'
      BY Zenon, <1>1 DEF Pending
    <3> QED BY Zenon, <1>2, <1>4, <2>1, <3>1, <3>2, KeepFrames DEF RunInv
  <2>7. SpaceInv'
    BY Zenon, <1>2, <1>4, <1>5, <2>1, <2>4, KeepSpace DEF RunInv
  <2> QED BY Zenon, <1>3, <2>5, <2>6, <2>7 DEF MsInv, RunInv, UnmapNeverPanics
<1>8. EntryStep
  BY Zenon, <1>4 DEF EntryStep
<1> QED BY Zenon, <1>6, <1>7, <1>8

\* An area taken out of the set has its pages in progress.
LEMMA UnmapStep ==
  ASSUME MsInv, NEW a \in Areas, unmap(a)
  PROVE  MsInv' /\ EntryStep
<1>1. /\ panic = "no" /\ job.op = "idle" /\ a \in areas /\ areas' = areas \ {a}
      /\ UNCHANGED <<mem, root_ppn, frames, data_frames>> /\ UNCHANGED allocVars
  BY Zenon DEF unmap, At
<1>2. RunInv /\ OwnersDisjoint
  BY Zenon, <1>1 DEF MsInv
<1>3. AllocInv' /\ TableInv' /\ OwnersDisjoint' /\ panic' = "no"
  <2>1. panic' = panic /\ trackers' = trackers
    BY Zenon, <1>1 DEF allocVars
  <2> QED BY Zenon, <1>1, <1>2, <2>1, SameAlloc, SameTables, SameOwners DEF RunInv
<1>4. \A v : Entry(v)' = Entry(v)
  BY Zenon, <1>1, SameEntries
<1>5. InProgress = {}
  BY Zenon, <1>1 DEF InProgress
<1>6. /\ InProgress' = PagesOf(a) /\ JobPages' = PagesOf(a)
      /\ job'.op # "idle" => job'.area = a
      /\ job'.op = "idle" => PagesOf(a) = {}
      /\ job'.op # "find_pte_create"
      /\ JobInv'
  <2>1. CASE a.start = a.end
    <3>1. job' = Idle /\ PagesOf(a) = {}
      BY <2>1, AreaFacts DEF unmap, PagesOf
    <3> QED BY Zenon, <3>1 DEF Idle, InProgress, JobPages, JobInv
  <2>2. CASE a.start # a.end
    <3>1. job' = [op |-> "unmap_one", area |-> a, vpn |-> a.start]
      BY Zenon, <2>2 DEF unmap
    <3>2. a.start \in PagesOf(a)
      BY <2>2, AreaFacts DEF PagesOf
    <3>3. InProgress' = PagesOf(a) /\ JobPages' = PagesOf(a)
      BY Zenon, <3>1 DEF InProgress, JobPages, PagesOf
    <3>4. a \in Areas \ areas'
      BY Zenon, <1>1
    <3> QED BY Zenon, <3>1, <3>2, <3>3, <3>4 DEF JobInv
  <2> QED BY Zenon, <2>1, <2>2
<1>7. WalkInv'
  BY Zenon, <1>6 DEF WalkInv
<1>8. FrameInv'
  <2>1. ASSUME NEW b \in Areas, NEW v \in Vpns
        PROVE  HasFrame(b, v)' <=> HasFrame(b, v)
    <3>1. CASE b = a
      BY <1>1, <1>6, <3>1, Zenon DEF HasFrame, PagesOf
    <3>2. CASE b # a
      BY <1>1, <1>6, <3>2, Zenon DEF HasFrame, PagesOf
    <3> QED BY Zenon, <3>1, <3>2
  <2>2. \A b \in Areas, v \in Vpns : Pending(b, v) => Pending(b, v)'
    BY Zenon, <1>1 DEF Pending
  <2> QED BY Zenon, <1>1, <1>2, <1>4, <2>1, <2>2, KeepFrames DEF RunInv
<1>9. SpaceInv'
  <2>1. SpaceInv
    BY Zenon, <1>2 DEF RunInv
  <2>2. \A v \in Vpns : Claimed(v)' <=> Claimed(v)
    BY <1>1, <1>5, <1>6, Zenon DEF Claimed, PagesOf
  <2>3. areas' \subseteq Areas
    BY <1>1, <2>1, Zenon DEF SpaceInv
  <2>4. \A b \in areas' : \A v \in Vpns : v \in PagesOf(b) => v \notin InProgress'
    BY <1>1, <1>6, <2>1, Zenon DEF SpaceInv
  <2>5. \A b, c \in areas' : \A v \in Vpns : v \in PagesOf(b) /\ v \in PagesOf(c) => b = c
    BY <1>1, <2>1, Zenon DEF SpaceInv
  <2> QED BY <1>4, <2>1, <2>2, <2>3, <2>4, <2>5, Zenon DEF SpaceInv, PagesOf
<1>10. EntryStep
  BY Zenon, <1>4 DEF EntryStep
<1> QED BY Zenon, <1>3, <1>6, <1>7, <1>8, <1>9, <1>10 DEF MsInv, RunInv, UnmapNeverPanics

\* Writes to frames that are no table pages change no translation.
LEMMA OtherFrames ==
  ASSUME TableInv, UNCHANGED <<root_ppn, frames>>, mem' \in Memory,
         \A f \in frames : mem'[f] = mem[f]
  PROVE  TableInv' /\ \A v \in Vpns : Entry(v)' = Entry(v)
<1>1. /\ Tree(mem', root_ppn, frames)
      /\ \A i, j, k \in Idx : LeafAt(mem', root_ppn, i, j, k) = LeafAt(mem, root_ppn, i, j, k)
  <2>1. Tree(mem, root_ppn, frames)
    BY Zenon DEF TableInv
  <2> QED BY <2>1, OutsideTree, SMTT(30)
<1>2. root_ppn' = root_ppn /\ frames' = frames
  OBVIOUS
<1>3. TableInv'
  <2>1. Tree(mem', root_ppn', frames')
    BY <1>1, <1>2, Zenon
  <2> QED BY <1>2, <2>1, Zenon DEF TableInv
<1>4. ASSUME NEW v \in Vpns PROVE Entry(v)' = Entry(v)
  <2>1. indexes(v)[1] \in Idx /\ indexes(v)[2] \in Idx /\ indexes(v)[3] \in Idx
    BY Zenon, IndexesDetermine
  <2>2. Entry(v)' = LeafAt(mem', root_ppn', indexes(v)[1], indexes(v)[2], indexes(v)[3])
    BY <1>3, LeafEntriesNext, Zenon DEF EntriesAreLeaves
  <2>3. Entry(v) = LeafAt(mem, root_ppn, indexes(v)[1], indexes(v)[2], indexes(v)[3])
    BY LeafEntries, Zenon DEF EntriesAreLeaves
  <2> QED BY <1>1, <1>2, <2>1, <2>2, <2>3
<1> QED BY Zenon, <1>3, <1>4

\* FrameTracker::new clears a frame nobody else has.
LEMMA ClearsFrame ==
  ASSUME RunInv, OwnersDisjoint, panic = "no", frame_alloc, CanAlloc
  PROVE  /\ NextFrame \in AllFrames /\ NextFrame \in Nat /\ NextFrame \notin frames
         /\ NextFrame \notin trackers /\ trackers' = trackers \cup {NextFrame}
         /\ AllocInv' /\ panic' = "no"
         /\ Owned(frames, data_frames, trackers)
         /\ Cleared \in Memory /\ Cleared[NextFrame] = ZeroPage
         /\ \A f \in AllFrames : f # NextFrame => Cleared[f] = mem[f]
<1>1. /\ AllocInv' /\ panic' = "no" /\ NextFrame \in AllFrames \ trackers
      /\ trackers' = trackers \cup {NextFrame}
  BY Zenon, TakeFrame DEF RunInv
<1>2. Owned(frames, data_frames, trackers)
  BY Zenon, OwnersOwned
<1>3. frames \subseteq trackers
  BY <1>2, Zenon DEF Owned
<1>4. NextFrame \in Nat
  BY <1>1, RangeNat DEF AllFrames
<1>5. mem \in Memory /\ ZeroPage \in [Idx -> Word]
  BY Zenon, PagesOfWords DEF RunInv, TableInv
<1>6. /\ Cleared \in Memory /\ Cleared[NextFrame] = ZeroPage
      /\ \A f \in AllFrames : f # NextFrame => Cleared[f] = mem[f]
  <2>1. Cleared = [mem EXCEPT ![NextFrame] = ZeroPage]
    BY Zenon DEF Cleared
  <2> QED BY Zenon, <1>1, <1>5, <2>1 DEF Memory
<1> QED BY <1>1, <1>2, <1>3, <1>4, <1>6, Zenon

\* A failed allocation changes nothing but panic.
LEMMA FailedStep ==
  ASSUME OwnersDisjoint, panic = "no", frame_alloc, ~CanAlloc,
         UNCHANGED <<mem, root_ppn, frames, data_frames>>
  PROVE  MsInv' /\ EntryStep
<1>1. panic' = "out of frames" /\ trackers' = trackers
  BY Zenon, NoFrame
<1>2. OwnersDisjoint'
  BY Zenon, <1>1, SameOwners
<1>3. EntryStep
  BY Zenon, SameEntries DEF EntryStep
<1> QED BY Zenon, <1>1, <1>2, <1>3 DEF MsInv, UnmapNeverPanics

LEMMA MapOneStep ==
  ASSUME MsInv, map_one
  PROVE  MsInv' /\ EntryStep
<1>1. /\ panic = "no" /\ job.op = "map_one"
      /\ root_ppn' = root_ppn /\ frames' = frames /\ areas' = areas
  BY Zenon DEF map_one, At
<1>2. RunInv /\ OwnersDisjoint
  BY Zenon, <1>1 DEF MsInv
<1>a. PICK a \in Areas \ areas : \E v \in PagesOf(a) :
        job = [op |-> "map_one", area |-> a, vpn |-> v]
  <2>1. JobInv /\ job.op # "idle"
    BY Zenon, <1>1, <1>2 DEF RunInv
  <2> QED BY <1>1, <2>1, JobShape, Zenon
<1>3. PICK v \in PagesOf(a) : job = [op |-> "map_one", area |-> a, vpn |-> v]
  BY Zenon, <1>a
<1>4. /\ job.area = a /\ job.vpn = v /\ a \in Areas /\ a \notin areas
      /\ v \in Vpns /\ v \in Nat /\ a.start \in Nat /\ a.start <= v
      /\ a.kind \in {"Linear", "Framed"} /\ a.ppn \in Nat
  BY Zenon, <1>3, AreaFacts
<1>5. /\ InProgress = a.start .. v - 1 /\ JobPages = a.start .. v - 1
      /\ \A b \in Areas, w \in Vpns : ~Pending(b, w)
  BY Zenon, <1>1, <1>4 DEF InProgress, JobPages, Pending
<1>6. ASSUME NEW p \in Nat, p \in PhysPages,
             job' = [op |-> "find_pte_create", area |-> job.area, vpn |-> job.vpn,
                     ppn |-> p, level |-> 1, table |-> root_ppn]
      PROVE  /\ InProgress' = InProgress /\ JobPages' = JobPages \cup {v}
             /\ job'.op = "find_pte_create" /\ job'.area = a /\ job'.vpn = v
             /\ JobInv'
             /\ (a.kind = "Framed" => p = data_frames'[<<a, v>>]) => WalkInv'
  <2>1. job' = [op |-> "find_pte_create", area |-> a, vpn |-> v,
                ppn |-> p, level |-> 1, table |-> root_ppn]
    BY Zenon, <1>4, <1>6
  <2>2. /\ job'.op = "find_pte_create" /\ job'.area = a /\ job'.vpn = v
        /\ job'.level = 1 /\ job'.table = root_ppn /\ job'.ppn = p
    BY Zenon, <2>1
  <2>3. InProgress' = a.start .. v - 1 /\ JobPages' = a.start .. v
    BY Zenon, <2>2 DEF InProgress, JobPages
  <2>4. a.start .. v = (a.start .. v - 1) \cup {v}
    BY <1>4
  <2>5. JobInv'
    <3>1. root_ppn \in frames'
      BY <1>1, <1>2, Zenon DEF RunInv, TableInv, Tree
    <3>2. 1 \in 1 .. 3 /\ a \in Areas \ areas' /\ v \in PagesOf(a)'
      BY <1>1, <1>3 DEF PagesOf
    <3> QED BY Zenon, <2>1, <3>1, <3>2 DEF JobInv
  <2>6. (a.kind = "Framed" => p = data_frames'[<<a, v>>]) => WalkInv'
    <3>1. PhysPages' = PhysPages
      BY Zenon DEF PhysPages, AllFrames
    <3> QED BY <1>1, <1>6, <2>2, <3>1, SMTT(30) DEF WalkInv
  <2> QED BY <1>5, <2>2, <2>3, <2>4, <2>5, <2>6, Zenon
<1>7. CASE a.kind = "Linear"
  <2>1. /\ UNCHANGED <<mem, data_frames>> /\ UNCHANGED allocVars
        /\ job' = [op |-> "find_pte_create", area |-> job.area, vpn |-> job.vpn,
                   ppn |-> a.ppn + (v - a.start), level |-> 1, table |-> root_ppn]
    BY Zenon, <1>4, <1>7 DEF map_one
  <2>2. /\ InProgress' = InProgress /\ JobPages' = JobPages \cup {v}
        /\ job'.op = "find_pte_create" /\ job'.area = a /\ job'.vpn = v
        /\ JobInv' /\ WalkInv'
    <3>1. a.ppn + (v - a.start) \in Nat
          /\ a.ppn + (v - a.start) \in a.ppn .. a.ppn + (a.end - a.start)
      BY <1>3, <1>4, AreaFacts
    <3>2. a.ppn + (v - a.start) \in PhysPages
      BY <1>4, <3>1, Zenon DEF PhysPages
    <3> QED BY Zenon, <1>6, <1>7, <2>1, <3>1, <3>2
  <2>3. \A w : Entry(w)' = Entry(w)
    BY Zenon, <1>1, <2>1, SameEntries
  <2>4. AllocInv' /\ TableInv' /\ OwnersDisjoint' /\ panic' = "no"
    <3>1. panic' = panic /\ trackers' = trackers
      BY Zenon, <2>1 DEF allocVars
    <3> QED BY Zenon, <1>1, <1>2, <2>1, <3>1, SameAlloc, SameTables, SameOwners DEF RunInv
  <2>5. FrameInv'
    <3>1. \A b \in Areas, w \in Vpns : HasFrame(b, w)' <=> HasFrame(b, w)
      BY <1>1, <1>4, <1>7, <2>2, Zenon DEF HasFrame, PagesOf
    <3>2. \A b \in Areas, w \in Vpns : Pending(b, w) => Pending(b, w)'
      BY Zenon, <1>5
    <3> QED BY Zenon, <1>2, <2>1, <2>3, <3>1, <3>2, KeepFrames DEF RunInv
  <2>6. SpaceInv'
    BY Zenon, <1>1, <1>2, <2>2, <2>3, KeepSpace DEF RunInv
  <2>7. EntryStep
    BY Zenon, <2>3 DEF EntryStep
  <2> QED BY Zenon, <2>2, <2>4, <2>5, <2>6, <2>7 DEF MsInv, RunInv, UnmapNeverPanics
<1>8. CASE a.kind = "Framed" /\ ~CanAlloc
  <2>1. frame_alloc /\ UNCHANGED <<mem, data_frames>>
    BY Zenon, <1>4, <1>8 DEF map_one
  <2> QED BY Zenon, <1>1, <1>2, <1>8, <2>1, FailedStep
<1>9. CASE a.kind = "Framed" /\ CanAlloc
  <2> DEFINE key == <<a, v>>
  <2>1. /\ frame_alloc /\ mem' = Cleared
        /\ job' = [op |-> "find_pte_create", area |-> job.area, vpn |-> job.vpn,
                   ppn |-> NextFrame, level |-> 1, table |-> root_ppn]
        /\ data_frames' = [w \in DOMAIN data_frames \cup {key} |->
                             IF w = key THEN NextFrame ELSE data_frames[w]]
    BY Zenon, <1>4, <1>9 DEF map_one
  <2>2. /\ NextFrame \in Nat /\ NextFrame \in AllFrames /\ NextFrame \notin frames
        /\ NextFrame \notin trackers /\ trackers' = trackers \cup {NextFrame}
        /\ AllocInv' /\ panic' = "no"
        /\ Owned(frames, data_frames, trackers)
        /\ Cleared \in Memory
        /\ \A f \in AllFrames : f # NextFrame => Cleared[f] = mem[f]
    BY Zenon, <1>1, <1>2, <1>9, <2>1, ClearsFrame
  <2>3. /\ DOMAIN data_frames' = DOMAIN data_frames \cup {key}
        /\ data_frames'[key] = NextFrame
        /\ \A w \in DOMAIN data_frames : w # key => data_frames'[w] = data_frames[w]
    BY <2>1, Zenon
  <2>4. /\ InProgress' = InProgress /\ JobPages' = JobPages \cup {v}
        /\ job'.op = "find_pte_create" /\ job'.area = a /\ job'.vpn = v
        /\ JobInv' /\ WalkInv'
    <3>1. NextFrame \in PhysPages
      BY <2>2, Zenon DEF PhysPages
    <3> QED BY Zenon, <1>6, <2>1, <2>2, <2>3, <3>1
  <2>5. TableInv' /\ \A w \in Vpns : Entry(w)' = Entry(w)
    <3>1. \A f \in frames : mem'[f] = mem[f]
      BY <1>2, <2>1, <2>2, Zenon DEF RunInv, TableInv
    <3> QED BY Zenon, <1>1, <1>2, <2>1, <2>2, <3>1, OtherFrames DEF RunInv
  <2>6. FrameInv
    BY Zenon, <1>2 DEF RunInv
  <2>7. ~HasFrame(a, v) /\ key \notin DOMAIN data_frames
    <3>1. v \notin JobPages
      BY <1>4, <1>5
    <3>2. ~HasFrame(a, v)
      BY <1>4, <3>1, Zenon DEF HasFrame
    <3> QED BY <1>4, <2>6, <3>2, Zenon DEF FrameInv
  <2>8. OwnersDisjoint'
    <3>1. Owned(frames', data_frames', trackers')
      <4>1. Owned(frames, data_frames', trackers \cup {NextFrame})
        <5> HIDE DEF key
        <5>1. \A w \in DOMAIN data_frames : data_frames'[w] = data_frames[w]
          BY <2>3, <2>7, Zenon
        <5> QED BY Zenon, <2>2, <2>3, <2>7, <5>1, OwnPage
      <4> QED BY Zenon, <1>1, <2>2, <4>1
    <3> QED BY Zenon, <3>1, OwnersOwnedNext
  <2>9. FrameInv'
    <3> HIDE DEF key
    <3>1. ASSUME NEW b \in Areas, NEW w \in Vpns
          PROVE  HasFrame(b, w)' <=> HasFrame(b, w) \/ (b = a /\ w = v)
      BY <1>1, <1>4, <1>9, <2>4, Zenon DEF HasFrame, PagesOf
    <3>2. ASSUME NEW b \in Areas, NEW w \in Vpns
          PROVE  <<b, w>> = key <=> b = a /\ w = v
      BY Zenon DEF key
    <3>3. ASSUME NEW b \in Areas, NEW w \in Vpns
          PROVE  <<b, w>> \in DOMAIN data_frames' <=> HasFrame(b, w)'
      BY <2>3, <2>6, <3>1, <3>2, Zenon DEF FrameInv
    <3>4. ASSUME NEW b \in Areas, NEW w \in Vpns, <<b, w>> \in DOMAIN data_frames',
                 ~Pending(b, w)'
          PROVE  Entry(w)' = Leaf(data_frames'[<<b, w>>], b.perm)
      <4>1. ~(b = a /\ w = v)
        BY <2>4, <3>4, Zenon DEF Pending
      <4>2. <<b, w>> \in DOMAIN data_frames /\ <<b, w>> # key
        BY <2>3, <3>2, <3>4, <4>1, Zenon
      <4>3. Entry(w) = Leaf(data_frames[<<b, w>>], b.perm)
        BY <1>5, <2>6, <4>2, Zenon DEF FrameInv
      <4> QED BY <2>3, <2>5, <4>2, <4>3, Zenon
    <3>5. DOMAIN data_frames' \subseteq Areas \X Vpns
      <4>1. key \in Areas \X Vpns
        BY Zenon, <1>4 DEF key
      <4> QED BY <2>3, <2>6, <4>1, Zenon DEF FrameInv
    <3> QED BY <3>3, <3>4, <3>5, Zenon DEF FrameInv
  <2>10. SpaceInv'
    BY Zenon, <1>1, <1>2, <2>4, <2>5, KeepSpace DEF RunInv
  <2>11. EntryStep
    BY Zenon, <2>5 DEF EntryStep
  <2> QED BY Zenon, <2>2, <2>4, <2>5, <2>8, <2>9, <2>10, <2>11 DEF MsInv, RunInv, UnmapNeverPanics
<1> QED BY Zenon, <1>4, <1>7, <1>8, <1>9

\* The same leaves, on another set of table pages: no translation changes.
LEMMA SameLeaves ==
  ASSUME TableInv, TableInv', root_ppn' = root_ppn,
         \A i, j, k \in Idx : LeafAt(mem', root_ppn, i, j, k) = LeafAt(mem, root_ppn, i, j, k)
  PROVE  \A v \in Vpns : Entry(v)' = Entry(v)
<1> SUFFICES ASSUME NEW v \in Vpns PROVE Entry(v)' = Entry(v)
  OBVIOUS
<1>1. indexes(v)[1] \in Idx /\ indexes(v)[2] \in Idx /\ indexes(v)[3] \in Idx
  BY Zenon, IndexesDetermine
<1>2. Entry(v)' = LeafAt(mem', root_ppn', indexes(v)[1], indexes(v)[2], indexes(v)[3])
  BY LeafEntriesNext, Zenon DEF EntriesAreLeaves
<1>3. Entry(v) = LeafAt(mem, root_ppn, indexes(v)[1], indexes(v)[2], indexes(v)[3])
  BY LeafEntries, Zenon DEF EntriesAreLeaves
<1> QED BY Zenon, <1>1, <1>2, <1>3

LEMMA FindPteCreateStep ==
  ASSUME MsInv, find_pte_create
  PROVE  MsInv' /\ EntryStep
<1>1. /\ panic = "no" /\ job.op = "find_pte_create" /\ job.level < 3
      /\ root_ppn' = root_ppn /\ areas' = areas /\ data_frames' = data_frames
  BY Zenon DEF find_pte_create, At
<1>2. RunInv /\ OwnersDisjoint
  BY Zenon, <1>1 DEF MsInv
<1>a. PICK a \in Areas \ areas : \E v \in PagesOf(a), p \in Nat, l \in 1 .. 3, t \in frames :
        job = [op |-> "find_pte_create", area |-> a, vpn |-> v, ppn |-> p,
               level |-> l, table |-> t]
  <2>1. JobInv /\ job.op # "idle"
    BY Zenon, <1>1, <1>2 DEF RunInv
  <2> QED BY <1>1, <2>1, JobShape, Zenon
<1>3. PICK v \in PagesOf(a), p \in Nat, l \in 1 .. 3, t \in frames :
        job = [op |-> "find_pte_create", area |-> a, vpn |-> v, ppn |-> p,
               level |-> l, table |-> t]
  BY Zenon, <1>a
<1> DEFINE i == indexes(v)[1]
           j == indexes(v)[2]
           x == indexes(v)[l]
<1>4. /\ job.area = a /\ job.vpn = v /\ job.ppn = p /\ job.level = l /\ job.table = t
      /\ a \in Areas /\ a \notin areas /\ v \in Vpns /\ l \in {1, 2}
  BY <1>1, <1>3, AreaFacts
<1>5. i \in Idx /\ j \in Idx /\ x \in Idx /\ (l = 1 => x = i) /\ (l = 2 => x = j)
  BY Zenon, <1>4, IndexesDetermine
<1> HIDE DEF i, j, x
<1>6. /\ mem \in Memory /\ frames \subseteq AllFrames /\ Tree(mem, root_ppn, frames)
      /\ t \in AllFrames
  BY <1>2, Zenon DEF RunInv, TableInv
<1>7. /\ l = 1 => t = root_ppn
      /\ l = 2 => Valid(mem, root_ppn, i) /\ t = Child(mem, root_ppn, i)
      /\ a.kind = "Framed" => p = data_frames[<<a, v>>]
      /\ p \in PhysPages
  BY Zenon, <1>1, <1>2, <1>4 DEF RunInv, WalkInv, i
<1>8. mem[t][x].v \in BOOLEAN /\ (Valid(mem, t, x) <=> mem[t][x].v = TRUE)
  BY Zenon, <1>5, <1>6, WordFacts DEF Valid
<1>9. ASSUME NEW f, f \in frames', job' = [job EXCEPT !.level = @ + 1, !.table = f]
      PROVE  /\ JobInv' /\ InProgress' = InProgress
             /\ \A b \in Areas, w \in Vpns : HasFrame(b, w)' <=> HasFrame(b, w)
             /\ \A b \in Areas, w \in Vpns : Pending(b, w) => Pending(b, w)'
             /\ /\ l = 1 => Valid(mem', root_ppn, i) /\ f = Child(mem', root_ppn, i)
                /\ l = 2 => Exists(mem', root_ppn, i, j) /\ f = Lowest(mem', root_ppn, i, j)
                => WalkInv'
  <2>1. job' = [op |-> "find_pte_create", area |-> a, vpn |-> v, ppn |-> p,
                level |-> l + 1, table |-> f]
    BY Zenon, <1>3, <1>9
  <2>2. /\ job'.op = "find_pte_create" /\ job'.area = a /\ job'.vpn = v
        /\ job'.level = l + 1 /\ job'.table = f /\ job'.ppn = p
    BY Zenon, <2>1
  <2>3. InProgress' = InProgress /\ JobPages' = JobPages
    BY Zenon, <1>1, <1>4, <2>2 DEF InProgress, JobPages
  <2>4. JobInv'
    <3>1. l + 1 \in 1 .. 3 /\ a \in Areas \ areas' /\ v \in PagesOf(a)'
      BY <1>1, <1>3, <1>4 DEF PagesOf
    <3>2. \E q \in Nat, m \in 1 .. 3, u \in frames' :
            job' = [op |-> "find_pte_create", area |-> a, vpn |-> v, ppn |-> q,
                    level |-> m, table |-> u]
      BY <1>9, <2>1, <3>1, Zenon
    <3> QED BY <3>1, <3>2, Zenon DEF JobInv
  <2>5. \A b \in Areas, w \in Vpns : HasFrame(b, w)' <=> HasFrame(b, w)
    BY <1>1, <1>4, <2>2, <2>3, Zenon DEF HasFrame, PagesOf
  <2>6. \A b \in Areas, w \in Vpns : Pending(b, w) => Pending(b, w)'
    BY <1>4, <2>2, Zenon DEF Pending
  <2>7. ASSUME /\ l = 1 => Valid(mem', root_ppn, i) /\ f = Child(mem', root_ppn, i)
               /\ l = 2 => Exists(mem', root_ppn, i, j) /\ f = Lowest(mem', root_ppn, i, j)
        PROVE  WalkInv'
    <3>1. /\ job'.level # 1
          /\ job'.level = 2 => l = 1
          /\ job'.level = 3 => l = 2
      BY <1>4, <2>2
    <3>2. /\ job'.level = 2 => Valid(mem', root_ppn', i) /\ f = Child(mem', root_ppn', i)
          /\ job'.level = 3 => Exists(mem', root_ppn', i, j) /\ f = Lowest(mem', root_ppn', i, j)
      BY Zenon, <1>1, <2>7, <3>1
    <3>3. /\ a.kind = "Framed" => job'.ppn = data_frames'[<<a, v>>]
          /\ job'.ppn \in PhysPages'
      BY Zenon, <1>1, <1>7, <2>2 DEF PhysPages, AllFrames
    <3>4. indexes(job'.vpn)[1] = i /\ indexes(job'.vpn)[2] = j
      BY Zenon, <2>2 DEF i, j
    <3> QED BY <2>2, <3>1, <3>2, <3>3, <3>4, Zenon DEF WalkInv
  <2> QED BY <2>3, <2>4, <2>5, <2>6, <2>7, Zenon
<1>10. CASE Valid(mem, t, x)
  <2>1. /\ job' = [job EXCEPT !.level = @ + 1, !.table = Child(mem, t, x)]
        /\ UNCHANGED <<mem, frames>> /\ UNCHANGED allocVars
    BY Zenon, <1>4, <1>8, <1>10 DEF find_pte_create, Child, x
  <2>2. /\ l = 1 => Valid(mem, root_ppn, i) /\ Child(mem, t, x) = Child(mem, root_ppn, i)
        /\ l = 2 => Exists(mem, root_ppn, i, j) /\ Child(mem, t, x) = Lowest(mem, root_ppn, i, j)
    BY <1>5, <1>7, <1>10, Zenon DEF Exists, Lowest
  <2>3. Child(mem, t, x) \in frames
    <3>1. l = 1 => Child(mem, t, x) \in frames
      BY <1>5, <1>6, <2>2, Zenon DEF Tree
    <3>2. l = 2 => Child(mem, t, x) \in frames
      BY <1>5, <1>6, <2>2, SMTT(30) DEF Tree
    <3> QED BY Zenon, <1>4, <3>1, <3>2
  <2>4. /\ JobInv' /\ WalkInv' /\ InProgress' = InProgress
        /\ \A b \in Areas, w \in Vpns : HasFrame(b, w)' <=> HasFrame(b, w)
        /\ \A b \in Areas, w \in Vpns : Pending(b, w) => Pending(b, w)'
    <3>1. Child(mem, t, x) \in frames' /\ mem' = mem
      BY Zenon, <2>1, <2>3
    <3> QED BY Zenon, <1>9, <2>1, <2>2, <3>1
  <2>5. \A w : Entry(w)' = Entry(w)
    BY Zenon, <1>1, <2>1, SameEntries
  <2>6. AllocInv' /\ TableInv' /\ OwnersDisjoint' /\ panic' = "no"
    <3>1. panic' = panic /\ trackers' = trackers
      BY Zenon, <2>1 DEF allocVars
    <3> QED BY Zenon, <1>1, <1>2, <2>1, <3>1, SameAlloc, SameTables, SameOwners DEF RunInv
  <2>7. FrameInv'
    BY Zenon, <1>1, <1>2, <2>4, <2>5, KeepFrames DEF RunInv
  <2>8. SpaceInv'
    BY Zenon, <1>1, <1>2, <2>4, <2>5, KeepSpace DEF RunInv
  <2>9. EntryStep
    BY Zenon, <2>5 DEF EntryStep
  <2> QED BY Zenon, <2>4, <2>6, <2>7, <2>8, <2>9 DEF MsInv, RunInv, UnmapNeverPanics
<1>11. CASE ~Valid(mem, t, x) /\ ~CanAlloc
  <2>1. frame_alloc /\ UNCHANGED <<mem, frames>>
    BY Zenon, <1>4, <1>8, <1>11 DEF find_pte_create, x
  <2> QED BY Zenon, <1>1, <1>2, <1>11, <2>1, FailedStep
<1>12. CASE ~Valid(mem, t, x) /\ CanAlloc
  <2>1. /\ frame_alloc /\ frames' = frames \cup {NextFrame}
        /\ mem' = [Cleared EXCEPT ![t][x] = Table(NextFrame)]
        /\ job' = [job EXCEPT !.level = @ + 1, !.table = NextFrame]
    BY Zenon, <1>4, <1>8, <1>12 DEF find_pte_create, x
  <2>2. /\ NextFrame \in AllFrames /\ NextFrame \in Nat /\ NextFrame \notin frames
        /\ NextFrame \notin trackers /\ trackers' = trackers \cup {NextFrame}
        /\ AllocInv' /\ panic' = "no"
        /\ Owned(frames, data_frames, trackers)
        /\ Cleared \in Memory /\ Cleared[NextFrame] = ZeroPage
        /\ \A f \in AllFrames : f # NextFrame => Cleared[f] = mem[f]
    BY Zenon, <1>1, <1>2, <1>12, <2>1, ClearsFrame
  <2>3. /\ mem' \in Memory /\ mem'[NextFrame] = ZeroPage
        /\ mem'[t][x] = Table(NextFrame)
        /\ \A h \in Idx : h # x => mem'[t][h] = mem[t][h]
        /\ \A u \in frames : u # t => mem'[u] = mem[u]
    <3> DEFINE C == Cleared
               T == Table(NextFrame)
    <3>1. T \in Word /\ C \in [AllFrames -> [Idx -> Word]]
      BY Zenon, <2>2, Words DEF Memory
    <3>2. t \in AllFrames /\ x \in Idx /\ t # NextFrame /\ C[t] = mem[t]
          /\ C[NextFrame] = ZeroPage /\ frames \subseteq AllFrames
          /\ \A f \in AllFrames : f # NextFrame => C[f] = mem[f]
      BY Zenon, <1>5, <1>6, <2>2
    <3>3. mem' = [C EXCEPT ![t][x] = T]
      BY Zenon, <2>1
    <3> HIDE DEF C, T
    <3>4. /\ mem' \in [AllFrames -> [Idx -> Word]] /\ mem'[NextFrame] = C[NextFrame]
          /\ mem'[t][x] = T
          /\ \A h \in Idx : h # x => mem'[t][h] = C[t][h]
          /\ \A u \in AllFrames : u # t => mem'[u] = C[u]
      BY Zenon, <2>2, <3>1, <3>2, <3>3
    <3>5. \A u \in frames : u # t => mem'[u] = mem[u]
      BY <2>2, <3>2, <3>4, Zenon
    <3> QED BY Zenon, <3>2, <3>4, <3>5 DEF C, T, Memory
  <2>4. /\ Tree(mem', root_ppn, frames \cup {NextFrame})
        /\ \A g, h, k \in Idx : LeafAt(mem', root_ppn, g, h, k) = LeafAt(mem, root_ppn, g, h, k)
    <3>1. CASE l = 1
      <4>1. t = root_ppn /\ x = i
        BY Zenon, <1>5, <1>7, <3>1
      <4>2. /\ i \in Idx /\ Tree(mem, root_ppn, frames) /\ ~Valid(mem, root_ppn, i)
            /\ NextFrame \notin frames /\ mem'[NextFrame] = ZeroPage
            /\ mem'[root_ppn][i] = Table(NextFrame)
            /\ \A h \in Idx : h # i => mem'[root_ppn][h] = mem[root_ppn][h]
            /\ \A u \in frames : u # root_ppn => mem'[u] = mem[u]
        BY Zenon, <1>5, <1>6, <1>12, <2>2, <2>3, <4>1
      <4>3. Linked(mem, mem', frames, root_ppn, i, NextFrame)
        BY <4>2, Zenon DEF Linked
      <4>4. Grown(mem, mem', root_ppn, frames, NextFrame)
        BY <4>2, <4>3, NewMiddle, Zenon
      <4> QED BY <4>4, Zenon DEF Grown
    <3>2. CASE l = 2
      <4>1. Valid(mem, root_ppn, i) /\ t = Child(mem, root_ppn, i) /\ x = j
        BY Zenon, <1>5, <1>7, <3>2
      <4>2. /\ i \in Idx /\ j \in Idx /\ Tree(mem, root_ppn, frames)
            /\ Valid(mem, root_ppn, i) /\ t = Child(mem, root_ppn, i) /\ ~Valid(mem, t, j)
            /\ NextFrame \notin frames /\ mem'[NextFrame] = ZeroPage
            /\ mem'[t][j] = Table(NextFrame)
            /\ \A h \in Idx : h # j => mem'[t][h] = mem[t][h]
            /\ \A u \in frames : u # t => mem'[u] = mem[u]
        BY Zenon, <1>5, <1>6, <1>12, <2>2, <2>3, <4>1
      <4>3. Linked(mem, mem', frames, t, j, NextFrame)
        BY <4>2, Zenon DEF Linked
      <4>4. Grown(mem, mem', root_ppn, frames, NextFrame)
        BY <4>2, <4>3, NewLowest, Zenon
      <4> QED BY <4>4, Zenon DEF Grown
    <3> QED BY Zenon, <1>4, <3>1, <3>2
  <2>5. TableInv'
    <3>1. Tree(mem', root_ppn', frames')
      BY Zenon, <1>1, <2>1, <2>4
    <3>2. frames' \subseteq AllFrames
      BY Zenon, <1>6, <2>1, <2>2
    <3> QED BY <2>3, <3>1, <3>2, Zenon DEF TableInv
  <2>6. \A w \in Vpns : Entry(w)' = Entry(w)
    BY Zenon, <1>1, <1>2, <2>4, <2>5, SameLeaves DEF RunInv
  <2>7. /\ l = 1 => Valid(mem', root_ppn, i) /\ NextFrame = Child(mem', root_ppn, i)
        /\ l = 2 => /\ Exists(mem', root_ppn, i, j)
                    /\ NextFrame = Lowest(mem', root_ppn, i, j)
    <3>1. Valid(mem', t, x) /\ Child(mem', t, x) = NextFrame
      BY <2>3, Pointer
    <3>2. l = 1 => Valid(mem', root_ppn, i) /\ NextFrame = Child(mem', root_ppn, i)
      BY Zenon, <1>5, <1>7, <3>1
    <3>3. ASSUME l = 2
          PROVE  Exists(mem', root_ppn, i, j) /\ NextFrame = Lowest(mem', root_ppn, i, j)
      <4>1. Valid(mem, root_ppn, i) /\ t = Child(mem, root_ppn, i) /\ x = j
        BY Zenon, <1>5, <1>7, <3>3
      <4>2. root_ppn \in frames /\ root_ppn # t
        BY <1>5, <1>6, <4>1, Zenon DEF Tree
      <4>3. mem'[root_ppn] = mem[root_ppn]
        BY Zenon, <2>3, <4>2
      <4>4. Valid(mem', root_ppn, i) /\ Child(mem', root_ppn, i) = t
        BY <4>1, <4>3 DEF Valid, Child
      <4> QED BY Zenon, <3>1, <4>1, <4>4 DEF Exists, Lowest
    <3> QED BY Zenon, <3>2, <3>3
  <2>8. /\ JobInv' /\ WalkInv' /\ InProgress' = InProgress
        /\ \A b \in Areas, w \in Vpns : HasFrame(b, w)' <=> HasFrame(b, w)
        /\ \A b \in Areas, w \in Vpns : Pending(b, w) => Pending(b, w)'
    <3>1. NextFrame \in frames'
      BY Zenon, <2>1
    <3> QED BY Zenon, <1>9, <2>1, <2>7, <3>1
  <2>9. OwnersDisjoint'
    <3>1. Owned(frames \cup {NextFrame}, data_frames, trackers \cup {NextFrame})
      BY Zenon, <2>2, OwnTable
    <3>2. Owned(frames', data_frames', trackers')
      BY Zenon, <1>1, <2>1, <2>2, <3>1
    <3> QED BY Zenon, <3>2, OwnersOwnedNext
  <2>10. FrameInv'
    BY Zenon, <1>1, <1>2, <2>6, <2>8, KeepFrames DEF RunInv
  <2>11. SpaceInv'
    BY Zenon, <1>1, <1>2, <2>6, <2>8, KeepSpace DEF RunInv
  <2>12. EntryStep
    BY <2>6 DEF EntryStep
  <2> QED BY Zenon, <2>2, <2>5, <2>8, <2>9, <2>10, <2>11, <2>12 DEF MsInv, RunInv, UnmapNeverPanics
<1> QED BY Zenon, <1>10, <1>11, <1>12

\* A leaf written in slot k of an existing lowest table: the page with those
\* indexes changes its entry, and no other page does.
LEMMA OneEntry ==
  ASSUME TableInv, root_ppn' = root_ppn, frames' = frames, mem' \in Memory,
         NEW v \in Vpns, NEW t,
         Exists(mem, root_ppn, indexes(v)[1], indexes(v)[2]),
         t = Lowest(mem, root_ppn, indexes(v)[1], indexes(v)[2]),
         DiffersAt(mem, mem', frames, t, indexes(v)[3])
  PROVE  /\ TableInv' /\ Entry(v) = mem[t][indexes(v)[3]]
         /\ Entry(v)' = mem'[t][indexes(v)[3]]
         /\ \A w \in Vpns : w # v => Entry(w)' = Entry(w)
<1> DEFINE i == indexes(v)[1]
           j == indexes(v)[2]
           k == indexes(v)[3]
<1>1. i \in Idx /\ j \in Idx /\ k \in Idx /\ v = (i * Fanout + j) * Fanout + k
  BY Zenon, IndexesDetermine
<1>2. /\ Exists(mem, root_ppn, i, j) /\ t = Lowest(mem, root_ppn, i, j)
      /\ DiffersAt(mem, mem', frames, t, k) /\ Tree(mem, root_ppn, frames)
  BY Zenon DEF TableInv
<1> HIDE DEF i, j, k
<1>3. /\ Tree(mem', root_ppn, frames)
      /\ LeafAt(mem', root_ppn, i, j, k) = mem'[t][k]
      /\ \A g, h, l \in Idx : ~(g = i /\ h = j /\ l = k)
           => LeafAt(mem', root_ppn, g, h, l) = LeafAt(mem, root_ppn, g, h, l)
  <2>1. OneLeaf(mem, mem', root_ppn, frames, i, j, k, t)
    BY <1>1, <1>2, LeafWrite, Zenon
  <2> QED BY <2>1, Zenon DEF OneLeaf
<1>4. TableInv'
  <2>1. Tree(mem', root_ppn', frames') /\ frames' \subseteq AllFrames
    BY Zenon, <1>3 DEF TableInv
  <2> QED BY <2>1, Zenon DEF TableInv
<1>5. LeafAt(mem, root_ppn, i, j, k) = mem[t][k]
  BY <1>2, Zenon DEF LeafAt
<1>6. \A w \in Vpns :
        /\ Entry(w) = LeafAt(mem, root_ppn, indexes(w)[1], indexes(w)[2], indexes(w)[3])
        /\ Entry(w)' = LeafAt(mem', root_ppn', indexes(w)[1], indexes(w)[2], indexes(w)[3])
  BY <1>4, LeafEntries, LeafEntriesNext, Zenon DEF EntriesAreLeaves
<1>7. Entry(v) = mem[t][k] /\ Entry(v)' = mem'[t][k]
  BY <1>3, <1>5, <1>6 DEF i, j, k
<1>8. ASSUME NEW w \in Vpns, w # v
      PROVE  Entry(w)' = Entry(w)
  <2>1. /\ indexes(w)[1] \in Idx /\ indexes(w)[2] \in Idx /\ indexes(w)[3] \in Idx
        /\ w = (indexes(w)[1] * Fanout + indexes(w)[2]) * Fanout + indexes(w)[3]
    BY Zenon, IndexesDetermine
  <2>2. ~(indexes(w)[1] = i /\ indexes(w)[2] = j /\ indexes(w)[3] = k)
    BY <1>1, <1>8, <2>1, Zenon
  <2> QED BY Zenon, <1>3, <1>6, <2>1, <2>2
<1> QED BY Zenon, <1>4, <1>7, <1>8 DEF k

LEMMA MapStep ==
  ASSUME MsInv, map
  PROVE  MsInv' /\ EntryStep
<1>1. /\ panic = "no" /\ job.op = "find_pte_create" /\ job.level = 3
      /\ root_ppn' = root_ppn /\ frames' = frames /\ data_frames' = data_frames
      /\ UNCHANGED <<current, end, recycled, trackers>>
  BY Zenon DEF map, At
<1>2. RunInv /\ OwnersDisjoint
  BY Zenon, <1>1 DEF MsInv
<1>a. PICK a \in Areas \ areas : \E v \in PagesOf(a), p \in Nat, l \in 1 .. 3, t \in frames :
        job = [op |-> "find_pte_create", area |-> a, vpn |-> v, ppn |-> p,
               level |-> l, table |-> t]
  <2>1. JobInv /\ job.op # "idle"
    BY Zenon, <1>1, <1>2 DEF RunInv
  <2> QED BY <1>1, <2>1, JobShape, Zenon
<1>3. PICK v \in PagesOf(a), p \in Nat, l \in 1 .. 3, t \in frames :
        job = [op |-> "find_pte_create", area |-> a, vpn |-> v, ppn |-> p,
               level |-> l, table |-> t]
  BY Zenon, <1>a
<1> DEFINE k == indexes(v)[3]
<1>4. /\ job.area = a /\ job.vpn = v /\ job.ppn = p /\ job.table = t
      /\ a \in Areas /\ a \notin areas /\ v \in Vpns /\ v \in Nat
      /\ a.start \in Nat /\ a.end \in Nat /\ a.data \in Nat
      /\ a.start <= v /\ v < a.end /\ a.perm \in Perms
  BY Zenon, <1>1, <1>3, AreaFacts
<1>5. k \in Idx
  BY Zenon, <1>4, IndexesDetermine
<1>6. /\ mem \in Memory /\ frames \subseteq AllFrames /\ t \in AllFrames /\ TableInv
  BY <1>2, Zenon DEF RunInv, TableInv
<1>7. /\ Exists(mem, root_ppn, indexes(v)[1], indexes(v)[2])
      /\ t = Lowest(mem, root_ppn, indexes(v)[1], indexes(v)[2])
      /\ a.kind = "Framed" => p = data_frames[<<a, v>>]
      /\ p \in PhysPages
  BY Zenon, <1>1, <1>2, <1>4 DEF RunInv, WalkInv
<1>8. mem[t][k].v \in BOOLEAN
  BY Zenon, <1>5, <1>6, WordFacts
<1>9. InProgress = a.start .. v - 1 /\ JobPages = a.start .. v
  BY Zenon, <1>1, <1>4 DEF InProgress, JobPages
<1>10. CASE mem[t][k].v
  <2>1. panic' = "mapped before mapping" /\ UNCHANGED mem
    BY Zenon, <1>4, <1>10 DEF map, Assert
  <2>2. OwnersDisjoint'
    BY Zenon, <1>1, <1>2, SameOwners
  <2>3. EntryStep
    BY Zenon, <1>1, <2>1, SameEntries DEF EntryStep
  <2> QED BY Zenon, <2>1, <2>2, <2>3 DEF MsInv, UnmapNeverPanics
<1>11. CASE ~mem[t][k].v
  <2>1. /\ mem' = [mem EXCEPT ![t][k] = Leaf(p, a.perm)] /\ panic' = panic /\ NextPage
    BY Zenon, <1>4, <1>11 DEF map, Assert
  <2>2. AllocInv' /\ OwnersDisjoint' /\ panic' = "no"
    BY Zenon, <1>1, <1>2, <2>1, SameAlloc, SameOwners DEF RunInv, allocVars
  <2>3. /\ mem' \in Memory /\ mem'[t][k] = Leaf(p, a.perm)
        /\ DiffersAt(mem, mem', frames, t, k)
    <3> DEFINE L == Leaf(p, a.perm)
    <3>1. L \in Word /\ mem \in [AllFrames -> [Idx -> Word]]
      BY Zenon, <1>4, <1>6, Words DEF Memory
    <3>2. mem' = [mem EXCEPT ![t][k] = L]
      BY Zenon, <2>1
    <3> HIDE DEF L, k
    <3>3. /\ mem' \in [AllFrames -> [Idx -> Word]] /\ mem'[t][k] = L
          /\ \A h \in Idx : h # k => mem'[t][h] = mem[t][h]
          /\ \A u \in AllFrames : u # t => mem'[u] = mem[u]
      BY Zenon, <1>5, <1>6, <3>1, <3>2
    <3> QED BY Zenon, <1>6, <3>3 DEF L, Memory, DiffersAt
  <2>4. /\ TableInv' /\ Entry(v) = mem[t][k] /\ Entry(v)' = Leaf(p, a.perm)
        /\ \A w \in Vpns : w # v => Entry(w)' = Entry(w)
    <3>1. /\ Exists(mem, root_ppn, indexes(v)[1], indexes(v)[2])
          /\ t = Lowest(mem, root_ppn, indexes(v)[1], indexes(v)[2])
      BY Zenon, <1>7
    <3> QED BY <1>1, <1>4, <1>6, <2>3, <3>1, OneEntry, ZenonT(30)
  <2> HIDE DEF k
  <2>5. ~Claimed(v)
    <3>1. Entry(v).v # TRUE
      BY Zenon, <1>8, <1>11, <2>4
    <3> QED BY <1>2, <1>4, <3>1, Zenon DEF RunInv, SpaceInv
  <2>6. SpaceInv /\ FrameInv
    BY Zenon, <1>2 DEF RunInv
  <2>7. /\ JobInv' /\ job'.op # "find_pte_create"
        /\ \/ /\ areas' = areas /\ job'.op # "idle" /\ job'.area = a
              /\ InProgress' = a.start .. v /\ JobPages' = a.start .. v
           \/ /\ areas' = areas \cup {a} /\ job'.op = "idle" /\ InProgress' = {}
              /\ PagesOf(a) = a.start .. v
    <3>1. CASE v + 1 # a.end
      <4>1. /\ job' = [op |-> "map_one", area |-> a, vpn |-> v + 1] /\ areas' = areas
        BY Zenon, <1>4, <2>1, <3>1 DEF NextPage
      <4>2. v + 1 \in PagesOf(a) /\ v + 1 - 1 = v
        BY <1>4, <3>1 DEF PagesOf
      <4>3. JobInv'
        BY Zenon, <1>3, <4>1, <4>2 DEF JobInv, PagesOf
      <4>4. job'.op = "map_one" /\ job'.area = a /\ job'.vpn = v + 1
        BY Zenon, <4>1
      <4>5. InProgress' = a.start .. (v + 1) - 1 /\ JobPages' = InProgress'
        BY Zenon, <4>4 DEF InProgress, JobPages
      <4>6. a.start .. (v + 1) - 1 = a.start .. v
        BY <1>4
      <4>7. job'.op # "find_pte_create" /\ job'.op # "idle"
        BY Zenon, <4>4
      <4> QED BY <4>1, <4>3, <4>4, <4>5, <4>6, <4>7, Zenon
    <3>2. CASE v + 1 = a.end /\ a.data > 0
      <4>1. /\ job' = [op |-> "copy_data", area |-> a, vpn |-> a.start, from |-> 0]
            /\ areas' = areas
        <5>1. job.area = a /\ job.vpn + 1 = a.end /\ a.data > 0 /\ a.data # 0
          BY <1>4, <3>2
        <5> QED BY Zenon, <2>1, <5>1 DEF NextPage
      <4>2. a.start \in PagesOf(a) /\ PagesOf(a) = a.start .. v
        BY <1>4, <3>2 DEF PagesOf
      <4>3. (a.start - a.start) * Fanout = 0 /\ 0 < a.data
        BY <1>4, <3>2, MemorySetAssumption
      <4>4. JobInv'
        <5>1. job' = [op |-> "copy_data", area |-> a, vpn |-> a.start,
                      from |-> (a.start - a.start) * Fanout]
              /\ (a.start - a.start) * Fanout < a.data
          BY Zenon, <4>1, <4>3
        <5>2. a \in Areas \ areas' /\ a.start \in PagesOf(a)'
          BY Zenon, <1>3, <4>1, <4>2 DEF PagesOf
        <5> QED BY <5>1, <5>2, Zenon DEF JobInv
      <4>5. job'.op = "copy_data" /\ job'.area = a
        BY Zenon, <4>1
      <4>6. InProgress' = PagesOf(a) /\ JobPages' = PagesOf(a)
        BY Zenon, <4>5 DEF InProgress, JobPages, PagesOf
      <4> QED BY Zenon, <4>1, <4>2, <4>4, <4>5, <4>6
    <3>3. CASE v + 1 = a.end /\ ~(a.data > 0)
      <4>1. job' = Idle /\ areas' = areas \cup {a}
        <5>1. job.area = a /\ job.vpn + 1 = a.end /\ a.data = 0
          BY <1>4, <3>3
        <5> QED BY <2>1, <5>1 DEF NextPage
      <4>2. PagesOf(a) = a.start .. v
        BY <1>4, <3>3 DEF PagesOf
      <4>3. job'.op = "idle" /\ JobInv'
        BY Zenon, <4>1 DEF Idle, JobInv
      <4> QED BY Zenon, <4>1, <4>2, <4>3 DEF InProgress
    <3> QED BY Zenon, <3>1, <3>2, <3>3
  <2>8. WalkInv'
    BY Zenon, <2>7 DEF WalkInv
  <2>9. a.start .. v = InProgress \cup {v}
    BY <1>4, <1>9
  <2>10. FrameInv'
    <3>1. ASSUME NEW b \in Areas, NEW w \in Vpns
          PROVE  HasFrame(b, w)' <=> HasFrame(b, w)
      <4>1. CASE areas' = areas
        BY <1>1, <1>4, <1>9, <2>7, <4>1, Zenon DEF HasFrame, PagesOf
      <4>2. CASE areas' = areas \cup {a} /\ job'.op = "idle" /\ PagesOf(a) = a.start .. v
        BY <1>1, <1>4, <1>9, <4>2, Zenon DEF HasFrame, PagesOf
      <4> QED BY Zenon, <2>7, <4>1, <4>2
    <3>2. ASSUME NEW b \in Areas, NEW w \in Vpns
          PROVE  <<b, w>> \in DOMAIN data_frames' <=> HasFrame(b, w)'
      BY <1>1, <2>6, <3>1, Zenon DEF FrameInv
    <3>3. ASSUME NEW b \in Areas, NEW w \in Vpns, <<b, w>> \in DOMAIN data_frames'
          PROVE  Entry(w)' = Leaf(data_frames'[<<b, w>>], b.perm)
      <4>1. CASE w = v
        <5>1. HasFrame(b, v)
          BY Zenon, <3>1, <3>2, <3>3, <4>1
        <5>2. b = a /\ a.kind = "Framed"
          BY <1>4, <2>5, <5>1, Zenon DEF HasFrame, Claimed
        <5> QED BY Zenon, <1>1, <1>7, <2>4, <4>1, <5>2
      <4>2. CASE w # v
        <5>1. ~Pending(b, w)
          BY Zenon, <1>4, <4>2 DEF Pending
        <5>2. Entry(w) = Leaf(data_frames[<<b, w>>], b.perm)
          BY <1>1, <2>6, <3>3, <5>1, Zenon DEF FrameInv
        <5> QED BY Zenon, <1>1, <2>4, <4>2, <5>2
      <4> QED BY Zenon, <4>1, <4>2
    <3>4. DOMAIN data_frames' \subseteq Areas \X Vpns
      BY <1>1, <2>6, Zenon DEF FrameInv
    <3> QED BY <3>2, <3>3, <3>4, Zenon DEF FrameInv
  <2>11. SpaceInv'
    <3>1. ASSUME NEW w \in Vpns
          PROVE  Claimed(w)' <=> Claimed(w) \/ w = v
      <4>1. CASE areas' = areas
        BY <1>4, <2>7, <2>9, <4>1, Zenon DEF Claimed, PagesOf
      <4>2. CASE areas' = areas \cup {a} /\ InProgress' = {} /\ PagesOf(a) = a.start .. v
        BY <2>9, <4>2, Zenon DEF Claimed, PagesOf
      <4> QED BY Zenon, <2>7, <4>1, <4>2
    <3>2. ASSUME NEW w \in Vpns
          PROVE  Entry(w)'.v = TRUE <=> Claimed(w)'
      <4>1. CASE w = v
        <5>1. Leaf(p, a.perm).v = TRUE
          BY Zenon DEF Leaf
        <5> QED BY <2>4, <3>1, <4>1, <5>1, Zenon
      <4>2. CASE w # v
        BY <2>4, <2>6, <3>1, <4>2, Zenon DEF SpaceInv
      <4> QED BY Zenon, <4>1, <4>2
    <3>3. ASSUME NEW b \in areas, NEW w \in Vpns, w \in PagesOf(b)
          PROVE  w \notin a.start .. v
      <4>1. w \notin InProgress
        BY <2>6, <3>3, Zenon DEF SpaceInv
      <4>2. w # v
        BY <2>5, <3>3, Zenon DEF Claimed
      <4> QED BY <2>9, <4>1, <4>2, Zenon
    <3>4. areas' \subseteq Areas
      BY <1>4, <2>6, <2>7, Zenon DEF SpaceInv
    <3>5. ASSUME NEW b \in areas', NEW c \in areas', NEW w \in Vpns,
                 w \in PagesOf(b), w \in PagesOf(c)
          PROVE  b = c
      <4>1. CASE b \in areas /\ c \in areas
        BY <2>6, <3>5, <4>1, Zenon DEF SpaceInv
      <4>2. CASE b \notin areas /\ c \in areas
        BY <2>7, <3>3, <3>5, <4>2, Zenon
      <4>3. CASE b \in areas /\ c \notin areas
        BY <2>7, <3>3, <3>5, <4>3, Zenon
      <4>4. CASE b \notin areas /\ c \notin areas
        <5>1. areas' \subseteq areas \cup {a}
          BY Zenon, <2>7
        <5> QED BY <4>4, <5>1, Zenon
      <4> QED BY Zenon, <4>1, <4>2, <4>3, <4>4
    <3>6. ASSUME NEW b \in areas', NEW w \in Vpns, w \in PagesOf(b)
          PROVE  w \notin InProgress'
      <4>1. CASE areas' = areas
        <5>1. InProgress' = a.start .. v
          BY Zenon, <1>4, <2>7, <4>1
        <5> QED BY <3>3, <3>6, <4>1, <5>1, Zenon
      <4>2. CASE areas' = areas \cup {a} /\ InProgress' = {}
        BY Zenon, <4>2
      <4> QED BY Zenon, <2>7, <4>1, <4>2
    <3> QED BY <3>2, <3>4, <3>5, <3>6, Zenon DEF SpaceInv, PagesOf
  <2>12. EntryStep
    <3>1. Leaf(p, a.perm) \in Leaves
      <4>1. p \in PhysPages /\ a \in Areas
        BY Zenon, <1>4, <1>7
      <4> QED BY <4>1 DEF Leaves
    <3>2. Entry(v).v = FALSE
      BY Zenon, <1>8, <1>11, <2>4
    <3> QED BY <1>4, <2>4, <3>1, <3>2, Zenon DEF EntryStep
  <2> QED BY Zenon, <2>2, <2>4, <2>7, <2>8, <2>10, <2>11, <2>12
          DEF MsInv, RunInv, UnmapNeverPanics
<1> QED BY Zenon, <1>8, <1>10, <1>11

\* The frame that a mapped page translates to.
LEMMA TranslatesTo ==
  ASSUME NEW v, NEW f, NEW perm, Entry(v) = Leaf(f, perm)
  PROVE  translate(v)[1].ppn = f
<1>1. Leaf(f, perm).v = TRUE /\ Empty.v = FALSE /\ Leaf(f, perm).ppn = f
  BY Zenon DEF Leaf, Empty
<1>2. Entry(v) = IF translate(v) = <<>> THEN Empty ELSE translate(v)[1]
  BY Zenon DEF Entry
<1>3. translate(v) # <<>>
  BY Zenon, <1>1, <1>2
<1>4. translate(v)[1] = Leaf(f, perm)
  BY <1>2, <1>3, Zenon
<1> QED BY <1>1, <1>4, Zenon

\* While there is data left after a page of it, there is a page left to put it in.
LEMMA DataFits ==
  ASSUME NEW s \in Nat, NEW e \in Nat, NEW v \in Nat, NEW d \in Nat, NEW F \in Nat \ {0},
         s <= v, v < e, d <= (e - s) * F, ~((v - s) * F + F >= d)
  PROVE  v + 1 < e /\ ((v + 1) - s) * F = (v - s) * F + F
<1>1. ((v + 1) - s) * F = (v - s) * F + F
  OBVIOUS
<1>2. CASE v + 1 = e
  BY Zenon, <1>1, <1>2
<1> QED BY <1>1, <1>2

LEMMA CopyDataStep ==
  ASSUME MsInv, copy_data
  PROVE  MsInv' /\ EntryStep
<1>1. /\ panic = "no" /\ job.op = "copy_data"
      /\ root_ppn' = root_ppn /\ frames' = frames /\ data_frames' = data_frames
      /\ UNCHANGED <<current, end, recycled, trackers>>
  BY Zenon DEF copy_data, At
<1>2. RunInv /\ OwnersDisjoint
  BY Zenon, <1>1 DEF MsInv
<1>a. PICK a \in Areas \ areas : \E v \in PagesOf(a) :
        job = [op |-> "copy_data", area |-> a, vpn |-> v, from |-> (v - a.start) * Fanout]
  <2>1. JobInv /\ job.op # "idle"
    BY Zenon, <1>1, <1>2 DEF RunInv
  <2> QED BY <1>1, <2>1, JobShape, Zenon
<1>3. PICK v \in PagesOf(a) :
        job = [op |-> "copy_data", area |-> a, vpn |-> v, from |-> (v - a.start) * Fanout]
  BY Zenon, <1>a
<1> DEFINE from == (v - a.start) * Fanout
           last == from + Fanout >= a.data
<1>4. /\ job.area = a /\ job.vpn = v /\ job.from = from
      /\ a \in Areas /\ a \notin areas /\ v \in Vpns /\ v \in Nat
      /\ a.start \in Nat /\ a.end \in Nat /\ a.data \in Nat
      /\ a.start <= v /\ v < a.end /\ a.data <= (a.end - a.start) * Fanout
      /\ Fanout \in Nat \ {0}
  BY Zenon, <1>1, <1>3, AreaFacts, MemorySetAssumption
<1>5. from \in Nat
  BY <1>4
<1> HIDE DEF from
<1>6. CASE a.kind # "Framed"
  <2>1. panic' = "data for a linear area" /\ UNCHANGED mem
    BY Zenon, <1>4, <1>6 DEF copy_data
  <2>2. OwnersDisjoint'
    BY Zenon, <1>1, <1>2, SameOwners
  <2>3. EntryStep
    BY Zenon, <1>1, <2>1, SameEntries DEF EntryStep
  <2> QED BY Zenon, <2>1, <2>2, <2>3 DEF MsInv, UnmapNeverPanics
<1>7. CASE a.kind = "Framed"
  <2> DEFINE dst == translate(v)[1].ppn
             page == [i \in Idx |-> IF from + i < a.data THEN DataWord(from + i)
                                    ELSE mem[dst][i]]
  <2>1. /\ mem' = [mem EXCEPT ![dst] = page] /\ panic' = panic
        /\ job' = IF last THEN Idle ELSE [job EXCEPT !.vpn = @ + 1, !.from = @ + Fanout]
        /\ areas' = IF last THEN areas \cup {a} ELSE areas
    <3>1. mem' = [mem EXCEPT ![dst] = [i \in Idx |->
                    IF from + i < a.data THEN DataWord(from + i) ELSE @[i]]]
      BY Zenon, <1>4, <1>7 DEF copy_data
    <3>2. mem' = [mem EXCEPT ![dst] = page]
      BY Zenon, <3>1
    <3> QED BY Zenon, <1>4, <1>7, <3>2 DEF copy_data
  <2>2. InProgress = PagesOf(a) /\ JobPages = PagesOf(a)
    BY Zenon, <1>1, <1>4 DEF InProgress, JobPages
  <2>3. FrameInv /\ SpaceInv /\ TableInv
    BY Zenon, <1>2 DEF RunInv
  <2>4. <<a, v>> \in DOMAIN data_frames /\ Entry(v) = Leaf(data_frames[<<a, v>>], a.perm)
    <3>1. HasFrame(a, v) /\ ~Pending(a, v)
      BY Zenon, <1>1, <1>3, <1>4, <1>7, <2>2 DEF HasFrame, Pending
    <3> QED BY <1>4, <2>3, <3>1, Zenon DEF FrameInv
  <2>5. dst = data_frames[<<a, v>>]
    BY Zenon, <2>4, TranslatesTo
  <2>6. dst \in AllFrames /\ dst \notin frames
    <3>1. Owned(frames, data_frames, trackers)
      BY Zenon, <1>1, <1>2, OwnersOwned
    <3>2. dst \in trackers /\ dst \notin frames
      BY <2>4, <2>5, <3>1, Zenon DEF Owned
    <3> QED BY Zenon, <1>2, <3>2 DEF RunInv, AllocInv, AllocTypeOK
  <2> HIDE DEF dst
  <2>7. mem' \in Memory /\ \A f \in frames : mem'[f] = mem[f]
    <3>1. page \in [Idx -> Word]
      <4>1. ASSUME NEW i \in Idx
            PROVE  (IF from + i < a.data THEN DataWord(from + i) ELSE mem[dst][i]) \in Word
        <5>1. from + i \in Nat
          BY <1>4, <1>5 DEF Idx
        <5>2. mem[dst][i] \in Word
          BY Zenon, <2>3, <2>6, WordFacts DEF TableInv
        <5> QED BY <5>1, <5>2, Words, Zenon
      <4> QED BY Zenon, <4>1
    <3> HIDE DEF page
    <3>2. mem \in [AllFrames -> [Idx -> Word]] /\ frames \subseteq AllFrames
      BY Zenon, <2>3 DEF TableInv, Memory
    <3> QED BY Zenon, <2>1, <2>6, <3>1, <3>2 DEF Memory
  <2>8. TableInv' /\ \A w \in Vpns : Entry(w)' = Entry(w)
    BY Zenon, <1>1, <2>3, <2>7, OtherFrames
  <2>9. AllocInv' /\ OwnersDisjoint' /\ panic' = "no"
    BY Zenon, <1>1, <1>2, <2>1, SameAlloc, SameOwners DEF RunInv, allocVars
  <2>10. /\ JobInv' /\ job'.op # "find_pte_create"
         /\ \/ /\ areas' = areas /\ job'.op # "idle" /\ job'.area = a
               /\ InProgress' = PagesOf(a) /\ JobPages' = PagesOf(a)
            \/ areas' = areas \cup {a} /\ job'.op = "idle" /\ InProgress' = {}
    <3>1. CASE last
      <4>1. job' = Idle /\ areas' = areas \cup {a}
        BY <2>1, <3>1, Zenon
      <4> QED BY Zenon, <4>1 DEF JobInv, Idle, InProgress
    <3>2. CASE ~last
      <4>1. job' = [job EXCEPT !.vpn = @ + 1, !.from = @ + Fanout] /\ areas' = areas
        BY <2>1, <3>2, Zenon
      <4>2. v + 1 < a.end /\ ((v + 1) - a.start) * Fanout = from + Fanout
            /\ from + Fanout < a.data
        <5>1. ~((v - a.start) * Fanout + Fanout >= a.data)
          BY Zenon, <3>2 DEF from
        <5>2. v + 1 < a.end /\ ((v + 1) - a.start) * Fanout = (v - a.start) * Fanout + Fanout
          BY <1>4, <5>1, DataFits
        <5>3. from \in Nat /\ a.data \in Nat /\ Fanout \in Nat /\ from + Fanout < a.data
          BY <1>4, <1>5, <3>2
        <5> QED BY Zenon, <5>2, <5>3 DEF from
      <4>3. job' = [op |-> "copy_data", area |-> a, vpn |-> v + 1, from |-> from + Fanout]
        BY Zenon, <1>3, <4>1 DEF from
      <4>4. v + 1 \in PagesOf(a)' /\ a \in Areas \ areas'
        BY <1>4, <4>1, <4>2 DEF PagesOf
      <4>5. JobInv'
        <5> DEFINE w == v + 1
        <5>1. (w - a.start) * Fanout = from + Fanout /\ from + Fanout < a.data
          BY Zenon, <4>2
        <5>2. w \in PagesOf(a)'
          BY Zenon, <4>4
        <5>3. job' = [op |-> "copy_data", area |-> a, vpn |-> w, from |-> from + Fanout]
          BY Zenon, <4>3
        <5> HIDE DEF w
        <5>4. /\ job' = [op |-> "copy_data", area |-> a, vpn |-> w,
                         from |-> (w - a.start) * Fanout]
              /\ (w - a.start) * Fanout < a.data
          BY <5>1, <5>3, Zenon
        <5> QED BY <4>4, <5>2, <5>4, Zenon DEF JobInv
      <4>6. job'.op = "copy_data" /\ job'.area = a
        BY Zenon, <4>3
      <4>7. InProgress' = PagesOf(a) /\ JobPages' = PagesOf(a)
        BY Zenon, <4>6 DEF InProgress, JobPages, PagesOf
      <4> QED BY Zenon, <4>1, <4>5, <4>6, <4>7
    <3> QED BY Zenon, <3>1, <3>2
  <2>11. WalkInv'
    BY Zenon, <2>10 DEF WalkInv
  <2>12. FrameInv'
    <3>1. ASSUME NEW b \in Areas, NEW w \in Vpns
          PROVE  HasFrame(b, w)' <=> HasFrame(b, w)
      <4>1. CASE areas' = areas
        BY <1>1, <1>4, <2>2, <2>10, <4>1, Zenon DEF HasFrame, PagesOf
      <4>2. CASE areas' = areas \cup {a} /\ job'.op = "idle"
        BY <1>1, <1>4, <2>2, <4>2, Zenon DEF HasFrame, PagesOf
      <4> QED BY Zenon, <2>10, <4>1, <4>2
    <3>2. \A b \in Areas, w \in Vpns : Pending(b, w) => Pending(b, w)'
      BY Zenon, <1>1 DEF Pending
    <3> QED BY Zenon, <1>1, <2>3, <2>8, <3>1, <3>2, KeepFrames
  <2>13. SpaceInv'
    <3>1. CASE areas' = areas /\ InProgress' = PagesOf(a)
      BY Zenon, <2>2, <2>3, <2>8, <3>1, KeepSpace
    <3>2. CASE areas' = areas \cup {a} /\ InProgress' = {}
      <4>1. ASSUME NEW w \in Vpns
            PROVE  Claimed(w)' <=> Claimed(w)
        BY <2>2, <3>2, Zenon DEF Claimed, PagesOf
      <4>2. ASSUME NEW w \in Vpns
            PROVE  Entry(w)'.v = TRUE <=> Claimed(w)'
        BY <2>3, <2>8, <4>1, Zenon DEF SpaceInv
      <4>3. areas' \subseteq Areas
        BY <1>4, <2>3, <3>2, Zenon DEF SpaceInv
      <4>4. ASSUME NEW b \in areas', NEW c \in areas', NEW w \in Vpns,
                   w \in PagesOf(b), w \in PagesOf(c)
            PROVE  b = c
        BY <2>2, <2>3, <3>2, <4>4, Zenon DEF SpaceInv
      <4>5. ASSUME NEW b \in areas', NEW w \in Vpns, w \in PagesOf(b)
            PROVE  w \notin InProgress'
        BY Zenon, <3>2
      <4> QED BY <4>2, <4>3, <4>4, <4>5, Zenon DEF SpaceInv, PagesOf
    <3> QED BY Zenon, <2>10, <3>1, <3>2
  <2>14. EntryStep
    BY Zenon, <2>8 DEF EntryStep
  <2> QED BY Zenon, <2>8, <2>9, <2>10, <2>11, <2>12, <2>13, <2>14
          DEF MsInv, RunInv, UnmapNeverPanics
<1> QED BY Zenon, <1>6, <1>7

LEMMA UnmapOneStep ==
  ASSUME MsInv, unmap_one
  PROVE  MsInv' /\ EntryStep
<1>1. /\ panic = "no" /\ job.op = "unmap_one"
      /\ root_ppn' = root_ppn /\ frames' = frames /\ areas' = areas
  BY Zenon DEF unmap_one, At
<1>2. RunInv /\ OwnersDisjoint
  BY Zenon, <1>1 DEF MsInv
<1>a. PICK a \in Areas \ areas : \E v \in PagesOf(a) :
        job = [op |-> "unmap_one", area |-> a, vpn |-> v]
  <2>1. JobInv /\ job.op # "idle"
    BY Zenon, <1>1, <1>2 DEF RunInv
  <2> QED BY <1>1, <2>1, JobShape, Zenon
<1>3. PICK v \in PagesOf(a) : job = [op |-> "unmap_one", area |-> a, vpn |-> v]
  BY Zenon, <1>a
<1> DEFINE i == indexes(v)[1]
           j == indexes(v)[2]
           k == indexes(v)[3]
           t == Lowest(mem, root_ppn, i, j)
           key == <<a, v>>
           d == data_frames[key]
<1>4. /\ job.area = a /\ job.vpn = v /\ a \in Areas /\ a \notin areas
      /\ v \in Vpns /\ v \in Nat /\ a.end \in Nat /\ v < a.end
  BY Zenon, <1>3, AreaFacts
<1>5. FrameInv /\ SpaceInv /\ TableInv /\ AllocInv /\ Owned(frames, data_frames, trackers)
  BY Zenon, <1>1, <1>2, OwnersOwned DEF RunInv
<1>6. /\ InProgress = v .. a.end - 1 /\ JobPages = InProgress /\ v \in InProgress
      /\ \A b \in Areas, w \in Vpns : ~Pending(b, w)
  <2>1. InProgress = v .. a.end - 1
    BY Zenon, <1>1, <1>4 DEF InProgress
  <2>2. JobPages = InProgress /\ \A b \in Areas, w \in Vpns : ~Pending(b, w)
    BY Zenon, <1>1 DEF JobPages, Pending
  <2>3. v \in v .. a.end - 1
    BY <1>4
  <2> QED BY Zenon, <2>1, <2>2, <2>3
<1>7. /\ Exists(mem, root_ppn, i, j) /\ find_pte(v) = <<t, k>>
      /\ t \in frames /\ t \in AllFrames /\ k \in Idx /\ mem[t][k].v = TRUE
  <2>1. Entry(v).v = TRUE
    BY <1>4, <1>5, <1>6, Zenon DEF SpaceInv, Claimed
  <2>2. /\ Entry(v) = LeafAt(mem, root_ppn, i, j, k)
        /\ Exists(mem, root_ppn, i, j) => find_pte(v) = <<t, k>>
    BY Zenon, <1>4, <1>5, FindsLeaf
  <2>3. i \in Idx /\ j \in Idx /\ k \in Idx
    BY Zenon, <1>4, IndexesDetermine
  <2>4. Empty.v # TRUE
    BY Zenon DEF Empty
  <2> HIDE DEF i, j, k, t
  <2>5. Exists(mem, root_ppn, i, j)
    BY <2>1, <2>2, <2>4, Zenon DEF LeafAt
  <2>6. t \in frames /\ t \in AllFrames
    BY <1>5, <2>3, <2>5, Zenon DEF TableInv, Tree, t
  <2>7. Entry(v) = mem[t][k]
    BY <2>2, <2>5, Zenon DEF LeafAt, t
  <2> QED BY <2>1, <2>2, <2>3, <2>5, <2>6, <2>7, Zenon
<1>b. Entry(v).v = TRUE
  BY <1>4, <1>5, <1>6, Zenon DEF SpaceInv, Claimed
<1> HIDE DEF i, j, k, t
<1>8. HasFrame(a, v) <=> a.kind = "Framed"
  BY Zenon, <1>1, <1>4, <1>6 DEF HasFrame
<1>9. key \in DOMAIN data_frames <=> a.kind = "Framed"
  BY <1>4, <1>5, <1>8, Zenon DEF FrameInv
<1>10. /\ \/ /\ a.kind = "Framed" /\ frame_dealloc(d)
             /\ data_frames' = [w \in DOMAIN data_frames \ {key} |-> data_frames[w]]
          \/ a.kind # "Framed" /\ UNCHANGED data_frames /\ UNCHANGED allocVars
       /\ mem' = [f \in AllFrames |-> IF f \in trackers \ trackers' THEN DirtyPage
                                      ELSE IF f = t THEN [mem[f] EXCEPT ![k] = Empty]
                                      ELSE mem[f]]
       /\ NextUnmap
  <2>1. find_pte(v) # <<>> /\ find_pte(v)[1] = t /\ find_pte(v)[2] = k
    BY <1>7, PairParts, Zenon
  <2> QED BY Zenon, <1>4, <1>7, <1>9, <2>1 DEF unmap_one
<1>11. /\ AllocInv' /\ panic' = "no" /\ OwnersDisjoint'
       /\ \A f \in frames : f \notin trackers \ trackers'
       /\ DOMAIN data_frames' = DOMAIN data_frames \ {key}
       /\ \A w \in DOMAIN data_frames' : data_frames'[w] = data_frames[w]
  <2>1. CASE a.kind = "Framed"
    <3>1. d \in trackers /\ d \notin frames
      BY <1>5, <1>9, <2>1, Zenon DEF Owned
    <3>2. /\ frame_dealloc(d)
          /\ data_frames' = [w \in DOMAIN data_frames \ {key} |-> data_frames[w]]
      BY Zenon, <1>10, <2>1
    <3>3. AllocInv' /\ trackers' = trackers \ {d}
      BY Zenon, <1>5, <3>1, <3>2, DeallocStep DEF frame_dealloc
    <3>4. panic' = "no"
      BY Zenon, <1>1, <3>2, <3>3 DEF frame_dealloc, AllocInv, DropNeverPanics
    <3>5. Owned(frames', data_frames', trackers')
      <4>1. Owned(frames, [w \in DOMAIN data_frames \ {key} |-> data_frames[w]], trackers \ {d})
        <5> HIDE DEF key
        <5> QED BY Zenon, <1>5, <1>9, <2>1, DisownPage
      <4> QED BY Zenon, <1>1, <3>2, <3>3, <4>1
    <3>6. OwnersDisjoint'
      BY Zenon, <3>5, OwnersOwnedNext
    <3>7. \A f \in frames : f \notin trackers \ trackers'
      BY <3>1, <3>3, Zenon
    <3>8. /\ DOMAIN data_frames' = DOMAIN data_frames \ {key}
          /\ \A w \in DOMAIN data_frames' : data_frames'[w] = data_frames[w]
      BY <3>2, Zenon
    <3> QED BY Zenon, <3>3, <3>4, <3>6, <3>7, <3>8
  <2>2. CASE a.kind # "Framed"
    <3>1. data_frames' = data_frames /\ UNCHANGED allocVars /\ trackers' = trackers
          /\ panic' = "no"
      BY Zenon, <1>1, <1>10, <2>2 DEF allocVars
    <3>2. AllocInv' /\ OwnersDisjoint'
      BY Zenon, <1>1, <1>2, <1>5, <3>1, SameAlloc, SameOwners
    <3>3. key \notin DOMAIN data_frames
      BY Zenon, <1>9, <2>2
    <3>4. DOMAIN data_frames' = DOMAIN data_frames \ {key}
      BY <3>1, <3>3, Zenon
    <3> QED BY Zenon, <3>1, <3>2, <3>4
  <2> QED BY Zenon, <2>1, <2>2
<1>12. /\ mem' \in Memory /\ mem'[t][k] = Empty /\ DiffersAt(mem, mem', frames, t, k)
  <2>1. /\ mem \in [AllFrames -> [Idx -> Word]] /\ frames \subseteq AllFrames
        /\ Empty \in Word /\ DirtyPage \in [Idx -> Word]
    BY Zenon, <1>5, Words, PagesOfWords DEF TableInv, Memory
  <2>2. /\ mem' \in [AllFrames -> [Idx -> Word]]
        /\ mem'[t] = [mem[t] EXCEPT ![k] = Empty]
        /\ \A u \in frames : u # t => mem'[u] = mem[u]
    BY Zenon, <1>7, <1>10, <1>11, <2>1
  <2>3. mem'[t][k] = Empty /\ \A h \in Idx : h # k => mem'[t][h] = mem[t][h]
    BY <1>7, <2>1, <2>2
  <2> QED BY Zenon, <2>2, <2>3 DEF Memory, DiffersAt
<1>13. /\ TableInv' /\ Entry(v)' = Empty
       /\ \A w \in Vpns : w # v => Entry(w)' = Entry(w)
  <2>1. t = Lowest(mem, root_ppn, indexes(v)[1], indexes(v)[2])
    BY Zenon DEF i, j, t
  <2>2. /\ Exists(mem, root_ppn, indexes(v)[1], indexes(v)[2])
        /\ DiffersAt(mem, mem', frames, t, indexes(v)[3])
        /\ mem'[t][indexes(v)[3]] = Empty
    BY Zenon, <1>7, <1>12 DEF i, j, k
  <2> QED BY <1>1, <1>4, <1>5, <1>12, <2>1, <2>2, OneEntry, ZenonT(30)
<1>14. /\ JobInv' /\ job'.op # "find_pte_create" /\ JobPages' = InProgress'
       /\ InProgress' = InProgress \ {v}
       /\ job'.op # "idle" => job'.area = a
  <2>1. CASE v + 1 = a.end
    <3>1. job' = Idle
      BY Zenon, <1>4, <1>10, <2>1 DEF NextUnmap
    <3>2. InProgress \ {v} = {}
      BY <1>4, <1>6, <2>1
    <3> QED BY Zenon, <3>1, <3>2 DEF JobInv, Idle, InProgress, JobPages
  <2>2. CASE v + 1 # a.end
    <3>1. job' = [op |-> "unmap_one", area |-> a, vpn |-> v + 1]
      BY Zenon, <1>3, <1>10, <2>2 DEF NextUnmap
    <3>2. v + 1 \in PagesOf(a)' /\ a \in Areas \ areas'
      BY <1>1, <1>3, <1>4, <2>2, AreaFacts, SMTT(30) DEF PagesOf
    <3>3. JobInv'
      BY <3>1, <3>2, Zenon DEF JobInv
    <3>4. job'.op = "unmap_one" /\ job'.area = a /\ job'.vpn = v + 1
      BY Zenon, <3>1
    <3>5. InProgress' = (v + 1) .. a.end - 1 /\ JobPages' = InProgress'
      BY Zenon, <3>4 DEF InProgress, JobPages
    <3>6. (v + 1) .. a.end - 1 = InProgress \ {v}
      BY <1>4, <1>6
    <3> QED BY Zenon, <3>3, <3>4, <3>5, <3>6
  <2> QED BY Zenon, <2>1, <2>2
<1>15. WalkInv'
  BY Zenon, <1>14 DEF WalkInv
<1>16. ASSUME NEW b \in areas PROVE v \notin PagesOf(b)
  BY <1>4, <1>5, <1>6, <1>16, Zenon DEF SpaceInv
<1>17. FrameInv'
  <2> HIDE DEF key
  <2>1. ASSUME NEW b \in Areas, NEW w \in Vpns
        PROVE  HasFrame(b, w)' <=> HasFrame(b, w) /\ ~(b = a /\ w = v)
    <3>1. CASE b \in areas
      <4>1. b # a
        BY Zenon, <1>4, <3>1
      <4> QED BY <1>1, <1>4, <1>14, <3>1, <4>1, Zenon DEF HasFrame, PagesOf
    <3>2. CASE b \notin areas /\ b # a
      BY <1>1, <1>4, <1>14, <3>2, Zenon DEF HasFrame
    <3>3. CASE b = a
      <4>1. CASE job'.op = "idle"
        <5>1. InProgress' = {}
          BY Zenon, <4>1 DEF InProgress
        <5>2. w \in JobPages => w = v
          BY Zenon, <1>6, <1>14, <5>1
        <5> QED BY <1>1, <1>4, <3>3, <4>1, <5>2, Zenon DEF HasFrame
      <4>2. CASE job'.op # "idle"
        <5>1. w \in JobPages' <=> w \in JobPages /\ w # v
          BY Zenon, <1>6, <1>14
        <5>2. job.op # "idle"
          BY Zenon, <1>1
        <5> QED BY <1>1, <1>4, <1>14, <3>3, <4>2, <5>1, <5>2, Zenon DEF HasFrame
      <4> QED BY Zenon, <4>1, <4>2
    <3> QED BY Zenon, <3>1, <3>2, <3>3
  <2>2. ASSUME NEW b \in Areas, NEW w \in Vpns
        PROVE  <<b, w>> = key <=> b = a /\ w = v
    BY Zenon DEF key
  <2>3. ASSUME NEW b \in Areas, NEW w \in Vpns
        PROVE  <<b, w>> \in DOMAIN data_frames' <=> HasFrame(b, w)'
    BY <1>5, <1>11, <2>1, <2>2, Zenon DEF FrameInv
  <2>4. ASSUME NEW b \in Areas, NEW w \in Vpns, <<b, w>> \in DOMAIN data_frames'
        PROVE  Entry(w)' = Leaf(data_frames'[<<b, w>>], b.perm)
    <3>1. HasFrame(b, w) /\ ~(b = a /\ w = v)
      BY Zenon, <2>1, <2>3, <2>4
    <3>2. w # v
      BY <1>4, <1>16, <3>1, Zenon DEF HasFrame
    <3>3. <<b, w>> \in DOMAIN data_frames
      BY <1>11, <2>4, Zenon
    <3>4. Entry(w) = Leaf(data_frames[<<b, w>>], b.perm)
      BY <1>5, <1>6, <3>3, Zenon DEF FrameInv
    <3> QED BY Zenon, <1>11, <1>13, <2>4, <3>2, <3>4
  <2>5. DOMAIN data_frames' \subseteq Areas \X Vpns
    BY <1>5, <1>11, Zenon DEF FrameInv
  <2> QED BY <2>3, <2>4, <2>5, Zenon DEF FrameInv
<1>18. SpaceInv'
  <2>1. ASSUME NEW w \in Vpns
        PROVE  Claimed(w)' <=> Claimed(w) /\ w # v
    BY <1>1, <1>14, <1>16, Zenon DEF Claimed, PagesOf
  <2>2. ASSUME NEW w \in Vpns
        PROVE  Entry(w)'.v = TRUE <=> Claimed(w)'
    <3>1. Empty.v # TRUE
      BY Zenon DEF Empty
    <3>2. CASE w = v
      BY <1>13, <2>1, <3>1, <3>2, Zenon
    <3>3. CASE w # v
      BY <1>5, <1>13, <2>1, <3>3, Zenon DEF SpaceInv
    <3> QED BY Zenon, <3>2, <3>3
  <2>3. areas' \subseteq Areas
    BY <1>1, <1>5, Zenon DEF SpaceInv
  <2>4. \A b, c \in areas' : \A w \in Vpns : w \in PagesOf(b) /\ w \in PagesOf(c) => b = c
    BY <1>1, <1>5, Zenon DEF SpaceInv
  <2>5. \A b \in areas' : \A w \in Vpns : w \in PagesOf(b) => w \notin InProgress'
    BY <1>1, <1>5, <1>14, Zenon DEF SpaceInv
  <2> QED BY <2>2, <2>3, <2>4, <2>5, Zenon DEF SpaceInv, PagesOf
<1>19. EntryStep
  BY <1>4, <1>b, <1>13, Zenon DEF EntryStep
<1> QED BY Zenon, <1>11, <1>13, <1>14, <1>15, <1>17, <1>18, <1>19
        DEF MsInv, RunInv, UnmapNeverPanics

LEMMA IdleStep ==
  ASSUME MsInv, UNCHANGED memorySetVars
  PROVE  MsInv' /\ EntryStep
<1>1. /\ UNCHANGED <<mem, root_ppn, frames, areas, data_frames>> /\ job' = job
      /\ UNCHANGED allocVars /\ panic' = panic /\ trackers' = trackers
  BY Zenon DEF memorySetVars, msVars, allocVars
<1>2. \A v : Entry(v)' = Entry(v)
  BY Zenon, <1>1, SameEntries
<1>3. ASSUME panic = "no" PROVE RunInv'
  <2>1. RunInv
    BY Zenon, <1>3 DEF MsInv
  <2>2. InProgress' = InProgress /\ JobPages' = JobPages
    BY Zenon, <1>1 DEF InProgress, JobPages, PagesOf
  <2>3. AllocInv' /\ TableInv'
    BY Zenon, <1>1, <2>1, SameAlloc, SameTables DEF RunInv
  <2>4. JobInv'
    BY <1>1, <2>1 DEF RunInv, JobInv, PagesOf
  <2>5. WalkInv'
    <3>1. PhysPages' = PhysPages
      BY Zenon DEF PhysPages, AllFrames
    <3> QED BY Zenon, <1>1, <2>1, <3>1 DEF RunInv, WalkInv
  <2>6. FrameInv'
    <3>1. ASSUME NEW a \in Areas, NEW v \in Vpns
          PROVE  /\ HasFrame(a, v)' <=> HasFrame(a, v)
                 /\ Pending(a, v) => Pending(a, v)'
      BY <1>1, <2>2, Zenon DEF HasFrame, PagesOf, Pending
    <3> QED BY Zenon, <1>1, <1>2, <2>1, <3>1, KeepFrames DEF RunInv
  <2>7. SpaceInv'
    BY Zenon, <1>1, <1>2, <2>1, <2>2, KeepSpace DEF RunInv
  <2> QED BY Zenon, <2>3, <2>4, <2>5, <2>6, <2>7 DEF RunInv
<1>4. OwnersDisjoint'
  BY Zenon, <1>1 DEF MsInv, OwnersDisjoint
<1>5. EntryStep
  BY Zenon, <1>2 DEF EntryStep
<1> QED BY Zenon, <1>1, <1>3, <1>4, <1>5 DEF MsInv, UnmapNeverPanics

LEMMA MsStepInv == MsInv /\ [MsNext]_memorySetVars => MsInv' /\ EntryStep
BY Zenon, PushStep, UnmapStep, MapOneStep, FindPteCreateStep, MapStep, CopyDataStep, UnmapOneStep,
   IdleStep DEF MsNext, Continue

\* The inductive invariant: the page table is a tree whose leaves are the pages
\* of the areas, and every frame has one owner.
THEOREM MsInvariant == MsSpec => []MsInv
<1>1. MsInv /\ [MsNext]_memorySetVars => MsInv'
  BY Zenon, MsStepInv
<1> QED BY <1>1, MsInitInv, PTL DEF MsSpec

\* frame_alloc never hands a frame to two owners, and a frame dropped by
\* unmap_one was that page's own: a table page is never a page of an area.
THEOREM MsOwnersDisjoint == MsSpec => []OwnersDisjoint
<1>1. MsInv => OwnersDisjoint
  BY Zenon DEF MsInv
<1> QED BY <1>1, MsInvariant, PTL

\* unmap finds every leaf it asserts to be valid, and returns no frame twice.
THEOREM MsUnmapNeverPanics == MsSpec => []UnmapNeverPanics
<1>1. MsInv => UnmapNeverPanics
  BY Zenon DEF MsInv
<1> QED BY <1>1, MsInvariant, PTL

\* The pages translate finds are those of the areas map has mapped, no others.
THEOREM MsMapsTheAreas == MsSpec => []MapsTheAreas
<1>1. ASSUME MsInv PROVE MapsTheAreas
  <2> SUFFICES ASSUME panic = "no"
               PROVE  MappedPages = (UNION {PagesOf(a) : a \in areas}) \cup InProgress
    BY Zenon DEF MapsTheAreas
  <2>1. TableInv /\ JobInv /\ SpaceInv
    BY Zenon, <1>1 DEF MsInv, RunInv
  <2>2. ASSUME NEW v \in Vpns PROVE Entry(v).v \in BOOLEAN
    <3>1. indexes(v)[1] \in Idx /\ indexes(v)[2] \in Idx /\ indexes(v)[3] \in Idx
      BY Zenon, IndexesDetermine
    <3>2. Entry(v) = LeafAt(mem, root_ppn, indexes(v)[1], indexes(v)[2], indexes(v)[3])
      BY <2>1, LeafEntries, Zenon DEF EntriesAreLeaves
    <3>3. CASE Exists(mem, root_ppn, indexes(v)[1], indexes(v)[2])
      <4> DEFINE t == Lowest(mem, root_ppn, indexes(v)[1], indexes(v)[2])
      <4>1. t \in AllFrames
        BY <2>1, <3>1, <3>3, Zenon DEF TableInv, Tree
      <4>2. Entry(v) = mem[t][indexes(v)[3]]
        BY <3>2, <3>3, Zenon DEF LeafAt
      <4>3. mem \in Memory /\ indexes(v)[3] \in Idx
        BY Zenon, <2>1, <3>1 DEF TableInv
      <4> HIDE DEF t
      <4>4. mem[t][indexes(v)[3]].v \in BOOLEAN
        BY Zenon, <4>1, <4>3, WordFacts
      <4> QED BY <4>2, <4>4, ZenonT(30)
    <3>4. CASE ~Exists(mem, root_ppn, indexes(v)[1], indexes(v)[2])
      <4>1. Entry(v) = Empty
        BY <3>2, <3>4, Zenon DEF LeafAt
      <4>2. Empty.v \in BOOLEAN
        BY Zenon DEF Empty
      <4> QED BY <4>1, <4>2, SMT
    <3> QED BY Zenon, <3>3, <3>4
  <2>3. ASSUME NEW v \in Vpns PROVE v \in MappedPages <=> Claimed(v)
    BY <2>1, <2>2, Zenon DEF SpaceInv, MappedPages
  <2>4. ASSUME NEW a \in areas, NEW v \in PagesOf(a) PROVE v \in Vpns
    BY Zenon, <2>1, AreaFacts DEF SpaceInv
  <2>5. ASSUME NEW v \in InProgress PROVE v \in Vpns
    <3>1. CASE job.op = "idle"
      BY Zenon, <3>1 DEF InProgress
    <3>2. CASE job.op # "idle"
      <4>1. PICK a \in Areas : job.area = a /\ job.vpn \in PagesOf(a)
        BY Zenon, <2>1, <3>2, JobShape
      <4>2. v \in PagesOf(a)
        BY <4>1, AreaFacts, SMTT(30) DEF InProgress, PagesOf
      <4> QED BY Zenon, <4>2, AreaFacts
    <3> QED BY Zenon, <3>1, <3>2
  <2>6. \A v : v \in MappedPages => v \in Vpns
    BY Zenon DEF MappedPages
  <2>7. \A v : v \in UNION {PagesOf(a) : a \in areas} <=> \E a \in areas : v \in PagesOf(a)
    BY Zenon
  <2>8. ASSUME NEW v
        PROVE  v \in MappedPages <=> v \in (UNION {PagesOf(a) : a \in areas}) \cup InProgress
    <3>1. v \in MappedPages => Claimed(v)
      BY <2>3, <2>6, Zenon
    <3>2. ASSUME NEW a \in areas, v \in PagesOf(a) PROVE v \in MappedPages
      BY <2>3, <2>4, <3>2, Zenon DEF Claimed
    <3>3. ASSUME v \in InProgress PROVE v \in MappedPages
      BY <2>3, <2>5, <3>3, Zenon DEF Claimed
    <3>4. Claimed(v) <=> v \in UNION {PagesOf(a) : a \in areas} \/ v \in InProgress
      BY <2>7, Zenon DEF Claimed
    <3>5. v \in UNION {PagesOf(a) : a \in areas} => v \in MappedPages
      BY <2>7, <3>2, Zenon
    <3> DEFINE U == UNION {PagesOf(a) : a \in areas}
    <3>6. v \in MappedPages <=> v \in U \/ v \in InProgress
      BY Zenon, <3>1, <3>3, <3>4, <3>5
    <3> HIDE DEF U
    <3>7. v \in MappedPages <=> v \in U \cup InProgress
      BY Zenon, <3>6
    <3> QED BY Zenon, <3>7 DEF U
  <2> QED BY <2>8, Zenon
<1> QED BY <1>1, MsInvariant, PTL

\* Between operations every page of a Framed area is mapped, with the area's
\* permissions, to the frame its data_frames holds for it.
THEOREM MsFramedBacked == MsSpec => []FramedBacked
<1>1. ASSUME MsInv PROVE FramedBacked
  <2> SUFFICES ASSUME panic = "no", job = Idle, NEW a \in areas, a.kind = "Framed",
                      NEW v \in PagesOf(a)
               PROVE  /\ <<a, v>> \in DOMAIN data_frames
                      /\ Entry(v) = Leaf(data_frames[<<a, v>>], a.perm)
    BY Zenon DEF FramedBacked
  <2>1. FrameInv /\ SpaceInv
    BY Zenon, <1>1 DEF MsInv, RunInv
  <2>2. a \in Areas /\ v \in Vpns
    BY Zenon, <2>1, AreaFacts DEF SpaceInv
  <2>3. HasFrame(a, v) /\ ~Pending(a, v)
    BY Zenon DEF HasFrame, Pending, Idle
  <2> QED BY <2>1, <2>2, <2>3, Zenon DEF FrameInv
<1> QED BY <1>1, MsInvariant, PTL

\* The radix tree implements the page-by-page address space: every operation on
\* it maps one free page, unmaps one mapped page, or changes no translation.
THEOREM MsRefinesSpace == MsSpec => ImplementsSpace
<1> DEFINE shown == [v \in Vpns |-> IF Entry(v).v THEN Entry(v) ELSE Empty]
<1>1. ASSUME MsInit PROVE Space!ASInit
  <2>1. MsInv /\ panic = "no" /\ areas = {} /\ job = Idle
    BY Zenon, <1>1, MsInitInv DEF MsInit
  <2>2. ASSUME NEW v \in Vpns PROVE (IF Entry(v).v THEN Entry(v) ELSE Empty) = Empty
    <3>1. ~Claimed(v)
      BY Zenon, <2>1 DEF Claimed, InProgress, Idle
    <3>2. Entry(v).v # TRUE
      BY <2>1, <3>1, Zenon DEF MsInv, RunInv, SpaceInv
    <3> QED BY <3>2, Zenon
  <2>3. shown = [v \in Vpns |-> Empty]
    BY Zenon, <2>2
  <2> QED BY Zenon, <2>3 DEF Space!ASInit
<1>2. ASSUME MsInv, [MsNext]_memorySetVars PROVE [Space!ASNext]_shown
  <2>1. EntryStep
    BY Zenon, <1>2, MsStepInv
  <2>2. CASE \A v \in Vpns : Entry(v)' = Entry(v)
    <3>1. \A v \in Vpns : (IF Entry(v)'.v THEN Entry(v)' ELSE Empty)
                          = (IF Entry(v).v THEN Entry(v) ELSE Empty)
      BY <2>2, Zenon
    <3>2. shown' = shown
      BY Zenon, <3>1
    <3> QED BY Zenon, <3>2
  <2>3. ASSUME NEW v \in Vpns, \A w \in Vpns : w # v => Entry(w)' = Entry(w),
               \/ Entry(v).v = FALSE /\ Entry(v)' \in Leaves
               \/ Entry(v).v = TRUE /\ Entry(v)' = Empty
        PROVE  Space!ASNext
    <3>1. shown' = [shown EXCEPT ![v] = shown'[v]]
      <4>1. \A w \in Vpns : w # v => shown'[w] = shown[w]
        BY Zenon, <2>3
      <4>2. DOMAIN shown = Vpns /\ DOMAIN shown' = Vpns
        OBVIOUS
      <4>3. /\ shown = [w \in Vpns |-> shown[w]]
            /\ shown' = [w \in Vpns |-> shown'[w]]
        OBVIOUS
      <4> HIDE DEF shown
      <4> QED BY Zenon, <4>1, <4>2, <4>3
    <3>2. shown[v] = (IF Entry(v).v THEN Entry(v) ELSE Empty)
          /\ shown'[v] = (IF Entry(v)'.v THEN Entry(v)' ELSE Empty)
      BY Zenon, <2>3
    <3>3. CASE Entry(v).v = FALSE /\ Entry(v)' \in Leaves
      <4>1. Entry(v)'.v = TRUE
        BY <3>3, LeafValid, Zenon
      <4>2. shown[v] = Empty /\ shown'[v] \in Leaves
        BY <3>2, <3>3, <4>1, Zenon
      <4> HIDE DEF shown
      <4>3. Space!MapPage(v)
        BY Zenon, <3>1, <4>2 DEF Space!MapPage, Space!OnlyPage, shown
      <4> QED BY Zenon, <2>3, <4>3 DEF Space!ASNext
    <3>4. CASE Entry(v).v = TRUE /\ Entry(v)' = Empty
      <4>1. Empty.v = FALSE
        BY Zenon DEF Empty
      <4>2. shown[v] # Empty /\ shown'[v] = Empty
        BY Zenon, <3>2, <3>4, <4>1
      <4> HIDE DEF shown
      <4>3. Space!UnmapPage(v)
        BY Zenon, <3>1, <4>2 DEF Space!UnmapPage, Space!OnlyPage, shown
      <4> QED BY Zenon, <2>3, <4>3 DEF Space!ASNext
    <3> QED BY Zenon, <2>3, <3>3, <3>4
  <2> QED BY Zenon, <2>1, <2>2, <2>3 DEF EntryStep
<1> QED BY <1>1, <1>2, MsInvariant, PTL DEF MsSpec, ImplementsSpace, Space!ASSpec, shown

-----------------------------------------------------------------------------
(***************************************************************************)
(* The contents of the pages.                                              *)
(***************************************************************************)

\* How many words of its data an area with frames has.
Copied(a) ==
  IF job.op \in {"idle", "unmap_one"} THEN a.data
  ELSE IF a # job.area THEN a.data
  ELSE IF job.op = "copy_data" THEN job.from ELSE 0

\* Page v of area a when n words of the data are there: zeros follow them.
Held(a, v, n) ==
  [i \in Idx |-> IF (v - a.start) * Fanout + i < n THEN DataWord((v - a.start) * Fanout + i)
                 ELSE Empty]

PageHeld(a, v) == mem[data_frames[<<a, v>>]] = Held(a, v, Copied(a))

DataInv ==
  panic = "no" =>
    \A a \in Areas, v \in Vpns : <<a, v>> \in DOMAIN data_frames => PageHeld(a, v)

\* The frame of a page is no table page.
LEMMA PageFrame ==
  ASSUME MsInv, panic = "no", NEW p \in DOMAIN data_frames
  PROVE  /\ data_frames[p] \in AllFrames /\ data_frames[p] \in trackers
         /\ data_frames[p] \notin frames
         /\ \A q \in DOMAIN data_frames : data_frames[p] = data_frames[q] => p = q
<1>1. Owned(frames, data_frames, trackers) /\ trackers \subseteq AllFrames
  BY Zenon, OwnersOwned DEF MsInv, RunInv, AllocInv, AllocTypeOK
<1> QED BY <1>1, Zenon DEF Owned

\* The area and the page of the operation in progress.
LEMMA JobFacts ==
  ASSUME MsInv, panic = "no", job.op # "idle"
  PROVE  /\ job.area \in Areas /\ job.area \notin areas
         /\ job.vpn \in PagesOf(job.area) /\ job.vpn \in Vpns /\ job.vpn \in Nat
         /\ job.area.start \in Nat /\ job.area.data \in Nat /\ job.area.start <= job.vpn
         /\ job.op = "find_pte_create" =>
              /\ job.table \in frames
              /\ \A f : LET next == [job EXCEPT !.level = @ + 1, !.table = f]
                        IN next.op = job.op /\ next.area = job.area
         /\ job.op = "copy_data" =>
              /\ job.from = (job.vpn - job.area.start) * Fanout /\ job.from < job.area.data
              /\ LET next == [job EXCEPT !.vpn = @ + 1, !.from = @ + Fanout]
                 IN next.op = "copy_data" /\ next.area = job.area /\ next.from = job.from + Fanout
         /\ job.op = "unmap_one" => [job EXCEPT !.vpn = @ + 1].op = "unmap_one"
<1>1. PICK a \in Areas \ areas : \E v \in PagesOf(a) :
        /\ job.area = a /\ job.vpn = v
        /\ job.op = "find_pte_create" =>
             \E p \in Nat, l \in 1 .. 3, t \in frames :
               job = [op |-> "find_pte_create", area |-> a, vpn |-> v, ppn |-> p,
                      level |-> l, table |-> t]
        /\ job.op = "copy_data" =>
             /\ job = [op |-> "copy_data", area |-> a, vpn |-> v,
                       from |-> (v - a.start) * Fanout]
             /\ (v - a.start) * Fanout < a.data
        /\ job.op = "unmap_one" => job = [op |-> "unmap_one", area |-> a, vpn |-> v]
  BY Zenon, JobShape DEF MsInv, RunInv
<1>2. PICK v \in PagesOf(a) :
        /\ job.area = a /\ job.vpn = v
        /\ job.op = "find_pte_create" =>
             \E p \in Nat, l \in 1 .. 3, t \in frames :
               job = [op |-> "find_pte_create", area |-> a, vpn |-> v, ppn |-> p,
                      level |-> l, table |-> t]
        /\ job.op = "copy_data" =>
             /\ job = [op |-> "copy_data", area |-> a, vpn |-> v,
                       from |-> (v - a.start) * Fanout]
             /\ (v - a.start) * Fanout < a.data
        /\ job.op = "unmap_one" => job = [op |-> "unmap_one", area |-> a, vpn |-> v]
  BY Zenon, <1>1
<1>3. /\ v \in Vpns /\ v \in Nat /\ a.start \in Nat /\ a.data \in Nat /\ a.start <= v
  BY Zenon, AreaFacts
<1>4. ASSUME job.op = "find_pte_create"
      PROVE  /\ job.table \in frames
             /\ \A f : LET next == [job EXCEPT !.level = @ + 1, !.table = f]
                       IN next.op = job.op /\ next.area = job.area
  <2>1. PICK p \in Nat, l \in 1 .. 3, t \in frames :
          job = [op |-> "find_pte_create", area |-> a, vpn |-> v, ppn |-> p,
                 level |-> l, table |-> t]
    BY Zenon, <1>2, <1>4
  <2> QED BY <2>1
<1>5. ASSUME job.op = "copy_data"
      PROVE  /\ job.from = (job.vpn - job.area.start) * Fanout /\ job.from < job.area.data
             /\ LET next == [job EXCEPT !.vpn = @ + 1, !.from = @ + Fanout]
                IN next.op = "copy_data" /\ next.area = job.area /\ next.from = job.from + Fanout
  <2> DEFINE from == (v - a.start) * Fanout
  <2>1. job = [op |-> "copy_data", area |-> a, vpn |-> v, from |-> from] /\ from < a.data
    BY Zenon, <1>2, <1>5
  <2>2. job.from = from /\ job.vpn = v /\ job.area = a /\ job.from < a.data
    BY Zenon, <2>1
  <2>3. job.from = (job.vpn - job.area.start) * Fanout
    BY Zenon, <2>2
  <2> DEFINE next == [job EXCEPT !.vpn = @ + 1, !.from = @ + Fanout]
  <2> HIDE DEF from
  <2>4. next.op = "copy_data" /\ next.area = a /\ next.from = from + Fanout
    BY <2>1
  <2> HIDE DEF next
  <2>5. next.op = "copy_data" /\ next.area = job.area /\ next.from = job.from + Fanout
    BY Zenon, <2>2, <2>4
  <2> QED BY Zenon, <2>2, <2>3, <2>5 DEF next
<1>6. ASSUME job.op = "unmap_one"
      PROVE  [job EXCEPT !.vpn = @ + 1].op = "unmap_one"
  BY Zenon, <1>2, <1>6
<1> QED BY Zenon, <1>1, <1>2, <1>3, <1>4, <1>5, <1>6

\* A step that keeps the frames of the pages, what is in them and how far the
\* areas are copied.
LEMMA KeepData ==
  ASSUME DataInv, panic = "no",
         \A a \in Areas, v \in Vpns : <<a, v>> \in DOMAIN data_frames' =>
           /\ <<a, v>> \in DOMAIN data_frames
           /\ mem'[data_frames'[<<a, v>>]] = mem[data_frames[<<a, v>>]]
           /\ Copied(a)' = Copied(a)
  PROVE  DataInv'
<1> SUFFICES ASSUME NEW a \in Areas, NEW v \in Vpns, <<a, v>> \in DOMAIN data_frames'
             PROVE  PageHeld(a, v)'
  BY Zenon DEF DataInv
<1>1. PageHeld(a, v)
  BY Zenon DEF DataInv
<1>2. Held(a, v, Copied(a)') = Held(a, v, Copied(a))
  BY Zenon
<1>3. mem'[data_frames'[<<a, v>>]] = Held(a, v, Copied(a))
  BY Zenon, <1>1 DEF PageHeld
<1> QED BY Zenon, <1>2, <1>3 DEF PageHeld, Held

LEMMA DataInitially == MsInit => DataInv
<1>1. DOMAIN <<>> = {}
  OBVIOUS
<1> QED BY Zenon, <1>1 DEF MsInit, DataInv

\* The word that find_pte finds is in a table page.
LEMMA LeafTable ==
  ASSUME MsInv, panic = "no", NEW v \in Vpns, find_pte(v) # <<>>
  PROVE  find_pte(v)[1] \in frames
<1> DEFINE i == indexes(v)[1]
           j == indexes(v)[2]
           k == indexes(v)[3]
           t == Lowest(mem, root_ppn, i, j)
<1>1. TableInv
  BY Zenon DEF MsInv, RunInv
<1>2. Exists(mem, root_ppn, i, j) /\ find_pte(v) = <<t, k>>
  BY Zenon, <1>1, FindsLeaf
<1>3. i \in Idx /\ j \in Idx
  BY Zenon, IndexesDetermine
<1> HIDE DEF i, j, k
<1>4. t \in frames
  BY <1>1, <1>2, <1>3, Zenon DEF TableInv, Tree
<1> HIDE DEF t
<1> QED BY <1>2, <1>4, PairParts, Zenon

\* The page of an area that is in the set, or of the one in progress.
LEMMA WhoseFrame ==
  ASSUME MsInv, panic = "no", NEW a \in Areas, NEW v \in Vpns, <<a, v>> \in DOMAIN data_frames
  PROVE  a \in areas \/ (job.op # "idle" /\ a = job.area)
BY Zenon DEF MsInv, RunInv, FrameInv, HasFrame

LEMMA PushData ==
  ASSUME MsInv, DataInv, NEW a \in Areas, push(a)
  PROVE  DataInv'
<1>1. /\ panic = "no" /\ job.op = "idle" /\ a \notin areas
      /\ mem' = mem /\ data_frames' = data_frames
      /\ job' = job \/ job' = [op |-> "map_one", area |-> a, vpn |-> a.start]
  BY Zenon DEF push, At
<1>2. ASSUME NEW b \in Areas, NEW v \in Vpns, <<b, v>> \in DOMAIN data_frames
      PROVE  Copied(b)' = Copied(b)
  <2>1. b # a
    BY Zenon, <1>1, <1>2, WhoseFrame
  <2>2. CASE job' = job
    BY Zenon, <2>2 DEF Copied
  <2>3. CASE job' = [op |-> "map_one", area |-> a, vpn |-> a.start]
    <3>1. job'.op = "map_one" /\ job'.area = a
      BY Zenon, <2>3
    <3> QED BY Zenon, <1>1, <2>1, <3>1 DEF Copied
  <2> QED BY Zenon, <1>1, <2>2, <2>3
<1> QED BY Zenon, <1>1, <1>2, KeepData

LEMMA UnmapData ==
  ASSUME MsInv, DataInv, NEW a \in Areas, unmap(a)
  PROVE  DataInv'
<1>1. /\ panic = "no" /\ job.op = "idle" /\ mem' = mem /\ data_frames' = data_frames
      /\ job' = Idle \/ job' = [op |-> "unmap_one", area |-> a, vpn |-> a.start]
  BY Zenon DEF unmap, At
<1>2. job'.op \in {"idle", "unmap_one"}
  <2>1. CASE job' = Idle
    BY Zenon, <2>1 DEF Idle
  <2>2. CASE job' = [op |-> "unmap_one", area |-> a, vpn |-> a.start]
    <3>1. job'.op = "unmap_one"
      BY Zenon, <2>2
    <3> QED BY Zenon, <3>1
  <2> QED BY Zenon, <1>1, <2>1, <2>2
<1>3. \A b \in Areas : Copied(b)' = Copied(b)
  BY Zenon, <1>1, <1>2 DEF Copied
<1> QED BY Zenon, <1>1, <1>3, KeepData

\* A page that has just been cleared holds none of the data.
LEMMA HeldNone ==
  ASSUME NEW a \in Areas, NEW v \in PagesOf(a)
  PROVE  Held(a, v, 0) = ZeroPage
<1>1. ASSUME NEW i \in Idx PROVE ~((v - a.start) * Fanout + i < 0)
  <2>1. v - a.start \in Nat /\ Fanout \in Nat /\ i \in Nat
    BY AreaFacts, MemorySetAssumption DEF Idx
  <2>2. (v - a.start) * Fanout \in Nat
    BY <2>1
  <2> QED BY <2>1, <2>2
<1> QED BY Zenon, <1>1 DEF Held, ZeroPage

LEMMA MapOneData ==
  ASSUME MsInv, DataInv, map_one
  PROVE  DataInv'
<1> DEFINE key == <<job.area, job.vpn>>
<1>1. panic = "no" /\ job.op = "map_one"
  BY Zenon DEF map_one, At
<1>2. job.area \in Areas /\ job.vpn \in PagesOf(job.area)
  BY Zenon, <1>1, JobFacts
<1>3. ASSUME NEW p, job' = [op |-> "find_pte_create", area |-> job.area,
                            vpn |-> job.vpn, ppn |-> p, level |-> 1, table |-> root_ppn]
      PROVE  /\ \A b \in Areas : Copied(b)' = Copied(b)
             /\ Copied(job.area) = 0
  <2>1. job'.op = "find_pte_create" /\ job'.area = job.area
    BY Zenon, <1>3
  <2> QED BY Zenon, <1>1, <2>1 DEF Copied
<1>4. CASE job.area.kind = "Linear"
  <2>1. /\ mem' = mem /\ data_frames' = data_frames
        /\ \E p : job' = [op |-> "find_pte_create", area |-> job.area,
                          vpn |-> job.vpn, ppn |-> p, level |-> 1, table |-> root_ppn]
    BY Zenon, <1>4 DEF map_one
  <2> QED BY Zenon, <1>1, <1>3, <2>1, KeepData
<1>5. CASE job.area.kind = "Framed" /\ CanAlloc
  <2>1. /\ frame_alloc /\ mem' = Cleared
        /\ data_frames' = [w \in DOMAIN data_frames \cup {key} |->
                             IF w = key THEN NextFrame ELSE data_frames[w]]
        /\ job' = [op |-> "find_pte_create", area |-> job.area, vpn |-> job.vpn,
                   ppn |-> NextFrame, level |-> 1, table |-> root_ppn]
    BY Zenon, <1>5 DEF map_one
  <2>2. /\ NextFrame \notin trackers /\ Cleared[NextFrame] = ZeroPage
        /\ \A f \in AllFrames : f # NextFrame => Cleared[f] = mem[f]
    BY Zenon, <1>1, <1>5, <2>1, ClearsFrame DEF MsInv
  <2>3. (\A b \in Areas : Copied(b)' = Copied(b)) /\ Copied(job.area) = 0
    BY Zenon, <1>3, <2>1
  <2> SUFFICES ASSUME NEW b \in Areas, NEW w \in Vpns, <<b, w>> \in DOMAIN data_frames'
               PROVE  PageHeld(b, w)'
    BY Zenon DEF DataInv
  <2>4. CASE <<b, w>> = key
    <3>1. b = job.area /\ w = job.vpn
      BY <2>4
    <3>2. data_frames'[<<b, w>>] = NextFrame
      BY Zenon, <2>1, <2>4
    <3>3. mem'[data_frames'[<<b, w>>]] = ZeroPage /\ Copied(b)' = 0
      BY Zenon, <2>1, <2>2, <2>3, <3>1, <3>2
    <3>4. Held(b, w, 0) = ZeroPage
      BY Zenon, <1>2, <3>1, HeldNone
    <3> QED BY Zenon, <3>3, <3>4 DEF PageHeld, Held
  <2>5. CASE <<b, w>> # key
    <3> HIDE DEF key
    <3>1. <<b, w>> \in DOMAIN data_frames /\ data_frames'[<<b, w>>] = data_frames[<<b, w>>]
      BY Zenon, <2>1, <2>5
    <3>2. data_frames[<<b, w>>] \in AllFrames /\ data_frames[<<b, w>>] \in trackers
      BY Zenon, <1>1, <3>1, PageFrame
    <3>3. mem'[data_frames'[<<b, w>>]] = mem[data_frames[<<b, w>>]]
      BY Zenon, <2>1, <2>2, <3>1, <3>2
    <3>4. PageHeld(b, w) /\ Copied(b)' = Copied(b)
      BY Zenon, <1>1, <2>3, <3>1 DEF DataInv
    <3>5. mem'[data_frames'[<<b, w>>]] = Held(b, w, Copied(b)')
      BY Zenon, <3>3, <3>4 DEF PageHeld
    <3> QED BY Zenon, <3>5 DEF PageHeld, Held
  <2> QED BY Zenon, <2>4, <2>5
<1>6. CASE job.area.kind = "Framed" /\ ~CanAlloc
  <2>1. frame_alloc
    BY Zenon, <1>6 DEF map_one
  <2>2. panic' # "no"
    BY Zenon, <1>6, <2>1, NoFrame
  <2> QED BY Zenon, <2>2 DEF DataInv
<1> QED BY Zenon, <1>2, <1>4, <1>5, <1>6, AreaFacts

LEMMA FindPteCreateData ==
  ASSUME MsInv, DataInv, find_pte_create
  PROVE  DataInv'
<1> DEFINE i == indexes(job.vpn)[job.level]
<1>1. panic = "no" /\ job.op = "find_pte_create" /\ data_frames' = data_frames
  BY Zenon DEF find_pte_create, At
<1>2. /\ job.table \in frames
      /\ \A f : LET next == [job EXCEPT !.level = @ + 1, !.table = f]
                IN next.op = job.op /\ next.area = job.area
  BY Zenon, <1>1, JobFacts
<1>3. ASSUME NEW f, job' = [job EXCEPT !.level = @ + 1, !.table = f]
      PROVE  \A b \in Areas : Copied(b)' = Copied(b)
  <2>1. job'.op = job.op /\ job'.area = job.area
    BY Zenon, <1>2, <1>3
  <2> QED BY Zenon, <1>1, <2>1 DEF Copied
<1>4. CASE mem' = mem /\ \E f : job' = [job EXCEPT !.level = @ + 1, !.table = f]
  BY Zenon, <1>1, <1>3, <1>4, KeepData
<1>5. CASE /\ CanAlloc /\ frame_alloc
           /\ mem' = [Cleared EXCEPT ![job.table][i] = Table(NextFrame)]
           /\ job' = [job EXCEPT !.level = @ + 1, !.table = NextFrame]
  <2>1. /\ NextFrame \notin trackers /\ Cleared \in Memory
        /\ \A f \in AllFrames : f # NextFrame => Cleared[f] = mem[f]
    BY Zenon, <1>1, <1>5, ClearsFrame DEF MsInv
  <2>2. \A b \in Areas : Copied(b)' = Copied(b)
    BY Zenon, <1>3, <1>5
  <2>3. ASSUME NEW p \in DOMAIN data_frames
        PROVE  mem'[data_frames[p]] = mem[data_frames[p]]
    <3>1. /\ data_frames[p] \in AllFrames /\ data_frames[p] \in trackers
          /\ data_frames[p] \notin frames
      BY Zenon, <1>1, PageFrame
    <3>2. data_frames[p] # NextFrame /\ data_frames[p] # job.table
      BY Zenon, <1>2, <2>1, <3>1
    <3>3. mem'[data_frames[p]] = Cleared[data_frames[p]]
      BY Zenon, <1>5, <2>1, <3>1, <3>2 DEF Memory
    <3> QED BY Zenon, <2>1, <3>1, <3>2, <3>3
  <2> QED BY Zenon, <1>1, <2>2, <2>3, KeepData
<1>6. CASE frame_alloc /\ ~CanAlloc
  BY Zenon, <1>6, NoFrame DEF DataInv
<1> QED BY Zenon, <1>4, <1>5, <1>6 DEF find_pte_create

LEMMA MapData ==
  ASSUME MsInv, DataInv, map
  PROVE  DataInv'
<1> DEFINE i == indexes(job.vpn)[3]
<1>1. panic = "no" /\ job.op = "find_pte_create" /\ data_frames' = data_frames
  BY Zenon DEF map, At
<1>2. job.table \in frames /\ job.area \in Areas /\ job.area.data \in Nat
  BY Zenon, <1>1, JobFacts
<1>3. CASE mem[job.table][i].v
  <2>1. panic' = "mapped before mapping"
    BY Zenon, <1>3 DEF map, Assert
  <2> QED BY Zenon, <2>1 DEF DataInv
<1>4. CASE ~mem[job.table][i].v
  <2>1. mem' = [mem EXCEPT ![job.table][i] = Leaf(job.ppn, job.area.perm)] /\ NextPage
    BY Zenon, <1>4 DEF map
  <2>2. ASSUME NEW b \in Areas
        PROVE  Copied(b)' = Copied(b)
    <3>1. Copied(b) = IF b # job.area THEN b.data ELSE 0
      BY Zenon, <1>1 DEF Copied
    <3>2. CASE job' = [op |-> "map_one", area |-> job.area, vpn |-> job.vpn + 1]
      <4>1. job'.op = "map_one" /\ job'.area = job.area
        BY Zenon, <3>2
      <4> QED BY Zenon, <3>1, <4>1 DEF Copied
    <3>3. CASE job' = [op |-> "copy_data", area |-> job.area, vpn |-> job.area.start, from |-> 0]
      <4>1. job'.op = "copy_data" /\ job'.area = job.area /\ job'.from = 0
        BY Zenon, <3>3
      <4> QED BY Zenon, <3>1, <4>1 DEF Copied
    <3>4. CASE job' = Idle /\ ~(job.area.data > 0)
      <4>1. job'.op = "idle"
        BY Zenon, <3>4 DEF Idle
      <4>2. job.area.data = 0
        BY <1>2, <3>4
      <4> QED BY Zenon, <3>1, <4>1, <4>2 DEF Copied
    <3> QED BY Zenon, <2>1, <3>2, <3>3, <3>4 DEF NextPage
  <2>3. ASSUME NEW p \in DOMAIN data_frames
        PROVE  mem'[data_frames[p]] = mem[data_frames[p]]
    <3>1. data_frames[p] \in AllFrames /\ data_frames[p] # job.table
      BY Zenon, <1>1, <1>2, PageFrame
    <3>2. mem \in Memory
      BY Zenon, <1>1 DEF MsInv, RunInv, TableInv
    <3> QED BY Zenon, <2>1, <3>1, <3>2 DEF Memory
  <2> QED BY Zenon, <1>1, <2>2, <2>3, KeepData
<1> QED BY Zenon, <1>3, <1>4

\* The words of another page are copied by an earlier step or a later one.
LEMMA OtherPage ==
  ASSUME NEW u \in Nat, NEW v \in Nat, u # v, NEW F \in Nat \ {0}, NEW i \in 0 .. F - 1
  PROVE  u * F + i < v * F <=> u * F + i < v * F + F
<1>1. CASE u < v
  <2>1. PICK n \in Nat : v = u + 1 + n
    <3>1. v - u - 1 \in Nat /\ v = u + 1 + (v - u - 1)
      BY <1>1
    <3> QED BY <3>1
  <2>2. v * F = u * F + F + n * F /\ n * F \in Nat /\ u * F \in Nat
    BY <2>1
  <2> QED BY <2>2
<1>2. CASE u > v
  <2>1. PICK n \in Nat : u = v + 1 + n
    <3>1. u - v - 1 \in Nat /\ u = v + 1 + (u - v - 1)
      BY <1>2
    <3> QED BY <3>1
  <2>2. u * F = v * F + F + n * F /\ n * F \in Nat /\ v * F \in Nat
    BY <2>1
  <2> QED BY <2>2
<1> QED BY <1>1, <1>2

\* What a step of copy_data adds, to the page that it fills and to the others:
\* n words are there after it, a page more or all of them.
LEMMA HeldMore ==
  ASSUME NEW a \in Areas, NEW v \in PagesOf(a), NEW w \in PagesOf(a), NEW n \in Nat,
         NEW from, from = (v - a.start) * Fanout,
         \/ n = from + Fanout /\ n < a.data
         \/ n = a.data /\ from + Fanout >= a.data /\ from < a.data
  PROVE  /\ w # v => Held(a, w, n) = Held(a, w, from)
         /\ Held(a, v, n) = [i \in Idx |-> IF from + i < a.data THEN DataWord(from + i)
                                           ELSE Held(a, v, from)[i]]
<1> DEFINE x == v - a.start
           y == w - a.start
<1>1. /\ x \in Nat /\ y \in Nat /\ Fanout \in Nat \ {0} /\ a.data \in Nat /\ from = x * Fanout
      /\ (w # v => y # x)
  <2>1. /\ a.start \in Nat /\ a.data \in Nat /\ Fanout \in Nat \ {0}
        /\ v \in Nat /\ a.start <= v /\ w \in Nat /\ a.start <= w
    BY Zenon, AreaFacts, MemorySetAssumption
  <2>2. x \in Nat /\ y \in Nat /\ (w # v => y # x)
    BY <2>1
  <2> QED BY Zenon, <2>1, <2>2
<1>2. from \in Nat /\ y * Fanout \in Nat
  BY <1>1
<1>3. Held(a, w, n) = [i \in Idx |-> IF y * Fanout + i < n THEN DataWord(y * Fanout + i) ELSE Empty]
  BY Zenon DEF Held
<1>4. Held(a, w, from) = [i \in Idx |-> IF y * Fanout + i < from THEN DataWord(y * Fanout + i)
                                        ELSE Empty]
  BY Zenon DEF Held
<1>5. Held(a, v, n) = [i \in Idx |-> IF from + i < n THEN DataWord(from + i) ELSE Empty]
  BY Zenon DEF Held
<1>6. \A i \in Idx : Held(a, v, from)[i] = IF from + i < from THEN DataWord(from + i) ELSE Empty
  BY Zenon DEF Held
<1> HIDE DEF x, y
<1>7. ASSUME w # v, NEW i \in Idx
      PROVE  y * Fanout + i < n <=> y * Fanout + i < from
  <2>1. y * Fanout + i < x * Fanout <=> y * Fanout + i < x * Fanout + Fanout
    BY <1>1, <1>7, OtherPage DEF Idx
  <2>2. i \in Nat /\ (y * Fanout + i < from <=> y * Fanout + i < from + Fanout)
    BY <1>1, <2>1 DEF Idx
  <2>3. CASE n = from + Fanout
    BY Zenon, <2>2, <2>3
  <2>4. CASE n = a.data /\ from + Fanout >= a.data /\ from < a.data
    <3> DEFINE z == y * Fanout + i
    <3>1. z \in Nat /\ (z < from <=> z < from + Fanout)
      BY <1>2, <2>2
    <3> HIDE DEF z
    <3>2. z < n <=> z < from
      BY <1>1, <1>2, <2>4, <3>1
    <3> QED BY Zenon, <3>2 DEF z
  <2> QED BY <2>3, <2>4
<1>8. ASSUME NEW i \in Idx
      PROVE  (IF from + i < n THEN DataWord(from + i) ELSE Empty)
             = (IF from + i < a.data THEN DataWord(from + i) ELSE Held(a, v, from)[i])
  <2>1. i \in Nat /\ i < Fanout /\ ~(from + i < from)
    BY <1>1, <1>2 DEF Idx
  <2>2. Held(a, v, from)[i] = Empty
    BY Zenon, <1>6, <2>1
  <2>3. from + i < n <=> from + i < a.data
    BY <1>1, <1>2, <2>1
  <2> QED BY Zenon, <2>2, <2>3
<1>9. w # v => Held(a, w, n) = Held(a, w, from)
  BY Zenon, <1>3, <1>4, <1>7
<1>10. Held(a, v, n) = [i \in Idx |-> IF from + i < a.data THEN DataWord(from + i)
                                      ELSE Held(a, v, from)[i]]
  BY Zenon, <1>5, <1>8
<1> QED BY Zenon, <1>9, <1>10

LEMMA CopyDataData ==
  ASSUME MsInv, DataInv, copy_data
  PROVE  DataInv'
<1>1. panic = "no" /\ job.op = "copy_data" /\ data_frames' = data_frames
  BY Zenon DEF copy_data, At
<1>a. PICK a, v, from : a = job.area /\ v = job.vpn /\ from = job.from
  BY Zenon
<1> DEFINE dst == translate(v)[1].ppn
           last == from + Fanout >= a.data
           next == [job EXCEPT !.vpn = @ + 1, !.from = @ + Fanout]
<1>2. /\ a \in Areas /\ a \notin areas /\ v \in PagesOf(a) /\ v \in Vpns /\ v \in Nat
      /\ a.start \in Nat /\ a.data \in Nat /\ a.start <= v
      /\ from = (v - a.start) * Fanout /\ from < a.data /\ Fanout \in Nat \ {0}
      /\ next.op = "copy_data" /\ next.area = a /\ next.from = from + Fanout
  BY Zenon, <1>a, <1>1, JobFacts, MemorySetAssumption
<1>b. from \in Nat
  BY <1>2
<1> HIDE DEF next
<1>3. CASE a.kind # "Framed"
  <2>1. panic' = "data for a linear area"
    BY Zenon, <1>a, <1>3 DEF copy_data
  <2> QED BY Zenon, <2>1 DEF DataInv
<1>4. CASE a.kind = "Framed"
  <2>1. /\ mem' = [mem EXCEPT ![dst] = [i \in Idx |->
                     IF from + i < a.data THEN DataWord(from + i) ELSE @[i]]]
        /\ job' = IF last THEN Idle ELSE next
    BY Zenon, <1>a, <1>4 DEF copy_data, next
  <2>2. /\ <<a, v>> \in DOMAIN data_frames /\ dst = data_frames[<<a, v>>]
        /\ mem \in Memory
    <3>1. JobPages = PagesOf(a)
      BY Zenon, <1>a, <1>1 DEF JobPages, InProgress
    <3>2. HasFrame(a, v) /\ ~Pending(a, v)
      BY Zenon, <1>a, <1>1, <1>2, <1>4, <3>1 DEF HasFrame, Pending
    <3>3. /\ <<a, v>> \in DOMAIN data_frames /\ Entry(v) = Leaf(data_frames[<<a, v>>], a.perm)
          /\ mem \in Memory
      BY Zenon, <1>1, <1>2, <3>2 DEF MsInv, RunInv, FrameInv, TableInv
    <3> QED BY Zenon, <1>1, <1>2, <3>3, TranslatesTo
  <2>3. \A p \in DOMAIN data_frames :
          data_frames[p] \in AllFrames /\ (data_frames[p] = dst => p = <<a, v>>)
    BY Zenon, <1>1, <2>2, PageFrame
  <2> HIDE DEF dst
  <2>4. mem'[dst] = [i \in Idx |-> IF from + i < a.data THEN DataWord(from + i) ELSE mem[dst][i]]
        /\ \A f \in AllFrames : f # dst => mem'[f] = mem[f]
    BY Zenon, <2>1, <2>2, <2>3 DEF Memory
  <2>5. Copied(a) = from /\ \A b \in Areas : b # a => Copied(b) = b.data /\ Copied(b)' = b.data
    <3>1. job'.op = "idle" \/ job'.area = a
      BY Zenon, <1>2, <2>1 DEF Idle
    <3> QED BY Zenon, <1>a, <1>1, <3>1 DEF Copied
  <2>6. \/ Copied(a)' = from + Fanout /\ Copied(a)' < a.data
        \/ Copied(a)' = a.data /\ from + Fanout >= a.data /\ from < a.data
    <3>1. CASE last
      <4>1. job'.op = "idle"
        BY Zenon, <2>1, <3>1 DEF Idle
      <4> QED BY Zenon, <1>2, <3>1, <4>1 DEF Copied
    <3>2. CASE ~last
      <4>1. job'.op = "copy_data" /\ job'.area = a /\ job'.from = from + Fanout
        BY Zenon, <1>2, <2>1, <3>2
      <4>2. Copied(a)' = from + Fanout
        BY Zenon, <4>1 DEF Copied
      <4>3. from + Fanout < a.data
        BY <1>2, <1>b, <3>2
      <4> QED BY Zenon, <4>2, <4>3
    <3> QED BY Zenon, <3>1, <3>2
  <2>7. Copied(a)' \in Nat
    <3>1. from + Fanout \in Nat
      BY <1>2, <1>b
    <3> QED BY Zenon, <1>2, <2>6, <3>1
  <2> SUFFICES ASSUME NEW b \in Areas, NEW w \in Vpns, <<b, w>> \in DOMAIN data_frames'
               PROVE  PageHeld(b, w)'
    BY Zenon DEF DataInv
  <2>8. <<b, w>> \in DOMAIN data_frames /\ PageHeld(b, w) /\ data_frames[<<b, w>>] \in AllFrames
    BY Zenon, <1>1, <2>3 DEF DataInv
  <2> HIDE DEF last
  <2>9. CASE b # a
    <3>1. <<b, w>> # <<a, v>>
      BY <2>9
    <3>2. mem'[data_frames'[<<b, w>>]] = mem[data_frames[<<b, w>>]]
      BY Zenon, <1>1, <2>3, <2>4, <2>8, <3>1
    <3>3. mem'[data_frames'[<<b, w>>]] = Held(b, w, Copied(b)')
      BY Zenon, <2>5, <2>8, <2>9, <3>2 DEF PageHeld
    <3> QED BY Zenon, <3>3 DEF PageHeld, Held
  <2>10. CASE b = a
    <3>1. w \in PagesOf(a)
      <4>1. HasFrame(a, w)
        BY Zenon, <1>1, <2>8, <2>10 DEF MsInv, RunInv, FrameInv
      <4> QED BY Zenon, <1>a, <1>1, <1>2, <4>1 DEF HasFrame, JobPages, InProgress
    <3>2. /\ w # v => Held(a, w, Copied(a)') = Held(a, w, from)
          /\ Held(a, v, Copied(a)') = [i \in Idx |-> IF from + i < a.data THEN DataWord(from + i)
                                                     ELSE Held(a, v, from)[i]]
      <4> DEFINE n == Copied(a)'
      <4>1. /\ n \in Nat /\ from = (v - a.start) * Fanout /\ a \in Areas /\ v \in PagesOf(a)
            /\ \/ n = from + Fanout /\ n < a.data
               \/ n = a.data /\ from + Fanout >= a.data /\ from < a.data
        BY Zenon, <1>2, <2>6, <2>7
      <4> HIDE DEF n
      <4>2. /\ w # v => Held(a, w, n) = Held(a, w, from)
            /\ Held(a, v, n) = [i \in Idx |-> IF from + i < a.data THEN DataWord(from + i)
                                              ELSE Held(a, v, from)[i]]
        BY <3>1, <4>1, HeldMore
      <4> QED BY Zenon, <4>2 DEF n
    <3>3. mem[data_frames[<<a, w>>]] = Held(a, w, from)
      BY Zenon, <2>5, <2>8, <2>10 DEF PageHeld
    <3>4. CASE w = v
      <4>1. mem[dst] = Held(a, v, from)
        BY Zenon, <2>2, <3>3, <3>4
      <4>2. mem'[dst] = Held(a, v, Copied(a)')
        BY Zenon, <2>4, <3>2, <4>1
      <4>3. mem'[data_frames'[<<b, w>>]] = Held(b, w, Copied(b)')
        BY Zenon, <1>1, <2>2, <2>10, <3>4, <4>2
      <4> QED BY Zenon, <4>3 DEF PageHeld, Held
    <3>5. CASE w # v
      <4>1. <<a, w>> # <<a, v>>
        BY <3>5
      <4>2. mem'[data_frames[<<a, w>>]] = mem[data_frames[<<a, w>>]]
        BY Zenon, <2>3, <2>4, <2>8, <2>10, <4>1
      <4>3. mem'[data_frames'[<<b, w>>]] = Held(b, w, Copied(b)')
        BY Zenon, <1>1, <2>10, <3>2, <3>3, <3>5, <4>2
      <4> QED BY Zenon, <4>3 DEF PageHeld, Held
    <3> QED BY Zenon, <3>4, <3>5
  <2> QED BY Zenon, <2>9, <2>10
<1> QED BY Zenon, <1>3, <1>4

LEMMA UnmapOneData ==
  ASSUME MsInv, DataInv, unmap_one
  PROVE  DataInv'
<1> DEFINE key == <<job.area, job.vpn>>
           slot == find_pte(job.vpn)
           ok == slot # <<>> /\ mem[slot[1]][slot[2]].v
           owned == job.area.kind = "Framed" /\ key \in DOMAIN data_frames
<1>1. panic = "no" /\ job.op = "unmap_one"
  BY Zenon DEF unmap_one, At
<1>2. CASE ~ok
  <2>1. panic' = "invalid before unmapping"
    BY Zenon, <1>2 DEF unmap_one
  <2> QED BY Zenon, <2>1 DEF DataInv
<1>3. CASE ok
  <2>1. /\ \/ /\ owned /\ frame_dealloc(data_frames[key])
              /\ data_frames' = [w \in DOMAIN data_frames \ {key} |-> data_frames[w]]
           \/ data_frames' = data_frames /\ UNCHANGED allocVars
        /\ mem' = [f \in AllFrames |-> IF f \in trackers \ trackers' THEN DirtyPage
                                       ELSE IF f = slot[1] THEN [mem[f] EXCEPT ![slot[2]] = Empty]
                                       ELSE mem[f]]
        /\ NextUnmap
    BY Zenon, <1>3 DEF unmap_one
  <2>2. slot[1] \in frames
    BY Zenon, <1>1, <1>3, JobFacts, LeafTable
  <2>3. job'.op \in {"idle", "unmap_one"}
    BY Zenon, <1>1, <2>1, JobFacts DEF NextUnmap, Idle
  <2>4. \A b \in Areas : Copied(b)' = Copied(b)
    BY Zenon, <1>1, <2>3 DEF Copied
  <2>5. ASSUME NEW p \in DOMAIN data_frames'
        PROVE  /\ p \in DOMAIN data_frames /\ data_frames'[p] = data_frames[p]
               /\ data_frames[p] \notin trackers \ trackers'
    <3>1. CASE /\ owned /\ frame_dealloc(data_frames[key])
               /\ data_frames' = [w \in DOMAIN data_frames \ {key} |-> data_frames[w]]
      <4> HIDE DEF key
      <4>1. p \in DOMAIN data_frames /\ p # key /\ data_frames'[p] = data_frames[p]
        BY Zenon, <3>1
      <4>2. data_frames[p] # data_frames[key]
        BY Zenon, <1>1, <3>1, <4>1, PageFrame
      <4>3. trackers' = trackers \ {data_frames[key]}
        BY Zenon, <3>1 DEF frame_dealloc
      <4> QED BY Zenon, <4>1, <4>2, <4>3
    <3>2. CASE data_frames' = data_frames /\ UNCHANGED allocVars
      <4>1. trackers' = trackers
        BY Zenon, <3>2 DEF allocVars
      <4> QED BY Zenon, <3>2, <4>1
    <3> QED BY Zenon, <2>1, <3>1, <3>2
  <2>6. ASSUME NEW p \in DOMAIN data_frames'
        PROVE  /\ p \in DOMAIN data_frames
               /\ mem'[data_frames'[p]] = mem[data_frames[p]]
    <3>1. data_frames[p] \in AllFrames /\ data_frames[p] \notin frames
      BY Zenon, <1>1, <2>5, PageFrame
    <3> HIDE DEF slot
    <3>2. data_frames[p] # slot[1]
      BY Zenon, <2>2, <3>1
    <3> QED BY Zenon, <2>1, <2>5, <3>1, <3>2
  <2> QED BY Zenon, <1>1, <2>4, <2>6, KeepData
<1> QED BY Zenon, <1>2, <1>3

LEMMA DataStep == MsInv /\ DataInv /\ [MsNext]_memorySetVars => DataInv'
<1>1. ASSUME DataInv, UNCHANGED memorySetVars PROVE DataInv'
  BY <1>1 DEF memorySetVars, msVars, allocVars, DataInv, PageHeld, Held, Copied
<1> QED BY Zenon, <1>1, PushData, UnmapData, MapOneData, FindPteCreateData, MapData, CopyDataData,
           UnmapOneData DEF MsNext, Continue

\* Between operations every page of a Framed area holds its part of the data
\* that copy_data was given, and zeros after the data, whoever had the frame
\* before.
THEOREM MsDataInPlace == MsSpec => []DataInPlace
<1>1. ASSUME MsInv, DataInv PROVE DataInPlace
  <2> SUFFICES ASSUME panic = "no", job = Idle, NEW a \in areas, a.kind = "Framed",
                      NEW v \in PagesOf(a), NEW i \in Idx
               PROVE  mem[Entry(v).ppn][i] = IF (v - a.start) * Fanout + i < a.data
                                             THEN DataWord((v - a.start) * Fanout + i) ELSE Empty
    BY Zenon DEF DataInPlace
  <2>1. FrameInv /\ SpaceInv
    BY Zenon, <1>1 DEF MsInv, RunInv
  <2>2. a \in Areas /\ v \in Vpns /\ job.op = "idle"
    BY Zenon, <2>1, AreaFacts DEF SpaceInv, Idle
  <2>3. HasFrame(a, v) /\ ~Pending(a, v)
    BY Zenon, <2>2 DEF HasFrame, Pending
  <2>4. <<a, v>> \in DOMAIN data_frames /\ Entry(v) = Leaf(data_frames[<<a, v>>], a.perm)
    BY <2>1, <2>2, <2>3, Zenon DEF FrameInv
  <2>5. Entry(v).ppn = data_frames[<<a, v>>]
    <3>1. Leaf(data_frames[<<a, v>>], a.perm).ppn = data_frames[<<a, v>>]
      BY Zenon DEF Leaf
    <3> QED BY Zenon, <2>4, <3>1
  <2>6. mem[data_frames[<<a, v>>]] = Held(a, v, a.data)
    BY Zenon, <1>1, <2>2, <2>4 DEF DataInv, PageHeld, Copied
  <2> QED BY Zenon, <2>5, <2>6 DEF Held
<1>2. MsInv /\ DataInv /\ [MsNext]_memorySetVars => DataInv'
  BY Zenon, DataStep
<1> QED BY <1>1, <1>2, DataInitially, MsInvariant, PTL DEF MsSpec
=============================================================================
