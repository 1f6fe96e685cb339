------------------------------- MODULE MemorySet -------------------------------
(***************************************************************************)
(* A memory set: a three-level page table (page_table/sv39.rs) whose table *)
(* pages come from the frame allocator, and the map areas pushed into it   *)
(* (mm/memory_set.rs, mm/mod.rs).  Frames are real memory here: a table    *)
(* entry is a word of the frame that holds the table, and a frame that was *)
(* used before still holds what was in it.  An operation is a sequence of  *)
(* steps, one per loop iteration; the hart runs one operation at a time.   *)
(***************************************************************************)
EXTENDS FrameAllocator

CONSTANTS Fanout,      \* entries per table page (512)
          Areas        \* the areas that are pushed, each with its words of data

\* There is a frame for the root.  copy_data's data is at most as long as the
\* area it fills.  A Linear area has a page: map's loop would miss the end of an
\* empty one and run until it meets a mapped page, which Boot has as a panic.
ASSUME MemorySetAssumption ==
  /\ PhysAddrCeil(ekernel) < PhysAddrFloor(MEMORY_END)
  /\ Fanout \in Nat \ {0}
  /\ Areas \subseteq [start : Nat, end : Nat, kind : {"Linear", "Framed"},
                      ppn : Nat, perm : STRING, data : Nat]
  /\ \A a \in Areas : /\ a.start <= a.end /\ a.end <= Fanout * Fanout * Fanout
                      /\ a.data <= (a.end - a.start) * Fanout
                      /\ a.kind = "Linear" => a.start < a.end

Idx == 0 .. Fanout - 1
Vpns == 0 .. Fanout * Fanout * Fanout - 1

VARIABLES mem,         \* the words of every frame
          root_ppn,    \* PageTableSv39.root_ppn
          frames,      \* PageTableSv39.frames
          areas,       \* MemorySet.areas
          data_frames, \* each MapArea's data_frames: <<area, vpn>> -> frame
          job          \* the operation in progress

msVars == <<mem, root_ppn, frames, areas, data_frames, job>>
memorySetVars == <<msVars, allocVars>>

\* PageTableEntry: empty() is the all-zero word.
Empty == [v |-> FALSE, ppn |-> 0, perm |-> ""]
Table(f) == [v |-> TRUE, ppn |-> f, perm |-> ""]
Leaf(p, perm) == [v |-> TRUE, ppn |-> p, perm |-> perm]

ZeroPage == [i \in Idx |-> Empty]

\* Word k of the data an area is pushed with.
DataWord(k) == [v |-> TRUE, ppn |-> k, perm |-> "data"]

\* What the owner of a page may leave in it: words that would pass for entries.
\* A frame is taken to hold them from the moment it is returned.
DirtyPage == [i \in Idx |-> Leaf(PhysAddrCeil(ekernel), "dirty")]

\* VirtPageNum::indexes, the most significant first.
indexes(vpn) == << (vpn \div (Fanout * Fanout)) % Fanout,
                   (vpn \div Fanout) % Fanout, vpn % Fanout >>

Idle == [op |-> "idle"]

\* new_bare: PageTable::new allocates and clears the root.
MsInit ==
  LET root == PhysAddrCeil(ekernel) IN
  /\ current = root + 1 /\ end = PhysAddrFloor(MEMORY_END)
  /\ recycled = <<>> /\ trackers = {root} /\ panic = "no"
  /\ mem = [f \in AllFrames |-> IF f = root THEN ZeroPage ELSE DirtyPage]
  /\ root_ppn = root /\ frames = {root}
  /\ areas = {} /\ data_frames = <<>> /\ job = Idle

-----------------------------------------------------------------------------
\* The frame the next frame_alloc returns.
CanAlloc == recycled # <<>> \/ current # end

\* The recycled stack forgotten.
M_NextFrame == current

NextFrame == IF recycled # <<>> THEN recycled[Len(recycled)] ELSE current

\* FrameTracker::new clears the frame it wraps.
M_Cleared == mem

Cleared == [mem EXCEPT ![NextFrame] = ZeroPage]

At(phase) == panic = "no" /\ job.op = phase

Assert(ok, msg) == IF ok THEN UNCHANGED panic ELSE panic' = msg

\* push: MapArea::map starts with the first page.  A Framed area iterates over
\* its range; a Linear one enters its loop before it tests the end.
push(a) ==
  /\ At("idle")
  /\ a \notin areas
  /\ IF a.kind = "Framed" /\ a.start = a.end
       THEN areas' = areas \cup {a} /\ UNCHANGED job
       ELSE job' = [op |-> "map_one", area |-> a, vpn |-> a.start] /\ UNCHANGED areas
  /\ UNCHANGED <<mem, root_ppn, frames, data_frames, allocVars>>

\* The frame recorded under the page's place in the area.
M_map_one ==
  /\ At("map_one")
  /\ LET key == <<job.area, job.vpn - job.area.start>>
         walk(p) == job' = [op |-> "find_pte_create", area |-> job.area,
                            vpn |-> job.vpn, ppn |-> p, level |-> 1,
                            table |-> root_ppn]
     IN \/ /\ job.area.kind = "Linear"
           /\ walk(job.area.ppn + (job.vpn - job.area.start))
           /\ UNCHANGED <<mem, data_frames, allocVars>>
        \/ /\ job.area.kind = "Framed" /\ CanAlloc
           /\ walk(NextFrame)
           /\ frame_alloc
           /\ mem' = Cleared
           /\ data_frames' = [w \in DOMAIN data_frames \cup {key} |->
                                IF w = key THEN NextFrame ELSE data_frames[w]]
  /\ UNCHANGED <<root_ppn, frames, areas>>

\* map_one: choose the physical page, allocating it for a Framed area.
map_one ==
  /\ At("map_one")
  /\ LET key == <<job.area, job.vpn>>
         walk(p) == job' = [op |-> "find_pte_create", area |-> job.area,
                            vpn |-> job.vpn, ppn |-> p, level |-> 1,
                            table |-> root_ppn]
     IN \/ /\ job.area.kind = "Linear"
           /\ walk(job.area.ppn + (job.vpn - job.area.start))
           /\ UNCHANGED <<mem, data_frames, allocVars>>
        \/ /\ job.area.kind = "Framed" /\ CanAlloc
           /\ walk(NextFrame)
           /\ frame_alloc
           /\ mem' = Cleared
           /\ data_frames' = [w \in DOMAIN data_frames \cup {key} |->
                                IF w = key THEN NextFrame ELSE data_frames[w]]
        \/ /\ job.area.kind = "Framed" /\ ~CanAlloc
           /\ frame_alloc
           /\ UNCHANGED <<mem, data_frames, job>>
  /\ UNCHANGED <<root_ppn, frames, areas>>

\* find_pte_create: one level down, making the table page if there is none.
find_pte_create ==
  /\ At("find_pte_create") /\ job.level < 3
  /\ LET i == indexes(job.vpn)[job.level]
         pte == mem[job.table][i]
         down(f) == job' = [job EXCEPT !.level = @ + 1, !.table = f]
     IN \/ /\ pte.v
           /\ down(pte.ppn)
           /\ UNCHANGED <<mem, frames, allocVars>>
        \/ /\ ~pte.v /\ CanAlloc
           /\ frame_alloc
           /\ mem' = [Cleared EXCEPT ![job.table][i] = Table(NextFrame)]
           /\ frames' = frames \cup {NextFrame}
           /\ down(NextFrame)
        \/ /\ ~pte.v /\ ~CanAlloc
           /\ frame_alloc
           /\ UNCHANGED <<mem, frames, job>>
  /\ UNCHANGED <<root_ppn, areas, data_frames>>

\* The area's next page, or the end of map: then the data is copied, if there
\* is any, and the area pushed.
NextPage ==
  LET a == job.area
      mapped == job.vpn + 1 = a.end
  IN /\ job' = IF ~mapped THEN [op |-> "map_one", area |-> a, vpn |-> job.vpn + 1]
               ELSE IF a.data > 0
                 THEN [op |-> "copy_data", area |-> a, vpn |-> a.start, from |-> 0]
                 ELSE Idle
     /\ areas' = IF mapped /\ a.data = 0 THEN areas \cup {a} ELSE areas

\* The assertion that the page was free left out.
M_map ==
  /\ At("find_pte_create") /\ job.level = 3
  /\ mem' = [mem EXCEPT ![job.table][indexes(job.vpn)[3]] =
                          Leaf(job.ppn, job.area.perm)]
  /\ NextPage
  /\ UNCHANGED <<root_ppn, frames, data_frames, allocVars>>

\* map: the leaf, which must be free.
map ==
  /\ At("find_pte_create") /\ job.level = 3
  /\ LET i == indexes(job.vpn)[3]
         free == ~mem[job.table][i].v
     IN /\ Assert(free, "mapped before mapping")
        /\ IF free
             THEN /\ mem' = [mem EXCEPT ![job.table][i] = Leaf(job.ppn, job.area.perm)]
                  /\ NextPage
             ELSE UNCHANGED <<mem, job, areas>>
  /\ UNCHANGED <<root_ppn, frames, data_frames, current, end, recycled, trackers>>

-----------------------------------------------------------------------------
\* find_pte: the word that holds vpn's leaf entry, if both tables above exist.
find_pte(vpn) ==
  LET ix == indexes(vpn)
      p1 == mem[root_ppn][ix[1]]
      p2 == mem[p1.ppn][ix[2]]
  IN IF p1.v /\ p2.v THEN <<p2.ppn, ix[3]>> ELSE <<>>

\* translate: the entry find_pte finds, valid or not.
translate(vpn) ==
  LET slot == find_pte(vpn) IN
  IF slot = <<>> THEN <<>> ELSE <<mem[slot[1]][slot[2]]>>

\* The page not advanced with the data.
M_copy_data ==
  /\ At("copy_data")
  /\ LET a == job.area
         dst == translate(job.vpn)[1].ppn
         last == job.from + Fanout >= a.data
     IN /\ mem' = [mem EXCEPT ![dst] = [i \in Idx |->
                     IF job.from + i < a.data THEN DataWord(job.from + i) ELSE @[i]]]
        /\ job' = IF last THEN Idle ELSE [job EXCEPT !.from = @ + Fanout]
        /\ areas' = IF last THEN areas \cup {a} ELSE areas
  /\ UNCHANGED <<root_ppn, frames, data_frames, allocVars>>

\* copy_data, one page per step: the words of data that are left, up to a page
\* of them, go to the frame the page translates to.
copy_data ==
  /\ At("copy_data")
  /\ LET a == job.area
         dst == translate(job.vpn)[1].ppn
         last == job.from + Fanout >= a.data
     IN \/ /\ a.kind = "Framed"
           /\ mem' = [mem EXCEPT ![dst] = [i \in Idx |->
                        IF job.from + i < a.data THEN DataWord(job.from + i) ELSE @[i]]]
           /\ job' = IF last THEN Idle
                     ELSE [job EXCEPT !.vpn = @ + 1, !.from = @ + Fanout]
           /\ areas' = IF last THEN areas \cup {a} ELSE areas
           /\ UNCHANGED panic
        \/ /\ a.kind # "Framed"
           /\ panic' = "data for a linear area"
           /\ UNCHANGED <<mem, job, areas>>
  /\ UNCHANGED <<root_ppn, frames, data_frames, current, end, recycled, trackers>>

\* MapArea::unmap, on an area its caller takes out of the set.
unmap(a) ==
  /\ At("idle")
  /\ a \in areas
  /\ areas' = areas \ {a}
  /\ job' = IF a.start = a.end THEN Idle
            ELSE [op |-> "unmap_one", area |-> a, vpn |-> a.start]
  /\ UNCHANGED <<mem, root_ppn, frames, data_frames, allocVars>>

\* One page too many.
M_NextUnmap ==
  job' = IF job.vpn = job.area.end THEN Idle ELSE [job EXCEPT !.vpn = @ + 1]

NextUnmap ==
  job' = IF job.vpn + 1 = job.area.end THEN Idle ELSE [job EXCEPT !.vpn = @ + 1]

\* unmap_one: the frame's tracker is dropped, then PageTable::unmap clears the
\* leaf, which must exist and be valid; nothing runs after the panic if it is
\* not, so what was dropped before it is not followed.
unmap_one ==
  /\ At("unmap_one")
  /\ LET slot == find_pte(job.vpn)
         ok == slot # <<>> /\ mem[slot[1]][slot[2]].v
         key == <<job.area, job.vpn>>
         owned == job.area.kind = "Framed" /\ key \in DOMAIN data_frames
     IN IF ok
          THEN /\ \/ /\ owned
                     /\ frame_dealloc(data_frames[key])
                     /\ data_frames' = [w \in DOMAIN data_frames \ {key} |-> data_frames[w]]
                  \/ ~owned /\ UNCHANGED <<data_frames, allocVars>>
               /\ mem' = [f \in AllFrames |->
                            IF f \in trackers \ trackers' THEN DirtyPage
                            ELSE IF f = slot[1] THEN [mem[f] EXCEPT ![slot[2]] = Empty]
                            ELSE mem[f]]
               /\ NextUnmap
          ELSE /\ panic' = "invalid before unmapping"
               /\ UNCHANGED <<mem, data_frames, job, current, end, recycled, trackers>>
  /\ UNCHANGED <<root_ppn, frames, areas>>

Continue == map_one \/ find_pte_create \/ map \/ copy_data \/ unmap_one

MsNext == Continue \/ \E a \in Areas : push(a) \/ unmap(a)

MsSpec == MsInit /\ [][MsNext]_memorySetVars /\ WF_memorySetVars(Continue)

-----------------------------------------------------------------------------
Entry(vpn) == LET t == translate(vpn) IN IF t = <<>> THEN Empty ELSE t[1]

MappedPages == {v \in Vpns : Entry(v).v}

PagesOf(a) == a.start .. a.end - 1

\* The pages that are mapped on behalf of an area, pushed or in progress.
InProgress ==
  IF job.op = "idle" THEN {}
  ELSE IF job.op = "copy_data" THEN PagesOf(job.area)
  ELSE IF job.op = "unmap_one" THEN job.vpn .. job.area.end - 1
  ELSE job.area.start .. job.vpn - 1

\* A frame with a live tracker is a table page or the page of exactly one
\* Framed page, never both: the two kinds of owner share no memory.
OwnersDisjoint ==
  /\ \A v \in DOMAIN data_frames : data_frames[v] \notin frames
  /\ \A v, w \in DOMAIN data_frames : data_frames[v] = data_frames[w] => v = w
  /\ panic \notin {"not allocated", "invalid before unmapping"} =>
       frames \cup {data_frames[v] : v \in DOMAIN data_frames} = trackers

\* The page table maps exactly the pages of the areas (and of the pages already
\* done by an operation in progress): creating a table page maps nothing else.
MapsTheAreas ==
  panic = "no" => MappedPages = (UNION {PagesOf(a) : a \in areas}) \cup InProgress

\* A Framed page is backed by its own live frame whenever no operation runs.
FramedBacked ==
  (panic = "no" /\ job = Idle) =>
    \A a \in areas : a.kind = "Framed" =>
      \A v \in PagesOf(a) : <<a, v>> \in DOMAIN data_frames
                            /\ Entry(v) = Leaf(data_frames[<<a, v>>], a.perm)

\* Read through the page table, a pushed Framed area holds its data from its
\* first word on and zeros after it, whoever had its frames before and whatever
\* has been pushed and unmapped since (FrameTracker::new, copy_data, translate).
DataInPlace ==
  (panic = "no" /\ job = Idle) =>
    \A a \in areas : a.kind = "Framed" =>
      \A v \in PagesOf(a), i \in Idx :
        LET k == (v - a.start) * Fanout + i
        IN mem[Entry(v).ppn][i] = IF k < a.data THEN DataWord(k) ELSE Empty

\* Unmapping an area that was pushed never trips an assertion.
UnmapNeverPanics == panic \notin {"not allocated", "invalid before unmapping"}

PhysPages == AllFrames \cup UNION {a.ppn .. a.ppn + (a.end - a.start) : a \in Areas}

Leaves == {Leaf(p, a.perm) : p \in PhysPages, a \in Areas}

\* The radix tree in memory implements a page-by-page address space: the making
\* of table pages, and the reuse of frames, are invisible to translation.
Space == INSTANCE AddressSpace WITH
           Pages <- Vpns, Targets <- Leaves, Unmapped <- Empty,
           mapping <- [v \in Vpns |-> IF Entry(v).v THEN Entry(v) ELSE Empty]

ImplementsSpace == Space!ASSpec

\* A push or an unmap ends: the set is idle again, or the hypervisor panicked.
OperationsEnd == job # Idle ~> (job = Idle \/ panic # "no")
=============================================================================
