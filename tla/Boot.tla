--------------------------------- MODULE Boot ---------------------------------
(***************************************************************************)
(* hentry (main.rs): the boot hart parses the two device trees, builds the *)
(* hypervisor's and the guest's memory sets, turns paging on, makes guest  *)
(* 0 and enters it.  A memory set is the set of its areas, each an         *)
(* interval of page numbers; a frame of a Framed area is not named.  How   *)
(* one area is mapped page by page is module MemorySet's subject, here a   *)
(* push either adds the whole area or panics.                              *)
(***************************************************************************)
EXTENDS Integers, Sequences

CONSTANTS HostTrees, GuestTrees,   \* the device trees the boot may meet
          stext, etext, srodata, erodata, sdata, edata,
          sbss_with_stack, ebss, ekernel, strampoline   \* in pages (linker-qemu.ld)

VARIABLES step,       \* the statement of hentry that runs next
          hart_id,    \* the hart the firmware starts
          exts,       \* the extensions there are, of SBI's HSM and the hart's H
          hostTree, guestTree,
          hpm, gpm,   \* areas of the hypervisor's and of the guest's memory set
          HOST_VMM,   \* "none" before call_once, then its mutex: "free" or "held"
          satp,       \* paging is on
          stvec,      \* whose trap entry is installed
          ctx,        \* the TrapContext at TRAP_CONTEXT: its kernel_sp, or 0
          guests,     \* ids of the guests in the queue
          hgatp       \* the second stage uses gpm

inputs == <<hart_id, exts, hostTree, guestTree>>

bootVars == <<step, inputs, hpm, gpm, HOST_VMM, satp, stvec, ctx, guests, hgatp>>

\* Page numbers of the layout, and sizes in pages.  TRAMPOLINE is the last page
\* of the 64-bit space, which VirtAddr's 39-bit mask takes to 2^27 - 1.
PAGE_SIZE == 4096
MEMORY_END == 557056            \* 0x8800_0000
TRAMPOLINE == 134217727
TRAP_CONTEXT == TRAMPOLINE - 1
KERNEL_STACK_SIZE == 4
GUEST_START == 590336           \* 0x9020_0000
GUEST_DEFAULT_SIZE == 32768
GUEST_DTB_ADDR == 589824        \* 0x9000_0000
MAX_GUESTS == 4
VIRTIO_CAP == 16
PLIC_CONTEXTS == 2097152        \* 0x20_0000, a byte offset


Low == 524288                   \* 0x8000_0000: devices lie below it
LAST_LOW == 2147483647          \* the last byte below it
RAM_SLACK == 512                \* 0x20_0000 bytes, mapped below a guest's memory

\* A device tree: what its nodes' reg properties say, in the order of the nodes.
\* Devices are in bytes, memory regions in pages.
Device == [base : Nat, size : Nat]
Region == [offset : Nat, size : Nat]
DeviceTree == [memory : Seq(Region), virtio : Seq(Device), test : Seq(Device),
               uart : Seq(Device), clint : Seq(Device), plic : Seq(Device),
               pci : Seq(Device)]

IsLow(ds) ==
  \A i \in DOMAIN ds : /\ ds[i].base + ds[i].size + PAGE_SIZE < LAST_LOW
                       /\ ds[i].base + PLIC_CONTEXTS < LAST_LOW

DevicesLow(t) ==
  /\ IsLow(t.virtio) /\ IsLow(t.test) /\ IsLow(t.uart)
  /\ IsLow(t.clint) /\ IsLow(t.plic) /\ IsLow(t.pci)

\* What the boot takes as given: the image's sections follow one another below
\* the frame pool, devices lie below 0x8000_0000, and a guest's memory starts at
\* least 0x20_0000 bytes above the hypervisor's and ends far below the stacks.
ASSUME BootAssumption ==
  /\ {stext, etext, srodata, erodata, sdata, edata, sbss_with_stack, ebss,
      ekernel, strampoline} \subseteq Nat
  /\ Low <= stext /\ stext < etext /\ etext <= srodata /\ srodata < erodata
  /\ erodata <= sdata /\ sdata < edata /\ edata <= sbss_with_stack
  /\ sbss_with_stack < ebss /\ ebss <= ekernel /\ ekernel < MEMORY_END
  /\ stext <= strampoline /\ strampoline < etext
  /\ \A t \in HostTrees \cup GuestTrees :
       t \in DeviceTree /\ t.memory # <<>> /\ DevicesLow(t)
  /\ \A t \in GuestTrees : \A i \in DOMAIN t.memory :
       /\ t.memory[i].offset >= MEMORY_END + RAM_SLACK
       /\ t.memory[i].offset + t.memory[i].size < TRAP_CONTEXT - 1024

-----------------------------------------------------------------------------
\* MachineMeta::parse: of several nodes of a kind the last one stays, and the
\* virtio devices are all kept.
LastOf(nodes) == IF nodes = <<>> THEN {} ELSE {nodes[Len(nodes)]}

Memory(t) == t.memory[Len(t.memory)]

\* ArrayVec::push panics when it is full.
parse_panics(t) == Len(t.virtio) > VIRTIO_CAP

RW == {"R", "W"}
RX == {"R", "X"}
RWU == {"R", "W", "U"}
RWXU == {"R", "W", "X", "U"}

\* MapArea::new: the start rounded down and the end rounded up to a page.  A
\* Framed area has no ppn of its own, written -1.
Area(name, start, end, ppn, perm) ==
  [name |-> name, start |-> start, end |-> end, ppn |-> ppn, perm |-> perm]

Linear(name, start, end, perm) == Area(name, start, end, start, perm)

Framed(name, start, end) == Area(name, start, end, -1, RW)

\* An end on a page boundary rounded up to the next page.
M_Mmio(name, d, size, perm) ==
  Linear(name, d.base \div PAGE_SIZE, (d.base + size + PAGE_SIZE) \div PAGE_SIZE, perm)

Mmio(name, d, size, perm) ==
  Linear(name, d.base \div PAGE_SIZE, (d.base + size - 1 + PAGE_SIZE) \div PAGE_SIZE, perm)

Virtio(t, perm) ==
  {Mmio(<<"virtio", i>>, t.virtio[i], t.virtio[i].size, perm) : i \in DOMAIN t.virtio}

\* The guest's trampoline given the U bit of its other areas.
M_Trampoline ==
  Area(<<"trampoline", 0>>, TRAMPOLINE, TRAMPOLINE + 1, strampoline, {"R", "X", "U"})

Trampoline == Area(<<"trampoline", 0>>, TRAMPOLINE, TRAMPOLINE + 1, strampoline, RX)

\* The sections mapped from the image's start to its end in one piece.
M_HostSections ==
  {Linear(<<"text", 0>>, stext, ekernel, {"R", "W", "X"}),
   Linear(<<"frames", 0>>, ekernel, MEMORY_END, RW)}

HostSections ==
  {Linear(<<"text", 0>>, stext, etext, RX),
   Linear(<<"rodata", 0>>, srodata, erodata, {"R"}),
   Linear(<<"data", 0>>, sdata, edata, RW),
   Linear(<<"bss", 0>>, sbss_with_stack, ebss, RW),
   Linear(<<"frames", 0>>, ekernel, MEMORY_END, RW)}

HostAreas(t) ==
  {Trampoline, Framed(<<"trap_context", 0>>, TRAP_CONTEXT, TRAMPOLINE)}
  \cup HostSections
  \cup {Mmio(<<"test", 0>>, d, d.size, RW) : d \in LastOf(t.test)}
  \cup Virtio(t, RW)
  \cup {Mmio(<<"plic", 0>>, d, d.size, RW) : d \in LastOf(t.plic)}

GuestRam(t) ==
  Linear(<<"ram", 0>>, Memory(t).offset - RAM_SLACK, Memory(t).offset + Memory(t).size, RWXU)

\* The guest given the whole PLIC.
M_GuestAreas(t) ==
  {GuestRam(t), Trampoline}
  \cup {Mmio(<<"plic", 0>>, d, d.size, RWU) : d \in LastOf(t.plic)}

GuestAreas(t) ==
  {GuestRam(t), Trampoline}
  \cup {Mmio(<<"test", 0>>, d, d.size + PAGE_SIZE, RWXU) : d \in LastOf(t.test)}
  \cup Virtio(t, RWU)
  \cup {Mmio(<<"uart", 0>>, d, d.size, RWU) : d \in LastOf(t.uart)}
  \cup {Mmio(<<"clint", 0>>, d, d.size, RWU) : d \in LastOf(t.clint)}
  \cup {Mmio(<<"plic", 0>>, d, PLIC_CONTEXTS, RWU) : d \in LastOf(t.plic)}
  \cup {Mmio(<<"pci", 0>>, d, PLIC_CONTEXTS, RWU) : d \in LastOf(t.pci)}

Overlap(a, b) == a.start < b.end /\ b.start < a.end

\* Pushing these areas one after another panics: a page is mapped before
\* mapping, or a Linear area has no page and MapArea::map, which tests for the
\* end after its first page, runs past it into what is mapped above.
PushPanics(space, areas) ==
  \/ \E a \in areas : a.ppn # -1 /\ a.start >= a.end
  \/ \E a \in areas, b \in areas \cup space : a.name # b.name /\ Overlap(a, b)

MapsPage(space, p, perm) ==
  \E a \in space : a.start <= p /\ p < a.end /\ perm \subseteq a.perm

\* No guard page between two stacks.
M_hstack_position(guest_id) ==
  LET top == TRAP_CONTEXT - guest_id * KERNEL_STACK_SIZE
  IN  [bottom |-> top - KERNEL_STACK_SIZE, top |-> top]

hstack_position(guest_id) ==
  LET top == TRAP_CONTEXT - guest_id * (KERNEL_STACK_SIZE + 1)
  IN  [bottom |-> top - KERNEL_STACK_SIZE, top |-> top]

Stack(guest_id) ==
  Framed(<<"hstack", guest_id>>, hstack_position(guest_id).bottom, hstack_position(guest_id).top)

GuestWindow ==
  Linear(<<"guest", 0>>, GUEST_START, GUEST_START + GUEST_DEFAULT_SIZE, RW)

-----------------------------------------------------------------------------
start ==
  /\ step = "hentry"
  /\ hart_id \in {0, 1}
  /\ exts \in SUBSET {"HSM", "H"}
  /\ hostTree \in HostTrees
  /\ guestTree \in GuestTrees
  /\ hpm = {} /\ gpm = {}
  /\ HOST_VMM = "none"
  /\ satp = FALSE /\ hgatp = FALSE
  /\ stvec = "firmware"
  /\ ctx = 0
  /\ guests = {}

\* Guest 0 is the only one hentry makes.
GUEST_ID == 0

\* The panics a statement of hentry ends in, from its unwraps and assertions
\* and from a fault on a page that is not mapped.
Panics ==
  \/ step = "hentry" /\ ( \/ hart_id # 0
                          \/ "HSM" \notin exts \/ "H" \notin exts
                          \/ parse_panics(hostTree) \/ parse_panics(guestTree))
  \/ step = "new_host_vmm" /\ PushPanics({}, HostAreas(hostTree))
  \/ step = "new_guest" /\ PushPanics({}, GuestAreas(guestTree))
  \/ step = "map_guest" /\ PushPanics(hpm, {GuestWindow})
  \/ step = "remap_test" /\
       ~ /\ ~MapsPage(hpm, (stext + etext) \div 2, {"W"})
         /\ ~MapsPage(hpm, (srodata + erodata) \div 2, {"W"})
         /\ ~MapsPage(hpm, (sdata + edata) \div 2, {"X"})
         /\ MapsPage(hpm, TRAMPOLINE, {"R"})
  \/ step = "guest_new" /\ ( \/ PushPanics(hpm, {Stack(GUEST_ID)})
                             \/ ~satp \/ ~MapsPage(hpm, TRAP_CONTEXT, RW))
  \/ step = "add_guest_queue" /\ GUEST_ID >= MAX_GUESTS

At(here, next) == step = here /\ ~Panics /\ step' = next

\* HOST_VMM.get_mut().unwrap().lock(): the mutex is a spin lock, so a hart that
\* finds it held does not go on.
Lock == HOST_VMM = "free"

panic ==
  /\ Panics
  /\ step' = "panicked"
  /\ UNCHANGED <<inputs, hpm, gpm, HOST_VMM, satp, stvec, ctx, guests, hgatp>>

\* hentry up to the two device trees parsed.
hentry ==
  /\ At("hentry", "new_host_vmm")
  /\ UNCHANGED <<inputs, hpm, gpm, HOST_VMM, satp, stvec, ctx, guests, hgatp>>

\* new_host_vmm, and init_vmm, which moves hpm into HOST_VMM.
new_host_vmm ==
  /\ At("new_host_vmm", "new_guest")
  /\ hpm' = HostAreas(hostTree)
  /\ HOST_VMM' = "free"
  /\ UNCHANGED <<inputs, gpm, satp, stvec, ctx, guests, hgatp>>

new_guest_without_load ==
  /\ At("new_guest", "map_guest")
  /\ gpm' = GuestAreas(guestTree)
  /\ UNCHANGED <<inputs, hpm, HOST_VMM, satp, stvec, ctx, guests, hgatp>>

\* The guard dropped only at the end of hentry.
M_map_guest ==
  /\ At("map_guest", "enable_paging")
  /\ Lock
  /\ HOST_VMM' = "held"
  /\ hpm' = hpm \cup {GuestWindow}
  /\ UNCHANGED <<inputs, gpm, satp, stvec, ctx, guests, hgatp>>

map_guest ==
  /\ At("map_guest", "enable_paging")
  /\ Lock
  /\ hpm' = hpm \cup {GuestWindow}
  /\ UNCHANGED <<inputs, gpm, HOST_VMM, satp, stvec, ctx, guests, hgatp>>

enable_paging ==
  /\ At("enable_paging", "trap_init")
  /\ Lock
  /\ satp' = TRUE
  /\ UNCHANGED <<inputs, hpm, gpm, HOST_VMM, stvec, ctx, guests, hgatp>>

trap_init ==
  /\ At("trap_init", "remap_test")
  /\ stvec' = "kernel"
  /\ UNCHANGED <<inputs, hpm, gpm, HOST_VMM, satp, ctx, guests, hgatp>>

remap_test ==
  /\ At("remap_test", "guest_new")
  /\ Lock
  /\ UNCHANGED <<inputs, hpm, gpm, HOST_VMM, satp, stvec, ctx, guests, hgatp>>

\* The context given the bottom of the stack for its top.
M_guest_new ==
  /\ At("guest_new", "add_guest_queue")
  /\ Lock
  /\ hpm' = hpm \cup {Stack(GUEST_ID)}
  /\ ctx' = hstack_position(GUEST_ID).bottom
  /\ UNCHANGED <<inputs, gpm, HOST_VMM, satp, stvec, guests, hgatp>>

\* Guest::new: hstack_alloc maps the stack, then the context is written.
guest_new ==
  /\ At("guest_new", "add_guest_queue")
  /\ Lock
  /\ hpm' = hpm \cup {Stack(GUEST_ID)}
  /\ ctx' = hstack_position(GUEST_ID).top
  /\ UNCHANGED <<inputs, gpm, HOST_VMM, satp, stvec, guests, hgatp>>

add_guest_queue ==
  /\ At("add_guest_queue", "hart_entry_1")
  /\ Lock
  /\ guests' = guests \cup {GUEST_ID}
  /\ UNCHANGED <<inputs, hpm, gpm, HOST_VMM, satp, stvec, ctx, hgatp>>

\* hart_entry_1 and hart_entry_2, up to the sret into the guest.
hart_entry_1 ==
  /\ At("hart_entry_1", "guest")
  /\ stvec' = "guest"
  /\ hgatp' = TRUE
  /\ UNCHANGED <<inputs, hpm, gpm, HOST_VMM, satp, ctx, guests>>

BootNext ==
  \/ panic \/ hentry \/ new_host_vmm \/ new_guest_without_load
  \/ map_guest \/ enable_paging \/ trap_init \/ remap_test \/ guest_new
  \/ add_guest_queue \/ hart_entry_1

BootSpec == start /\ [][BootNext]_bootVars /\ WF_bootVars(BootNext)

-----------------------------------------------------------------------------
\* The device nodes of a tree, by kind and place.
Nodes(kind, ds) == {[kind |-> kind, at |-> i, reg |-> ds[i]] : i \in DOMAIN ds}
Devices(t) ==
  Nodes("virtio", t.virtio) \cup Nodes("test", t.test) \cup Nodes("uart", t.uart)
  \cup Nodes("clint", t.clint) \cup Nodes("plic", t.plic) \cup Nodes("pci", t.pci)

FirstPage(d) == d.base \div PAGE_SIZE
LastPage(d) == (d.base + d.size - 1) \div PAGE_SIZE
Apart(d, e) == LastPage(d) < FirstPage(e) \/ LastPage(e) < FirstPage(d)

\* What a device tree must say for the boot: as many virtio devices as fit, no
\* empty register range, no page shared by two devices nor used after the test
\* finisher (the real-time clock there is mapped with it), and a PLIC and a PCI
\* range no shorter than the part of them that is mapped.
SoundTree(t) ==
  /\ Len(t.virtio) <= VIRTIO_CAP
  /\ \A n \in Devices(t) : n.reg.size > 0
  /\ \A m, n \in Devices(t) : m # n => Apart(m.reg, n.reg)
  /\ \A m \in Nodes("test", t.test), n \in Devices(t) : FirstPage(n.reg) # LastPage(m.reg) + 1
  /\ \A i \in DOMAIN t.plic : t.plic[i].size >= 2 * PLIC_CONTEXTS
  /\ \A i \in DOMAIN t.pci : t.pci[i].size >= PLIC_CONTEXTS

\* The boot panics for no other reason than the wrong hart, a missing extension or
\* a device tree that is not sound: none of the assertions of map, remap_test and add_guest_queue
\* is hit on a machine the trees describe properly.
OnlyBadTreesPanic ==
  step = "panicked" => \/ hart_id # 0 \/ exts # {"HSM", "H"}
                       \/ ~SoundTree(hostTree) \/ ~SoundTree(guestTree)

\* Both ranges of pages have a page in common.
Shares(lo1, hi1, lo2, hi2) == lo1 < hi2 /\ lo2 < hi1

\* Once paging is on, every frame the allocator can hand out is mapped to itself
\* (page tables are written through their physical address, get_pte_array), and
\* no physical page that hpm maps executable is writable through another area.
HostMapSound ==
  satp =>
    /\ \E a \in hpm : /\ a.start <= ekernel /\ MEMORY_END <= a.end
                      /\ a.ppn = a.start /\ RW \subseteq a.perm
    /\ \A a, b \in hpm :
         "X" \in a.perm /\ "W" \in b.perm /\ b.ppn # -1 =>
           ~Shares(a.ppn, a.ppn + (a.end - a.start), b.ppn, b.ppn + (b.end - b.start))

\* No page of the hypervisor's image or of its frame pool is reachable in the
\* guest's second stage, where an entry without U faults (map_trampoline's does).
GuestIsolated ==
  \A a \in gpm : "U" \in a.perm => ~Shares(a.ppn, a.ppn + (a.end - a.start), stext, MEMORY_END)

\* For a PLIC at the address that is_plic_access has, each context page of it is
\* left out of the guest's memory set, so that the guest's access faults, and is
\* mapped in the hypervisor's, where handle_plic_access repeats the access.
PLIC_BASE == 201326592          \* 0x0c00_0000
MAX_CONTEXTS == 32
PlicEmulable ==
  LET first == (PLIC_BASE + PLIC_CONTEXTS) \div PAGE_SIZE
  IN  ( /\ step = "guest"
        /\ SoundTree(hostTree) /\ SoundTree(guestTree)
        /\ \A d \in LastOf(hostTree.plic) \cup LastOf(guestTree.plic) : d.base = PLIC_BASE
        /\ hostTree.plic # <<>> /\ guestTree.plic # <<>> )
      => \A p \in first .. first + MAX_CONTEXTS - 1 :
           ~MapsPage(gpm, p, {}) /\ MapsPage(hpm, p, RW)

\* The guest's memory holds its kernel and its device tree, and ends in the
\* window that hentry gives map_guest.
HoldsImage(m) ==
  /\ m.offset - RAM_SLACK <= GUEST_DTB_ADDR /\ GUEST_START < m.offset + m.size
  /\ m.offset + m.size <= GUEST_START + GUEST_DEFAULT_SIZE

\* At the first sret everything a trap out of the guest needs is in place: paging
\* and both trap pages, a kernel stack under the context's kernel_sp, the guest
\* in the queue and the lock free; and everything the guest needs: its kernel
\* executable, its device tree readable, and its memory from the kernel up
\* readable by the hypervisor, which walks the guest's page tables there.
EntryReady ==
  step = "guest" =>
    /\ satp /\ hgatp /\ stvec = "guest" /\ HOST_VMM = "free" /\ GUEST_ID \in guests
    /\ MapsPage(hpm, ctx - 1, RW) /\ MapsPage(hpm, TRAP_CONTEXT, RW)
    /\ MapsPage(hpm, TRAMPOLINE, {"X"})
    /\ HoldsImage(Memory(guestTree)) =>
         /\ MapsPage(gpm, GUEST_START, {"X", "U"}) /\ MapsPage(gpm, GUEST_DTB_ADDR, {"R", "U"})
         /\ \E a \in hpm : /\ a.start <= GUEST_START /\ a.ppn = a.start /\ "R" \in a.perm
                           /\ Memory(guestTree).offset + Memory(guestTree).size <= a.end

\* Below each guest's kernel stack is a page that nothing maps, neither another
\* guest's stack nor any area of the hypervisor (hstack_position).
StacksApart ==
  \A g \in 0 .. MAX_GUESTS - 1 :
    LET low == hstack_position(g).bottom - 1
        high == hstack_position(g).top
    IN  /\ \A a \in hpm : a.name # <<"hstack", g>> => ~Shares(low, high, a.start, a.end)
        /\ \A h \in 0 .. MAX_GUESTS - 1 : h # g =>
             ~Shares(low, high, hstack_position(h).bottom, hstack_position(h).top)

\* The boot ends, in the guest or in a panic: no statement of hentry waits for a
\* lock that an earlier one still holds.
BootEnds == <>(step \in {"guest", "panicked"})
=============================================================================
