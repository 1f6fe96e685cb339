------------------------------ MODULE BootProofs ------------------------------
(***************************************************************************)
(* What the boot leaves in the two memory sets, for every image layout and *)
(* every pair of device trees that BootAssumption admits.  The invariant   *)
(* only says which areas the sets may hold and which they hold once paging *)
(* is on; the rest is where each of those areas can lie.                   *)
(***************************************************************************)
EXTENDS Boot, TLAPS

\* hpm never holds anything but the areas of new_host_vmm, the guest window and
\* guest 0's stack, gpm nothing but those of new_guest_without_load; from
\* init_vmm on, and so whenever paging is on, all of new_host_vmm's are there.
BootInv ==
  /\ hostTree \in HostTrees /\ guestTree \in GuestTrees
  /\ hpm \subseteq HostAreas(hostTree) \cup {GuestWindow, Stack(GUEST_ID)}
  /\ gpm \subseteq GuestAreas(guestTree)
  /\ step \in {"hentry", "new_host_vmm"} => satp = FALSE
  /\ step \notin {"hentry", "new_host_vmm", "panicked"} => HostAreas(hostTree) \subseteq hpm
  /\ satp = TRUE => HostAreas(hostTree) \subseteq hpm

\* hentry's statements keep BootInv: each runs once, in order.
THEOREM BootInvariant == BootSpec => []BootInv
<1>1. start => BootInv
  BY DEF start, BootInv
<1>2. BootInv /\ [BootNext]_bootVars => BootInv'
  <2> SUFFICES ASSUME BootInv, [BootNext]_bootVars PROVE BootInv'
    OBVIOUS
  <2> USE DEF BootInv
  <2>1. CASE panic
    BY <2>1 DEF panic, inputs
  <2>2. CASE hentry
    BY <2>2 DEF hentry, At, inputs
  <2>3. CASE new_host_vmm
    BY <2>3 DEF new_host_vmm, At, inputs
  <2>4. CASE new_guest_without_load
    BY <2>4 DEF new_guest_without_load, At, inputs
  <2>5. CASE map_guest
    BY <2>5 DEF map_guest, At, inputs
  <2>6. CASE enable_paging
    BY <2>6 DEF enable_paging, At, inputs
  <2>7. CASE trap_init \/ remap_test
    BY <2>7 DEF trap_init, remap_test, At, inputs
  <2>8. CASE guest_new
    BY <2>8 DEF guest_new, At, inputs
  <2>9. CASE add_guest_queue \/ hart_entry_1
    BY <2>9 DEF add_guest_queue, hart_entry_1, At, inputs
  <2>10. CASE UNCHANGED bootVars
    BY <2>10 DEF bootVars, inputs
  <2> QED
    BY Zenon, <2>1, <2>2, <2>3, <2>4, <2>5, <2>6, <2>7, <2>8, <2>9, <2>10 DEF BootNext
<1> QED
  BY <1>1, <1>2, PTL DEF BootSpec

-----------------------------------------------------------------------------
\* A Linear area within the pages lo .. hi - 1, not a stack.
LinearIn(a, lo, hi) ==
  /\ a.start \in Int /\ a.end \in Int
  /\ a.ppn = a.start /\ lo <= a.start /\ a.end <= hi

\* A device of an admitted tree rounds to pages below 0x8000_0000.
LEMMA MmioLow ==
  ASSUME NEW d \in Device, NEW size \in Nat, NEW name, NEW perm,
         d.base + size < LAST_LOW
  PROVE  LinearIn(Mmio(name, d, size, perm), 0, Low)
<1> DEFINE s == d.base \div PAGE_SIZE
           e == (d.base + size - 1 + PAGE_SIZE) \div PAGE_SIZE
<1>1. d.base \in Nat
  BY DEF Device
<1>2. s \in Int /\ e \in Int /\ 0 <= s /\ e <= Low
  BY <1>1, SMT DEF PAGE_SIZE, Low, LAST_LOW
<1>3. Mmio(name, d, size, perm) = [name |-> name, start |-> s, end |-> e,
                                   ppn |-> s, perm |-> perm]
  BY DEF Mmio, Linear, Area
<1> HIDE DEF s, e
<1> QED
  BY <1>2, <1>3 DEF LinearIn

\* A register range that fits below 0x8000_0000, with the page after it and with
\* the fixed length that the guest's PLIC and PCI areas get.
LowDevice(d) ==
  /\ d \in Device
  /\ d.base + d.size + PAGE_SIZE < LAST_LOW
  /\ d.base + PLIC_CONTEXTS < LAST_LOW

LEMMA NodesLow ==
  ASSUME NEW ds \in Seq(Device), IsLow(ds)
  PROVE  /\ \A i \in DOMAIN ds : LowDevice(ds[i])
         /\ \A d \in LastOf(ds) : LowDevice(d)
<1>1. \A i \in DOMAIN ds : LowDevice(ds[i])
  BY DEF IsLow, LowDevice
<1>2. ds # <<>> => Len(ds) \in DOMAIN ds
  OBVIOUS
<1> QED
  BY <1>1, <1>2 DEF LastOf

LEMMA TreeLow ==
  ASSUME NEW t \in HostTrees \cup GuestTrees
  PROVE  /\ \A i \in DOMAIN t.virtio : LowDevice(t.virtio[i])
         /\ \A d \in LastOf(t.test) \cup LastOf(t.uart) \cup LastOf(t.clint)
                     \cup LastOf(t.plic) \cup LastOf(t.pci) : LowDevice(d)
<1>1. t \in DeviceTree /\ DevicesLow(t)
  BY BootAssumption
<1>2. /\ t.virtio \in Seq(Device) /\ t.test \in Seq(Device) /\ t.uart \in Seq(Device)
      /\ t.clint \in Seq(Device) /\ t.plic \in Seq(Device) /\ t.pci \in Seq(Device)
  BY <1>1 DEF DeviceTree
<1>3. /\ IsLow(t.virtio) /\ IsLow(t.test) /\ IsLow(t.uart)
      /\ IsLow(t.clint) /\ IsLow(t.plic) /\ IsLow(t.pci)
  BY <1>1 DEF DevicesLow
<1> QED
  BY <1>2, <1>3, NodesLow

\* Each of the three lengths that a device is mapped with keeps it low.
LEMMA DeviceLow ==
  ASSUME NEW d, LowDevice(d), NEW name, NEW perm
  PROVE  /\ LinearIn(Mmio(name, d, d.size, perm), 0, Low)
         /\ LinearIn(Mmio(name, d, d.size + PAGE_SIZE, perm), 0, Low)
         /\ LinearIn(Mmio(name, d, PLIC_CONTEXTS, perm), 0, Low)
<1>1. d \in Device /\ d.base \in Nat /\ d.size \in Nat
  BY DEF LowDevice, Device
<1>2. PAGE_SIZE \in Nat /\ PLIC_CONTEXTS \in Nat /\ LAST_LOW \in Nat
  BY SMT DEF PAGE_SIZE, PLIC_CONTEXTS, LAST_LOW
<1>3. d.base + d.size < LAST_LOW /\ d.size + PAGE_SIZE \in Nat
      /\ d.base + (d.size + PAGE_SIZE) < LAST_LOW
  BY <1>1, <1>2, SMT DEF LowDevice
<1>4. d.base + PLIC_CONTEXTS < LAST_LOW
  BY DEF LowDevice
<1>5. LinearIn(Mmio(name, d, d.size, perm), 0, Low)
  BY <1>1, <1>3, MmioLow
<1>6. LinearIn(Mmio(name, d, d.size + PAGE_SIZE, perm), 0, Low)
  BY <1>1, <1>3, MmioLow
<1>7. LinearIn(Mmio(name, d, PLIC_CONTEXTS, perm), 0, Low)
  BY <1>1, <1>2, <1>4, MmioLow
<1> QED
  BY <1>5, <1>6, <1>7

\* What new_host_vmm maps besides the trampoline, the context and the image is
\* a device.
LEMMA HostArea ==
  ASSUME NEW t \in HostTrees, NEW a \in HostAreas(t)
  PROVE  \/ a = Trampoline
         \/ a = Framed(<<"trap_context", 0>>, TRAP_CONTEXT, TRAMPOLINE)
         \/ a \in HostSections
         \/ LinearIn(a, 0, Low) /\ a.perm = RW
<1>1. \/ a = Trampoline
      \/ a = Framed(<<"trap_context", 0>>, TRAP_CONTEXT, TRAMPOLINE)
      \/ a \in HostSections
      \/ \E d, name : LowDevice(d) /\ a = Mmio(name, d, d.size, RW)
  BY TreeLow, Zenon DEF HostAreas, Virtio
<1>2. ASSUME NEW d, NEW name, LowDevice(d), a = Mmio(name, d, d.size, RW)
      PROVE  LinearIn(a, 0, Low) /\ a.perm = RW
  <2>1. LinearIn(Mmio(name, d, d.size, RW), 0, Low)
    BY <1>2, DeviceLow
  <2>2. Mmio(name, d, d.size, RW).perm = RW
    BY DEF Mmio, Linear, Area
  <2> QED
    BY <1>2, <2>1, <2>2, Zenon
<1> QED
  BY <1>1, <1>2, Zenon

\* What new_guest_without_load maps besides the guest's memory and the trampoline
\* is a device.
LEMMA GuestArea ==
  ASSUME NEW t \in GuestTrees, NEW a \in GuestAreas(t)
  PROVE  a = GuestRam(t) \/ a = Trampoline \/ LinearIn(a, 0, Low)
<1>1. \/ a = GuestRam(t) \/ a = Trampoline
      \/ \E d, name, perm : LowDevice(d) /\ ( \/ a = Mmio(name, d, d.size, perm)
                                              \/ a = Mmio(name, d, d.size + PAGE_SIZE, perm)
                                              \/ a = Mmio(name, d, PLIC_CONTEXTS, perm) )
  BY TreeLow, Zenon DEF GuestAreas, Virtio
<1>2. ASSUME NEW d, NEW name, NEW perm, LowDevice(d),
             \/ a = Mmio(name, d, d.size, perm)
             \/ a = Mmio(name, d, d.size + PAGE_SIZE, perm)
             \/ a = Mmio(name, d, PLIC_CONTEXTS, perm)
      PROVE  LinearIn(a, 0, Low)
  <2>1. /\ LinearIn(Mmio(name, d, d.size, perm), 0, Low)
        /\ LinearIn(Mmio(name, d, d.size + PAGE_SIZE, perm), 0, Low)
        /\ LinearIn(Mmio(name, d, PLIC_CONTEXTS, perm), 0, Low)
    BY <1>2, DeviceLow
  <2> QED
    BY <1>2, <2>1, Zenon
<1> QED
  BY <1>1, <1>2, Zenon

-----------------------------------------------------------------------------
\* The second stage that hentry builds for a guest reaches no page of the
\* hypervisor's image or frames, whatever devices its tree lists (GuestIsolated).
THEOREM BootGuestIsolated == BootSpec => []GuestIsolated
<1>1. BootInv => GuestIsolated
  <2> SUFFICES ASSUME BootInv, NEW a \in gpm, "U" \in a.perm
               PROVE  ~Shares(a.ppn, a.ppn + (a.end - a.start), stext, MEMORY_END)
    BY DEF GuestIsolated
  <2>1. a = GuestRam(guestTree) \/ a = Trampoline \/ LinearIn(a, 0, Low)
    BY GuestArea DEF BootInv
  <2>2. stext \in Nat /\ Low <= stext
    BY BootAssumption
  <2>3. CASE LinearIn(a, 0, Low)
    BY <2>2, <2>3, SMT DEF LinearIn, Shares, Low, MEMORY_END
  <2>4. CASE a = Trampoline
    BY <2>4 DEF Trampoline, Area, RX
  <2>5. CASE a = GuestRam(guestTree)
    <3> DEFINE m == Memory(guestTree)
    <3>1. /\ m.offset \in Nat /\ m.size \in Nat
          /\ m.offset >= MEMORY_END + RAM_SLACK
      <4>1. guestTree \in DeviceTree /\ guestTree.memory # <<>>
        BY BootAssumption DEF BootInv
      <4>2. /\ guestTree.memory \in Seq(Region)
            /\ Len(guestTree.memory) \in DOMAIN guestTree.memory
        BY <4>1 DEF DeviceTree
      <4>3. m \in Region /\ m.offset >= MEMORY_END + RAM_SLACK
        BY <4>2, BootAssumption DEF Memory, BootInv
      <4> QED
        BY <4>3 DEF Region
    <3>2. /\ a.start = m.offset - RAM_SLACK /\ a.end = m.offset + m.size
          /\ a.ppn = m.offset - RAM_SLACK
      BY <2>5 DEF GuestRam, Linear, Area
    <3> HIDE DEF m
    <3> QED
      BY <2>2, <3>1, <3>2, SMT DEF Shares, MEMORY_END, RAM_SLACK
  <2> QED
    BY <2>1, <2>3, <2>4, <2>5
<1> QED
  BY <1>1, BootInvariant, PTL

\* What hpm can hold, by where it lies: a stack, the two pages at the top of the
\* space, the image, the guest window or a device.
LEMMA HpmArea ==
  ASSUME BootInv, NEW a \in hpm
  PROVE  \/ a = Trampoline
         \/ a = Framed(<<"trap_context", 0>>, TRAP_CONTEXT, TRAMPOLINE)
         \/ a \in HostSections
         \/ LinearIn(a, 0, Low) /\ a.perm = RW
         \/ a = GuestWindow
         \/ a = Stack(GUEST_ID)
BY HostArea DEF BootInv

\* Each section of the image, and the frame pool, is below MEMORY_END; only text
\* is executable, and what is writable lies above it.
LEMMA SectionArea ==
  ASSUME NEW a \in HostSections
  PROVE  /\ LinearIn(a, stext, MEMORY_END)
         /\ "X" \in a.perm => a.end <= etext
         /\ "W" \in a.perm => etext <= a.start
<1>1. /\ stext \in Int /\ etext \in Int /\ srodata \in Int /\ erodata \in Int
      /\ sdata \in Int /\ edata \in Int /\ sbss_with_stack \in Int /\ ebss \in Int
      /\ ekernel \in Int
  BY BootAssumption
<1>2. /\ stext < etext /\ etext <= srodata /\ srodata < erodata
      /\ erodata <= sdata /\ sdata < edata /\ edata <= sbss_with_stack
      /\ sbss_with_stack < ebss /\ ebss <= ekernel /\ ekernel < MEMORY_END
  BY BootAssumption
<1> QED
  BY <1>1, <1>2, SMT DEF HostSections, Linear, Area, LinearIn, RX, RW, MEMORY_END

\* Once paging is on the frame pool is mapped to itself and no executable page is
\* writable through another area, for every image layout (HostMapSound).
THEOREM BootHostMapSound == BootSpec => []HostMapSound
<1>1. BootInv => HostMapSound
  <2> SUFFICES ASSUME BootInv, satp
               PROVE  /\ \E a \in hpm : /\ a.start <= ekernel /\ MEMORY_END <= a.end
                                        /\ a.ppn = a.start /\ RW \subseteq a.perm
                      /\ \A a, b \in hpm :
                           "X" \in a.perm /\ "W" \in b.perm /\ b.ppn # -1 =>
                             ~Shares(a.ppn, a.ppn + (a.end - a.start),
                                     b.ppn, b.ppn + (b.end - b.start))
    BY DEF HostMapSound
  <2> DEFINE pool == Linear(<<"frames", 0>>, ekernel, MEMORY_END, RW)
  <2>0. ekernel \in Nat /\ MEMORY_END \in Nat
    BY BootAssumption, SMT DEF MEMORY_END
  <2>1. pool \in hpm
    BY DEF BootInv, HostAreas, HostSections
  <2>2. pool.start = ekernel /\ pool.end = MEMORY_END /\ pool.ppn = ekernel /\ pool.perm = RW
    BY DEF Linear, Area
  <2>3. ASSUME NEW a \in hpm, NEW b \in hpm, "X" \in a.perm, "W" \in b.perm, b.ppn # -1
        PROVE  ~Shares(a.ppn, a.ppn + (a.end - a.start), b.ppn, b.ppn + (b.end - b.start))
    <3>1. /\ stext \in Int /\ etext \in Int /\ strampoline \in Int
          /\ Low <= stext /\ stext <= strampoline /\ strampoline < etext /\ etext < MEMORY_END
      <4>1. /\ stext \in Nat /\ etext \in Nat /\ srodata \in Nat /\ erodata \in Nat
            /\ sdata \in Nat /\ edata \in Nat /\ sbss_with_stack \in Nat /\ ebss \in Nat
            /\ ekernel \in Nat /\ strampoline \in Nat
        BY BootAssumption
      <4>2. /\ etext <= srodata /\ srodata < erodata
            /\ erodata <= sdata /\ sdata < edata /\ edata <= sbss_with_stack
            /\ sbss_with_stack < ebss /\ ebss <= ekernel /\ ekernel < MEMORY_END
            /\ Low <= stext /\ stext <= strampoline /\ strampoline < etext
        BY BootAssumption
      <4> QED
        BY <2>0, <4>1, <4>2, SMT
    <3>2. /\ a.ppn \in Int /\ a.start \in Int /\ a.end \in Int
          /\ stext <= a.ppn /\ a.ppn + (a.end - a.start) <= etext
      <4>1. CASE a = Trampoline
        BY <3>1, <4>1, SMT DEF Trampoline, Area, TRAMPOLINE
      <4>2. CASE a \in HostSections
        BY <2>3, <3>1, <4>2, SectionArea DEF LinearIn
      <4>3. CASE a.perm = RW \/ a = Framed(<<"trap_context", 0>>, TRAP_CONTEXT, TRAMPOLINE)
                 \/ a = GuestWindow \/ a = Stack(GUEST_ID)
        BY <2>3, <4>3 DEF RW, Framed, GuestWindow, Stack, Linear, Area
      <4> QED
        BY <4>1, <4>2, <4>3, HpmArea
    <3>3. /\ b.ppn \in Int /\ b.start \in Int /\ b.end \in Int /\ b.ppn = b.start
          /\ etext <= b.start \/ b.end <= stext
      <4>1. CASE b = Trampoline
        BY <2>3, <4>1 DEF Trampoline, Area, RX
      <4>2. CASE b = Framed(<<"trap_context", 0>>, TRAP_CONTEXT, TRAMPOLINE) \/ b = Stack(GUEST_ID)
        BY <2>3, <4>2 DEF Framed, Stack, Area
      <4>3. CASE b \in HostSections
        BY <2>3, <3>1, <4>3, SectionArea DEF LinearIn
      <4>4. CASE LinearIn(b, 0, Low)
        BY <3>1, <4>4, SMT DEF LinearIn, Low
      <4>5. CASE b = GuestWindow
        BY <3>1, <4>5, SMT DEF GuestWindow, Linear, Area, GUEST_START, GUEST_DEFAULT_SIZE, MEMORY_END
      <4> QED
        BY <4>1, <4>2, <4>3, <4>4, <4>5, HpmArea
    <3> QED
      BY <3>1, <3>2, <3>3, SMT DEF Shares
  <2> QED
    <3>1. /\ pool.start <= ekernel /\ MEMORY_END <= pool.end
          /\ pool.ppn = pool.start /\ RW \subseteq pool.perm
      BY <2>0, <2>2
    <3> HIDE DEF pool
    <3> QED
      BY <2>1, <2>3, <3>1
<1> QED
  BY <1>1, BootInvariant, PTL

\* No two kernel stacks touch, and nothing is mapped in or just below one but the
\* stack itself, for each of the MAX_GUESTS ids (StacksApart).
THEOREM BootStacksApart == BootSpec => []StacksApart
<1>1. BootInv => StacksApart
  <2> SUFFICES ASSUME BootInv, NEW g \in 0 .. MAX_GUESTS - 1
               PROVE  LET low == hstack_position(g).bottom - 1
                          high == hstack_position(g).top
                      IN  /\ \A a \in hpm : a.name # <<"hstack", g>> => ~Shares(low, high, a.start, a.end)
                          /\ \A h \in 0 .. MAX_GUESTS - 1 : h # g =>
                               ~Shares(low, high, hstack_position(h).bottom, hstack_position(h).top)
    BY DEF StacksApart
  <2>1. \A h \in 0 .. MAX_GUESTS - 1 :
          /\ h \in Int /\ 0 <= h /\ h <= 3
          /\ hstack_position(h).top = TRAP_CONTEXT - 5 * h
          /\ hstack_position(h).bottom = TRAP_CONTEXT - 5 * h - 4
    BY SMT DEF hstack_position, MAX_GUESTS, KERNEL_STACK_SIZE, TRAP_CONTEXT, TRAMPOLINE
  <2>2. ASSUME NEW a \in hpm, a.name # <<"hstack", g>>
        PROVE  ~Shares(hstack_position(g).bottom - 1, hstack_position(g).top, a.start, a.end)
    <3> USE <2>1
    <3>1. CASE a = Trampoline
      BY <3>1, SMT DEF Trampoline, Area, Shares, TRAP_CONTEXT, TRAMPOLINE
    <3>2. CASE a = Framed(<<"trap_context", 0>>, TRAP_CONTEXT, TRAMPOLINE)
      BY <3>2, SMT DEF Framed, Area, Shares, TRAP_CONTEXT, TRAMPOLINE
    <3>3. CASE a \in HostSections
      BY <3>3, SectionArea, SMT DEF LinearIn, Shares, MEMORY_END, TRAP_CONTEXT, TRAMPOLINE
    <3>4. CASE LinearIn(a, 0, Low)
      BY <3>4, SMT DEF LinearIn, Low, Shares, TRAP_CONTEXT, TRAMPOLINE
    <3>5. CASE a = GuestWindow
      BY <3>5, SMT DEF GuestWindow, Linear, Area, GUEST_START, GUEST_DEFAULT_SIZE, Shares,
                       TRAP_CONTEXT, TRAMPOLINE
    <3>6. CASE a = Stack(GUEST_ID)
      <4>1. a.name = <<"hstack", 0>> /\ a.start = TRAP_CONTEXT - 4 /\ a.end = TRAP_CONTEXT
        BY <3>6, SMT DEF Stack, Framed, Area, GUEST_ID, MAX_GUESTS, TRAP_CONTEXT, TRAMPOLINE
      <4>2. g # 0
        BY <2>2, <4>1
      <4> QED
        BY <4>1, <4>2, SMT DEF Shares, TRAP_CONTEXT, TRAMPOLINE
    <3> QED
      BY <3>1, <3>2, <3>3, <3>4, <3>5, <3>6, HpmArea
  <2>3. ASSUME NEW h \in 0 .. MAX_GUESTS - 1, h # g
        PROVE  ~Shares(hstack_position(g).bottom - 1, hstack_position(g).top,
                       hstack_position(h).bottom, hstack_position(h).top)
    BY <2>1, <2>3, SMT DEF Shares, TRAP_CONTEXT, TRAMPOLINE
  <2> QED
    BY <2>2, <2>3
<1> QED
  BY <1>1, BootInvariant, PTL

-----------------------------------------------------------------------------
\* The statements still to run, from each of them on.
FromQueue == {"add_guest_queue", "hart_entry_1", "guest"}
FromTrapInit == {"trap_init", "remap_test", "guest_new"} \cup FromQueue
FromPaging == {"enable_paging"} \cup FromTrapInit
FromMapGuest == {"map_guest"} \cup FromPaging

\* What each statement of hentry has left behind when the later ones run.
ReadyInv ==
  /\ step \in {"hentry", "new_host_vmm", "new_guest", "panicked"} \cup FromMapGuest
  /\ step \in {"new_guest"} \cup FromMapGuest => HOST_VMM = "free"
  /\ step \in FromMapGuest => gpm = GuestAreas(guestTree)
  /\ step \in FromPaging => GuestWindow \in hpm
  /\ step \in FromTrapInit => satp = TRUE
  /\ step \in FromQueue => Stack(GUEST_ID) \in hpm /\ ctx = hstack_position(GUEST_ID).top
  /\ step \in {"hart_entry_1", "guest"} => GUEST_ID \in guests
  /\ step = "guest" => hgatp = TRUE /\ stvec = "guest"

LEMMA ReadyInvariant == BootSpec => []ReadyInv
<1> USE DEF ReadyInv, FromMapGuest, FromPaging, FromTrapInit, FromQueue
<1>1. start => ReadyInv
  BY DEF start
<1>2. ReadyInv /\ [BootNext]_bootVars => ReadyInv'
  <2> SUFFICES ASSUME ReadyInv, [BootNext]_bootVars PROVE ReadyInv'
    OBVIOUS
  <2>1. CASE panic
    BY <2>1 DEF panic
  <2>2. CASE hentry \/ new_host_vmm \/ new_guest_without_load
    BY <2>2 DEF hentry, new_host_vmm, new_guest_without_load, At, inputs
  <2>3. CASE map_guest
    BY <2>3 DEF map_guest, At, inputs
  <2>4. CASE enable_paging
    BY <2>4 DEF enable_paging, At, inputs
  <2>5. CASE trap_init \/ remap_test
    BY <2>5 DEF trap_init, remap_test, At, inputs
  <2>6. CASE guest_new
    BY <2>6 DEF guest_new, At, inputs
  <2>7. CASE add_guest_queue \/ hart_entry_1
    BY <2>7 DEF add_guest_queue, hart_entry_1, At, inputs
  <2>8. CASE UNCHANGED bootVars
    BY <2>8 DEF bootVars, inputs
  <2> QED
    BY Zenon, <2>1, <2>2, <2>3, <2>4, <2>5, <2>6, <2>7, <2>8 DEF BootNext
<1> QED
  BY <1>1, <1>2, PTL DEF BootSpec

\* An area of a memory set maps the pages it spans, with its permissions.
LEMMA AreaMaps ==
  ASSUME NEW space, NEW a \in space, NEW p, NEW perm,
         a.start <= p, p < a.end, perm \subseteq a.perm
  PROVE  MapsPage(space, p, perm)
BY DEF MapsPage

\* At the first sret the hypervisor's trap path is mapped and its CSRs are set,
\* and the guest finds its kernel and its device tree, for every image layout
\* and every pair of device trees (EntryReady).
THEOREM BootEntryReady == BootSpec => []EntryReady
<1>1. BootInv /\ ReadyInv => EntryReady
  <2> SUFFICES ASSUME BootInv, ReadyInv, step = "guest" PROVE EntryReady
    BY DEF EntryReady
  <2>1. /\ satp = TRUE /\ hgatp = TRUE /\ stvec = "guest" /\ HOST_VMM = "free"
        /\ GUEST_ID \in guests /\ gpm = GuestAreas(guestTree)
        /\ GuestWindow \in hpm /\ Stack(GUEST_ID) \in hpm
        /\ ctx = hstack_position(GUEST_ID).top
    BY DEF ReadyInv, FromMapGuest, FromPaging, FromTrapInit, FromQueue
  <2>2. HostAreas(hostTree) \subseteq hpm
    BY DEF BootInv
  <2>3. MapsPage(hpm, ctx - 1, RW)
    <3> DEFINE a == Stack(GUEST_ID)
    <3>1. /\ a.start = TRAP_CONTEXT - 4 /\ a.end = TRAP_CONTEXT /\ a.perm = RW
          /\ ctx = TRAP_CONTEXT
      BY <2>1, SMT DEF Stack, Framed, Area, GUEST_ID, hstack_position,
                       KERNEL_STACK_SIZE, TRAP_CONTEXT, TRAMPOLINE
    <3>2. a.start <= ctx - 1 /\ ctx - 1 < a.end
      BY <3>1, SMT DEF TRAP_CONTEXT, TRAMPOLINE
    <3> HIDE DEF a
    <3> QED
      BY <2>1, <3>1, <3>2, AreaMaps DEF a
  <2>4. MapsPage(hpm, TRAP_CONTEXT, RW)
    <3> DEFINE a == Framed(<<"trap_context", 0>>, TRAP_CONTEXT, TRAMPOLINE)
    <3>1. a \in hpm
      BY <2>2 DEF HostAreas
    <3>2. a.start <= TRAP_CONTEXT /\ TRAP_CONTEXT < a.end /\ a.perm = RW
      BY SMT DEF Framed, Area, TRAP_CONTEXT, TRAMPOLINE
    <3> HIDE DEF a
    <3> QED
      BY <3>1, <3>2, AreaMaps
  <2>5. MapsPage(hpm, TRAMPOLINE, {"X"})
    <3>1. Trampoline \in hpm
      BY <2>2 DEF HostAreas
    <3>2. /\ Trampoline.start <= TRAMPOLINE /\ TRAMPOLINE < Trampoline.end
          /\ {"X"} \subseteq Trampoline.perm
      BY SMT DEF Trampoline, Area, RX, TRAMPOLINE
    <3> QED
      BY <3>1, <3>2, AreaMaps
  <2>6. ASSUME HoldsImage(Memory(guestTree))
        PROVE  /\ MapsPage(gpm, GUEST_START, {"X", "U"})
               /\ MapsPage(gpm, GUEST_DTB_ADDR, {"R", "U"})
               /\ \E a \in hpm : /\ a.start <= GUEST_START /\ a.ppn = a.start /\ "R" \in a.perm
                                 /\ Memory(guestTree).offset + Memory(guestTree).size <= a.end
    <3> DEFINE m == Memory(guestTree)
               ram == GuestRam(guestTree)
    <3>1. m.offset \in Nat /\ m.size \in Nat
      <4>1. guestTree.memory \in Seq(Region) /\ guestTree.memory # <<>>
        BY BootAssumption DEF BootInv, DeviceTree
      <4>2. Len(guestTree.memory) \in DOMAIN guestTree.memory
        BY <4>1
      <4>3. m \in Region
        BY <4>1, <4>2 DEF Memory
      <4> QED
        BY <4>3 DEF Region
    <3>2. ram \in gpm
      BY <2>1 DEF GuestAreas
    <3>3. /\ ram.start = m.offset - RAM_SLACK /\ ram.end = m.offset + m.size
          /\ ram.perm = RWXU
      BY DEF GuestRam, Linear, Area
    <3>4. /\ GuestWindow.start = GUEST_START /\ GuestWindow.ppn = GUEST_START
          /\ GuestWindow.end = GUEST_START + GUEST_DEFAULT_SIZE
          /\ GuestWindow.perm = RW
      BY DEF GuestWindow, Linear, Area
    <3>5. /\ m.offset - RAM_SLACK <= GUEST_DTB_ADDR /\ GUEST_START < m.offset + m.size
          /\ m.offset + m.size <= GUEST_START + GUEST_DEFAULT_SIZE
      BY <2>6 DEF HoldsImage
    <3> HIDE DEF m, ram
    <3>6. /\ ram.start <= GUEST_START /\ GUEST_START < ram.end
          /\ ram.start <= GUEST_DTB_ADDR /\ GUEST_DTB_ADDR < ram.end
      BY <3>1, <3>3, <3>5, SMT DEF GUEST_START, GUEST_DTB_ADDR, RAM_SLACK
    <3>7. {"X", "U"} \subseteq ram.perm /\ {"R", "U"} \subseteq ram.perm
      BY <3>3 DEF RWXU
    <3>8. MapsPage(gpm, GUEST_START, {"X", "U"}) /\ MapsPage(gpm, GUEST_DTB_ADDR, {"R", "U"})
      BY <3>2, <3>6, <3>7, AreaMaps
    <3>9. /\ GuestWindow.start <= GUEST_START /\ GuestWindow.ppn = GuestWindow.start
          /\ "R" \in GuestWindow.perm /\ m.offset + m.size <= GuestWindow.end
      BY <3>4, <3>5, SMT DEF RW, GUEST_START
    <3> QED
      BY <2>1, <3>8, <3>9 DEF m
  <2> QED
    BY <2>1, <2>3, <2>4, <2>5, <2>6 DEF EntryReady
<1> QED
  BY <1>1, BootInvariant, ReadyInvariant, PTL

-----------------------------------------------------------------------------
\* The name that the area of a node gets: all virtio devices are kept, and one
\* node of every other kind.
NodeName(n) == IF n.kind = "virtio" THEN <<"virtio", n.at>> ELSE <<n.kind, 0>>

OtherKinds == {"test", "uart", "clint", "plic", "pci"}

\* a maps the register range of n: its first page, and no page after its last
\* one but as many as extra says.
DeviceArea(a, n, extra) ==
  /\ n.reg \in Device /\ n.reg.size > 0
  /\ a.name = NodeName(n)
  /\ a.start \in Int /\ a.end \in Int /\ a.ppn = a.start
  /\ a.start = FirstPage(n.reg) /\ a.start < a.end
  /\ a.end <= LastPage(n.reg) + 1 + extra

\* Such an area has a page, and no page outside the node but extra ones.
LEMMA DeviceAreaRuns ==
  ASSUME NEW a, NEW n, NEW extra, DeviceArea(a, n, extra)
  PROVE  /\ a.start \in Int /\ a.end \in Int /\ a.start < a.end
         /\ a.start = FirstPage(n.reg) /\ a.end <= LastPage(n.reg) + 1 + extra
  BY Zenon DEF DeviceArea

\* MapArea::new's rounding of a range that starts a device and is no longer.
LEMMA MmioPages ==
  ASSUME NEW d \in Device, d.size > 0, NEW size \in Nat, size > 0, NEW extra \in Nat,
         size <= d.size + extra * PAGE_SIZE, NEW name, NEW perm
  PROVE  LET a == Mmio(name, d, size, perm)
         IN  /\ a.name = name /\ a.start \in Int /\ a.end \in Int /\ a.ppn = a.start
             /\ a.start = FirstPage(d) /\ a.start < a.end
             /\ a.end <= LastPage(d) + 1 + extra
<1> DEFINE s == d.base \div PAGE_SIZE
           e == (d.base + size - 1 + PAGE_SIZE) \div PAGE_SIZE
           l == (d.base + d.size - 1) \div PAGE_SIZE
<1>1. d.base \in Nat /\ d.size \in Nat
  BY DEF Device
<1>2. s \in Int /\ e \in Int /\ s < e /\ e <= l + 1 + extra
  BY <1>1, SMT DEF PAGE_SIZE
<1>3. Mmio(name, d, size, perm) = [name |-> name, start |-> s, end |-> e,
                                   ppn |-> s, perm |-> perm]
  BY DEF Mmio, Linear, Area
<1>4. FirstPage(d) = s /\ LastPage(d) = l
  BY DEF FirstPage, LastPage
<1> HIDE DEF s, e, l
<1> QED
  BY <1>2, <1>3, <1>4

\* The area of a node of a sound tree.
LEMMA NodeArea ==
  ASSUME NEW n, n.reg \in Device, n.reg.size > 0, NEW size \in Nat, size > 0,
         NEW extra \in Nat, size <= n.reg.size + extra * PAGE_SIZE, NEW perm
  PROVE  DeviceArea(Mmio(NodeName(n), n.reg, size, perm), n, extra)
BY MmioPages, SMTT(30) DEF DeviceArea

\* LastOf picks a node of the tree.
LEMMA LastNode ==
  ASSUME NEW ds \in Seq(Device), NEW d \in LastOf(ds), NEW kind \in OtherKinds
  PROVE  \E n \in Nodes(kind, ds) :
           n.kind = kind /\ n.reg = d /\ d \in Device /\ NodeName(n) = <<kind, 0>>
<1>1. Len(ds) \in DOMAIN ds /\ d = ds[Len(ds)] /\ d \in Device
  BY DEF LastOf
<1> DEFINE n == [kind |-> kind, at |-> Len(ds), reg |-> ds[Len(ds)]]
<1>2. n \in Nodes(kind, ds) /\ n.kind = kind /\ n.reg = d
  BY Zenon, <1>1 DEF Nodes
<1>3. NodeName(n) = <<kind, 0>>
  BY <1>2 DEF NodeName, OtherKinds
<1> QED
  BY <1>1, <1>2, <1>3

\* The nodes of an admitted tree are sequences of devices.
LEMMA TreeSeqs ==
  ASSUME NEW t \in HostTrees \cup GuestTrees
  PROVE  /\ t.virtio \in Seq(Device) /\ t.test \in Seq(Device) /\ t.uart \in Seq(Device)
         /\ t.clint \in Seq(Device) /\ t.plic \in Seq(Device) /\ t.pci \in Seq(Device)
<1>1. t \in DeviceTree
  BY BootAssumption
<1> QED
  BY <1>1 DEF DeviceTree

\* A guest's tree has a memory node, and the guest is given the last one.
LEMMA TreeMemory ==
  ASSUME NEW t \in GuestTrees
  PROVE  /\ Memory(t) \in Region /\ Memory(t).offset >= MEMORY_END + RAM_SLACK
         /\ Memory(t).offset + Memory(t).size < TRAP_CONTEXT - 1024
<1>1. t \in DeviceTree /\ t.memory # <<>>
  BY BootAssumption
<1>2. t.memory \in Seq(Region)
  BY <1>1 DEF DeviceTree
<1>3. Len(t.memory) \in DOMAIN t.memory
  BY <1>1, <1>2
<1>4. t.memory[Len(t.memory)] \in Region
  BY <1>2, <1>3
<1>5. /\ t.memory[Len(t.memory)].offset >= MEMORY_END + RAM_SLACK
      /\ t.memory[Len(t.memory)].offset + t.memory[Len(t.memory)].size < TRAP_CONTEXT - 1024
  BY <1>3, BootAssumption
<1> QED
  BY <1>4, <1>5 DEF Memory

\* What a sound tree says of the lengths of its nodes.
LEMMA SoundSizes ==
  ASSUME NEW t, SoundTree(t)
  PROVE  /\ Len(t.virtio) <= VIRTIO_CAP
         /\ \A n \in Devices(t) : n.reg.size > 0
         /\ \A i \in DOMAIN t.plic : t.plic[i].size >= 2 * PLIC_CONTEXTS
         /\ \A i \in DOMAIN t.pci : t.pci[i].size >= PLIC_CONTEXTS
  BY Zenon DEF SoundTree

\* A device that is mapped whole, from either memory set: a virtio node, or the
\* last node of another kind.
LEMMA VirtioNode ==
  ASSUME NEW t \in HostTrees \cup GuestTrees, SoundTree(t), NEW perm,
         NEW a \in Virtio(t, perm)
  PROVE  \E n \in Devices(t) : n.kind = "virtio" /\ DeviceArea(a, n, 0)
<1>1. PICK i \in DOMAIN t.virtio :
        a = Mmio(<<"virtio", i>>, t.virtio[i], t.virtio[i].size, perm)
  BY DEF Virtio
<1> DEFINE n == [kind |-> "virtio", at |-> i, reg |-> t.virtio[i]]
<1>2. n \in Devices(t)
  BY DEF Devices, Nodes
<1>3. n.reg = t.virtio[i] /\ n.kind = "virtio" /\ NodeName(n) = <<"virtio", i>>
  BY DEF NodeName
<1> HIDE DEF n
<1>4. n.reg \in Device /\ n.reg.size > 0
  BY <1>2, <1>3, TreeSeqs, SoundSizes
<1>5. n.reg.size \in Nat /\ n.reg.size <= n.reg.size + 0 * PAGE_SIZE
  <2>1. n.reg.size \in Nat
    BY <1>4 DEF Device
  <2> QED
    BY <2>1, SMT DEF PAGE_SIZE
<1>6. DeviceArea(Mmio(NodeName(n), n.reg, n.reg.size, perm), n, 0)
  BY Zenon, <1>4, <1>5, NodeArea
<1> QED
  BY <1>1, <1>2, <1>3, <1>6

\* The last node of a kind, mapped with some length that starts it.
LEMMA KindNode ==
  ASSUME NEW t \in HostTrees \cup GuestTrees, SoundTree(t), NEW perm,
         NEW ds \in Seq(Device), NEW kind \in OtherKinds,
         Nodes(kind, ds) \subseteq Devices(t), NEW d \in LastOf(ds),
         NEW size \in Nat, size > 0, NEW extra \in Nat, size <= d.size + extra * PAGE_SIZE
  PROVE  \E n \in Nodes(kind, ds) :
           n.kind = kind /\ DeviceArea(Mmio(<<kind, 0>>, d, size, perm), n, extra)
<1>1. PICK n \in Nodes(kind, ds) :
        n.kind = kind /\ n.reg = d /\ d \in Device /\ NodeName(n) = <<kind, 0>>
  BY LastNode
<1>2. n.reg.size > 0
  BY <1>1, SoundSizes
<1>3. DeviceArea(Mmio(NodeName(n), n.reg, size, perm), n, extra)
  BY Zenon, <1>1, <1>2, NodeArea
<1> QED
  BY <1>1, <1>3

\* The same, mapped with its own length.
LEMMA WholeNode ==
  ASSUME NEW t \in HostTrees \cup GuestTrees, SoundTree(t), NEW perm,
         NEW ds \in Seq(Device), NEW kind \in OtherKinds,
         Nodes(kind, ds) \subseteq Devices(t), NEW d \in LastOf(ds)
  PROVE  \E n \in Nodes(kind, ds) :
           n.kind = kind /\ DeviceArea(Mmio(<<kind, 0>>, d, d.size, perm), n, 0)
<1>1. PICK n \in Nodes(kind, ds) : n.reg = d /\ d \in Device
  BY LastNode
<1>2. d.size > 0 /\ d.size \in Nat
  BY <1>1, SoundSizes DEF Device
<1>3. d.size <= d.size + 0 * PAGE_SIZE
  BY <1>2, SMT DEF PAGE_SIZE
<1> QED
  BY <1>2, <1>3, KindNode

\* Each device area of new_host_vmm is a node of the tree, mapped whole.
LEMMA HostNode ==
  ASSUME NEW t \in HostTrees, SoundTree(t), NEW a \in HostAreas(t)
  PROVE  \/ a = Trampoline
         \/ a = Framed(<<"trap_context", 0>>, TRAP_CONTEXT, TRAMPOLINE)
         \/ a \in HostSections
         \/ \E n \in Devices(t) : DeviceArea(a, n, 0)
<1>1. Nodes("test", t.test) \subseteq Devices(t) /\ Nodes("plic", t.plic) \subseteq Devices(t)
  BY DEF Devices
<1>2. ASSUME NEW d \in LastOf(t.test), a = Mmio(<<"test", 0>>, d, d.size, RW)
      PROVE  \E n \in Devices(t) : DeviceArea(a, n, 0)
  BY Zenon, <1>1, <1>2, TreeSeqs, WholeNode DEF OtherKinds
<1>3. ASSUME NEW d \in LastOf(t.plic), a = Mmio(<<"plic", 0>>, d, d.size, RW)
      PROVE  \E n \in Devices(t) : DeviceArea(a, n, 0)
  BY Zenon, <1>1, <1>3, TreeSeqs, WholeNode DEF OtherKinds
<1>4. ASSUME a \in Virtio(t, RW)
      PROVE  \E n \in Devices(t) : DeviceArea(a, n, 0)
  BY <1>4, VirtioNode
<1> QED
  BY <1>2, <1>3, <1>4, Zenon DEF HostAreas
\* Each device area of new_guest_without_load is a node of the tree: mapped
\* whole, with the page after it (test), or up to the contexts (plic).
LEMMA GuestNode ==
  ASSUME NEW t \in GuestTrees, SoundTree(t), NEW a \in GuestAreas(t)
  PROVE  \/ a = GuestRam(t) \/ a = Trampoline
         \/ \E n \in Devices(t) : n.kind # "plic" /\ DeviceArea(a, n, 0)
         \/ \E n \in Nodes("test", t.test) : DeviceArea(a, n, 1)
         \/ \E d \in LastOf(t.plic), n \in Nodes("plic", t.plic) :
              a = Mmio(<<"plic", 0>>, d, PLIC_CONTEXTS, RWU) /\ DeviceArea(a, n, 0)
<1>1. /\ Nodes("test", t.test) \subseteq Devices(t) /\ Nodes("uart", t.uart) \subseteq Devices(t)
      /\ Nodes("clint", t.clint) \subseteq Devices(t) /\ Nodes("plic", t.plic) \subseteq Devices(t)
      /\ Nodes("pci", t.pci) \subseteq Devices(t)
  BY Zenon DEF Devices
<1>2. PLIC_CONTEXTS \in Nat /\ PLIC_CONTEXTS > 0 /\ PAGE_SIZE \in Nat
  BY SMT DEF PLIC_CONTEXTS, PAGE_SIZE
<1>z. 0 \in Nat
  OBVIOUS
<1>3. \A ds \in Seq(Device) : \A d \in LastOf(ds) :
        /\ d.size \in Nat
        /\ \E i \in DOMAIN ds : d = ds[i]
  <2> SUFFICES ASSUME NEW ds \in Seq(Device), NEW d \in LastOf(ds)
               PROVE  d.size \in Nat /\ \E i \in DOMAIN ds : d = ds[i]
    OBVIOUS
  <2>1. Len(ds) \in DOMAIN ds /\ d = ds[Len(ds)] /\ d \in Device
    BY DEF LastOf
  <2> QED
    BY <2>1 DEF Device
<1>4. ASSUME NEW d \in LastOf(t.test), a = Mmio(<<"test", 0>>, d, d.size + PAGE_SIZE, RWXU)
      PROVE  \E n \in Nodes("test", t.test) : DeviceArea(a, n, 1)
  <2>1. /\ d.size + PAGE_SIZE \in Nat /\ d.size + PAGE_SIZE > 0
        /\ d.size + PAGE_SIZE <= d.size + 1 * PAGE_SIZE
    <3>1. d.size \in Nat
      BY <1>3, TreeSeqs
    <3> QED
      BY <3>1, SMT DEF PAGE_SIZE
  <2>2. /\ t \in HostTrees \cup GuestTrees /\ t.test \in Seq(Device)
        /\ "test" \in OtherKinds /\ 1 \in Nat
    BY TreeSeqs DEF OtherKinds
  <2>3. \E n \in Nodes("test", t.test) : n.kind = "test" /\
          DeviceArea(Mmio(<<"test", 0>>, d, d.size + PAGE_SIZE, RWXU), n, 1)
    BY <1>1, <2>1, <2>2, KindNode, Zenon
  <2> QED
    BY <1>4, <2>3, Zenon
<1>5. ASSUME NEW d \in LastOf(t.uart), a = Mmio(<<"uart", 0>>, d, d.size, RWU)
      PROVE  \E n \in Devices(t) : n.kind # "plic" /\ DeviceArea(a, n, 0)
  BY Zenon, <1>1, <1>5, TreeSeqs, WholeNode DEF OtherKinds
<1>6. ASSUME NEW d \in LastOf(t.clint), a = Mmio(<<"clint", 0>>, d, d.size, RWU)
      PROVE  \E n \in Devices(t) : n.kind # "plic" /\ DeviceArea(a, n, 0)
  BY Zenon, <1>1, <1>6, TreeSeqs, WholeNode DEF OtherKinds
<1>7. ASSUME NEW d \in LastOf(t.pci), a = Mmio(<<"pci", 0>>, d, PLIC_CONTEXTS, RWU)
      PROVE  \E n \in Devices(t) : n.kind # "plic" /\ DeviceArea(a, n, 0)
  <2>1. /\ t \in HostTrees \cup GuestTrees /\ t.pci \in Seq(Device)
        /\ "pci" \in OtherKinds /\ 0 \in Nat
    BY Zenon, <1>z, TreeSeqs DEF OtherKinds
  <2>2. d.size \in Nat /\ d.size >= PLIC_CONTEXTS
    BY Zenon, <1>3, <2>1, SoundSizes
  <2>3. PLIC_CONTEXTS <= d.size + 0 * PAGE_SIZE
    BY <1>2, <2>2, SMT
  <2>4. \E n \in Nodes("pci", t.pci) : n.kind = "pci" /\
          DeviceArea(Mmio(<<"pci", 0>>, d, PLIC_CONTEXTS, RWU), n, 0)
    BY Zenon, <1>1, <1>2, <2>1, <2>3, KindNode
  <2> QED
    BY Zenon, <1>1, <1>7, <2>4
<1>8. ASSUME NEW d \in LastOf(t.plic), a = Mmio(<<"plic", 0>>, d, PLIC_CONTEXTS, RWU)
      PROVE  \E n \in Nodes("plic", t.plic) : DeviceArea(a, n, 0)
  <2>1. /\ t \in HostTrees \cup GuestTrees /\ t.plic \in Seq(Device)
        /\ "plic" \in OtherKinds /\ 0 \in Nat
    BY Zenon, <1>z, TreeSeqs DEF OtherKinds
  <2>2. d.size \in Nat /\ d.size >= 2 * PLIC_CONTEXTS
    BY Zenon, <1>3, <2>1, SoundSizes
  <2>3. PLIC_CONTEXTS <= d.size + 0 * PAGE_SIZE
    BY <1>2, <2>2, SMT
  <2>4. \E n \in Nodes("plic", t.plic) : n.kind = "plic" /\
          DeviceArea(Mmio(<<"plic", 0>>, d, PLIC_CONTEXTS, RWU), n, 0)
    BY Zenon, <1>1, <1>2, <2>1, <2>3, KindNode
  <2> QED
    BY Zenon, <1>1, <1>8, <2>4
<1>9. ASSUME a \in Virtio(t, RWU)
      PROVE  \E n \in Devices(t) : n.kind # "plic" /\ DeviceArea(a, n, 0)
  BY <1>9, VirtioNode
<1> QED
  BY <1>4, <1>5, <1>6, <1>7, <1>8, <1>9, Zenon DEF GuestAreas

\* The pages of a register range have numbers.
LEMMA PageNumbers ==
  ASSUME NEW r, r.base \in Nat, r.size \in Nat
  PROVE  FirstPage(r) \in Int /\ LastPage(r) \in Int
<1> DEFINE b == r.base
           z == r.size
<1>1. b \in Nat /\ z \in Nat
  OBVIOUS
<1> HIDE DEF b, z
<1>2. b \div PAGE_SIZE \in Int /\ (b + z - 1) \div PAGE_SIZE \in Int
  BY <1>1 DEF PAGE_SIZE
<1> QED
  BY Zenon, <1>2 DEF FirstPage, LastPage, b, z

\* Areas of different nodes of a sound tree share no page.
LEMMA NodesApart ==
  ASSUME NEW t, SoundTree(t), NEW m \in Devices(t), NEW n \in Devices(t), m # n,
         NEW a, NEW b, NEW extra \in {0, 1}, DeviceArea(a, m, extra), DeviceArea(b, n, 0),
         extra = 1 => m \in Nodes("test", t.test)
  PROVE  ~Overlap(a, b)
<1>1. Apart(m.reg, n.reg) /\ (extra = 1 => FirstPage(n.reg) # LastPage(m.reg) + 1)
  BY Zenon DEF SoundTree
<1>2. /\ m.reg.base \in Nat /\ m.reg.size \in Nat /\ n.reg.base \in Nat /\ n.reg.size \in Nat
  BY DEF DeviceArea, Device
<1>3. /\ FirstPage(m.reg) \in Int /\ LastPage(m.reg) \in Int
      /\ FirstPage(n.reg) \in Int /\ LastPage(n.reg) \in Int
  BY Zenon, <1>2, PageNumbers
<1> QED
  <2>1. /\ a.start \in Int /\ a.end \in Int /\ a.start = FirstPage(m.reg)
        /\ a.end <= LastPage(m.reg) + 1 + extra
        /\ b.start \in Int /\ b.end \in Int /\ b.start = FirstPage(n.reg)
        /\ b.end <= LastPage(n.reg) + 1 + 0
    BY DeviceAreaRuns, Zenon
  <2> QED
    BY <1>1, <1>3, <2>1, SMT DEF Apart, Overlap

\* The pages of an admitted guest's memory, above the hypervisor's and below its
\* stacks.
LEMMA RamArea ==
  ASSUME NEW t \in GuestTrees
  PROVE  LET a == GuestRam(t)
         IN  /\ a.start \in Int /\ a.end \in Int /\ MEMORY_END <= a.start
             /\ a.start < a.end /\ a.end < TRAP_CONTEXT
<1> DEFINE m == Memory(t)
<1>1. /\ m \in Region /\ m.offset >= MEMORY_END + RAM_SLACK
      /\ m.offset + m.size < TRAP_CONTEXT - 1024
  BY TreeMemory
<1>2. m.offset \in Nat /\ m.size \in Nat
  BY <1>1 DEF Region
<1>3. GuestRam(t).start = m.offset - RAM_SLACK /\ GuestRam(t).end = m.offset + m.size
  BY DEF GuestRam, Linear, Area
<1> HIDE DEF m
<1> QED
  BY <1>1, <1>2, <1>3, SMT DEF MEMORY_END, RAM_SLACK, TRAP_CONTEXT, TRAMPOLINE

\* The pages of the PLIC's contexts, and a PLIC node that reaches past them.
InContexts(p) == p \in Int /\ 49664 <= p /\ p <= 49695
SpansContexts(d) == FirstPage(d) = 49152 /\ LastPage(d) \in Int /\ LastPage(d) >= 50175

LEMMA PlicSpans ==
  ASSUME NEW d \in Device, d.base = PLIC_BASE, d.size >= 2 * PLIC_CONTEXTS
  PROVE  SpansContexts(d)
<1>1. d.size \in Nat
  BY DEF Device
<1> QED
  BY <1>1, SMT DEF SpansContexts, FirstPage, LastPage, PLIC_BASE, PLIC_CONTEXTS, PAGE_SIZE

\* A page of the contexts is in no area of the guest's but the PLIC's: not in its
\* memory or the trampoline, nor in the area of another node, nor in the part of
\* the PLIC that is mapped.
LEMMA AboveContexts ==
  ASSUME NEW t \in GuestTrees, NEW p, InContexts(p)
  PROVE  ~(GuestRam(t).start <= p) /\ ~(Trampoline.start <= p)
<1>1. GuestRam(t).start \in Int /\ MEMORY_END <= GuestRam(t).start
  BY RamArea
<1>2. Trampoline.start = TRAMPOLINE
  BY DEF Trampoline, Area
<1> QED
  BY <1>1, <1>2, SMT DEF InContexts, MEMORY_END, TRAMPOLINE

LEMMA OtherNodes ==
  ASSUME NEW n, NEW k, NEW a, NEW extra \in {0, 1}, DeviceArea(a, n, extra),
         Apart(n.reg, k.reg), SpansContexts(k.reg), NEW p, InContexts(p)
  PROVE  ~(a.start <= p /\ p < a.end)
<1>1. n.reg.base \in Nat /\ n.reg.size \in Nat
  BY DEF DeviceArea, Device
<1>2. FirstPage(n.reg) \in Int /\ LastPage(n.reg) \in Int
  BY <1>1, SMTT(30) DEF FirstPage, LastPage, PAGE_SIZE
<1>3. /\ a.start \in Int /\ a.end \in Int /\ a.start = FirstPage(n.reg)
      /\ a.end <= LastPage(n.reg) + 1 + extra
  BY DeviceAreaRuns, Zenon
<1> QED
  BY <1>2, <1>3, SMT DEF Apart, SpansContexts, InContexts

LEMMA BelowContexts ==
  ASSUME NEW d, d.base = PLIC_BASE, NEW name, NEW perm, NEW p, InContexts(p)
  PROVE  ~(p < Mmio(name, d, PLIC_CONTEXTS, perm).end)
<1>1. Mmio(name, d, PLIC_CONTEXTS, perm).end
        = (d.base + PLIC_CONTEXTS - 1 + PAGE_SIZE) \div PAGE_SIZE
  BY DEF Mmio, Linear, Area
<1> QED
  BY <1>1, SMT DEF InContexts, PLIC_BASE, PLIC_CONTEXTS, PAGE_SIZE

\* The hypervisor maps such a node whole.
LEMMA WholePlic ==
  ASSUME NEW d \in Device, d.base = PLIC_BASE, d.size >= 2 * PLIC_CONTEXTS, NEW p, InContexts(p)
  PROVE  LET a == Mmio(<<"plic", 0>>, d, d.size, RW)
         IN  a.start <= p /\ p < a.end /\ a.perm = RW
<1> DEFINE a == Mmio(<<"plic", 0>>, d, d.size, RW)
<1>1. /\ a.start = d.base \div PAGE_SIZE /\ a.perm = RW
      /\ a.end = (d.base + d.size - 1 + PAGE_SIZE) \div PAGE_SIZE
  BY DEF Mmio, Linear, Area
<1>2. d.size \in Nat
  BY DEF Device
<1> HIDE DEF a
<1>3. a.start <= p /\ p < a.end
  BY <1>1, <1>2, SMT DEF InContexts, PLIC_BASE, PLIC_CONTEXTS, PAGE_SIZE
<1> QED
  BY <1>1, <1>3 DEF a

\* For every pair of sound trees whose PLIC is where is_plic_access expects it,
\* each context page faults in the guest and is mapped in the hypervisor.
THEOREM BootPlicEmulable == BootSpec => []PlicEmulable
<1>1. BootInv /\ ReadyInv => PlicEmulable
  <2> DEFINE first == (PLIC_BASE + PLIC_CONTEXTS) \div PAGE_SIZE
  <2> SUFFICES ASSUME BootInv, ReadyInv, step = "guest",
                      SoundTree(hostTree), SoundTree(guestTree),
                      \A d \in LastOf(hostTree.plic) \cup LastOf(guestTree.plic) : d.base = PLIC_BASE,
                      hostTree.plic # <<>>, guestTree.plic # <<>>,
                      NEW p \in first .. first + MAX_CONTEXTS - 1
               PROVE  ~MapsPage(gpm, p, {}) /\ MapsPage(hpm, p, RW)
    BY Zenon DEF PlicEmulable
  <2>1. InContexts(p)
    BY SMT DEF InContexts, PLIC_BASE, PLIC_CONTEXTS, PAGE_SIZE, MAX_CONTEXTS
  <2> HIDE DEF first
  <2>2. /\ hostTree \in HostTrees /\ guestTree \in GuestTrees
        /\ gpm = GuestAreas(guestTree) /\ HostAreas(hostTree) \subseteq hpm
    BY DEF BootInv, ReadyInv, FromMapGuest, FromPaging, FromTrapInit, FromQueue
  <2>3. \A ds \in Seq(Device) : \A d \in LastOf(ds) :
          d \in Device /\ \E i \in DOMAIN ds : d = ds[i]
    <3> SUFFICES ASSUME NEW ds \in Seq(Device), NEW d \in LastOf(ds)
                 PROVE  d \in Device /\ \E i \in DOMAIN ds : d = ds[i]
      OBVIOUS
    <3>1. Len(ds) \in DOMAIN ds /\ d = ds[Len(ds)] /\ d \in Device
      BY DEF LastOf
    <3> QED
      BY Zenon, <3>1
  <2>4. MapsPage(hpm, p, RW)
    <3>1. PICK d \in LastOf(hostTree.plic) : d.base = PLIC_BASE
      BY DEF LastOf
    <3>2. d \in Device /\ d.size >= 2 * PLIC_CONTEXTS
      <4>1. hostTree.plic \in Seq(Device)
        BY Zenon, <2>2, TreeSeqs
      <4>2. d \in Device /\ \E i \in DOMAIN hostTree.plic : d = hostTree.plic[i]
        BY <2>3, <4>1, Zenon
      <4> QED
        BY <4>2, SoundSizes, Zenon
    <3> DEFINE a == Mmio(<<"plic", 0>>, d, d.size, RW)
    <3>3. a \in hpm
      BY <2>2 DEF HostAreas
    <3>4. a.start <= p /\ p < a.end /\ a.perm = RW
      BY <2>1, <3>1, <3>2, WholePlic, Zenon
    <3> HIDE DEF a
    <3> QED
      BY <3>3, <3>4, AreaMaps
  <2>5. ASSUME NEW a \in gpm PROVE ~(a.start <= p /\ p < a.end)
    <3>1. PICK k \in Nodes("plic", guestTree.plic) :
            k.kind = "plic" /\ k.reg.base = PLIC_BASE /\ k.reg \in Device
      <4>1. PICK d \in LastOf(guestTree.plic) : d.base = PLIC_BASE
        BY DEF LastOf
      <4>2. guestTree.plic \in Seq(Device) /\ "plic" \in OtherKinds
        BY <2>2, TreeSeqs DEF OtherKinds
      <4>3. \E n \in Nodes("plic", guestTree.plic) :
              n.kind = "plic" /\ n.reg = d /\ d \in Device /\ NodeName(n) = <<"plic", 0>>
        <5>1. d \in LastOf(guestTree.plic)
          BY <4>1
        <5> QED
          BY <4>2, <5>1, LastNode
      <4> QED
        BY Zenon, <4>1, <4>3
    <3>2. k \in Devices(guestTree)
      BY DEF Devices
    <3>3. k.reg.size >= 2 * PLIC_CONTEXTS
      <4>1. \E i \in DOMAIN guestTree.plic : k.reg = guestTree.plic[i]
        BY DEF Nodes
      <4> QED
        BY <4>1, SoundSizes, Zenon
    <3>4. SpansContexts(k.reg)
      BY <3>1, <3>3, PlicSpans, Zenon
    <3>5. CASE a = GuestRam(guestTree)
      BY <2>1, <2>2, <3>5, AboveContexts, Zenon
    <3>6. CASE a = Trampoline
      BY <2>1, <2>2, <3>6, AboveContexts, Zenon
    <3>7. ASSUME NEW n \in Devices(guestTree), n.kind # "plic", NEW extra \in {0, 1},
                 DeviceArea(a, n, extra)
          PROVE  ~(a.start <= p /\ p < a.end)
      <4>1. n # k
        BY Zenon, <3>1, <3>7
      <4>2. Apart(n.reg, k.reg)
        BY Zenon, <3>2, <4>1 DEF SoundTree
      <4> QED
        BY <2>1, <3>4, <3>7, <4>2, OtherNodes, Zenon
    <3>8. ASSUME NEW n \in Nodes("test", guestTree.test), DeviceArea(a, n, 1)
          PROVE  ~(a.start <= p /\ p < a.end)
      <4>1. n \in Devices(guestTree) /\ n.kind # "plic"
        <5>1. n.kind = "test"
          BY DEF Nodes
        <5> QED
          BY <5>1 DEF Devices
      <4> QED
        BY Zenon, <3>7, <3>8, <4>1
    <3>9. ASSUME NEW d \in LastOf(guestTree.plic), a = Mmio(<<"plic", 0>>, d, PLIC_CONTEXTS, RWU)
          PROVE  ~(a.start <= p /\ p < a.end)
      <4>1. d.base = PLIC_BASE
        BY <3>9
      <4> QED
        BY <2>1, <3>9, <4>1, BelowContexts, Zenon
    <3> QED
      BY Zenon, <2>2, <3>5, <3>6, <3>7, <3>8, <3>9, GuestNode
  <2> QED
    BY <2>4, <2>5 DEF MapsPage
<1> QED
  BY <1>1, BootInvariant, ReadyInvariant, PTL
-----------------------------------------------------------------------------
\* No two sections of the image share a page, and none is empty.
LEMMA SectionsApart ==
  /\ \A a \in HostSections : a.start < a.end
  /\ \A a, b \in HostSections : a # b => ~Overlap(a, b)
<1>1. /\ stext \in Int /\ etext \in Int /\ srodata \in Int /\ erodata \in Int
      /\ sdata \in Int /\ edata \in Int /\ sbss_with_stack \in Int /\ ebss \in Int
      /\ ekernel \in Int /\ MEMORY_END \in Int
  BY BootAssumption, SMT DEF MEMORY_END
<1>2. /\ stext < etext /\ etext <= srodata /\ srodata < erodata
      /\ erodata <= sdata /\ sdata < edata /\ edata <= sbss_with_stack
      /\ sbss_with_stack < ebss /\ ebss <= ekernel /\ ekernel < MEMORY_END
  BY BootAssumption
<1> QED
  <2>1. HostSections =
          {Area(<<"text", 0>>, stext, etext, stext, RX),
           Area(<<"rodata", 0>>, srodata, erodata, srodata, {"R"}),
           Area(<<"data", 0>>, sdata, edata, sdata, RW),
           Area(<<"bss", 0>>, sbss_with_stack, ebss, sbss_with_stack, RW),
           Area(<<"frames", 0>>, ekernel, MEMORY_END, ekernel, RW)}
    BY Zenon DEF HostSections, Linear
  <2>2. \A name, s, e, ppn, perm :
          Area(name, s, e, ppn, perm).start = s /\ Area(name, s, e, ppn, perm).end = e
    BY DEF Area
  <2>3. ASSUME NEW a \in HostSections, NEW b \in HostSections, a # b
        PROVE  a.end <= b.start \/ b.end <= a.start
    BY <1>1, <1>2, <2>1, <2>2, <2>3
  <2>4. \A a \in HostSections : a.start \in Int /\ a.end \in Int /\ a.start < a.end
    BY <1>1, <1>2, <2>1, <2>2
  <2> QED
    BY <2>3, <2>4 DEF Overlap

\* Overlap does not depend on the order of the two areas.
LEMMA OverlapSymmetric ==
  ASSUME NEW a, NEW b, Overlap(a, b) PROVE Overlap(b, a)
BY DEF Overlap

\* new_host_vmm maps a sound tree's devices without a panic.
LEMMA HostPushes ==
  ASSUME NEW t \in HostTrees, SoundTree(t)
  PROVE  ~PushPanics({}, HostAreas(t))
<1> DEFINE Ctx == Framed(<<"trap_context", 0>>, TRAP_CONTEXT, TRAMPOLINE)
           IsDevice(a) == LinearIn(a, 0, Low) /\ \E n \in Devices(t) : DeviceArea(a, n, 0)
<1>1. \A a \in HostAreas(t) : \/ a = Trampoline \/ a = Ctx
                              \/ a \in HostSections \/ IsDevice(a)
  <2> SUFFICES ASSUME NEW a \in HostAreas(t), a # Trampoline, a # Ctx, a \notin HostSections
               PROVE  IsDevice(a)
    OBVIOUS
  <2>1. LinearIn(a, 0, Low)
    BY HostArea
  <2>2. \E n \in Devices(t) : DeviceArea(a, n, 0)
    BY HostNode
  <2> QED
    BY <2>1, <2>2
<1>2. stext \in Int /\ Low <= stext
  BY BootAssumption
<1>3. /\ Trampoline.start = TRAMPOLINE /\ Trampoline.end = TRAMPOLINE + 1
      /\ Ctx.start = TRAMPOLINE - 1 /\ Ctx.end = TRAMPOLINE
      /\ Ctx.ppn = -1
  BY DEF Trampoline, Framed, Area, TRAP_CONTEXT
<1>4. \A a \in HostSections : LinearIn(a, stext, MEMORY_END)
  BY SectionArea
<1> HIDE DEF Ctx
<1>5. ASSUME NEW a \in HostAreas(t), a.ppn # -1 PROVE ~(a.start >= a.end)
  <2>1. CASE a = Trampoline
    BY <1>3, <2>1, SMT DEF TRAMPOLINE
  <2>2. CASE a = Ctx
    BY <1>3, <1>5, <2>2
  <2>3. CASE a \in HostSections
    BY <1>4, <2>3, SectionsApart, SMT DEF LinearIn
  <2>4. CASE IsDevice(a)
    <3>1. a.start \in Int /\ a.end \in Int /\ a.start < a.end
      BY <2>4, DeviceAreaRuns, Zenon
    <3> QED
      BY <3>1, SMT
  <2> QED
    BY <1>1, <2>1, <2>2, <2>3, <2>4
<1>6. ASSUME NEW a \in HostAreas(t), NEW b \in HostAreas(t), a.name # b.name
      PROVE  ~Overlap(a, b)
  <2>0. a # b
    BY <1>6
  <2>1. CASE IsDevice(a) /\ IsDevice(b)
    <3>1. PICK m \in Devices(t) : DeviceArea(a, m, 0)
      BY <2>1
    <3>2. PICK n \in Devices(t) : DeviceArea(b, n, 0)
      BY <2>1
    <3>3. m # n
      BY Zenon, <1>6, <3>1, <3>2 DEF DeviceArea
    <3> QED
      BY <3>1, <3>2, <3>3, NodesApart
  <2>2. CASE a \in HostSections /\ b \in HostSections
    BY <2>0, <2>2, SectionsApart
  <2>3. ASSUME NEW c \in HostAreas(t), NEW d \in HostAreas(t),
               IsDevice(c), ~IsDevice(d)
        PROVE  ~Overlap(c, d)
    <3>1. LinearIn(c, 0, Low)
      BY <2>3
    <3>2. CASE d = Trampoline \/ d = Ctx
      BY <1>3, <3>1, <3>2, SMT DEF LinearIn, Overlap, Low, TRAMPOLINE
    <3>3. CASE d \in HostSections
      BY <1>2, <1>4, <3>1, <3>3, SMT DEF LinearIn, Overlap, Low
    <3> QED
      BY <1>1, <2>3, <3>2, <3>3
  <2>4. ASSUME NEW c \in HostSections, NEW d \in {Trampoline, Ctx}
        PROVE  ~Overlap(c, d)
    BY <1>2, <1>3, <1>4, SMT DEF LinearIn, Overlap, MEMORY_END, TRAMPOLINE
  <2>5. ~Overlap(Trampoline, Ctx)
    BY <1>3, SMT DEF Overlap, TRAMPOLINE
  <2> HIDE DEF IsDevice
  <2> QED
    BY <1>1, <2>0, <2>1, <2>2, <2>3, <2>4, <2>5, OverlapSymmetric
<1> QED
  BY <1>5, <1>6 DEF PushPanics

\* new_guest_without_load maps a sound tree's memory and devices without a panic.
LEMMA GuestPushes ==
  ASSUME NEW t \in GuestTrees, SoundTree(t)
  PROVE  ~PushPanics({}, GuestAreas(t))
<1> DEFINE Ram == GuestRam(t)
           IsWhole(a) == LinearIn(a, 0, Low) /\ \E n \in Devices(t) : DeviceArea(a, n, 0)
           IsTest(a) == LinearIn(a, 0, Low) /\ \E n \in Nodes("test", t.test) : DeviceArea(a, n, 1)
<1>0. Nodes("test", t.test) \subseteq Devices(t) /\ Nodes("plic", t.plic) \subseteq Devices(t)
  BY DEF Devices
<1>1. ASSUME NEW a \in GuestAreas(t), a # Trampoline, a # Ram
      PROVE  IsWhole(a) \/ IsTest(a)
  <2>1. LinearIn(a, 0, Low)
    BY <1>1, GuestArea
  <2>2. \/ \E n \in Devices(t) : DeviceArea(a, n, 0)
        \/ \E n \in Nodes("test", t.test) : DeviceArea(a, n, 1)
    BY Zenon, <1>0, <1>1, GuestNode
  <2> QED
    BY <2>1, <2>2
<1>2. /\ Ram.start \in Int /\ Ram.end \in Int /\ MEMORY_END <= Ram.start
      /\ Ram.start < Ram.end /\ Ram.end < TRAP_CONTEXT
  BY RamArea
<1>3. Trampoline.start = TRAMPOLINE /\ Trampoline.end = TRAMPOLINE + 1
  BY DEF Trampoline, Area
<1> HIDE DEF Ram
<1>4. ASSUME NEW a \in GuestAreas(t) PROVE ~(a.start >= a.end)
  <2>1. CASE a = Trampoline
    BY <1>3, <2>1, SMT DEF TRAMPOLINE
  <2>2. CASE a = Ram
    BY <1>2, <2>2, SMT
  <2>3. CASE IsWhole(a) \/ IsTest(a)
    <3>1. a.start \in Int /\ a.end \in Int /\ a.start < a.end
      BY <2>3, DeviceAreaRuns, Zenon
    <3> QED
      BY <3>1, SMT
  <2> QED
    BY <1>1, <2>1, <2>2, <2>3
<1>5. ASSUME NEW a \in GuestAreas(t), NEW b \in GuestAreas(t), a.name # b.name
      PROVE  ~Overlap(a, b)
  <2>0. a # b
    BY <1>5
  <2>1. CASE IsWhole(a) /\ IsWhole(b)
    <3>1. PICK m \in Devices(t) : DeviceArea(a, m, 0)
      BY <2>1
    <3>2. PICK n \in Devices(t) : DeviceArea(b, n, 0)
      BY <2>1
    <3>3. m # n
      BY <1>5, <3>1, <3>2 DEF DeviceArea
    <3> QED
      BY <3>1, <3>2, <3>3, NodesApart
  <2>2. ASSUME NEW c, NEW d, c.name # d.name, IsTest(c), IsWhole(d)
        PROVE  ~Overlap(c, d)
    <3>1. PICK m \in Nodes("test", t.test) : DeviceArea(c, m, 1)
      BY <2>2
    <3>2. PICK n \in Devices(t) : DeviceArea(d, n, 0)
      BY <2>2
    <3>3. m # n
      BY Zenon, <2>2, <3>1, <3>2 DEF DeviceArea
    <3> QED
      BY Zenon, <1>0, <3>1, <3>2, <3>3, NodesApart
  <2>3. ~(IsTest(a) /\ IsTest(b))
    <3>1. ASSUME NEW c, IsTest(c) PROVE c.name = <<"test", 0>>
      <4>1. PICK n \in Nodes("test", t.test) : DeviceArea(c, n, 1)
        BY <3>1
      <4>2. n.kind = "test"
        BY DEF Nodes
      <4> QED
        BY <4>1, <4>2 DEF DeviceArea, NodeName
    <3> HIDE DEF IsTest
    <3> QED
      BY <1>5, <3>1
  <2>4. ASSUME NEW c, NEW d \in {Trampoline, Ram}, IsWhole(c) \/ IsTest(c)
        PROVE  ~Overlap(c, d)
    <3>1. LinearIn(c, 0, Low)
      BY <2>4
    <3> QED
      BY <1>2, <1>3, <3>1, SMT DEF LinearIn, Overlap, Low, MEMORY_END, TRAMPOLINE
  <2>5. ~Overlap(Ram, Trampoline)
    BY <1>2, <1>3, SMT DEF Overlap, TRAP_CONTEXT, TRAMPOLINE
  <2> HIDE DEF IsWhole, IsTest
  <2>6. CASE a \notin {Trampoline, Ram} /\ b \notin {Trampoline, Ram}
    BY <1>1, <1>5, <2>1, <2>2, <2>3, <2>6, OverlapSymmetric
  <2>7. CASE a \in {Trampoline, Ram} \/ b \in {Trampoline, Ram}
    BY <1>1, <2>0, <2>4, <2>5, <2>7, OverlapSymmetric
  <2> QED
    BY <2>6, <2>7
<1> QED
  BY <1>4, <1>5 DEF PushPanics
\* map_guest's window is clear of everything hpm can hold by then.
LEMMA WindowPushes ==
  ASSUME BootInv PROVE ~PushPanics(hpm, {GuestWindow})
<1>1. /\ GuestWindow.start = 590336 /\ GuestWindow.end = 623104
      /\ GuestWindow.ppn = 590336
  BY SMT DEF GuestWindow, Linear, Area, GUEST_START, GUEST_DEFAULT_SIZE
<1>2. ASSUME NEW b \in hpm, b # GuestWindow PROVE ~Overlap(GuestWindow, b)
  <2>1. CASE b = Trampoline \/ b = Framed(<<"trap_context", 0>>, TRAP_CONTEXT, TRAMPOLINE)
    BY <1>1, <2>1, SMT DEF Trampoline, Framed, Area, Overlap, TRAP_CONTEXT, TRAMPOLINE
  <2>2. CASE b \in HostSections
    BY <1>1, <2>2, SectionArea, SMT DEF LinearIn, Overlap, MEMORY_END
  <2>3. CASE LinearIn(b, 0, Low)
    BY <1>1, <2>3, SMT DEF LinearIn, Overlap, Low
  <2>4. CASE b = Stack(GUEST_ID)
    BY <1>1, <2>4, SMT DEF Stack, Framed, Area, GUEST_ID, hstack_position, KERNEL_STACK_SIZE,
                           Overlap, TRAP_CONTEXT, TRAMPOLINE
  <2> QED
    BY <1>2, <2>1, <2>2, <2>3, <2>4, HpmArea
<1> QED
  BY <1>1, <1>2, SMT DEF PushPanics

\* hstack_alloc's stack is clear of everything hpm can hold by then.
LEMMA StackPushes ==
  ASSUME BootInv PROVE ~PushPanics(hpm, {Stack(GUEST_ID)})
<1>1. /\ Stack(GUEST_ID).start = TRAP_CONTEXT - 4 /\ Stack(GUEST_ID).end = TRAP_CONTEXT
      /\ Stack(GUEST_ID).ppn = -1
  <2>1. /\ hstack_position(GUEST_ID).bottom = TRAP_CONTEXT - 4
        /\ hstack_position(GUEST_ID).top = TRAP_CONTEXT
    BY SMT DEF GUEST_ID, hstack_position, KERNEL_STACK_SIZE, TRAP_CONTEXT, TRAMPOLINE
  <2> QED
    BY <2>1 DEF Stack, Framed, Area
<1>2. ASSUME NEW b \in hpm, b # Stack(GUEST_ID) PROVE ~Overlap(Stack(GUEST_ID), b)
  <2>1. CASE b = Trampoline \/ b = Framed(<<"trap_context", 0>>, TRAP_CONTEXT, TRAMPOLINE)
    BY <1>1, <2>1, SMTT(30) DEF Trampoline, Framed, Area, Overlap, TRAP_CONTEXT, TRAMPOLINE
  <2>2. CASE b \in HostSections
    BY <1>1, <2>2, SectionArea, SMT DEF LinearIn, Overlap, MEMORY_END, TRAP_CONTEXT, TRAMPOLINE
  <2>3. CASE LinearIn(b, 0, Low)
    BY <1>1, <2>3, SMT DEF LinearIn, Overlap, Low, TRAP_CONTEXT, TRAMPOLINE
  <2>4. CASE b = GuestWindow
    BY <1>1, <2>4, SMT DEF GuestWindow, Linear, Area, GUEST_START, GUEST_DEFAULT_SIZE,
                           Overlap, TRAP_CONTEXT, TRAMPOLINE
  <2> QED
    BY <1>2, <2>1, <2>2, <2>3, <2>4, HpmArea
<1> QED
  BY <1>1, <1>2 DEF PushPanics

\* The areas of hpm that do not depend on the image or on the tree.
LEMMA FixedAreas ==
  /\ LET c == Framed(<<"trap_context", 0>>, TRAP_CONTEXT, TRAMPOLINE)
     IN  c.start = TRAP_CONTEXT /\ c.end = TRAMPOLINE /\ c.perm = RW
  /\ GuestWindow.start = GUEST_START /\ GuestWindow.end = GUEST_START + GUEST_DEFAULT_SIZE
  /\ GuestWindow.perm = RW
  /\ Stack(GUEST_ID).start = TRAP_CONTEXT - 4 /\ Stack(GUEST_ID).end = TRAP_CONTEXT
  /\ Stack(GUEST_ID).perm = RW
<1>1. /\ hstack_position(GUEST_ID).bottom = TRAP_CONTEXT - 4
      /\ hstack_position(GUEST_ID).top = TRAP_CONTEXT
  BY SMT DEF GUEST_ID, hstack_position, KERNEL_STACK_SIZE, TRAP_CONTEXT, TRAMPOLINE
<1> QED
  BY <1>1, SMT DEF Stack, Framed, GuestWindow, Linear, Area

\* remap_test's three assertions and its read of the trampoline hold.
LEMMA RemapHolds ==
  ASSUME BootInv, HostAreas(hostTree) \subseteq hpm
  PROVE  /\ ~MapsPage(hpm, (stext + etext) \div 2, {"W"})
         /\ ~MapsPage(hpm, (srodata + erodata) \div 2, {"W"})
         /\ ~MapsPage(hpm, (sdata + edata) \div 2, {"X"})
         /\ MapsPage(hpm, TRAMPOLINE, {"R"})
<1>1. /\ stext \in Nat /\ etext \in Nat /\ srodata \in Nat /\ erodata \in Nat
      /\ sdata \in Nat /\ edata \in Nat /\ sbss_with_stack \in Nat /\ ebss \in Nat
      /\ ekernel \in Nat
  <2>1. {stext, etext, srodata, erodata, sdata, edata, sbss_with_stack, ebss,
         ekernel, strampoline} \subseteq Nat
    BY BootAssumption, Zenon
  <2> QED
    BY <2>1, Zenon
<1>2. /\ Low <= stext /\ stext < etext /\ etext <= srodata /\ srodata < erodata
      /\ erodata <= sdata /\ sdata < edata /\ edata <= sbss_with_stack
      /\ sbss_with_stack < ebss /\ ebss <= ekernel /\ ekernel < MEMORY_END
  BY BootAssumption
<1> DEFINE text == (stext + etext) \div 2
           rodata == (srodata + erodata) \div 2
           data == (sdata + edata) \div 2
<1>3. /\ text \in Int /\ stext <= text /\ text < etext
      /\ rodata \in Int /\ srodata <= rodata /\ rodata < erodata
      /\ data \in Int /\ sdata <= data /\ data < edata
  BY <1>1, <1>2, SMT
<1> HIDE DEF text, rodata, data
<1>4. \A a \in HostSections :
        /\ a.start \in Int /\ a.end \in Int
        /\ "W" \in a.perm => a.start >= sdata
        /\ "X" \in a.perm => a.end <= etext
  BY <1>1, <1>2, SMT DEF HostSections, Linear, Area, RX, RW, MEMORY_END
<1>5. ASSUME NEW a \in hpm, "W" \in a.perm
      PROVE  a.start \in Int /\ a.end \in Int /\ (a.start >= sdata \/ a.end <= stext)
  <2>1. CASE a = Trampoline
    BY <1>5, <2>1 DEF Trampoline, Area, RX
  <2>2. CASE \/ a = Framed(<<"trap_context", 0>>, TRAP_CONTEXT, TRAMPOLINE)
             \/ a = GuestWindow \/ a = Stack(GUEST_ID)
    BY <1>1, <1>2, <2>2, FixedAreas, SMT DEF MEMORY_END, GUEST_START, GUEST_DEFAULT_SIZE,
                                             TRAP_CONTEXT, TRAMPOLINE
  <2>3. CASE a \in HostSections
    BY Zenon, <1>4, <1>5, <2>3
  <2>4. CASE LinearIn(a, 0, Low)
    BY <1>1, <1>2, <2>4, SMT DEF LinearIn, Low
  <2> QED
    BY <2>1, <2>2, <2>3, <2>4, HpmArea
<1>6. ASSUME NEW a \in hpm, "X" \in a.perm
      PROVE  a.start \in Int /\ a.end \in Int /\ (a.start = TRAMPOLINE \/ a.end <= etext)
  <2>1. CASE a = Trampoline
    BY <2>1, SMT DEF Trampoline, Area, TRAMPOLINE
  <2>2. CASE \/ a = Framed(<<"trap_context", 0>>, TRAP_CONTEXT, TRAMPOLINE)
             \/ a = GuestWindow \/ a = Stack(GUEST_ID) \/ a.perm = RW
    <3>1. a.perm = RW
      BY <2>2, FixedAreas, Zenon
    <3> QED
      BY <1>6, <3>1 DEF RW
  <2>3. CASE a \in HostSections
    BY <1>4, <1>6, <2>3
  <2> QED
    BY <2>1, <2>2, <2>3, HpmArea
<1>7. ~MapsPage(hpm, text, {"W"}) /\ ~MapsPage(hpm, rodata, {"W"})
  <2> SUFFICES ASSUME NEW a \in hpm, "W" \in a.perm, NEW p \in {text, rodata},
                      a.start <= p, p < a.end
               PROVE  FALSE
    BY DEF MapsPage
  <2> QED
    BY <1>1, <1>2, <1>3, <1>5, SMT
<1>8. ~MapsPage(hpm, data, {"X"})
  <2> SUFFICES ASSUME NEW a \in hpm, "X" \in a.perm, a.start <= data, data < a.end
               PROVE  FALSE
    BY DEF MapsPage
  <2> QED
    BY <1>1, <1>2, <1>3, <1>6, SMT DEF TRAMPOLINE, MEMORY_END
<1>9. MapsPage(hpm, TRAMPOLINE, {"R"})
  <2>1. Trampoline \in hpm
    BY DEF HostAreas
  <2>2. /\ Trampoline.start <= TRAMPOLINE /\ TRAMPOLINE < Trampoline.end
        /\ {"R"} \subseteq Trampoline.perm
    BY SMT DEF Trampoline, Area, RX, TRAMPOLINE
  <2> QED
    BY <2>1, <2>2, AreaMaps
<1> QED
  BY <1>7, <1>8, <1>9 DEF text, rodata, data
\* On hart 0, with both extensions and two sound trees, no statement of hentry panics.
LEMMA SoundBoot ==
  ASSUME BootInv, ReadyInv, hart_id = 0, exts = {"HSM", "H"},
         SoundTree(hostTree), SoundTree(guestTree)
  PROVE  ~Panics
<1>1. hostTree \in HostTrees /\ guestTree \in GuestTrees
  BY DEF BootInv
<1>2. ~parse_panics(hostTree) /\ ~parse_panics(guestTree)
  <2>1. Len(hostTree.virtio) \in Nat /\ Len(guestTree.virtio) \in Nat
    BY <1>1, TreeSeqs
  <2> QED
    <3>1. Len(hostTree.virtio) <= VIRTIO_CAP /\ Len(guestTree.virtio) <= VIRTIO_CAP
      BY SoundSizes, Zenon
    <3> QED
      BY <2>1, <3>1, SMT DEF parse_panics, VIRTIO_CAP
<1>3. ~PushPanics({}, HostAreas(hostTree)) /\ ~PushPanics({}, GuestAreas(guestTree))
  BY <1>1, HostPushes, GuestPushes
<1>4. ~PushPanics(hpm, {GuestWindow}) /\ ~PushPanics(hpm, {Stack(GUEST_ID)})
  BY WindowPushes, StackPushes
<1>5. step \in {"remap_test", "guest_new"} =>
        satp = TRUE /\ HostAreas(hostTree) \subseteq hpm
  BY DEF BootInv, ReadyInv, FromTrapInit
<1>6. step = "remap_test" =>
         /\ ~MapsPage(hpm, (stext + etext) \div 2, {"W"})
         /\ ~MapsPage(hpm, (srodata + erodata) \div 2, {"W"})
         /\ ~MapsPage(hpm, (sdata + edata) \div 2, {"X"})
         /\ MapsPage(hpm, TRAMPOLINE, {"R"})
  BY <1>5, RemapHolds
<1>7. HostAreas(hostTree) \subseteq hpm => MapsPage(hpm, TRAP_CONTEXT, RW)
  <2> DEFINE a == Framed(<<"trap_context", 0>>, TRAP_CONTEXT, TRAMPOLINE)
  <2>1. a \in HostAreas(hostTree)
    BY DEF HostAreas
  <2>2. a.start <= TRAP_CONTEXT /\ TRAP_CONTEXT < a.end /\ a.perm = RW
    BY SMT DEF Framed, Area, TRAP_CONTEXT, TRAMPOLINE
  <2> HIDE DEF a
  <2> QED
    BY <2>1, <2>2, AreaMaps
<1>8. ~(GUEST_ID >= MAX_GUESTS)
  BY SMT DEF GUEST_ID, MAX_GUESTS
<1> QED
  BY <1>2, <1>3, <1>4, <1>5, <1>6, <1>7, <1>8, Zenon DEF Panics

\* The boot panics on no machine but one that lacks an extension or whose trees
\* are unsound, for every image layout and every pair of trees (OnlyBadTreesPanic).
THEOREM BootOnlyBadTreesPanic == BootSpec => []OnlyBadTreesPanic
<1>1. start => OnlyBadTreesPanic
  BY DEF start, OnlyBadTreesPanic
<1>2. BootInv /\ ReadyInv /\ OnlyBadTreesPanic /\ [BootNext]_bootVars => OnlyBadTreesPanic'
  <2> SUFFICES ASSUME BootInv, ReadyInv, OnlyBadTreesPanic, [BootNext]_bootVars
               PROVE  OnlyBadTreesPanic'
    OBVIOUS
  <2>1. CASE panic
    <3>1. \/ hart_id # 0 \/ exts # {"HSM", "H"}
          \/ ~SoundTree(hostTree) \/ ~SoundTree(guestTree)
      BY <2>1, SoundBoot DEF panic
    <3> QED
      BY <2>1, <3>1 DEF panic, inputs, OnlyBadTreesPanic
  <2>2. CASE UNCHANGED bootVars
    BY <2>2 DEF bootVars, inputs, OnlyBadTreesPanic
  <2>3. CASE BootNext /\ ~panic
    <3>1. step' # "panicked"
      BY Zenon, <2>3 DEF BootNext, At, hentry, new_host_vmm, new_guest_without_load, map_guest,
                  enable_paging, trap_init, remap_test, guest_new, add_guest_queue, hart_entry_1
    <3> QED
      BY <3>1 DEF OnlyBadTreesPanic
  <2> QED
    BY <2>1, <2>2, <2>3
<1> QED
  BY <1>1, <1>2, BootInvariant, ReadyInvariant, PTL DEF BootSpec
=============================================================================
