# A TLA+ development of hypocaust-2

hypocaust-2 is a type-1 hypervisor for RISC-V with the H extension. It boots on
one hart, builds a page table for itself and a second-stage table for one guest,
and from then on only runs when the guest traps. This directory models that
program, checks the models with TLC and proves the main results with TLAPS.
`PROJECT.json` lists components, runs, mutants, the source lines of every
definition, findings, hazards and theorems. Paths below are relative to
`src/src/`.

## 1. The system

| Part | State | Operations | Interacts with |
|---|---|---|---|
| frame allocator (`hyp_alloc/frame_allocator.rs`) | `current`, `end`, `recycled`, the live `FrameTracker`s | init, `frame_alloc`, `frame_dealloc` (on drop) | page tables, framed areas |
| page tables and areas (`page_table/`, `mm/`) | table pages in frames, `areas`, `data_frames` | `push`, `map_one`, `find_pte_create`, `map`, `copy_data`, `unmap_one`, `unmap`, `translate` | frame allocator, boot |
| second-stage root (`page_table/sv39.rs`) | `frames`, `root_ppn` | `new_guest` | frame allocator |
| boot (`main.rs`, `hypervisor.rs`, `mm/memory_set.rs`, `guest/mod.rs`) | both memory sets, `HOST_VMM`, satp, stvec, the trap context, the guest queue | the statements of `hentry` | all of the above |
| probe for the H extension (`detect.rs`) | stvec, tp, the trap frame | `detect_h_extension` | boot |
| virtual timer (`guest/sbi.rs`, `guest/vmexit.rs`) | sie.STIE, hvip.VSTIP, the firmware's deadline | SBI `set_timer`, the supervisor timer interrupt | trap handler, guest |
| PLIC emulation (`device_emu/plic.rs`, `guest/vmexit.rs`) | `claim_complete`, VSEIP, `irq_pending` | `handle_irq`, `handle_plic_access` | the machine's PLIC, guest driver |
| trap handling (`guest/vmexit.rs`) | the lock, stvec, sscratch, hgatp | the arms of `trap_handler`, `switch_to_guest` | timer, PLIC, SBI |
| world switch (`guest/trap.S`, `guest/guest.S`, `guest/context.rs`) | the general registers, the trap context, `VmCpuRegisters` | `__alltraps`, `__restore`, `__alltraps_k`, `_run_guest`, `_guest_exit` | trap handler, guest |
| software walk (`guest/mod.rs`, `page_table/`, `guest/vmexit.rs`) | none; it reads the guest's tables and code | `walk_page_table`, `translate_guest_va`, `decode_inst` | trap handler, guest |
| device tree (`hypervisor.rs`) | `MachineMeta` | `parse` | boot |

What makes it hard: the guest, the clock and the devices move between any two
steps of the hypervisor; one register per context stands for all interrupts in
flight; the handler never returns, so locks and CSRs are released by hand; every
register of the guest passes through hand-written assembly at each exit; the
hypervisor interprets page tables and instructions that the guest writes; frames
are reused with their contents; the layout comes from device trees.

## 2. Modules

| Module | Models | Abstract specification |
|---|---|---|
| `FrameAllocator` | the allocator; a tracker is a member of `trackers` | `FramePool` |
| `MemorySet` (extends `FrameAllocator`) | a three-level table whose entries are words of frames, one step per loop iteration | `AddressSpace` |
| `GuestRoot` (extends `FrameAllocator`) | `new_guest`, one step per allocation | |
| `Boot` | `hentry`, one step per statement; a memory set is its set of areas | |
| `VirtTimer` | the timer | `GuestTimer` |
| `VirtPlic` | the interrupt emulation, with the machine's PLIC and the guest's driver as its environment | |
| `VmExit` (extends `VirtPlic`, `VirtTimer`) | the hart: guest, trap entry, handler, return | `VirtPlic`, `GuestTimer` |
| `RegMachine` | a hart that executes the few instructions of the assembly files on symbolic words | |
| `WorldSwitch` (extends `RegMachine`) | every assembly routine as the list of its instructions, and what the Rust code between them does to the saved registers | `GuestCpu` |
| `GuestWalk` | the software walk, the read and the decoding of a faulting instruction, against the hart's own walk and fetch | |

`MC*` modules give constants their values; `*Proofs` modules hold theorems. An
operator whose name starts with `M_` or `M2_` is a mutant: the definition after
it with a plausible mistake. Actions and operators keep the names of the
functions they model. Guest, clock, devices, firmware and the hart's own logic
are external and modelled from how the code uses them.

How the models correspond to the code:

* **FrameAllocator.** `frame_alloc` pops `recycled`, else bumps `current`, else
  the caller's `unwrap` panics (`panic = "out of frames"`). `frame_dealloc` has
  the check of `dealloc`. `ekernel` and `MEMORY_END` are byte addresses, rounded
  by `PhysAddrCeil` and `PhysAddrFloor`.
* **MemorySet.** `mem` holds the words of every frame. A frame is cleared by
  `FrameTracker::new` and is dirty from the moment it is returned. A push is the
  sequence `push`, (`map_one`, `find_pte_create` twice, `map`) for each page, then
  `copy_data` for each page of data; Linear areas test for their end after the
  first page, as the code does. `copy_data` writes to the page that `translate`
  names. `unmap` is `MapArea::unmap`; nothing in use calls it yet, it is part of
  the component's interface. `data_frames` is keyed by area and page, since each
  `MapArea` has its own map and two areas may hold a frame for the same page
  until `map` finds the overlap.
* **GuestRoot.** `Others` is the rest of the hypervisor before the call, and
  `returned` a history variable: it has given a frame back.
* **Boot.** Areas are intervals of pages, devices byte ranges rounded by
  `MapArea::new`. `exts` holds which of the two extensions that `hentry` probes for
  the machine has. A push adds an area or panics. Every `HOST_VMM...lock()` is the
  guard `Lock`. Pages are 0x1000 bytes; addresses are page numbers because of
  TLC's 32-bit integers, and devices must lie below 0x8000_0000.
* **VirtTimer.** `stie` and `vstip` are the CSR bits, `stimecmp` what the
  firmware was last told. `timer_irq` is the arm of the handler, which looks at
  neither the deadline nor the enable; `TimerInterrupt` is the trap that leads to it.
* **VirtPlic.** `handle_plic_access` is split by register and direction:
  `WriteThreshold`, `ReadClaim`, `WriteComplete`. `handle_irq` stores whatever the
  claim returns, 0 included, as the code does; `ExternalInterrupt` is the trap that
  leads to it. The hypervisor is never interrupted, which `HostUninterrupted` of
  `WorldSwitch` shows, so each is one step. `guest_id` is always 0. `burst` is a
  history variable: a device has interrupted while another interrupt was pending or
  in service.
* **VmExit.** `hart` is where the hart is: `guest`, `entry` (in `__alltraps`),
  `handler` (lock held), `resume` (lock dropped), `spinning`, `stopped`. `sepc`
  is abstracted to at/next/vstvec and `insn` to what an exiting instruction asks
  for. What htinst, the walk and the decoder yield for an access is part of
  `insn.op`; `GuestWalk` opens that up. An access to a register of a PLIC context
  behind the claim register has no branch in `handle_plic_access`: it is stepped over
  without effect. `cause` is reset at the `sret`, since it is not read again before
  the next trap sets it.
* **WorldSwitch.** A word is a triple (what, when, which): a register of the
  guest is `<<"guest", gen, r>>`, and `gen` grows when the guest rewrites its
  registers, so that a stale or misplaced word differs from the right one. A
  memory address is a base with an offset in doublewords. `alltraps_program` and
  its siblings list the instructions of the routine in order; a run of stores or
  loads off one base is one step of it. Compiled code leaves any word in the
  registers it may use (`Clobber`) and reads and writes the trap context as the
  handler's source does. An access to the PLIC is one of four kinds: a load of the
  claim, a store, one behind the claim register (stepped over, nothing written), and
  any other, which ends in an error or a panic. The two switches are two values of
  `path`: `trap.S`, in use, and `guest.S`, which has no caller yet, so its caller is
  external. `probe`, `req`, `given` and `caller` record what the properties compare
  with.
* **GuestWalk.** Addresses count halfwords. `mem` holds the guest's table
  entries, `Ram` the pages of its memory that the hypervisor maps. `FetchedFrom`
  is what the hart does, by the privileged specification; `walk_page_table` is the
  code. `DecodesTo` says what the decoder gives for the halfwords the hypervisor
  has read: the guest's instruction if they are those the hart fetched, anything
  otherwise, with the length that `decode_inst` takes from the first halfword and
  the handler steps by. A read of a table or an instruction that the hypervisor has not
  mapped is a fault in the hypervisor.

## 3. Runs

| Run | Shows | Distinct states |
|---|---|---|
| `guest_root` | no frame lost, shared, or outside memory; drops never panic; the allocator implements `FramePool`; the root is aligned, owned and contiguous when nothing was returned before | 70 445 |
| `vm_exit` | CSRs and lock ready whenever the guest runs; only unsupported instructions stop the hart; exits end and the guest gets past each instruction (`GuestGoesOn`); line and claim register agree, the guest sees only ids in service, an interrupt above the threshold is claimed and what is served is completed; until two interrupts are outstanding at once (`burst`) none is lost and each is served; implements `VirtPlic` and, with its liveness, `GuestTimer` | 93 491 |
| `memory_set` | the table maps exactly the areas and holds their data, owners share no frame, overlap is caught, implements `AddressSpace`, operations end | 151 162 |
| `boot` | only a missing extension or a bad tree ends in a panic; the host map is sound; the guest reaches nothing of the hypervisor; the PLIC's context pages are trapped and reachable; everything is ready at the first `sret`; stacks have guard pages; the boot ends | 2 460 |
| `world_switch` | the guest has a processor of its own (`GuestCpu`), across exits by either switch; the probe answers rightly and leaves no trace, and its trap resumes behind the probed instruction; `_run_guest` keeps its caller's state; the hypervisor is never interrupted and runs on its own stack | 66 984 |
| `guest_walk` | the software walk agrees with the hart's for every content of the tables; the access carried out, and stepped over, is the guest's; a word access by a four-byte instruction is served | 152 708 |

Six runs expect a violation; each is a disagreement between the code and what
the repository says of it:

* `virt_plic_lost`: `handle_irq` stores a second id over one the guest has not
  read, and a completion clears an id claimed after it. The lost source stays
  claimed in the PLIC and never interrupts again (`guest/vmexit.rs:119`,
  `device_emu/plic.rs:71`).
* `vm_exit_fetch`: the arm for instruction guest page faults locks `HOST_VMM`
  while `trap_handler` holds it, so its panic message never appears
  (`guest/vmexit.rs:171`).
* `vm_exit_vector`: `forward_exception` leaves SPP alone, so an exception from
  VU-mode resumes at the guest's vector in VU-mode (`guest/vmexit.rs:129`;
  `docs/trap.md:6`).
* `world_switch_zero`: a load from the PLIC into x0 writes the context's `x[0]`,
  and a later store of x0 sends that word (`device_emu/plic.rs:61`). Elsewhere
  the code keeps register 0 zero (`constants.rs:455`).
* `guest_walk_straddle`: the instruction is read from physical memory at the
  translation of its first byte, so one that lies across the end of a page is
  completed from the next physical page (`guest/vmexit.rs:75`). It is the run
  `guest_walk` with such instructions allowed (`Straddle`).
* `guest_walk_compressed`: the comment at `guest/vmexit.rs:86` says that the opcode in
  htinst is made valid even for a compressed instruction, but the branch is empty.
  For a compressed load or store `decode_inst` then takes htinst for two bytes that
  are no load or store of a word, and the access stops the machine.

### Bounds

* `guest_root`: the frames 6 to 12, both borders inside a page: the search may
  skip two frames, one or none, find the root or run out, over every history of
  allocated and returned frames.
* `memory_set`: tables of 2 entries (8 pages), 8 frames, seven areas that share
  leaf tables, cross table borders, overlap (two pairs), are empty, have data for
  a page and a half, or have data that `copy_data` refuses; frames run out.
  Nothing in the code depends on the fanout but the index arithmetic, and the
  proofs are for every fanout.
* `vm_exit*`: clock 0..1 with deadlines in the past, the present and the future
  or never reached, two devices of different priority, two thresholds that mask the
  lower one or none, and one instruction of each class of exit. Two devices are
  enough for an interrupt that is overwritten, or cleared by the completion of
  another.
* `virt_plic_lost`: five devices, three priorities with ties, thresholds 0..3, so that
  each device can be masked and unmasked.
* `boot`: the host as QEMU's virt machine, the four guests with a device tree
  under `guest/`, one with two memory banks, and nine variants of host and
  guest: no PLIC and PCI, hardly any device, repeated test nodes, 16 and 17
  virtio devices, two in a page, an empty PLIC, a UART next to the test device.
* `world_switch`: the guest rewrites its registers twice (`MaxGen`), so that a
  word of an earlier exit can be told from the present one; all 32 registers are
  checked, and accesses name a register of each group the assembly treats alike.
  x0 as a load's rd is the subject of `world_switch_zero`; tp is left out of the
  accesses' registers, since `trap.S` states that it does not save it.
* `guest_walk`: tables of 2 entries, pages of 4 halfwords, three table pages and
  four others; the guest fills two entries, turns paging on and changes one more
  while it runs. Two entries make a leaf at the first or the second level, and
  with the third one of the lowest; there are leaves without each right, aligned
  and misaligned superpages, loops and a pointer out of memory.

No symmetry is used: ids, priorities and addresses are ordered.

### Fairness

* `VirtTimer`, `VmExit`: weak fairness of the interrupt. The guest always runs with
  supervisor interrupts of the hypervisor enabled (V = 1), and the hart evaluates
  them at the `sret` (`preempt` in `VmExit`): a pending one is taken before the
  guest's next instruction. Weak fairness of the hypervisor's own steps and of the
  guest executing the instruction it is at: the hart runs (`HartFairness`).
* `VmExit` further assumes of the guest (`GuestFairness`) that it leaves its trap
  vector, that it does not put off its external interrupt for ever while the line is
  up again and again, and that in its handler it goes on to claim and to complete.
  The last two are strong fairness, since the hypervisor's interrupts come between
  the guest's steps. `PendingIsServed` and `ServedIsCompleted` need them;
  `GuestGoesOn`, `ExitsEnd`, `IrqClaimed` and the timer speak of the hypervisor's
  side and rest on `HartFairness`.
* `MemorySet`, `Boot`: weak fairness of the one sequential hart.
* `GuestRoot`, `WorldSwitch` and `GuestWalk` are safety only.

## 4. Proofs

All for every value of the constants, under the named assumptions of the modules.

* `FrameAllocatorProofs`. `AllocInv`: recycled frames are pairwise different, all
  below `current`, and apart from the owned ones; owned, recycled and fresh frames
  make up the pool. The distinctness of `recycled` is the strengthening that a pop
  needs. Gives type, conservation, `DropNeverPanics`, bounds and the refinement
  of `FramePool`.
* `MemorySetProofs`. The properties speak of what a walk finds, and a walk reads
  memory that operations write, so none of them is inductive. `MsInv` says that
  the table pages form a tree (`Tree`: no table page is reached in two ways), that
  no frame has two owners (`OwnersDisjoint`), that an area holds a frame for just
  the pages that have got one, entered in the table but for the page in hand
  (`FrameInv`), that the leaves are the pages of the areas and of the job as far
  as it has got (`SpaceInv`), and that a walk in progress stands at the table page
  its page's index leads to (`JobInv`, `WalkInv`). The lemmas on trees then say what
  each write does: outside the tree nothing (`OutsideTree`), a fresh table page
  extends it and changes no leaf (`NewMiddle`, `NewLowest`), a leaf changes one
  page. Every step of the specification is so shown to keep `MsInv` and to be an
  `EntryStep`: it changes no translation, maps one free page, or unmaps one mapped
  page. Gives `OwnersDisjoint`, `MapsTheAreas`, `FramedBacked`, `UnmapNeverPanics`
  and the refinement of `AddressSpace` (`MsRefinesSpace`). For `DataInPlace`,
  `DataInv` says of every page that has a frame which words of the data it holds:
  none after `FrameTracker::new`, all before the word that `copy_data` has come to,
  and all from then on. A write to a table page or to another page's frame leaves
  it alone because no frame has two owners; that a step of `copy_data` adds to
  one page only is arithmetic on words and pages (`HeldMore`).
* `VmExitProofs`, in three parts. The timer: `TimerInv` is type, `NoEarlyTick`
  and `OwedIffEnabled`, and gives the safety part of the refinement of
  `GuestTimer`: `Expire` needs the line down, which is STIE by `OwedIffEnabled`.
  The PLIC: `PlicInv` is type, line and register, ids in service; until the first
  burst at most one source is pending or in service (`AtMostOne`), which makes
  the single register enough. The hart: `HartInv` relates the place of the hart
  to lock, stvec, sscratch, hgatp and sepc. Gives `GuestRunsReady` and, with what
  each stopped or spinning hart was doing, `OnlyUnsupportedStops`. The arms for
  interrupts act without a look at what interrupted, several steps after the trap,
  while devices and clock go on: `CauseInv` says that from the trap to the arm the
  cause still stands (`VmCauseStays`), so that `handle_irq` claims an id and not 0,
  and the timer arm finds its deadline passed. Every step of the hart is then shown
  to be a step of `VirtTimer` and of `VirtPlic` or a stutter, and their results
  carry over (`VmTimerOwed`, `VmRefinesGuestTimer`, `VmLineMatchesClaim`,
  `VmDeliversOneAtATime`).
* `SwitchProgramProofs` executes the assembly. A lemma for each instruction says
  what it does to a hart; a lemma for each routine (`AlltrapsDoes`, `RestoreDoes`,
  `AlltrapsKDoes`, `RunGuestDoes`, `GuestExitDoes`, `DetectTrapDoes`) follows from
  them instruction by instruction, and says which word every register, CSR and
  slot holds at its end.
* `WorldSwitchProofs`. Each property of `WorldSwitch` speaks of one place and
  rests on what was saved many steps before, so none is inductive. `SwitchInv`
  has a case for each place between two routines and says what the next routine
  relies on: the context names the hypervisor's stack and handler (`CtxReady`),
  it or the `VmCpuRegisters` hold a guest's pc and mode (`CtxHolds`), `hyp_regs`
  holds `_run_guest`'s caller (`HypSaved`), stvec and sscratch are those of the
  switch in use (`ExitReady`), no saved sstatus enables interrupts (`Quiet`), and
  how far the probe has come (`Probed`). The theorems hold for any number of exits
  and every set of registers of the guest's accesses, tp and x0 included. Gives
  `CallerKeepsState`, `ProbeTransparent`, `HostUninterrupted`, `HypervisorStack`.
* `GuestCpuProofs`. The refinement of `GuestCpu`. `Views` states the refinement
  mapping place by place: the guest's processor is on the hart while it runs and
  just after its exit, then in the trap context with tp on the hart, or in the
  `VmCpuRegisters`. To `SwitchInv`, `CpuInv` adds that scause, htinst, a7 and a6,
  on the hart or saved, still tell the request the guest exited with, which is what
  the handler decides by. The lemmas on the routines then show that entry and exit
  move the processor from one place to the next and change nothing of it, and
  those on the handlers that what they write is the answer. `GuestHasItsCpu`
  assumes `PlicRegsKept`: the guest's accesses to the PLIC do not name tp, which
  trap.S leaves on the hart, and do not both load to x0 and store from it. The
  refinement is false without either; `world_switch_zero` shows the case of x0.
* `BootProofs`. `BootInv` says which areas each memory set holds at each
  statement; the bounds of devices and sections in `BootAssumption` then separate
  them. Gives `GuestIsolated`, `HostMapSound`, `StacksApart`, `EntryReady`,
  `PlicEmulable` and, by showing that the areas of sound trees do not overlap and
  none is empty, `OnlyBadTreesPanic`: with both extensions and sound trees there is
  no panic.
* `GuestTableProofs`, on the two stages of a guest's translation. The root of the
  second stage: with nothing recycled the allocator hands out `current`; the
  invariant says that the frames taken since the aligned one are the interval up
  to `current`. Gives `RootContiguousAtBoot`. The walk of the first stage: the only
  state invariant needed is the type of the tables.
  `WalkAgreement` compares the two walks level by level: a superpage the hart
  executes from is aligned, so that dropping the low digits of its page number
  loses nothing. For `AccessEmulated` and `SupportedGoesOn` an instruction inside
  one page has all its halfwords at consecutive addresses, those the handler reads.

`BootAssumption` says that the image's sections follow one another below the
frame pool, that devices lie below 0x8000_0000, and that a guest's memory starts
at least 0x20_0000 above `MEMORY_END`. `DriverAssumption` says that of the PLIC's
context registers the guest uses the threshold and the claim register of its own.
`InsnsAssumption` says that an instruction raises an exception and no interrupt.
`MemorySetAssumption` says that there is a frame for the root, that areas lie in
the address space, that data fits its area, and that a Linear area is not empty
(`Boot` treats one that is as a panic). `WalkAssumption` gives the constants their
types, and says that the guest's memory does not contain page 0. `AccessEmulated`
and `SupportedGoesOn` assume `Straddle = FALSE`; without it the first is false
(`guest_walk_straddle`).

Model-checked only: what must eventually happen, which is out of the prover's
reach: `ExitsEnd`, `IrqClaimed`, `PendingIsServed`, `ServedIsCompleted`, `GuestGoesOn`
and the fairness of `GuestTimer` in `VmExit`, `OperationsEnd` of `MemorySet`,
`BootEnds` of `Boot`. Every invariant and action property that a run checks is
proved.

## 5. Not modelled

* Address-translation caches: `sfence.vma` and `hfence` have no effect in the
  models, and an entry that was changed is seen at once.
* `two_stage_translation`, called only on the arm of instruction guest page faults
  after the lock that is never obtained, and with it `translate_va`;
  `decode_inst_at_addr`, which nothing calls; Sv48 guests, which the walk does not
  know (`guest/linux/pgt_level.patch` keeps Linux on Sv39); the PBMT and N bits of
  an entry, which the walk would take for part of the page number.
* `new_guest` (the ELF loader) and `map_gpm` of `mm/memory_set.rs`, which nothing
  calls; the drop of a memory set, which never happens, as both are in a static;
  `FrameTracker`'s derived `Clone`, which nothing calls.
* `__restore_k`: `trap_from_kernel` never returns to it.
* Exhaustion of frames during the boot: `MemorySet` has it, `Boot` does not.
* A guest's memory below its kernel, which the guest can reach and the hypervisor
  has not mapped: a page table there would make the walk fault.
* The firmware's answers, which are arbitrary words; the fdt crate and the
  decoder, which are external.
* The heap (a crate over a static array), console and firmware client (output),
  IOMMU register layouts, `vcpu.rs` and `sync/up.rs` (nothing uses them),
  statistics counters, logging.
