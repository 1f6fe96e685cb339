------------------------------ MODULE GuestWalk ------------------------------
(***************************************************************************)
(* How guest_page_fault_handler gets at the instruction that accessed the  *)
(* PLIC: from htinst, or by walking the guest's own Sv39 tables in         *)
(* software and reading its memory.  The guest builds its tables, turns    *)
(* paging on, edits them, and accesses the PLIC from any page it executes. *)
(*                                                                         *)
(* Addresses count halfwords, the granularity of instructions: a page is   *)
(* PageSize of them and a table Fanout entries (2048 and 512 in the code). *)
(* The guest is guest 0, whose memory the hypervisor maps at the guest's   *)
(* own addresses.  What the hart does is external, from the privileged     *)
(* specification: the walk of a fetch and the form of htinst.              *)
(***************************************************************************)
EXTENDS Integers, FiniteSets

CONSTANTS Fanout, PageSize,
          Ram,         \* the pages of guest memory, mapped by map_guest
          Tables,      \* those of them that the guest uses for page tables
          Ptes,        \* the entries it writes
          Roots,       \* the tables it uses as a root
          MaxWrites,   \* how many entries it changes after it turned paging on
          Accesses,    \* the accesses that fault
          Offsets,     \* where in a page its accesses to the PLIC are
          Straddle     \* whether one may lie across the end of a page

Pte == [v : BOOLEAN, r : BOOLEAN, w : BOOLEAN, x : BOOLEAN, ppn : Nat]

Fault == [op : {"lw", "sw", "other"}, len : {1, 2}, htinst : {"zero", "insn"}, plic : BOOLEAN]

ASSUME WalkAssumption ==
  /\ Fanout \in Nat \ {0} /\ PageSize \in Nat \ {0}
  /\ Ram \subseteq Nat \ {0} /\ Tables \subseteq Ram
  /\ Ptes \subseteq Pte /\ Roots \subseteq Tables /\ Accesses \subseteq Fault
  /\ MaxWrites \in Nat /\ Offsets \subseteq 0 .. PageSize - 1 /\ Straddle \in BOOLEAN

VARIABLES mem,         \* the entries of the guest's tables
          writes,      \* bound: how many entries were changed
          vsatp,       \* the root's page number, 0 for Bare
          hart,        \* "guest", "handler" or "stopped"
          fault,       \* what the guest was doing
          sepc,        \* ctx.sepc
          did          \* history: the access carried out last

walkVars == <<mem, writes, vsatp, hart, fault, sepc, did>>

EmptyPte == [v |-> FALSE, r |-> FALSE, w |-> FALSE, x |-> FALSE, ppn |-> 0]
NoFault == [op |-> "none", len |-> 0, htinst |-> "zero", plic |-> FALSE]

NoAccess == [op |-> "none", reg |-> "none", len |-> 0]

WalkInit ==
  /\ mem = [t \in Tables |-> [i \in 0 .. Fanout - 1 |-> EmptyPte]]
  /\ writes = 0 /\ vsatp = 0
  /\ hart = "guest" /\ fault = NoFault /\ sepc = 0 /\ did = NoAccess

-----------------------------------------------------------------------------
\* The software walk.

\* What a level's entry covers, in pages and in halfwords.
LevelPages(level) ==
  IF level = 0 THEN Fanout * Fanout ELSE IF level = 1 THEN Fanout ELSE 1
LevelSpan(level) == LevelPages(level) * PageSize

pte_index(va, level) == (va \div LevelSpan(level)) % Fanout

Some(pa) == [is |-> "some", at |-> pa]
None == [is |-> "none", at |-> 0]
Crash == [is |-> "crash", at |-> 0]

\* A superpage's address with the low digits of its ppn kept.
M_leaf_pa(pte, va, level) == pte.ppn * PageSize + (va % PageSize)

\* The ppn's digits above the level, then va's below it.
leaf_pa(pte, va, level) ==
  (pte.ppn \div LevelPages(level)) * LevelSpan(level) + (va % LevelSpan(level))

\* One turn of the loop.  translate_guest_va's closure reads guest memory at its
\* own address; elsewhere nothing is mapped and the hypervisor faults.
walk_level(table, va, level) ==
  LET pte == mem[table][pte_index(va, level)]
  IN IF table \notin Tables THEN Crash
     ELSE IF ~pte.v \/ (pte.w /\ ~pte.r) THEN None
     ELSE IF pte.r \/ pte.x THEN Some(leaf_pa(pte, va, level))
     ELSE [is |-> "table", at |-> pte.ppn]

walk_page_table(root, va) ==
  LET l0 == walk_level(root, va, 0)
      l1 == walk_level(l0.at, va, 1)
      l2 == walk_level(l1.at, va, 2)
  IN IF l0.is # "table" THEN l0
     ELSE IF l1.is # "table" THEN l1
     ELSE IF l2.is # "table" THEN l2
     ELSE None

\* Of the translation only guest_pa is used.
translate_guest_va(root, guest_va) == walk_page_table(root, guest_va)

fast_two_stage_translation(va) ==
  IF vsatp # 0 THEN translate_guest_va(vsatp, va) ELSE Some(va)

-----------------------------------------------------------------------------
\* External: the hart's walk for a fetch, and what the guest does.

\* The walk of va from root reads the given table at the level.
PointsTo(t, va, level, u) ==
  LET pte == mem[t][pte_index(va, level)]
  IN t \in Tables /\ pte.v /\ ~pte.r /\ ~pte.w /\ ~pte.x /\ pte.ppn = u

Reaches(root, va, level, table) ==
  \/ level = 0 /\ table = root
  \/ level = 1 /\ PointsTo(root, va, 0, table)
  \/ level = 2 /\ \E t \in Tables : PointsTo(root, va, 0, t) /\ PointsTo(t, va, 1, table)

\* An entry the hart executes from: a superpage is aligned to its size.
Executable(pte, level) ==
  pte.v /\ pte.x /\ (pte.w => pte.r) /\ pte.ppn % LevelPages(level) = 0

Entry(table, va, level) == mem[table][pte_index(va, level)]

\* Where the hart executes va from: one address, or none.
ExecutesFrom(root, va) ==
  {Entry(e[1], va, e[2]).ppn * PageSize + (va % LevelSpan(e[2])) :
     e \in {d \in Tables \X (0 .. 2) : /\ Reaches(root, va, d[2], d[1])
                                      /\ Executable(Entry(d[1], va, d[2]), d[2])}}

InRam(pa) == pa \div PageSize \in Ram

FetchedFrom(va) ==
  {pa \in IF vsatp = 0 THEN {va} ELSE ExecutesFrom(vsatp, va) : InRam(pa)}

VirtualAddresses == {p * PageSize + o : p \in 0 .. Fanout * Fanout * Fanout - 1, o \in Offsets}

Written(m, t, i, pte) == [m EXCEPT ![t][i] = pte]
Slots == Tables \X (0 .. Fanout - 1)
Running == hart = "guest" /\ did = NoAccess

\* After an access the guest goes on to other code.
GuestRuns ==
  /\ hart = "guest" /\ did # NoAccess
  /\ fault' = NoFault /\ sepc' = 0 /\ did' = NoAccess
  /\ UNCHANGED <<mem, writes, vsatp, hart>>

\* The guest builds its first tables and turns paging on.
GuestPaging ==
  /\ Running /\ vsatp = 0
  /\ \E root \in Roots : vsatp' = root
  /\ \E s1, s2 \in Slots, p1, p2 \in Ptes :
       mem' = Written(Written(mem, s1[1], s1[2], p1), s2[1], s2[2], p2)
  /\ UNCHANGED <<writes, hart, fault, sepc, did>>

\* It changes an entry while it runs with paging on.
GuestWrites ==
  /\ Running /\ vsatp # 0 /\ writes < MaxWrites
  /\ \E s \in Slots, pte \in Ptes : mem' = Written(mem, s[1], s[2], pte)
  /\ writes' = writes + 1
  /\ UNCHANGED <<vsatp, hart, fault, sepc, did>>

\* The guest page fault of an instruction at va of len halfwords.
GuestAccesses ==
  /\ Running /\ hart' = "handler"
  /\ \E va \in VirtualAddresses :
       /\ FetchedFrom(va) # {}
       /\ \E f \in Accesses :
            /\ Straddle \/ (va % PageSize) + f.len <= PageSize
            /\ \A k \in 1 .. f.len - 1 : FetchedFrom(va + k) # {}
            /\ fault' = f
       /\ sepc' = va
  /\ UNCHANGED <<mem, writes, vsatp, did>>

\* The hart's own walk for a load or a store leaves guest memory for the PLIC.
GuestWalkFaults ==
  /\ Running /\ hart' = "handler"
  /\ vsatp # 0
  /\ \E va \in VirtualAddresses, level \in 1 .. 2, page \in {e.ppn : e \in Ptes} \ Ram :
       Reaches(vsatp, va, level, page)
  /\ fault' = [op |-> "lw", len |-> 2, htinst |-> "pseudo", plic |-> TRUE]
  /\ UNCHANGED <<mem, writes, vsatp, sepc, did>>

-----------------------------------------------------------------------------
\* The handler.

\* Where the halfwords of the instruction at sepc are, as the hart fetches them.
Fetched(va, len) ==
  [k \in 0 .. len - 1 |-> CHOOSE pa \in FetchedFrom(va + k) : TRUE]

\* External: what decode_inst gives for the halfwords at pa: the length, the
\* operation and the register that is loaded or stored.  An instruction's first
\* halfword tells the length, the operation and a load's rd, the second one a
\* store's rs2.  The decoder may or may not know a compressed access.
Decoded == [op : {"lw", "sw", "other", "undecodable"}, reg : {"its own", "another"},
            len : {1, 2}]
Own(op) == [op |-> op, reg |-> "its own", len |-> fault.len]

DecodesTo(pa) ==
  LET executed == Fetched(sepc, fault.len)
  IN IF pa # executed[0] THEN Decoded
     ELSE IF fault.len = 1 THEN {Own(fault.op), Own("undecodable")}
     ELSE IF pa + 1 = executed[1] \/ fault.op = "lw" THEN {Own(fault.op)}
     ELSE {d \in Decoded : d.op \in {fault.op, "undecodable"} /\ d.len = fault.len}

\* decode_inst of htinst: for a compressed access the hart clears bit 1 of the
\* expanded instruction, instruction_length then says 2 and the upper half is
\* cut off; what is left is no load or store.
HtinstDecodesTo ==
  IF fault.len = 1 THEN {Own("other"), Own("undecodable")} ELSE {Own(fault.op)}

Stopped == hart' = "stopped" /\ UNCHANGED <<mem, writes, vsatp, fault, sepc, did>>

\* handle_plic_access and the step, or the error for an instruction that is
\* neither a load nor a store of a word.
Handle(inst) ==
  \/ /\ inst.op \in {"lw", "sw"}
     /\ did' = inst
     /\ sepc' = sepc + inst.len
     /\ hart' = "guest"
     /\ UNCHANGED <<mem, writes, vsatp, fault>>
  \/ inst.op \notin {"lw", "sw"} /\ Stopped

\* The instruction read at the guest's virtual address.
M_guest_page_fault_handler ==
  /\ hart = "handler"
  /\ \/ ~fault.plic /\ Stopped
     \/ /\ fault.plic /\ fault.htinst = "zero"
        /\ \E inst \in DecodesTo(sepc) : Handle(inst)
     \/ fault.plic /\ fault.htinst = "pseudo" /\ Stopped
     \/ fault.plic /\ fault.htinst = "insn" /\ \E inst \in HtinstDecodesTo : Handle(inst)

\* Every htinst but zero taken for a pseudoinstruction.
M2_guest_page_fault_handler ==
  LET inst_addr == fast_two_stage_translation(sepc)
  IN /\ hart = "handler"
     /\ \/ (~fault.plic \/ fault.htinst # "zero") /\ Stopped
        \/ /\ fault.plic /\ fault.htinst = "zero"
           /\ inst_addr.is = "some"
           /\ \E inst \in DecodesTo(inst_addr.at) : Handle(inst)

\* The read of a usize takes four halfwords, whatever the instruction's length.
guest_page_fault_handler ==
  LET inst_addr == fast_two_stage_translation(sepc)
  IN /\ hart = "handler"
     /\ \/ ~fault.plic /\ Stopped
        \/ /\ fault.plic /\ fault.htinst = "zero"
           /\ \/ (inst_addr.is # "some" \/ ~InRam(inst_addr.at + 3)) /\ Stopped
              \/ /\ inst_addr.is = "some" /\ InRam(inst_addr.at + 3)
                 /\ \E inst \in DecodesTo(inst_addr.at) : Handle(inst)
        \/ fault.plic /\ fault.htinst = "pseudo" /\ Stopped
        \/ fault.plic /\ fault.htinst = "insn" /\ \E inst \in HtinstDecodesTo : Handle(inst)

WalkNext == GuestRuns \/ GuestWrites \/ GuestPaging \/ GuestAccesses
            \/ GuestWalkFaults \/ guest_page_fault_handler

WalkSpec == WalkInit /\ [][WalkNext]_walkVars

-----------------------------------------------------------------------------
\* For whatever the guest's tables hold, superpages included, the software walk
\* finds the address the hart executes from: translate_guest_va never faults,
\* returns None or is led elsewhere for the pc of a running guest.
WalkAgrees ==
  vsatp # 0 => \A va \in VirtualAddresses : \A pa \in ExecutesFrom(vsatp, va) :
                 translate_guest_va(vsatp, va) = Some(pa)

\* What the handler carries out is the access the guest made, with the register
\* that the instruction names, and it steps over just that instruction: the
\* halfwords it read from guest memory are those the hart executed.
EmulatesTheAccess ==
  [][hart = "handler" /\ hart' = "guest" =>
       did' = Own(fault.op) /\ sepc' = sepc + fault.len]_walkVars

AtEndOfRam(va) == \E pa \in FetchedFrom(va) : ~InRam(pa + 3)

\* A load or store of a word of the PLIC by an instruction of four bytes is carried
\* out, not ended by an error, unless the instruction is in the last bytes of guest
\* memory.  (For compressed ones see CompressedAccessServed.)
WordAccessServed ==
  (/\ hart = "stopped"
   /\ fault.plic /\ fault.htinst # "pseudo"
   /\ fault.op \in {"lw", "sw"} /\ fault.len = 2) => AtEndOfRam(sepc)

\* So is a compressed one that htinst describes: its opcode is made valid first.
CompressedAccessServed ==
  hart = "stopped" => ~(/\ fault.plic /\ fault.htinst = "insn"
                        /\ fault.op \in {"lw", "sw"} /\ fault.len = 1)
=============================================================================
