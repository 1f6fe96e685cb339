----------------------------- MODULE MCGuestWalk -----------------------------
(***************************************************************************)
(* A machine of seven pages, three of them page tables of two entries: two *)
(* entries at each level of a two-level or three-level walk, superpages    *)
(* aligned or not, and a pointer that leaves memory.                       *)
(***************************************************************************)
EXTENDS GuestWalk

MCRam == 1 .. 7
MCTables == {1, 2, 3}
MCRoots == {1}

MCAccesses ==
  [op : {"lw"}, len : {1, 2}, htinst : {"zero", "insn"}, plic : {TRUE}]
    \cup {[op |-> "other", len |-> 2, htinst |-> "zero", plic |-> TRUE],
          [op |-> "sw", len |-> 2, htinst |-> "zero", plic |-> TRUE],
          [op |-> "lw", len |-> 2, htinst |-> "zero", plic |-> FALSE]}

Leaf(r, w, x, ppn) == [v |-> TRUE, r |-> r, w |-> w, x |-> x, ppn |-> ppn]

MCPtes ==
  {Leaf(FALSE, FALSE, FALSE, p) : p \in {2, 3, 9}}
    \cup {Leaf(FALSE, FALSE, TRUE, p) : p \in {4, 7}}
    \cup {Leaf(TRUE, TRUE, TRUE, 6), Leaf(TRUE, TRUE, FALSE, 4), Leaf(FALSE, TRUE, TRUE, 4)}
=============================================================================
