------------------------------ MODULE MCMemorySet ------------------------------
(***************************************************************************)
(* Tables of two entries and eight virtual pages.  The areas share leaf    *)
(* tables, cross table boundaries and, in two pairs, overlap; the frames   *)
(* do not suffice for all of them at once.  One area has data for a page   *)
(* and a half, and one has data where none is allowed.                     *)
(***************************************************************************)
EXTENDS MemorySet

Area(s, e, k, p, perm, d) ==
  [start |-> s, end |-> e, kind |-> k, ppn |-> p, perm |-> perm, data |-> d]

MCAreas == {Area(0, 2, "Framed", 0, "RW", 3), Area(2, 5, "Linear", 40, "RX", 0),
            Area(7, 8, "Framed", 0, "RW", 0), Area(4, 6, "Linear", 50, "R", 0),
            Area(6, 6, "Framed", 0, "RW", 0), Area(6, 7, "Linear", 60, "R", 1),
            Area(1, 2, "Framed", 0, "R", 0)}
=============================================================================
