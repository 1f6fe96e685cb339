----------------------------- MODULE AddressSpace -----------------------------
(***************************************************************************)
(* What a page table promises: a partial function from virtual pages to    *)
(* physical pages with permissions, changed one page at a time, by mapping *)
(* a page that is not mapped or unmapping one that is.                     *)
(***************************************************************************)
CONSTANTS Pages,       \* virtual page numbers
          Targets,     \* what a page can be mapped to
          Unmapped     \* not a target

VARIABLE mapping

ASInit == mapping = [v \in Pages |-> Unmapped]

\* At most the entry of v changes.
OnlyPage(v) == mapping' = [mapping EXCEPT ![v] = mapping'[v]]

MapPage(v) ==
  /\ mapping[v] = Unmapped
  /\ mapping'[v] \in Targets
  /\ OnlyPage(v)

UnmapPage(v) ==
  /\ mapping[v] # Unmapped
  /\ mapping'[v] = Unmapped
  /\ OnlyPage(v)

ASNext == \E v \in Pages : MapPage(v) \/ UnmapPage(v)

ASSpec == ASInit /\ [][ASNext]_mapping
=============================================================================
