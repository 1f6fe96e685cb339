------------------------------ MODULE MCVirtPlic ------------------------------
(***************************************************************************)
(* Five devices of three priorities; two pairs share one.                  *)
(***************************************************************************)
EXTENDS VirtPlic, TLC

MCSources == 1 .. 5
MCPriority == (1 :> 1) @@ (2 :> 2) @@ (3 :> 2) @@ (4 :> 1) @@ (5 :> 3)
=============================================================================
