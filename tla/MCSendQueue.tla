---------------------------- MODULE MCSendQueue ----------------------------
(* Two packs fill a batch exactly, two more do not fit, one exceeds it alone. *)
EXTENDS SendQueue, TLC
CONSTANTS small, medium, large
MCPacks == {small, medium, large}
MCSize == (small :> 2) @@ (medium :> 3) @@ (large :> 6)
=============================================================================
