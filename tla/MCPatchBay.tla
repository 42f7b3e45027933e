----------------------------- MODULE MCPatchBay -----------------------------
(* Values of the constants of PatchBay for TLC.                            *)
EXTENDS PatchBay, TLC

CONSTANTS d1, e1, e2, c1, c2, c3, r1, r2

\* Cable ids are only compared with each other.
CableSymmetry == Permutations(CableIds)
=============================================================================
