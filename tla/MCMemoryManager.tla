--------------------------- MODULE MCMemoryManager ----------------------------
(* Four processes in a memory of six units: enough for a block with used   *)
(* and free neighbours on either side, and for every merge.                  *)
EXTENDS MemoryManager

CONSTANTS p1, p2, p3, p4
MCProcessIds == {p1, p2, p3, p4}
MCNeeds == {1, 2, 4}
Symmetry == Permutations(MCProcessIds)
===============================================================================
