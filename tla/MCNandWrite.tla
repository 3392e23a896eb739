----------------------------- MODULE MCNandWrite -----------------------------
(* Pages of two cells, two pages to a block, a block and a half.  At first the *)
(* chip is all used, or used in the first cell of each page.                   *)
EXTENDS NandWrite, TLC

CONSTANTS v1, v2

MCValue == {v1, v2}
MCSymmetry == Permutations(MCValue)

MCChips == {[c \in Cells |-> OLD], [c \in Cells |-> IF c % PAGE = 0 THEN OLD ELSE BLANK]}

MCInit == Init /\ nand \in MCChips
MCSpec == MCInit /\ [][Next]_vars
=============================================================================
