------------------------------ MODULE FlashChip ------------------------------
(* A flash chip as an array of cells, each holding what one program operation  *)
(* of the smallest size leaves in it.  The chip is external: this is what      *)
(* command_handler.c and nand_plugin.c count on.                               *)
EXTENDS Integers, Sequences

CONSTANTS CELLS,               \* cells of the chip
          BLANK, OLD, MIXED,   \* an erased cell, one used before, one spoiled
          Value                \* what a host may write

Cells == 0..(CELLS - 1)
Cell == Value \cup {BLANK, OLD, MIXED}

\* The flash f after n cells from addr were erased.
Erased(f, addr, n) == [c \in Cells |-> IF addr =< c /\ c < addr + n THEN BLANK ELSE f[c]]

\* Programming only clears bits: it needs a blank cell to leave what it is given.
Programmed(cell, v) ==
  CASE v = BLANK \/ v = cell       -> cell
    [] v # BLANK /\ cell = BLANK   -> v
    [] OTHER                       -> MIXED

\* The flash f after the first n values of d were programmed from addr on.
WithData(f, addr, d, n) ==
  [c \in Cells |-> IF addr =< c /\ c < addr + n THEN Programmed(f[c], d[c - addr + 1])
                   ELSE f[c]]
=============================================================================
