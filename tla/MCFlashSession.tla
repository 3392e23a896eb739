--------------------------- MODULE MCFlashSession ---------------------------
(* Two sectors of two cells, blocks of up to two cells, two values.            *)
EXTENDS FlashSession

CONSTANTS v1, v2

MCValue == {v1, v2}
=============================================================================
