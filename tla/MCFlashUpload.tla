---------------------------- MODULE MCFlashUpload ----------------------------
(* Three sectors of two cells, and two ways to place an image on them: aligned *)
(* with a last block that is padded, and starting inside a sector.             *)
EXTENDS FlashUpload

MCJobs == {[start |-> 0, size |-> 3], [start |-> 1, size |-> 4]}
MCValue == ((1..MAX_SESSIONS) \X (0..(CELLS - 1))) \cup {BLANK}
=============================================================================
