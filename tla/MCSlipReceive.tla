---------------------------- MODULE MCSlipReceive ----------------------------
(* Instance of SlipReceive for TLC.  END, ESC and the two escape codes, one    *)
(* more byte value, and buffers of two bytes: enough for empty, short, full    *)
(* and too long frames, for escapes at each place and for wrong escapes.       *)
EXTENDS SlipReceive
CONSTANTS b0
MCData == {b0}
=============================================================================
