----------------------------- MODULE MCSlipLink -----------------------------
(* Instances of SlipLink for TLC: payloads that need escapes, that hold an     *)
(* escape code as plain data, and that do not fit the buffer of two bytes.     *)
(* Those of MCAny are so far apart that one fault turns none into another.     *)
EXTENDS SlipLink
CONSTANTS b0, b1
MCData == {b0, b1}
MCFits == {<<b0>>, <<END, ESC>>, <<ESC_END>>}
MCAny  == {<<b0, b0>>, <<ESC, ESC>>, <<b1, b1, b1>>}
=============================================================================
