---------------------------- MODULE MCSdioReceive ----------------------------
(* Instance of SdioReceive for TLC: three payloads, to tell a frame that was   *)
(* overwritten from the one behind it.                                         *)
EXTENDS SdioReceive
CONSTANTS p1, p2, p3
MCPayload == {p1, p2, p3}
=============================================================================
