---------------------------- MODULE FrameChannel ----------------------------
(* What the receive path promises to the code that handles frames: a channel  *)
(* with one frame in the hands of the main loop ("held") and at most one more  *)
(* received behind it ("next").  A frame is received whole, is never changed   *)
(* or overwritten while it waits or is held, is taken exactly once, in the     *)
(* order of arrival, and only after the frame before it was released.          *)
(* SlipReceive and SdioReceive are shown to implement it.                      *)
CONSTANTS Frame,    \* what can be received: payloads, or the error mark
          NONE      \* no frame

VARIABLES held,     \* the frame recv_poll() returned, until recv_release()
          next      \* the frame received and not yet returned

vars == <<held, next>>

TypeOK == held \in Frame \cup {NONE} /\ next \in Frame \cup {NONE}

Init == held = NONE /\ next = NONE

\* The interrupt side completes a frame; it has room for one only.
Receive == next = NONE /\ next' \in Frame /\ UNCHANGED held

\* recv_poll() hands the received frame to its caller.
Take == held = NONE /\ next # NONE /\ held' = next /\ next' = NONE

\* recv_release(): the caller is done with the frame.
Release == held # NONE /\ held' = NONE /\ UNCHANGED next

Next == Receive \/ Take \/ Release

Spec == Init /\ [][Next]_vars
=============================================================================
