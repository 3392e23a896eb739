----------------------------- MODULE FlashImage -----------------------------
(* What a write session promises: the image grows at its end, by no more than *)
(* was announced, nothing already written changes, and only a session that     *)
(* received all of it can be closed.                                           *)
EXTENDS Naturals, Sequences

VARIABLES open,      \* a session is open
          written,   \* what it has written so far
          room       \* how much of it is still to come

imageVars == <<open, written, room>>

Init == open = FALSE /\ written = <<>> /\ room = 0

\* A session may be opened while another is open, which is then given up.
Open == open' = TRUE /\ written' = <<>> /\ room' \in Nat

Extend ==
  /\ open /\ open' = TRUE
  /\ room' < room
  /\ Len(written') = Len(written) + (room - room')
  /\ \A i \in 1..Len(written) : written'[i] = written[i]

Close == open /\ room = 0 /\ open' = FALSE /\ written' = <<>> /\ room' = 0

Next == Open \/ Extend \/ Close

Spec == Init /\ [][Next]_imageVars
=============================================================================
