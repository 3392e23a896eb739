-------------------------- MODULE MCDeflateSession --------------------------
(* Sectors of two cells and a buffer of two, filled by one unit, by several or *)
(* by a part of one.  A second stream is short and has cells of its own.       *)
EXTENDS DeflateSession

MCStreams == {<< <<1>>, <<2, 3>>, <<4>> >>, << <<5>>, <<6>> >>}
MCOpenings == {[start |-> 0, size |-> 4, units |-> 3],   \* the whole of the first
               [start |-> 1, size |-> 2, units |-> 2],   \* the second, in parts of sectors
               [start |-> 0, size |-> 1, units |-> 1]}   \* less than either
MCValue == (1..6) \cup {GARBAGE}
MCChips == {[c \in Cells |-> OLD], [c \in Cells |-> IF c < SECTOR THEN BLANK ELSE OLD]}
MCInit == DeflInit /\ flash \in MCChips
MCSpec == MCInit /\ [][DeflNext]_allVars /\ DeflFairness
=============================================================================
