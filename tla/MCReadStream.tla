---------------------------- MODULE MCReadStream ----------------------------
(* Words of two cells and pages of three: packets that start inside a word,    *)
(* cross a page, end short, are too long or are empty.                         *)
EXTENDS ReadStream

MCJobs == {[start |-> 1, size |-> 5, packet |-> 2],
           [start |-> 2, size |-> 4, packet |-> 3],
           [start |-> 1, size |-> 5, packet |-> 5],
           [start |-> 0, size |-> 1, packet |-> 0]}
=============================================================================
