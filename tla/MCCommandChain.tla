--------------------------- MODULE MCCommandChain ---------------------------
(* Two positions of the elbow, 0 and 2, put the TCP at the same place.      *)
EXTENDS CommandChain

Elbow == [q \in 0..2 |-> Distance(q, 1)]
=============================================================================
