------------------------ MODULE MCConnectionTracker ------------------------
(* ConnectionTracker for TLC: a table and a semaphore of two places, as in *)
(* the code of one size, and three connections of any kinds.               *)
EXTENDS ConnectionTracker
CONSTANTS c1, c2, c3

MCConn     == {c1, c2, c3}
MCSymmetry == Permutations(MCConn)
=============================================================================
