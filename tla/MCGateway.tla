------------------------------ MODULE MCGateway ------------------------------
(* Gateway for TLC: two requests at a time.                                *)
EXTENDS Gateway, TLC
CONSTANTS r1, r2

MCRequest  == {r1, r2}
MCSymmetry == Permutations(MCRequest)
=============================================================================
