------------------------- MODULE MCDispatchFairness -------------------------
(* DispatchFairness for TLC: two balancers at start and a third the        *)
(* operator may add; no balancer is removed.                               *)
EXTENDS DispatchFairness
CONSTANTS a1, a2, a3, s1

MCAddress    == {a1, a2, a3}
MCSource     == {s1}
MCConfigured == <<a1, a2>>
=============================================================================
