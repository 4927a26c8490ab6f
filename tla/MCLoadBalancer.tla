--------------------------- MODULE MCLoadBalancer ---------------------------
(* LoadBalancer for TLC: two addresses, both configured at start, two   *)
(* sources.  Sources are interchangeable; addresses are not (Configured).  *)
EXTENDS LoadBalancer
CONSTANTS a1, a2, s1, s2

MCAddress    == {a1, a2}
MCSource     == {s1, s2}
MCConfigured == <<a1, a2>>
MCSymmetry   == Permutations(MCSource)
=============================================================================
