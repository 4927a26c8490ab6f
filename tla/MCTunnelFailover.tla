-------------------------- MODULE MCTunnelFailover --------------------------
(* TunnelFailover for TLC: two clients of one source, two balancers at     *)
(* start and a third the operator may add.                                 *)
EXTENDS TunnelFailover
CONSTANTS a1, a2, a3, s1, c1, c2

MCAddress    == {a1, a2, a3}
MCSource     == {s1}
MCConfigured == <<a1, a2>>
MCConn       == {c1, c2}
MCSourceOf   == [c \in MCConn |-> s1]
=============================================================================
