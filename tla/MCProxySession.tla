--------------------------- MODULE MCProxySession ---------------------------
(* ProxySession for TLC: time-outs of a few ticks.                         *)
EXTENDS ProxySession

MCMode == {"socks", "tunnel", "transparent"}
=============================================================================
