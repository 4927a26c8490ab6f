---------------------------- MODULE MCManagement ----------------------------
(* Management for TLC: two requests at a time, of the kinds that share     *)
(* state: balancers, settings, sessions.                                   *)
EXTENDS Management
CONSTANTS r1, r2, s1, a1, a2

MCRequest == {r1, r2}
MCSession == {s1}
MCAddress == {a1, a2}
MCValue   == {"default", "flag"}
MCMixes   ==
    {{"login", "add", "remove"}, {"login", "settings"}, {"login", "logout", "page", "toggle"}}
=============================================================================
