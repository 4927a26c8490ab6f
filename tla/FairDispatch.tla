---------------------------- MODULE FairDispatch ----------------------------
(***************************************************************************)
(* What the load balancer promises to each source, whatever the others     *)
(* and the operator do: while a balancer is enabled, no other balancer     *)
(* gets more than Quota of the source's connections before its next turn.  *)
(* A turn is a connection, or an offer that the balancer cannot take       *)
(* because the connection being placed has already failed on it.           *)
(*                                                                         *)
(* The promise speaks of addresses and counts only: no slice, no index, no *)
(* counter of the implementation appears in it.                            *)
(***************************************************************************)
EXTENDS Naturals

CONSTANTS Address, Source, Quota

VARIABLES
    active,     \* the balancers that are listed and enabled
    overtaken   \* overtaken[s][l][k]: connections of s placed on k since l's last turn

vars == <<active, overtaken>>

None == [k \in Address |-> 0]

TypeOK ==
    /\ active \subseteq Address
    /\ overtaken \in [Source -> [Address -> [Address -> 0 .. Quota]]]

Init ==
    /\ active \subseteq Address
    /\ overtaken = [s \in Source |-> [l \in Address |-> None]]

\* What placing a connection of s on k does to the wait of the others;
\* `excused` are the balancers that had their turn besides k.
Wait(s, k, excused) ==
    [overtaken EXCEPT ![s] =
       [l \in Address |-> IF l \in active \ (excused \cup {k})
                          THEN [overtaken[s][l] EXCEPT ![k] = @ + 1]
                          ELSE None]]

\* A connection of s is placed on k.
Place(s, k, excused) ==
    /\ k \in active
    /\ \A l \in active \ (excused \cup {k}) : overtaken[s][l][k] < Quota
    /\ overtaken' = Wait(s, k, excused)
    /\ UNCHANGED active

\* The operator adds, enables or disables balancers; one that is disabled
\* does not wait.
Reconfigure ==
    /\ active' \subseteq Address
    /\ overtaken' = [s \in Source |-> [l \in Address |->
                       IF l \in active' THEN overtaken[s][l] ELSE None]]

Next ==
    \/ \E s \in Source, k \in Address, excused \in SUBSET Address : Place(s, k, excused)
    \/ Reconfigure

Spec == Init /\ [][Next]_vars
=============================================================================
