-------------------------- MODULE DurableBalancers --------------------------
(***************************************************************************)
(* What the operator of the balancers is promised: they are a set that     *)
(* nothing but a request changes, that each request changes at most once,  *)
(* between its arrival and its answer, and that a crash leaves alone.      *)
(* A request may fail; then it has changed nothing.                        *)
(***************************************************************************)
CONSTANTS Request, Address

VARIABLES
    members,    \* the balancers
    asked       \* what each request is to do, or that it has been done

vars == <<members, asked>>

Operation == [todo : {"add", "remove"}, address : Address]
Nothing   == [todo |-> "nothing"]
Done      == [todo |-> "done"]

Init ==
    /\ members = {}
    /\ asked = [r \in Request |-> Nothing]

Ask(r, operation) ==
    /\ asked[r] = Nothing
    /\ asked' = [asked EXCEPT ![r] = operation]
    /\ UNCHANGED members

Add(r, a) ==
    /\ asked[r] = [todo |-> "add", address |-> a] /\ a \notin members
    /\ members' = members \cup {a}
    /\ asked' = [asked EXCEPT ![r] = Done]

Remove(r, a) ==
    /\ asked[r] = [todo |-> "remove", address |-> a] /\ a \in members
    /\ members' = members \ {a}
    /\ asked' = [asked EXCEPT ![r] = Done]

\* The answer, of a request that was done or of one that failed.
Answer(r) ==
    /\ asked[r] # Nothing
    /\ asked' = [asked EXCEPT ![r] = Nothing]
    /\ UNCHANGED members

Crash ==
    /\ asked' = [r \in Request |-> Nothing]
    /\ UNCHANGED members

Next ==
    \/ \E r \in Request :
          \/ \E operation \in Operation : Ask(r, operation)
          \/ \E a \in Address : Add(r, a) \/ Remove(r, a)
          \/ Answer(r)
    \/ Crash

Spec == Init /\ [][Next]_vars
=============================================================================
