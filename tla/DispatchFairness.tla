-------------------------- MODULE DispatchFairness --------------------------
(***************************************************************************)
(* LoadBalancer with a history variable that records, for every source,    *)
(* who was served while whom was waiting, and the refinement of            *)
(* FairDispatch: per-source turns, rules, retries and toggles together     *)
(* keep the promise.  The history variable never restrains a step.         *)
(***************************************************************************)
EXTENDS LoadBalancer

CONSTANT Quota      \* no contention ratio, of a balancer or of a rule, exceeds it

ASSUME QuotaAssumption ==
    /\ Quota \in Nat \ {0}
    /\ \A r \in Ratio \cup RuleRatio : r <= Quota

VARIABLE overtaken  \* the history variable of FairDispatch

fairVars == <<lbVars, overtaken>>

Active == {At(i).address : i \in Enabled}

Promise == INSTANCE FairDispatch WITH active <- Active, overtaken <- overtaken

NamesOf(S) == {At(i).address : i \in S}

-----------------------------------------------------------------------------
FInit ==
    /\ Init
    /\ overtaken = [s \in Source |-> [l \in Address |-> [k \in Address |-> 0]]]

FSelect(s, tried, from, pick) ==
    /\ Select(s, tried, from, pick)
    /\ overtaken' = Promise!Wait(s, At(pick).address, NamesOf(Skipped(s, from)))

FDispatch ==
    \E s \in Source :
       \/ \E tried \in Bitsets, from, pick \in Indices : FSelect(s, tried, from, pick)
       \/ \E tried \in Bitsets, from \in Indices :
             SelectFallback(s, tried, from) /\ UNCHANGED overtaken

FManage ==
    /\ Manage
    /\ overtaken' = [s \in Source |-> [l \in Address |->
                       IF l \in Active' THEN overtaken[s][l] ELSE Promise!None]]

FNext == FDispatch \/ FManage

FSpec == FInit /\ [][FNext]_fairVars

-----------------------------------------------------------------------------
(* Properties.                                                             *)

\* The source's counter of a balancer (main.go:349) stays below the largest
\* ratio configured, whatever rules come and go while it counts: it is
\* cleared when the turn moves on (356-360) and when a retry steps over the
\* balancer (314).
CountersBelowQuota ==
    \A i \in Indices, s \in Source : At(i).source_ip_counters[s] < Quota

\* No balancer is overtaken more often than its predecessors' quotas allow.
\* Between the source's turn and a waiting balancer, the picks a balancer got
\* are the ones its counter holds; behind the turn it has had its quota.
OvertakenByCounter ==
    \A s \in Source, i, k \in Indices :
       overtaken[s][At(i).address][At(k).address] <=
          IF Dist(TurnOf(s), k) < Dist(TurnOf(s), i)
          THEN At(k).source_ip_counters[s]
          ELSE Quota

\* The load balancer keeps the promise of FairDispatch (main.go:336-366).
FairlyDispatched == Promise!Spec

-----------------------------------------------------------------------------
(* The inductive invariant behind FairlyDispatched.                        *)

OvertakenType == overtaken \in [Source -> [Address -> [Address -> Nat]]]

RatiosBelowQuota ==
    \A i \in Indices :
       /\ At(i).contention_ratio <= Quota
       /\ \A s \in Source : At(i).source_ip_rules[s] # NoRule => At(i).source_ip_rules[s] <= Quota

\* Nobody waits who is not enabled, nobody overtakes who is not listed, and
\* nothing has happened to a source before its first connection.
NoIdleWait ==
    \A s \in Source, l, k \in Address :
       l \notin Active \/ k \notin Listed \/ source_lb_indices[s] = Absent
          => overtaken[s][l][k] = 0

FairInv ==
    /\ TypeOK
    /\ TurnsInRange
    /\ NoCrash
    /\ DistinctAddresses
    /\ OvertakenType
    /\ RatiosBelowQuota
    /\ CountersBelowQuota
    /\ NoIdleWait
    /\ OvertakenByCounter
=============================================================================
