----------------------- MODULE DispatchFairnessProofs -----------------------
(***************************************************************************)
(* Proof that the load balancer keeps the promise of FairDispatch for      *)
(* every set of balancers, sources, ratios and rules, as long as no        *)
(* balancer is removed.                                                    *)
(*                                                                         *)
(* The argument: between a source's turn and a waiting balancer l, every   *)
(* balancer k holds in its counter all the picks it got since l's turn;    *)
(* the counter is below the quota, and k falls behind the turn as soon as  *)
(* it is used up, where k cannot be picked again before l.                 *)
(***************************************************************************)
EXTENDS DispatchFairness, LoadBalancerProofs

-----------------------------------------------------------------------------
(* Distances around the ring.                                              *)

\* Dist for a ring of n.
Ring(n, i, j) == IF i <= j THEN j - i ELSE n - i + j

\* A scan from t that meets f no later than i meets everything between f and i.
LEMMA RingOrder ==
    ASSUME NEW n \in Nat, NEW t \in 0 .. n - 1, NEW f \in 0 .. n - 1,
           NEW p \in 0 .. n - 1, NEW i \in 0 .. n - 1,
           Ring(n, t, f) <= Ring(n, t, i), Ring(n, f, p) <= Ring(n, f, i)
    PROVE  /\ Ring(n, t, p) = Ring(n, t, f) + Ring(n, f, p)
           /\ Ring(n, t, i) = Ring(n, t, f) + Ring(n, f, i)
BY DEF Ring

\* From the successor s of p on, p is the last to be met; who is met before i
\* from s is met before i from an earlier t too.
LEMMA RingAfter ==
    ASSUME NEW n \in Nat, NEW t \in 0 .. n - 1, NEW p \in 0 .. n - 1,
           NEW i \in 0 .. n - 1, NEW k \in 0 .. n - 1, NEW s \in 0 .. n - 1,
           s = IF p + 1 = n THEN 0 ELSE p + 1,
           Ring(n, t, p) < Ring(n, t, i), Ring(n, s, k) < Ring(n, s, i)
    PROVE  k # p /\ Ring(n, t, k) < Ring(n, t, i)
BY DEF Ring

\* The order in which a scan meets two indices does not change when the ring
\* grows at its end.
LEMMA RingGrows ==
    ASSUME NEW n \in Nat, NEW t \in 0 .. n - 1, NEW i \in 0 .. n - 1, NEW k \in 0 .. n - 1,
           Ring(n + 1, t, k) < Ring(n + 1, t, i)
    PROVE  Ring(n, t, k) < Ring(n, t, i)
BY DEF Ring

\* The successor on the ring, without the modulo.
LEMMA RingSucc ==
    ASSUME NEW n \in Nat, NEW i \in 0 .. n - 1
    PROVE  (i + 1) % n = IF i + 1 = n THEN 0 ELSE i + 1
BY SMT
-----------------------------------------------------------------------------
(* What a selection does, balancer by balancer.                            *)

\* The quota of a source is positive or zero, and never above Quota.
LEMMA EffectiveBelowQuota ==
    ASSUME TypeOK, RatiosBelowQuota, NEW i \in Indices, NEW s \in Source
    PROVE  EffectiveRatio(At(i), s) \in Int /\ EffectiveRatio(At(i), s) <= Quota
<1>1. At(i) \in Balancer
    BY ListShape
<1>2. CASE At(i).source_ip_rules[s] = NoRule
    BY <1>1, <1>2 DEF EffectiveRatio, RatiosBelowQuota, Balancer
<1>3. CASE At(i).source_ip_rules[s] # NoRule
    <2>1. At(i).source_ip_rules[s] \in RuleRatio
        BY <1>1, <1>3 DEF Balancer
    <2> QED BY <1>3, <2>1, RuleRatioAssumption DEF EffectiveRatio, RatiosBelowQuota
<1> QED BY <1>2, <1>3

\* A selection changes no address, status or ratio, and no counter but the
\* source's own: cleared where the bitset loop stepped over, counted or used
\* up at the pick.
LEMMA SelectEffect ==
    ASSUME TypeOK, NEW s \in Source, NEW tried, NEW from, NEW pick \in Indices,
           Select(s, tried, from, pick)
    PROVE  /\ Len(lb_list') = Len(lb_list)
           /\ \A i \in Indices :
                /\ At(i)'.address = At(i).address
                /\ At(i)'.enabled = At(i).enabled
                /\ At(i)'.contention_ratio = At(i).contention_ratio
                /\ At(i)'.source_ip_rules = At(i).source_ip_rules
                /\ \A u \in Source \ {s} :
                     At(i)'.source_ip_counters[u] = At(i).source_ip_counters[u]
           /\ \A i \in Indices \ {pick} :
                At(i)'.source_ip_counters[s] =
                   IF i \in Skipped(s, from) THEN 0 ELSE At(i).source_ip_counters[s]
           /\ pick \notin Skipped(s, from) =>
                /\ At(pick)'.source_ip_counters[s] =
                      IF SourceQuotaUsed(At(pick).source_ip_counters[s], At(pick), s)
                      THEN 0 ELSE At(pick).source_ip_counters[s] + 1
                /\ source_lb_indices'[s] =
                      TurnAfter(SourceQuotaUsed(At(pick).source_ip_counters[s], At(pick), s),
                                from, pick)
<1> DEFINE cleared(i) == Cleared(At(i), s, i \in Skipped(s, from))
           n == Len(lb_list)
<1>1. n \in Nat /\ DOMAIN lb_list = 1 .. n /\ Len(lb_list') = n
    BY ListShape, SelectKeeps DEF Kept
<1>2. lb_list' = [j \in 1 .. n |-> IF j = pick + 1 THEN Charged(cleared(pick), s)
                                                 ELSE cleared(j - 1)]
    BY <1>1 DEF Select
<1>3. \A i \in Indices : i \in Nat /\ i + 1 \in 1 .. n /\ (i + 1) - 1 = i /\ At(i) \in Balancer
    BY ListShape
<1>4. \A i \in Indices : At(i)' = IF i = pick THEN Charged(cleared(pick), s) ELSE cleared(i)
    <2> HIDE DEF cleared, n
    <2> QED BY <1>2, <1>3 DEF At
<1>5. \A i \in Indices :
         /\ cleared(i) \in Balancer
         /\ cleared(i).address = At(i).address
         /\ cleared(i).enabled = At(i).enabled
         /\ cleared(i).contention_ratio = At(i).contention_ratio
         /\ cleared(i).source_ip_rules = At(i).source_ip_rules
         /\ \A u \in Source \ {s} : cleared(i).source_ip_counters[u] = At(i).source_ip_counters[u]
         /\ cleared(i).source_ip_counters[s] =
               IF i \in Skipped(s, from) THEN 0 ELSE At(i).source_ip_counters[s]
    BY <1>3 DEF Cleared, Balancer
<1>6. \A b \in Balancer :
         /\ Charged(b, s).address = b.address
         /\ Charged(b, s).enabled = b.enabled
         /\ Charged(b, s).contention_ratio = b.contention_ratio
         /\ Charged(b, s).source_ip_rules = b.source_ip_rules
         /\ \A u \in Source \ {s} : Charged(b, s).source_ip_counters[u] = b.source_ip_counters[u]
         /\ Charged(b, s).source_ip_counters[s] =
               IF SourceQuotaUsed(b.source_ip_counters[s], b, s)
               THEN 0 ELSE b.source_ip_counters[s] + 1
    BY DEF Charged, Balancer
<1>7. pick \notin Skipped(s, from) => cleared(pick) = At(pick)
    BY DEF Cleared
<1>8. source_lb_indices'[s] = TurnAfter(SourceQuotaUsed(cleared(pick).source_ip_counters[s],
                                                        At(pick), s), from, pick)
    BY DEF Select, TypeOK
<1> HIDE DEF cleared, n
<1>9. \A i \in Indices :
                /\ At(i)'.address = At(i).address
                /\ At(i)'.enabled = At(i).enabled
                /\ At(i)'.contention_ratio = At(i).contention_ratio
                /\ At(i)'.source_ip_rules = At(i).source_ip_rules
                /\ \A u \in Source \ {s} :
                     At(i)'.source_ip_counters[u] = At(i).source_ip_counters[u]
    BY <1>4, <1>5, <1>6
<1>10. \A i \in Indices \ {pick} :
                At(i)'.source_ip_counters[s] =
                   IF i \in Skipped(s, from) THEN 0 ELSE At(i).source_ip_counters[s]
    BY <1>4, <1>5
<1>11. ASSUME pick \notin Skipped(s, from)
      PROVE  /\ At(pick)'.source_ip_counters[s] =
                      IF SourceQuotaUsed(At(pick).source_ip_counters[s], At(pick), s)
                      THEN 0 ELSE At(pick).source_ip_counters[s] + 1
             /\ source_lb_indices'[s] =
                      TurnAfter(SourceQuotaUsed(At(pick).source_ip_counters[s], At(pick), s),
                                from, pick)
    <2>1. At(pick)' = Charged(At(pick), s)
        BY <1>4, <1>7, <1>11
    <2>2. At(pick) \in Balancer
        BY <1>3
    <2> QED BY <1>6, <1>7, <1>8, <1>11, <2>1, <2>2
<1>12. Len(lb_list') = Len(lb_list)
    BY <1>1 DEF n
<1> QED BY <1>9, <1>10, <1>11, <1>12

\* Names tell the balancers apart.
LEMMA NameOfIndex ==
    ASSUME DistinctAddresses, NEW i \in Indices, NEW S \in SUBSET Indices
    PROVE  At(i).address \in NamesOf(S) <=> i \in S
BY DEF NamesOf, DistinctAddresses

\* An address is active exactly when the balancer that has it is enabled.
LEMMA ActiveIsEnabled ==
    ASSUME DistinctAddresses, NEW i \in Indices
    PROVE  At(i).address \in Active <=> At(i).enabled
BY DEF Active, Enabled, DistinctAddresses

\* The geometry of a selection.  Whoever waits (enabled, not stepped over, not
\* picked) lies behind the pick, and the pick was not stepped over; whoever
\* lies between the new turn and the waiting one is neither the pick that used
\* up its quota nor one that was stepped over, and lay before the waiting one
\* already.
LEMMA SelectGeometry ==
    ASSUME TypeOK, NEW s \in Source, NEW tried, NEW from \in Indices, NEW pick \in Indices,
           Select(s, tried, from, pick),
           NEW i \in Indices, At(i).enabled, i \notin Skipped(s, from), i # pick
    PROVE  /\ pick \notin Skipped(s, from)
           /\ Dist(TurnOf(s), pick) < Dist(TurnOf(s), i)
           /\ \A k \in Indices : Dist(from, k) < Dist(from, i) =>
                k \notin Skipped(s, from) /\ Dist(TurnOf(s), k) < Dist(TurnOf(s), i)
           /\ \A k \in Indices : Dist(Succ(pick), k) < Dist(Succ(pick), i) =>
                /\ k # pick
                /\ k \notin Skipped(s, from)
                /\ Dist(TurnOf(s), k) < Dist(TurnOf(s), i)
<1> DEFINE n == Len(lb_list)
           t == TurnOf(s)
<1>1. n \in Nat /\ Indices = 0 .. n - 1
    BY ListShape DEF Indices
<1>2. \A j, k : Dist(j, k) = Ring(n, j, k)
    BY DEF Dist, Ring
<1>3. t \in Indices
    BY DEF Select
<1>4. \A j, k, l \in Indices :
         Ring(n, j, k) \in Nat /\ (Ring(n, j, k) = Ring(n, j, l) => k = l)
    <2> HIDE DEF n
    <2> QED BY <1>1 DEF Ring
<1>5. Ring(n, t, from) <= Ring(n, t, i)
    <2>1. ~(Ring(n, t, i) < Ring(n, t, from))
        BY <1>2 DEF Skipped
    <2> HIDE DEF t, n
    <2>2. Ring(n, t, i) \in Nat /\ Ring(n, t, from) \in Nat
        BY <1>3, <1>4
    <2> QED BY <2>1, <2>2
<1>6. Ring(n, from, pick) < Ring(n, from, i)
    <2>1. Ring(n, from, pick) <= Ring(n, from, i)
        BY <1>2 DEF Select, First, Enabled
    <2> HIDE DEF n
    <2>2. Ring(n, from, pick) \in Nat /\ Ring(n, from, i) \in Nat
          /\ Ring(n, from, pick) # Ring(n, from, i)
        BY <1>4
    <2> QED BY <2>1, <2>2
<1>7. \A k \in Indices : k \in Skipped(s, from) <=> Ring(n, t, k) < Ring(n, t, from)
    BY <1>2 DEF Skipped
<1>8. ASSUME NEW k \in Indices, Ring(n, from, k) < Ring(n, from, i)
      PROVE  k \notin Skipped(s, from) /\ Ring(n, t, k) < Ring(n, t, i)
    <2> HIDE DEF t, n
    <2>1. /\ Ring(n, t, k) = Ring(n, t, from) + Ring(n, from, k)
          /\ Ring(n, t, i) = Ring(n, t, from) + Ring(n, from, i)
        <3>1. Ring(n, from, k) <= Ring(n, from, i)
            BY <1>4, <1>8
        <3> QED BY <1>1, <1>3, <1>5, <3>1, RingOrder
    <2>2. Ring(n, t, from) \in Nat /\ Ring(n, from, k) \in Nat /\ Ring(n, from, i) \in Nat
        BY <1>3, <1>4
    <2> QED BY <1>7, <1>8, <2>1, <2>2
<1>9. ASSUME NEW k \in Indices, Ring(n, Succ(pick), k) < Ring(n, Succ(pick), i)
      PROVE  k # pick /\ Ring(n, from, k) < Ring(n, from, i)
    <2>1. Succ(pick) = IF pick + 1 = n THEN 0 ELSE pick + 1
        <3>1. (pick + 1) % n = IF pick + 1 = n THEN 0 ELSE pick + 1
            <4> HIDE DEF n
            <4> QED BY <1>1, RingSucc
        <3> QED BY <3>1 DEF Succ
    <2>2. Succ(pick) \in 0 .. n - 1
        <3> HIDE DEF n
        <3> QED BY <1>1, <2>1
    <2> HIDE DEF n
    <2> QED BY <1>1, <1>6, <1>9, <2>1, <2>2, RingAfter
<1> QED BY <1>2, <1>6, <1>8, <1>9

-----------------------------------------------------------------------------
(* Selections keep FairInv, and keep the promise.                          *)

\* The promise's guard: whoever waits has been overtaken by the pick as often
\* as the pick's counter says, which is below the quota.
LEMMA PlaceAllowed ==
    ASSUME FairInv, NEW s \in Source, NEW tried, NEW from \in Indices, NEW pick \in Indices,
           Select(s, tried, from, pick),
           NEW i \in Indices, At(i).enabled, i \notin Skipped(s, from), i # pick
    PROVE  /\ overtaken[s][At(i).address][At(pick).address] <= At(pick).source_ip_counters[s]
           /\ At(pick).source_ip_counters[s] < Quota
<1>1. Dist(TurnOf(s), pick) < Dist(TurnOf(s), i)
    BY SelectGeometry DEF FairInv
<1> QED BY <1>1 DEF FairInv, OvertakenByCounter, CountersBelowQuota

\* The balancers that a selection of `pick` leaves waiting.
Waiting(s, from, pick) == Active \ (NamesOf(Skipped(s, from)) \cup {At(pick).address})

\* What a selection adds to the count of those that are overtaken.
LEMMA SelectOvertaken ==
    ASSUME FairInv, NEW s \in Source, NEW tried, NEW from \in Indices, NEW pick \in Indices,
           FSelect(s, tried, from, pick)
    PROVE  /\ OvertakenType'
           /\ \A u \in Source \ {s} : overtaken'[u] = overtaken[u]
           /\ \A l, k \in Address :
                /\ l \notin Waiting(s, from, pick) => overtaken'[s][l][k] = 0
                /\ l \in Waiting(s, from, pick) /\ k = At(pick).address
                      => overtaken'[s][l][k] = overtaken[s][l][k] + 1
                /\ l \in Waiting(s, from, pick) /\ k # At(pick).address
                      => overtaken'[s][l][k] = overtaken[s][l][k]
<1> DEFINE p == At(pick).address
           waiting == Waiting(s, from, pick)
<1>1. p \in Address
    BY ListShape DEF FairInv, Balancer
<1>2. overtaken' = [overtaken EXCEPT ![s] =
         [l \in Address |-> IF l \in waiting THEN [overtaken[s][l] EXCEPT ![p] = @ + 1]
                                           ELSE [k \in Address |-> 0]]]
    BY DEF FSelect, Promise!Wait, Promise!None, Waiting
<1>3. overtaken \in [Source -> [Address -> [Address -> Nat]]]
    BY DEF FairInv, OvertakenType
<1> HIDE DEF p, waiting
<1>4. \A l \in Address : [overtaken[s][l] EXCEPT ![p] = @ + 1] \in [Address -> Nat]
    BY <1>1, <1>3
<1>5. overtaken' \in [Source -> [Address -> [Address -> Nat]]]
    BY <1>2, <1>3, <1>4
<1>6. \A u \in Source \ {s} : overtaken'[u] = overtaken[u]
    BY <1>2, <1>3
<1>7. \A l, k \in Address :
         /\ l \notin waiting => overtaken'[s][l][k] = 0
         /\ l \in waiting /\ k = p => overtaken'[s][l][k] = overtaken[s][l][k] + 1
         /\ l \in waiting /\ k # p => overtaken'[s][l][k] = overtaken[s][l][k]
    BY <1>1, <1>2, <1>3
<1> QED BY <1>5, <1>6, <1>7 DEF OvertakenType, p, waiting

\* A balancer it does not leave waiting is overtaken by nobody.
LEMMA NotWaiting ==
    ASSUME FairInv, NEW s \in Source, NEW tried, NEW from \in Indices, NEW pick \in Indices,
           FSelect(s, tried, from, pick),
           NEW l \in Address, NEW k \in Address, l \notin Waiting(s, from, pick)
    PROVE  overtaken'[s][l][k] = 0
<1> DEFINE some == [overtaken[s][l] EXCEPT ![At(pick).address] = @ + 1]
           none == [m \in Address |-> 0]
<1>1. overtaken'[s][l] = IF l \in Waiting(s, from, pick) THEN some ELSE none
    <2>1. overtaken \in [Source -> [Address -> [Address -> Nat]]]
        BY DEF FairInv, OvertakenType
    <2> QED BY <2>1 DEF FSelect, Promise!Wait, Promise!None, Waiting
<1>2. overtaken'[s][l] = none
    BY <1>1
<1> QED BY <1>2

\* The history variable after a selection, seen from balancer i of the slice.
LEMMA OvertakenAt ==
    ASSUME FairInv, NEW s \in Source, NEW tried, NEW from \in Indices, NEW pick \in Indices,
           FSelect(s, tried, from, pick), NEW i \in Indices, NEW k \in Indices
    PROVE  LET waits == At(i).enabled /\ i \notin Skipped(s, from) /\ i # pick
               new   == overtaken'[s][At(i).address][At(k).address]
               old   == overtaken[s][At(i).address][At(k).address]
           IN  /\ ~waits => new = 0
               /\ waits /\ k = pick => new = old + 1
               /\ waits /\ k # pick => new = old
<1>1. At(i).address \in Address /\ At(k).address \in Address
    BY ListShape DEF FairInv, Balancer
<1>2. /\ At(i).address = At(pick).address <=> i = pick
      /\ At(k).address = At(pick).address <=> k = pick
    BY DEF FairInv, DistinctAddresses
<1>3. At(i).address \in NamesOf(Skipped(s, from)) <=> i \in Skipped(s, from)
    BY NameOfIndex DEF FairInv, Skipped
<1>4. At(i).address \in Active <=> At(i).enabled
    BY ActiveIsEnabled DEF FairInv
<1> DEFINE l == At(i).address
           m == At(k).address
           waiting == Waiting(s, from, pick)
<1>5. l \in waiting <=> (At(i).enabled /\ i \notin Skipped(s, from) /\ i # pick)
    BY <1>2, <1>3, <1>4 DEF Waiting
<1>6. /\ l \notin waiting => overtaken'[s][l][m] = 0
      /\ l \in waiting /\ m = At(pick).address => overtaken'[s][l][m] = overtaken[s][l][m] + 1
      /\ l \in waiting /\ m # At(pick).address => overtaken'[s][l][m] = overtaken[s][l][m]
    <2> HIDE DEF l, m
    <2>1. l \in Address /\ m \in Address
        BY <1>1 DEF l, m
    <2> QED BY <2>1, SelectOvertaken
<1> HIDE DEF waiting
<1> QED BY <1>2, <1>5, <1>6

\* The names, the enabled balancers and the length survive a selection.
LEMMA SelectNames ==
    ASSUME TypeOK, NEW s \in Source, NEW tried, NEW from, NEW pick \in Indices,
           Select(s, tried, from, pick)
    PROVE  /\ Indices' = Indices
           /\ Listed' = Listed
           /\ Active' = Active
<1>1. Indices' = Indices
    BY SelectEffect DEF Indices
<1>2. \A i \in Indices : At(i)'.address = At(i).address /\ At(i)'.enabled = At(i).enabled
    BY SelectEffect
<1>3. Listed' = {At(i)'.address : i \in Indices}
    BY <1>1 DEF Listed
<1>4. Enabled' = Enabled
    BY <1>1, <1>2 DEF Enabled
<1>5. Active' = {At(i)'.address : i \in Enabled}
    BY <1>4 DEF Active
<1>6. Listed' = Listed
    BY <1>2, <1>3 DEF Listed
<1>7. Active' = Active
    BY <1>2, <1>5 DEF Active, Enabled
<1> QED BY <1>1, <1>6, <1>7

\* A selection keeps the part of the invariant about places on the ring.
LEMMA FSelectKeepsOrder ==
    ASSUME FairInv, NEW s \in Source, NEW tried, NEW from \in Indices, NEW pick \in Indices,
           FSelect(s, tried, from, pick), CountersBelowQuota'
    PROVE  OvertakenByCounter'
<1> USE DEF FairInv
<1>0. Select(s, tried, from, pick)
    BY DEF FSelect
<1>1. Indices' = Indices /\ Len(lb_list') = Len(lb_list)
    BY <1>0, SelectNames, SelectEffect
<1>2. \A u, k : Dist(TurnOf(u), k)' = Dist(TurnOf(u)', k)
    BY <1>1 DEF Dist
<1>3. \A i \in Indices : At(i)'.address = At(i).address
    BY <1>0, SelectEffect
<1>4. \A i \in Indices, u \in Source :
         At(i).source_ip_counters[u] \in Nat /\ At(i).address \in Address
    BY ListShape DEF Balancer
<1>5. \A i \in Indices, u \in Source : At(i)'.source_ip_counters[u] \in Nat
    <2>1. TypeOK'
        BY <1>0, SelectType
    <2>2. lb_list' \in Seq(Balancer)
        BY <2>1 DEF TypeOK
    <2>3. \A i \in Indices : At(i)' \in Balancer
        BY <1>1, <2>2, ListShape, ElementOfSeq DEF At
    <2> QED BY <2>3 DEF Balancer
<1>6. Quota \in Nat
    BY QuotaAssumption
<1>7. \A u \in Source, i, k \in Indices :
         /\ overtaken[u][At(i).address][At(k).address] \in Nat
         /\ overtaken[u][At(i).address][At(k).address] <= Quota
         /\ Dist(TurnOf(u), k) < Dist(TurnOf(u), i) =>
               overtaken[u][At(i).address][At(k).address] <= At(k).source_ip_counters[u]
    <2> TAKE u \in Source, i \in Indices, k \in Indices
    <2>1. overtaken[u][At(i).address][At(k).address] \in Nat
        BY <1>4 DEF OvertakenType
    <2>2. At(k).source_ip_counters[u] \in Nat /\ At(k).source_ip_counters[u] < Quota
        BY <1>4 DEF CountersBelowQuota
    <2> QED BY <1>6, <2>1, <2>2 DEF OvertakenByCounter
<1>8. ASSUME NEW u \in Source \ {s}, NEW i \in Indices, NEW k \in Indices
      PROVE  overtaken'[u][At(i).address][At(k).address] <=
                IF Dist(TurnOf(u)', k) < Dist(TurnOf(u)', i)
                THEN At(k)'.source_ip_counters[u] ELSE Quota
    <2>1. overtaken'[u] = overtaken[u] /\ source_lb_indices'[u] = source_lb_indices[u]
        BY <1>0, SelectOvertaken DEF Select, TypeOK
    <2>2. At(k)'.source_ip_counters[u] = At(k).source_ip_counters[u]
        BY <1>0, SelectEffect
    <2>3. CASE source_lb_indices[u] = Absent
        <3>1. overtaken[u][At(i).address][At(k).address] = 0
            BY <1>4, <2>3 DEF NoIdleWait
        <3> QED BY <1>5, <1>6, <2>1, <3>1
    <2>4. CASE source_lb_indices[u] # Absent
        <3>1. TurnOf(u)' = TurnOf(u)
            BY <2>1, <2>4 DEF TurnOf
        <3> QED BY <1>7, <2>1, <2>2, <3>1
    <2> QED BY <2>3, <2>4
<1>9. ASSUME NEW i \in Indices, NEW k \in Indices
      PROVE  overtaken'[s][At(i).address][At(k).address] <=
                IF Dist(TurnOf(s)', k) < Dist(TurnOf(s)', i)
                THEN At(k)'.source_ip_counters[s] ELSE Quota
    <2> DEFINE waits == At(i).enabled /\ i \notin Skipped(s, from) /\ i # pick
               used == SourceQuotaUsed(At(pick).source_ip_counters[s], At(pick), s)
    <2>1. CASE ~waits
        <3>1. overtaken'[s][At(i).address][At(k).address] = 0
            <4> HIDE DEF FairInv
            <4> QED BY <2>1, OvertakenAt
        <3> QED BY <1>5, <1>6, <3>1
    <2>2. CASE waits
        <3>1. /\ pick \notin Skipped(s, from)
              /\ Dist(TurnOf(s), pick) < Dist(TurnOf(s), i)
            BY <1>0, <2>2, SelectGeometry
        <3>2. TurnOf(s)' = IF used THEN Succ(pick) ELSE from
            <4>1. source_lb_indices'[s] = TurnAfter(used, from, pick)
                BY <1>0, <3>1, SelectEffect
            <4>2. Succ(pick) # Absent /\ from # Absent
                <5>1. from \in Nat /\ pick \in Nat
                    BY ListShape
                <5>2. Succ(pick) \in Nat
                    BY <5>1, TurnType
                <5> QED BY <5>1, <5>2 DEF Absent
            <4> QED BY <4>1, <4>2 DEF TurnOf, TurnAfter
        <3>3. CASE k = pick
            <4>1. overtaken'[s][At(i).address][At(k).address] =
                     overtaken[s][At(i).address][At(k).address] + 1
                BY <2>2, <3>3, OvertakenAt
            <4>2. /\ overtaken[s][At(i).address][At(k).address] <= At(k).source_ip_counters[s]
                  /\ At(k).source_ip_counters[s] < Quota
                BY <1>0, <2>2, <3>3, PlaceAllowed
            <4>3. CASE used
                <5>1. ~(Dist(TurnOf(s)', k) < Dist(TurnOf(s)', i))
                    BY <1>0, <2>2, <3>2, <3>3, <4>3, SelectGeometry
                <5> QED BY <1>4, <1>6, <1>7, <4>1, <4>2, <5>1
            <4>4. CASE ~used
                <5>1. At(k)'.source_ip_counters[s] = At(k).source_ip_counters[s] + 1
                    BY <1>0, <3>1, <3>3, <4>4, SelectEffect
                <5> QED BY <1>4, <1>6, <1>7, <4>1, <4>2, <5>1
            <4> QED BY <4>3, <4>4
        <3>4. CASE k # pick
            <4>1. overtaken'[s][At(i).address][At(k).address] =
                     overtaken[s][At(i).address][At(k).address]
                BY <2>2, <3>4, OvertakenAt
            <4>2. ASSUME Dist(TurnOf(s)', k) < Dist(TurnOf(s)', i)
                  PROVE  k \notin Skipped(s, from) /\ Dist(TurnOf(s), k) < Dist(TurnOf(s), i)
                BY <1>0, <2>2, <3>2, <4>2, SelectGeometry
            <4>3. k \notin Skipped(s, from) =>
                     At(k)'.source_ip_counters[s] = At(k).source_ip_counters[s]
                BY <1>0, <3>4, SelectEffect
            <4> QED BY <1>7, <4>1, <4>2, <4>3
        <3> QED BY <3>3, <3>4
    <2> QED BY <2>1, <2>2
<1>10. \A u \in Source, i, k \in Indices :
          overtaken'[u][At(i).address][At(k).address] <=
             IF Dist(TurnOf(u)', k) < Dist(TurnOf(u)', i)
             THEN At(k)'.source_ip_counters[u] ELSE Quota
    BY <1>8, <1>9
<1>11. \A u \in Source, i, k \in Indices :
          overtaken'[u][At(i)'.address][At(k)'.address] <=
             IF Dist(TurnOf(u), k)' < Dist(TurnOf(u), i)'
             THEN At(k)'.source_ip_counters[u] ELSE Quota
    BY <1>2, <1>3, <1>10
<1> QED BY <1>1, <1>11 DEF OvertakenByCounter

\* A selection keeps the part about the counters of waiting balancers.
LEMMA FSelectKeepsCounters ==
    ASSUME FairInv, NEW s \in Source, NEW tried, NEW from \in Indices, NEW pick \in Indices,
           Select(s, tried, from, pick)
    PROVE  RatiosBelowQuota' /\ CountersBelowQuota'
<1>1. TypeOK /\ RatiosBelowQuota /\ CountersBelowQuota
    BY DEF FairInv
<1>2. Indices' = Indices
    BY <1>1, SelectNames
<1>3. RatiosBelowQuota'
    BY <1>1, <1>2, SelectEffect DEF RatiosBelowQuota
<1>4. Quota \in Nat \ {0}
    BY QuotaAssumption
<1>5. ASSUME NEW i \in Indices, NEW u \in Source
      PROVE  At(i)'.source_ip_counters[u] < Quota
    <2>1. /\ At(i).source_ip_counters[u] \in Nat
          /\ At(i).source_ip_counters[u] < Quota
        BY <1>1, ListShape DEF CountersBelowQuota, Balancer
    <2>2. CASE u # s
        BY <1>1, <2>1, <2>2, SelectEffect
    <2>3. CASE u = s /\ i # pick
        BY <1>1, <1>4, <2>1, <2>3, SelectEffect
    <2>4. CASE u = s /\ i = pick
        <3> DEFINE c == Cleared(At(pick), s, pick \in Skipped(s, from))
                   counter == c.source_ip_counters[s]
        <3>1. At(pick)' = Charged(c, s)
            <4>1. pick + 1 \in DOMAIN lb_list /\ pick \in Nat
                BY <1>1, ListShape
            <4> QED BY <4>1 DEF Select, At
        <3>2. /\ c \in Balancer
              /\ counter \in Nat /\ counter <= At(pick).source_ip_counters[s]
              /\ EffectiveRatio(c, s) = EffectiveRatio(At(pick), s)
            <4>1. At(pick) \in Balancer
                BY <1>1, ListShape
            <4>2. CASE pick \in Skipped(s, from)
                <5>1. c = [At(pick) EXCEPT !.source_ip_counters[s] = 0]
                    BY <4>2 DEF Cleared
                <5>2. counter = 0
                    BY <4>1, <5>1 DEF Balancer
                <5>3. /\ c \in Balancer
                      /\ c.contention_ratio = At(pick).contention_ratio
                      /\ c.source_ip_rules = At(pick).source_ip_rules
                    BY <4>1, <5>1 DEF Balancer
                <5> HIDE DEF counter, c
                <5> QED BY <2>1, <2>4, <5>2, <5>3 DEF EffectiveRatio
            <4>3. CASE pick \notin Skipped(s, from)
                <5>1. c = At(pick)
                    BY <4>3 DEF Cleared
                <5> QED BY <2>1, <2>4, <4>1, <5>1
            <4> QED BY <4>2, <4>3
        <3>3. At(pick)'.source_ip_counters[s] =
                 IF counter + 1 >= EffectiveRatio(c, s) THEN 0 ELSE counter + 1
            <4> HIDE DEF c
            <4> QED BY <3>1, <3>2 DEF Charged, Balancer, SourceQuotaUsed
        <3>4. EffectiveRatio(c, s) \in Int /\ EffectiveRatio(c, s) <= Quota
            BY <1>1, <3>2, EffectiveBelowQuota
        <3> HIDE DEF counter, c
        <3> QED BY <1>4, <2>4, <3>2, <3>3, <3>4
    <2> QED BY <2>2, <2>3, <2>4
<1> QED BY <1>2, <1>3, <1>5 DEF CountersBelowQuota

\* A selection keeps the part about balancers that do not wait.
LEMMA FSelectKeepsIdle ==
    ASSUME FairInv, NEW s \in Source, NEW tried, NEW from \in Indices, NEW pick \in Indices,
           FSelect(s, tried, from, pick)
    PROVE  NoIdleWait'
<1>0. FairInv /\ FSelect(s, tried, from, pick)
    OBVIOUS
<1>1. Select(s, tried, from, pick) /\ TypeOK /\ NoIdleWait
    BY DEF FSelect, FairInv
<1>2. Listed' = Listed /\ Active' = Active
    BY <1>1, SelectNames
<1>3. At(pick).address \in Listed
    BY DEF Listed
<1>4. ASSUME NEW u \in Source, NEW l \in Address, NEW k \in Address,
             l \notin Active \/ k \notin Listed \/ source_lb_indices'[u] = Absent
      PROVE  overtaken'[u][l][k] = 0
    <2>1. CASE u # s
        <3>1. overtaken'[u] = overtaken[u]
            BY <2>1, SelectOvertaken
        <3>2. source_lb_indices'[u] = source_lb_indices[u]
            BY <1>1, <2>1 DEF Select, TypeOK
        <3> QED BY <1>1, <1>4, <3>1, <3>2 DEF NoIdleWait
    <2>2. CASE u = s
        <3>1. source_lb_indices'[s] # Absent
            <4>1. from \in Nat /\ pick \in Nat
                BY <1>1, ListShape
            <4>2. Succ(pick) \in Nat
                BY <1>1, <4>1, TurnType
            <4> QED BY <1>1, <4>1, <4>2 DEF Select, TurnAfter, TypeOK, Absent
        <3>2. CASE l \notin Active
            <4>1. l \notin Waiting(s, from, pick)
                BY <3>2 DEF Waiting
            <4>2. overtaken'[s][l][k] = 0
                BY <1>0, <4>1, NotWaiting
            <4> QED BY <2>2, <4>2
        <3>3. CASE k \notin Listed
            <4>1. k # At(pick).address
                BY <1>3, <3>3
            <4>2. overtaken[s][l][k] = 0
                BY <1>1, <3>3 DEF NoIdleWait
            <4>3. overtaken'[s][l][k] = 0 \/ overtaken'[s][l][k] = overtaken[s][l][k]
                BY <4>1, SelectOvertaken
            <4> QED BY <2>2, <4>2, <4>3
        <3> QED BY <1>4, <2>2, <3>1, <3>2, <3>3
    <2> QED BY <2>1, <2>2
<1> QED BY <1>2, <1>4 DEF NoIdleWait

\* A selection keeps the whole invariant.
LEMMA FSelectKeepsInv ==
    ASSUME FairInv, Removable = {}, NEW s \in Source, NEW tried \in Bitsets,
           NEW from \in Indices, NEW pick \in Indices, FSelect(s, tried, from, pick)
    PROVE  FairInv'
<1>1. Select(s, tried, from, pick)
    BY DEF FSelect
<1>2. (TypeOK /\ TurnsInRange /\ NoCrash)'
    <2>1. Next
        BY <1>1 DEF Next, Dispatch
    <2>2. SafeInv
        BY DEF FairInv, SafeInv
    <2> QED BY <2>1, <2>2, SafeNext DEF SafeInv
<1>3. RatiosBelowQuota' /\ CountersBelowQuota'
    BY <1>1, FSelectKeepsCounters
<1>4. DistinctAddresses'
    <2>1. TypeOK /\ DistinctAddresses
        BY DEF FairInv
    <2>2. Indices' = Indices
        BY <1>1, <2>1, SelectNames
    <2> QED BY <1>1, <2>1, <2>2, SelectEffect DEF DistinctAddresses
<1> QED BY <1>2, <1>3, <1>4, SelectOvertaken, FSelectKeepsOrder, FSelectKeepsIdle DEF FairInv

\* With every balancer disabled nobody waits, and the fallback counts nothing.
LEMMA FallbackKeepsInv ==
    ASSUME FairInv, Removable = {}, NEW s \in Source, NEW tried \in Bitsets,
           NEW from \in Indices, SelectFallback(s, tried, from), UNCHANGED overtaken
    PROVE  FairInv'
<1>1. TypeOK /\ DistinctAddresses /\ RatiosBelowQuota /\ CountersBelowQuota
    BY DEF FairInv
<1>2. (TypeOK /\ TurnsInRange /\ NoCrash)'
    <2>1. Next
        BY DEF Next, Dispatch
    <2>2. SafeInv
        BY DEF FairInv, SafeInv
    <2> QED BY <2>1, <2>2, SafeNext DEF SafeInv
<1>3. Indices' = Indices
    BY <1>1, SelectFallbackKeeps DEF Kept, Indices
<1>4. \A i \in Indices : At(i)' = Cleared(At(i), s, i \in Skipped(s, from))
    <2>1. \A i \in Indices : i + 1 \in DOMAIN lb_list /\ (i + 1) - 1 = i
        BY <1>1, ListShape
    <2> QED BY <2>1 DEF SelectFallback, At
<1>5. \A i \in Indices :
         /\ At(i)'.address = At(i).address
         /\ At(i)'.contention_ratio = At(i).contention_ratio
         /\ At(i)'.source_ip_rules = At(i).source_ip_rules
    BY <1>1, <1>4, ListShape DEF Cleared, Balancer
<1>6. \A i \in Indices, u \in Source :
         At(i)'.source_ip_counters[u] \in Nat /\ At(i)'.source_ip_counters[u] < Quota
    <2> TAKE i \in Indices, u \in Source
    <2>1. At(i) \in Balancer /\ At(i).source_ip_counters[u] < Quota
        BY <1>1, ListShape DEF CountersBelowQuota
    <2>2. At(i)'.source_ip_counters[u] \in {0, At(i).source_ip_counters[u]}
        BY <1>4, <2>1 DEF Cleared, Balancer
    <2> QED BY <2>1, <2>2, QuotaAssumption DEF Balancer
<1>7. \A u \in Source, l, k \in Address : overtaken[u][l][k] = 0
    <2>1. Active = {}
        BY DEF SelectFallback, Active
    <2> QED BY <2>1 DEF FairInv, NoIdleWait
<1>8. \A i \in Indices : At(i)'.address \in Address
    BY <1>1, <1>5, ListShape DEF Balancer
<1>9. OvertakenType' /\ NoIdleWait' /\ OvertakenByCounter'
    BY <1>3, <1>6, <1>7, <1>8, QuotaAssumption
       DEF FairInv, OvertakenType, NoIdleWait, OvertakenByCounter
<1>10. RatiosBelowQuota' /\ CountersBelowQuota' /\ DistinctAddresses'
    BY <1>1, <1>3, <1>5, <1>6 DEF RatiosBelowQuota, CountersBelowQuota, DistinctAddresses
<1> QED BY <1>2, <1>9, <1>10 DEF FairInv

-----------------------------------------------------------------------------
(* Management keeps FairInv.                                               *)

\* A step that keeps the balancers' names and counters, and at most appends
\* an unlisted balancer that has counted nothing.
LEMMA ManageKeepsOrder ==
    ASSUME FairInv, TypeOK', UNCHANGED <<lb_index, source_lb_indices>>,
           Len(lb_list') \in {Len(lb_list), Len(lb_list) + 1},
           \A i \in Indices : /\ At(i)'.address = At(i).address
                             /\ At(i)'.source_ip_counters = At(i).source_ip_counters,
           Len(lb_list') = Len(lb_list) + 1 => lb_list'[Len(lb_list) + 1].address \notin Listed,
           overtaken' = [s \in Source |-> [l \in Address |->
                           IF l \in Active' THEN overtaken[s][l] ELSE Promise!None]]
    PROVE  OvertakenType' /\ NoIdleWait' /\ OvertakenByCounter'
<1> DEFINE n == Len(lb_list)
<1>1. TypeOK /\ OvertakenType /\ NoIdleWait /\ OvertakenByCounter /\ TurnsInRange
      /\ CountersBelowQuota
    BY DEF FairInv
<1>2. n \in Nat
    BY <1>1, ListShape
<1>3. \A s \in Source, l, k \in Address :
         overtaken'[s][l][k] = IF l \in Active' THEN overtaken[s][l][k] ELSE 0
    BY DEF Promise!None
<1>4. OvertakenType'
    BY <1>1 DEF OvertakenType, Promise!None
<1>5. Listed \subseteq Listed'
    <2>1. \A i \in Indices : i \in Indices'
        BY <1>2 DEF Indices
    <2> QED BY <2>1 DEF Listed
<1>6. NoIdleWait'
    BY <1>1, <1>3, <1>5 DEF NoIdleWait
<1>7. \A i \in Indices' : At(i)' \in Balancer
    <2>1. lb_list' \in Seq(Balancer)
        BY DEF TypeOK
    <2>2. \A i \in Indices' : i + 1 \in 1 .. Len(lb_list')
        BY <2>1, LenProperties DEF Indices
    <2> QED BY <2>1, <2>2, ElementOfSeq DEF At
<1>8. ASSUME NEW s \in Source, NEW i \in Indices', NEW k \in Indices'
      PROVE  overtaken'[s][At(i)'.address][At(k)'.address] <=
                IF Dist(TurnOf(s), k)' < Dist(TurnOf(s), i)'
                THEN At(k)'.source_ip_counters[s] ELSE Quota
    <2> DEFINE l == At(i)'.address
               m == At(k)'.address
    <2>1. l \in Address /\ m \in Address /\ At(k)'.source_ip_counters[s] \in Nat
        BY <1>7 DEF Balancer
    <2>2. Quota \in Nat
        BY QuotaAssumption
    <2>3. CASE overtaken'[s][l][m] = 0
        BY <2>1, <2>2, <2>3
    <2>4. CASE overtaken'[s][l][m] # 0
        <3>1. l \in Active' /\ overtaken'[s][l][m] = overtaken[s][l][m] /\ overtaken[s][l][m] # 0
            BY <1>3, <2>1, <2>4
        <3>2. l \in Listed /\ m \in Listed
            BY <1>1, <2>1, <3>1 DEF NoIdleWait, Active, Listed, Enabled
        <3>3. i \in Indices /\ k \in Indices
            <4>1. \A j \in Indices' : j \in Indices \/ (j = n /\ Len(lb_list') = n + 1)
                BY <1>2 DEF Indices
            <4>2. ASSUME NEW j \in Indices', At(j)'.address \in Listed
                  PROVE  j \in Indices
                <5>1. CASE j = n /\ Len(lb_list') = n + 1
                    <6>1. At(j)' = lb_list'[n + 1]
                        BY <5>1 DEF At
                    <6> QED BY <4>2, <5>1, <6>1
                <5> QED BY <4>1, <5>1
            <4> QED BY <3>2, <4>2
        <3>4. l = At(i).address /\ m = At(k).address
              /\ At(k)'.source_ip_counters = At(k).source_ip_counters
            BY <3>3
        <3>5. TurnOf(s) \in Indices /\ TurnOf(s)' = TurnOf(s)
            BY <1>1 DEF TurnsInRange, TurnOf
        <3>6. overtaken[s][l][m] <= IF Dist(TurnOf(s), k) < Dist(TurnOf(s), i)
                                    THEN At(k).source_ip_counters[s] ELSE Quota
            BY <1>1, <3>3, <3>4 DEF OvertakenByCounter
        <3>7. At(k).source_ip_counters[s] <= Quota /\ At(k).source_ip_counters[s] \in Nat
            <4>1. At(k).source_ip_counters[s] \in Nat
                BY <1>1, <3>3, ListShape DEF Balancer
            <4>2. At(k).source_ip_counters[s] < Quota
                BY <1>1, <3>3 DEF CountersBelowQuota
            <4> QED BY <2>2, <4>1, <4>2
        <3>8. Dist(TurnOf(s), k)' < Dist(TurnOf(s), i)'
                 => Dist(TurnOf(s), k) < Dist(TurnOf(s), i)
            <4>1. \A t, j \in Indices : Dist(t, j) = Ring(n, t, j)
                BY DEF Dist, Ring
            <4>2. \A j \in Indices : Dist(TurnOf(s), j)' = Ring(Len(lb_list'), TurnOf(s), j)
                BY <3>5 DEF Dist, Ring
            <4>3. CASE Len(lb_list') = n
                BY <3>3, <3>5, <4>1, <4>2, <4>3
            <4>4. CASE Len(lb_list') = n + 1
                <5>1. Indices = 0 .. n - 1
                    BY DEF Indices
                <5> HIDE DEF n
                <5> QED BY <1>2, <3>3, <3>5, <4>1, <4>2, <4>4, <5>1, RingGrows
            <4> QED BY <4>3, <4>4
        <3>9. overtaken[s][l][m] \in Nat
            BY <1>1, <2>1 DEF OvertakenType
        <3> QED BY <2>2, <3>1, <3>4, <3>6, <3>7, <3>8, <3>9
    <2> QED BY <2>3, <2>4
<1> QED BY <1>4, <1>6, <1>8 DEF OvertakenByCounter

\* The overtaken counters after any management step.
OvertakenAfterManage ==
    overtaken' = [s \in Source |-> [l \in Address |->
                    IF l \in Active' THEN overtaken[s][l] ELSE Promise!None]]

\* A management step that updates one balancer in place, but neither its name
\* nor its counters, and leaves its ratios below the quota.
LEMMA UpdateKeepsInv ==
    ASSUME FairInv, TypeOK', TurnsInRange', NoCrash', OvertakenAfterManage,
           UNCHANGED <<lb_index, source_lb_indices>>,
           NEW i \in Indices, NEW b \in Balancer, lb_list' = [lb_list EXCEPT ![i + 1] = b],
           b.address = At(i).address, b.source_ip_counters = At(i).source_ip_counters,
           b.contention_ratio <= Quota,
           \A s \in Source : b.source_ip_rules[s] # NoRule => b.source_ip_rules[s] <= Quota
    PROVE  FairInv'
<1>1. TypeOK /\ DistinctAddresses /\ RatiosBelowQuota /\ CountersBelowQuota
    BY DEF FairInv
<1>2. Len(lb_list') = Len(lb_list) /\ Indices' = Indices
    BY <1>1, UpdateKeeps DEF Kept, Indices
<1>3. \A j \in Indices : At(j)' = IF j = i THEN b ELSE At(j)
    <2>1. \A j \in Indices : j \in Nat /\ j + 1 \in DOMAIN lb_list
        BY <1>1, ListShape
    <2> QED BY <2>1 DEF At
<1>4. \A j \in Indices : /\ At(j)'.address = At(j).address
                        /\ At(j)'.source_ip_counters = At(j).source_ip_counters
    BY <1>3
<1>5. Len(lb_list) \in Nat
    BY <1>1, ListShape
<1>6. OvertakenType' /\ NoIdleWait' /\ OvertakenByCounter'
    <2>1. \A m \in Nat : m # m + 1
        OBVIOUS
    <2>2. Len(lb_list') \in {Len(lb_list), Len(lb_list) + 1}
        BY <1>2
    <2>3. Len(lb_list') # Len(lb_list) + 1
        BY <1>2, <1>5, <2>1
    <2> QED BY <1>4, <2>2, <2>3, ManageKeepsOrder DEF OvertakenAfterManage
<1>7. DistinctAddresses' /\ CountersBelowQuota'
    BY <1>1, <1>2, <1>4 DEF DistinctAddresses, CountersBelowQuota
<1>8. RatiosBelowQuota'
    BY <1>1, <1>2, <1>3 DEF RatiosBelowQuota
<1> QED BY <1>6, <1>7, <1>8 DEF FairInv

\* A new balancer joins at the end of the slice, waiting for nothing yet.
LEMMA AddKeepsInv ==
    ASSUME FairInv, TypeOK', TurnsInRange', NoCrash', OvertakenAfterManage,
           NEW a \in Address, NEW requested \in RequestedRatio, AddLB(a, requested)
    PROVE  FairInv'
<1> DEFINE n == Len(lb_list)
           new == NewBalancer(a, ValidatedRatio(requested))
<1>1. TypeOK /\ DistinctAddresses /\ RatiosBelowQuota /\ CountersBelowQuota
    BY DEF FairInv
<1>2. UNCHANGED <<lb_index, source_lb_indices>> /\ a \notin Listed /\ lb_list' = Append(lb_list, new)
    BY DEF AddLB, Manages
<1>3. n \in Nat /\ new \in Balancer /\ lb_list \in Seq(Balancer)
    BY <1>1, ListShape, NewBalancerType DEF TypeOK
<1>4. /\ Len(lb_list') = n + 1
      /\ \A j \in 1 .. n : lb_list'[j] = lb_list[j]
      /\ lb_list'[n + 1] = new
    <2> HIDE DEF new
    <2> QED BY <1>2, <1>3, AppendProperties
<1>5. \A j \in Indices' : \/ j \in Indices /\ At(j)' = At(j)
                          \/ j = n /\ At(j)' = new
    BY <1>3, <1>4 DEF Indices, At
<1>6. \A j \in Indices : At(j)' = At(j)
    BY <1>3, <1>4 DEF Indices, At
<1>7. /\ new.address = a
      /\ new.contention_ratio = ValidatedRatio(requested)
      /\ \A s \in Source : new.source_ip_rules[s] = NoRule /\ new.source_ip_counters[s] = 0
    BY DEF NewBalancer
<1>8. ValidatedRatio(requested) \in Ratio
    BY DEF Ratio
<1> HIDE DEF new
<1>9. OvertakenType' /\ NoIdleWait' /\ OvertakenByCounter'
    BY <1>2, <1>3, <1>4, <1>6, <1>7, ManageKeepsOrder DEF OvertakenAfterManage
<1>10. DistinctAddresses'
    <2>1. \A j \in Indices : At(j).address # a
        BY <1>2 DEF Listed
    <2> QED BY <1>1, <1>5, <1>7, <2>1 DEF DistinctAddresses
<1>11. CountersBelowQuota'
    BY <1>1, <1>5, <1>7, QuotaAssumption DEF CountersBelowQuota
<1>12. RatiosBelowQuota'
    BY <1>1, <1>5, <1>7, <1>8, QuotaAssumption DEF RatiosBelowQuota
<1> QED BY <1>9, <1>10, <1>11, <1>12 DEF FairInv

\* Every management operation keeps the invariant.
LEMMA ManageKeepsInv ==
    ASSUME FairInv, Removable = {}, FManage
    PROVE  FairInv'
<1>1. TypeOK' /\ TurnsInRange' /\ NoCrash' /\ OvertakenAfterManage
    BY SafeNext DEF FManage, FairInv, SafeInv, Next, OvertakenAfterManage
<1>2. TypeOK /\ RatiosBelowQuota
    BY DEF FairInv
<1>3. ASSUME NEW a \in Address, NEW on \in BOOLEAN, SetStatus(a, on)
      PROVE  FairInv'
    <2>1. PICK i \in Indices : lb_list' = [lb_list EXCEPT ![i + 1].enabled = on]
        BY <1>3 DEF SetStatus
    <2> DEFINE b == [At(i) EXCEPT !.enabled = on]
    <2>2. At(i) \in Balancer
        BY <1>2, ListShape
    <2>3. /\ b \in Balancer /\ b.address = At(i).address
          /\ b.source_ip_counters = At(i).source_ip_counters
          /\ b.contention_ratio = At(i).contention_ratio
          /\ b.source_ip_rules = At(i).source_ip_rules
        BY <2>2 DEF Balancer
    <2>4. lb_list' = [lb_list EXCEPT ![i + 1] = b]
        BY <2>1 DEF At
    <2>5. UNCHANGED <<lb_index, source_lb_indices>>
        BY <1>3 DEF SetStatus, Manages
    <2> HIDE DEF b
    <2> QED BY <1>1, <1>2, <2>3, <2>4, <2>5, UpdateKeepsInv DEF RatiosBelowQuota
<1>4. ASSUME NEW a \in Address, NEW s \in Source, NEW rule \in RuleRatio \cup {NoRule},
             SetRule(a, s, rule)
      PROVE  FairInv'
    <2>1. PICK i \in Indices : lb_list' = [lb_list EXCEPT ![i + 1].source_ip_rules[s] = rule]
        BY <1>4 DEF SetRule
    <2> DEFINE b == [At(i) EXCEPT !.source_ip_rules[s] = rule]
    <2>2. At(i) \in Balancer
        BY <1>2, ListShape
    <2>3. /\ b \in Balancer /\ b.address = At(i).address
          /\ b.source_ip_counters = At(i).source_ip_counters
          /\ b.contention_ratio = At(i).contention_ratio
          /\ \A u \in Source : b.source_ip_rules[u] \in {rule, At(i).source_ip_rules[u]}
        BY <2>2 DEF Balancer
    <2>4. lb_list' = [lb_list EXCEPT ![i + 1] = b]
        BY <2>1 DEF At
    <2>5. UNCHANGED <<lb_index, source_lb_indices>>
        BY <1>4 DEF SetRule, Manages
    <2> HIDE DEF b
    <2>6. \A u \in Source : b.source_ip_rules[u] # NoRule => b.source_ip_rules[u] <= Quota
        BY <1>2, <2>3, QuotaAssumption DEF RatiosBelowQuota
    <2>7. b.contention_ratio <= Quota
        BY <1>2, <2>3 DEF RatiosBelowQuota
    <2> QED BY <1>1, <2>3, <2>4, <2>5, <2>6, <2>7, UpdateKeepsInv
<1>5. ASSUME NEW a \in Address, NEW requested \in RequestedRatio, AddLB(a, requested)
      PROVE  FairInv'
    BY <1>1, <1>5, AddKeepsInv
<1>6. ASSUME NEW a \in Address, RemoveLB(a)
      PROVE  FairInv'
    BY <1>6 DEF RemoveLB
<1> QED BY <1>3, <1>4, <1>5, <1>6 DEF FManage, Manage, AddRule, RemoveRule

-----------------------------------------------------------------------------
(* The theorems.                                                           *)

\* The invariant holds at start-up, when nothing has been counted.
LEMMA FairInit ==
    ASSUME Configured # <<>>
    PROVE  FInit => FairInv
<1> SUFFICES ASSUME FInit PROVE FairInv
    OBVIOUS
<1>1. Init
    BY DEF FInit
<1>2. TypeOK /\ TurnsInRange /\ NoCrash
    BY <1>1, SafeInit DEF SafeInv
<1>3. overtaken = [s \in Source |-> [l \in Address |-> [k \in Address |-> 0]]]
    BY DEF FInit
<1>4. PICK ratio \in [DOMAIN Configured -> Ratio] :
         lb_list = [i \in DOMAIN Configured |-> NewBalancer(Configured[i], ratio[i])]
    BY <1>1 DEF Init
<1>5. \A i \in Indices : /\ i \in Nat
                        /\ i + 1 \in DOMAIN Configured
                        /\ At(i) = NewBalancer(Configured[i + 1], ratio[i + 1])
                        /\ At(i) \in Balancer
    <2>1. \A i \in Indices : i \in Nat /\ i + 1 \in DOMAIN lb_list /\ At(i) \in Balancer
        BY <1>2, ListShape
    <2> QED BY <1>4, <2>1 DEF At
<1>6. \A i \in Indices : /\ At(i).address = Configured[i + 1]
                        /\ At(i).contention_ratio \in Ratio
                        /\ \A s \in Source : /\ At(i).source_ip_rules[s] = NoRule
                                              /\ At(i).source_ip_counters[s] = 0
    BY <1>4, <1>5 DEF NewBalancer
<1>7. DistinctAddresses
    BY <1>5, <1>6, ConfiguredAssumption DEF DistinctAddresses
<1>8. RatiosBelowQuota /\ CountersBelowQuota
    BY <1>6, QuotaAssumption DEF RatiosBelowQuota, CountersBelowQuota
<1>9. OvertakenType /\ NoIdleWait
    BY <1>3 DEF OvertakenType, NoIdleWait
<1>10. OvertakenByCounter
    BY <1>3, <1>5, <1>6, QuotaAssumption DEF OvertakenByCounter, Balancer
<1> QED BY <1>2, <1>7, <1>8, <1>9, <1>10 DEF FairInv

\* Every step keeps the invariant.
LEMMA FairNext ==
    ASSUME Removable = {}
    PROVE  FairInv /\ [FNext]_fairVars => FairInv'
<1> SUFFICES ASSUME FairInv, [FNext]_fairVars PROVE FairInv'
    OBVIOUS
<1>1. CASE FDispatch
    BY <1>1, FSelectKeepsInv, FallbackKeepsInv DEF FDispatch
<1>2. CASE FManage
    BY <1>2, ManageKeepsInv
<1>3. CASE UNCHANGED fairVars
    BY <1>3 DEF fairVars, lbVars, FairInv, TypeOK, TurnsInRange, NoCrash, DistinctAddresses,
       OvertakenType, RatiosBelowQuota, CountersBelowQuota, NoIdleWait, OvertakenByCounter,
       Indices, At, Active, Enabled, Listed, TurnOf, Dist
<1> QED BY <1>1, <1>2, <1>3 DEF FNext

\* The inductive invariant: in particular no selection panics, and nobody is
\* overtaken beyond what the counters account for.
THEOREM FairInvariant ==
    ASSUME Configured # <<>>, Removable = {}
    PROVE  FSpec => []FairInv
<1>1. FInit => FairInv
    BY FairInit
<1>2. FairInv /\ [FNext]_fairVars => FairInv'
    BY FairNext
<1> QED BY <1>1, <1>2, PTL DEF FSpec

\* The load balancer implements FairDispatch: whatever the number of balancers
\* and sources, whatever ratios and rules up to Quota, and however selections,
\* retries and management interleave, no enabled balancer waits while another
\* one gets more than Quota connections of the same source.
THEOREM KeepsThePromise ==
    ASSUME Configured # <<>>, Removable = {}
    PROVE  FSpec => FairlyDispatched
<1>1. FInit => FairInv
    BY FairInit
<1>2. FairInv /\ [FNext]_fairVars => FairInv'
    BY FairNext
<1>3. FInit => Promise!Init
    <2> SUFFICES ASSUME FInit PROVE Promise!Init
        OBVIOUS
    <2>1. FairInv
        BY <1>1
    <2>2. Active \subseteq Address
        BY <2>1, ListShape DEF FairInv, Active, Enabled, Balancer
    <2> QED BY <2>2 DEF FInit, Promise!Init, Promise!None
<1>4. FairInv /\ [FNext]_fairVars => [Promise!Next]_(Promise!vars)
    <2> SUFFICES ASSUME FairInv, [FNext]_fairVars PROVE [Promise!Next]_(Promise!vars)
        OBVIOUS
    <2>1. FairInv'
        BY FairNext
    <2>2. ASSUME NEW s \in Source, NEW tried \in Bitsets, NEW from \in Indices,
                 NEW pick \in Indices, FSelect(s, tried, from, pick)
          PROVE  Promise!Next
        <3> DEFINE k == At(pick).address
                   excused == NamesOf(Skipped(s, from))
        <3>1. /\ Select(s, tried, from, pick)
              /\ overtaken' = Promise!Wait(s, k, excused)
            BY <2>2 DEF FSelect
        <3>2. TypeOK /\ DistinctAddresses /\ Quota \in Nat
            BY QuotaAssumption DEF FairInv
        <3>3. k \in Address /\ k \in Active
            BY <3>1, <3>2, ListShape DEF Balancer, Active, Select, First
        <3>4. excused \in SUBSET Address
            <4>1. ASSUME NEW i \in Indices PROVE At(i).address \in Address
                BY <3>2, ListShape DEF Balancer
            <4>2. Skipped(s, from) \subseteq Indices
                BY DEF Skipped
            <4> QED BY <4>1, <4>2 DEF NamesOf
        <3>5. Active' = Active
            BY <3>1, <3>2, SelectNames
        <3>6. ASSUME NEW l \in Active \ (excused \cup {k})
              PROVE  overtaken[s][l][k] < Quota
            <4>1. PICK i \in Indices : At(i).enabled /\ l = At(i).address
                BY DEF Active, Enabled
            <4>2. i \notin Skipped(s, from) /\ i # pick
                BY <3>6, <4>1 DEF NamesOf
            <4>3. /\ overtaken[s][l][k] <= At(pick).source_ip_counters[s]
                  /\ At(pick).source_ip_counters[s] < Quota
                BY <3>1, <4>1, <4>2, PlaceAllowed
            <4>4. overtaken[s][l][k] \in Nat
                <5>1. l \in Address
                    BY <3>2, <4>1, ListShape DEF Balancer
                <5>2. overtaken \in [Source -> [Address -> [Address -> Nat]]]
                    BY DEF FairInv, OvertakenType
                <5> HIDE DEF k
                <5> QED BY <3>3, <5>1, <5>2
            <4>5. At(pick).source_ip_counters[s] \in Nat
                BY <3>2, ListShape DEF Balancer
            <4> QED BY <3>2, <4>3, <4>4, <4>5
        <3> HIDE DEF k, excused
        <3>7. Promise!Place(s, k, excused)
            BY <3>1, <3>3, <3>5, <3>6 DEF Promise!Place
        <3> QED BY <3>3, <3>4, <3>7 DEF Promise!Next
    <2>3. ASSUME NEW s \in Source, NEW tried \in Bitsets, NEW from \in Indices,
                 SelectFallback(s, tried, from), UNCHANGED overtaken
          PROVE  UNCHANGED Promise!vars
        <3>1. TypeOK
            BY DEF FairInv
        <3>2. Indices' = Indices
            BY <2>3, <3>1, SelectFallbackKeeps DEF Kept, Indices
        <3>3. \A i \in Indices : At(i)'.enabled = At(i).enabled
            <4>1. \A i \in Indices : i + 1 \in DOMAIN lb_list /\ (i + 1) - 1 = i /\ At(i) \in Balancer
                BY <3>1, ListShape
            <4>2. \A i \in Indices : At(i)' = Cleared(At(i), s, i \in Skipped(s, from))
                BY <2>3, <4>1 DEF SelectFallback, At
            <4> QED BY <4>1, <4>2, ClearedType
        <3>4. Active = {} /\ Active' = {}
            BY <2>3, <3>2, <3>3 DEF SelectFallback, Active, Enabled
        <3> QED BY <2>3, <3>4 DEF Promise!vars
    <2>4. CASE FManage
        <3>1. TypeOK'
            BY <2>1 DEF FairInv
        <3>2. \A i \in Indices' : At(i)' \in Balancer
            <4>1. lb_list' \in Seq(Balancer)
                BY <3>1 DEF TypeOK
            <4>2. \A i \in Indices' : i + 1 \in 1 .. Len(lb_list')
                BY <4>1, LenProperties DEF Indices
            <4> QED BY <4>1, <4>2, ElementOfSeq DEF At
        <3>3. Active' \subseteq Address
            BY <3>2 DEF Active, Enabled, Balancer
        <3>4. Promise!Reconfigure
            BY <2>4, <3>3 DEF FManage, Promise!Reconfigure
        <3> QED BY <3>4 DEF Promise!Next
    <2>5. CASE UNCHANGED fairVars
        BY <2>5 DEF fairVars, lbVars, Promise!vars, Active, Enabled, Indices, At
    <2> QED BY <2>2, <2>3, <2>4, <2>5 DEF FNext, FDispatch
<1> QED BY <1>1, <1>2, <1>3, <1>4, PTL DEF FSpec, FairlyDispatched, Promise!Spec
====
