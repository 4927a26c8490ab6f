------------------------- MODULE LoadBalancerProofs -------------------------
(***************************************************************************)
(* Proofs about LoadBalancer: its type invariant; that no selection panics *)
(* as long as no balancer is removed; and, whatever is removed, that every *)
(* entry has an address of its own and a quota in step with its lifetime   *)
(* counter (TableInv).                                                     *)
(***************************************************************************)
EXTENDS LoadBalancer, SequenceTheorems, TLAPS

\* The wrap-around successor of an index is an index.
LEMMA ModuloRange ==
    ASSUME NEW n \in Nat \ {0}, NEW i \in Nat
    PROVE  i % n \in 0 .. n - 1
BY SMT

\* A fresh balancer has the type of a balancer.
LEMMA NewBalancerType ==
    ASSUME NEW a \in Address, NEW requested \in RequestedRatio
    PROVE  NewBalancer(a, ValidatedRatio(requested)) \in Balancer
<1>1. ValidatedRatio(requested) \in Nat \ {0}
    BY RatioAssumption DEF ValidatedRatio
<1> QED BY <1>1 DEF NewBalancer, Balancer

\* Stepping over a balancer in the bitset loop keeps its type and its status.
LEMMA ClearedType ==
    ASSUME NEW b \in Balancer, NEW s \in Source, NEW skip
    PROVE  /\ Cleared(b, s, skip) \in Balancer
           /\ Cleared(b, s, skip).address = b.address
           /\ Cleared(b, s, skip).enabled = b.enabled
BY DEF Cleared, Balancer

\* Picking a balancer keeps its type and its status.
LEMMA ChargedType ==
    ASSUME NEW b \in Balancer, NEW s \in Source
    PROVE  /\ Charged(b, s) \in Balancer
           /\ Charged(b, s).address = b.address
           /\ Charged(b, s).enabled = b.enabled
<1> DEFINE counter  == IF SourceQuotaUsed(b.source_ip_counters[s], b, s)
                       THEN 0 ELSE b.source_ip_counters[s] + 1
           counters == [b.source_ip_counters EXCEPT ![s] = counter]
           current  == IF GlobalQuotaUsed(b) THEN 0 ELSE b.current_connections + 1
           total    == (b.total_connections + 1) % CountModulus
<1>1. counters \in [Source -> Nat]
    BY DEF Balancer
<1>2. current \in Nat
    BY DEF Balancer
<1>3. total \in Nat
    BY ModuloRange, CountModulusAssumption DEF Balancer
<1>4. Charged(b, s) = [b EXCEPT !.source_ip_counters  = counters,
                                !.current_connections = current,
                                !.total_connections   = total]
    BY DEF Charged, Balancer
<1> HIDE DEF counters, current, total
<1> QED BY <1>1, <1>2, <1>3, <1>4 DEF Balancer

\* A function on 1..n is a sequence of length n.
LEMMA FunctionIsSeq ==
    ASSUME NEW S, NEW n \in Nat, NEW f \in [1 .. n -> S]
    PROVE  f \in Seq(S) /\ Len(f) = n
<1>1. f \in Seq(S)
    BY SeqDef
<1>2. DOMAIN f = 1 .. Len(f) /\ Len(f) \in Nat
    BY <1>1, LenProperties
<1>3. 1 .. n = 1 .. Len(f)
    BY <1>2
<1>4. Len(f) = n
    BY <1>2, <1>3
<1> QED BY <1>1, <1>4

-----------------------------------------------------------------------------
(* The type invariant.                                                     *)

\* What an update in place may assume and keeps: the slice's length and the
\* type of its elements.
Kept == lb_list' \in Seq(Balancer) /\ Len(lb_list') = Len(lb_list)

\* The table is a function on 1..n whose values are balancers.
LEMMA ListShape ==
    ASSUME TypeOK
    PROVE  /\ Len(lb_list) \in Nat
           /\ DOMAIN lb_list = 1 .. Len(lb_list)
           /\ lb_list \in [1 .. Len(lb_list) -> Balancer]
           /\ \A i \in Indices : i \in Nat /\ i + 1 \in 1 .. Len(lb_list) /\ At(i) \in Balancer
<1>1. Len(lb_list) \in Nat
    BY LenProperties DEF TypeOK
<1>2. lb_list \in [1 .. Len(lb_list) -> Balancer] /\ DOMAIN lb_list = 1 .. Len(lb_list)
    BY LenProperties DEF TypeOK
<1> QED BY <1>1, <1>2 DEF Indices, At

\* A selection keeps the type and the length of the slice.
LEMMA SelectKeeps ==
    ASSUME TypeOK, NEW s \in Source, NEW tried, NEW from, NEW pick \in Indices,
           Select(s, tried, from, pick)
    PROVE  Kept
<1> DEFINE cleared(i) == Cleared(At(i), s, i \in Skipped(s, from))
           n == Len(lb_list)
<1>1. n \in Nat /\ DOMAIN lb_list = 1 .. n
    BY ListShape
<1>2. \A j \in 1 .. n : cleared(j - 1) \in Balancer
    <2>1. \A j \in 1 .. n : At(j - 1) \in Balancer
        BY ListShape DEF Indices
    <2> QED BY <2>1, ClearedType
<1>3. Charged(cleared(pick), s) \in Balancer
    BY ListShape, ClearedType, ChargedType
<1>4. lb_list' = [j \in 1 .. n |-> IF j = pick + 1 THEN Charged(cleared(pick), s)
                                                 ELSE cleared(j - 1)]
    BY <1>1 DEF Select
<1> HIDE DEF cleared, n
<1>5. lb_list' \in [1 .. n -> Balancer]
    BY <1>2, <1>3, <1>4
<1> QED BY <1>1, <1>5, FunctionIsSeq DEF Kept, n

\* So does a selection that finds every balancer disabled.
LEMMA SelectFallbackKeeps ==
    ASSUME TypeOK, NEW s \in Source, NEW tried, NEW from,
           SelectFallback(s, tried, from)
    PROVE  Kept
<1> DEFINE cleared(j) == Cleared(lb_list[j], s, j - 1 \in Skipped(s, from))
           n == Len(lb_list)
<1>1. n \in Nat /\ DOMAIN lb_list = 1 .. n /\ \A j \in 1 .. n : lb_list[j] \in Balancer
    BY ListShape
<1>2. \A j \in 1 .. n : cleared(j) \in Balancer
    BY <1>1, ClearedType
<1>3. lb_list' = [j \in 1 .. n |-> cleared(j)]
    BY <1>1 DEF SelectFallback
<1> HIDE DEF cleared, n
<1>4. lb_list' \in [1 .. n -> Balancer]
    BY <1>2, <1>3
<1> QED BY <1>1, <1>4, FunctionIsSeq DEF Kept, n

\* Replacing one entry by a balancer keeps the type of the table.
LEMMA UpdateKeeps ==
    ASSUME TypeOK, NEW i \in Indices, NEW b \in Balancer,
           lb_list' = [lb_list EXCEPT ![i + 1] = b]
    PROVE  Kept
<1>1. lb_list \in Seq(Balancer) /\ i + 1 \in 1 .. Len(lb_list)
    BY ListShape DEF TypeOK
<1> QED BY <1>1, ExceptSeq DEF Kept

\* Enabling or disabling a balancer keeps the type and the length.
LEMMA SetStatusKeeps ==
    ASSUME TypeOK, NEW a, NEW on \in BOOLEAN, SetStatus(a, on)
    PROVE  Kept
<1>1. PICK i \in Indices : lb_list' = [lb_list EXCEPT ![i + 1].enabled = on]
    BY DEF SetStatus
<1>2. [At(i) EXCEPT !.enabled = on] \in Balancer
    BY ListShape DEF Balancer
<1>3. lb_list' = [lb_list EXCEPT ![i + 1] = [At(i) EXCEPT !.enabled = on]]
    BY <1>1 DEF At
<1> QED BY <1>2, <1>3, UpdateKeeps

\* Setting or removing a source rule keeps the type and the length.
LEMMA SetRuleKeeps ==
    ASSUME TypeOK, NEW a, NEW s \in Source, NEW rule \in RuleRatio \cup {NoRule},
           SetRule(a, s, rule)
    PROVE  Kept
<1>1. PICK i \in Indices : lb_list' = [lb_list EXCEPT ![i + 1].source_ip_rules[s] = rule]
    BY DEF SetRule
<1>2. [At(i) EXCEPT !.source_ip_rules[s] = rule] \in Balancer
    BY ListShape DEF Balancer
<1>3. lb_list' = [lb_list EXCEPT ![i + 1] = [At(i) EXCEPT !.source_ip_rules[s] = rule]]
    BY <1>1 DEF At
<1> QED BY <1>2, <1>3, UpdateKeeps

\* Adding a balancer keeps the type of the table.
LEMMA AddLBType ==
    ASSUME TypeOK, NEW a \in Address, NEW requested \in RequestedRatio,
           AddLB(a, requested)
    PROVE  lb_list' \in Seq(Balancer) /\ Len(lb_list') = Len(lb_list) + 1
<1>1. lb_list' = Append(lb_list, NewBalancer(a, ValidatedRatio(requested)))
    BY DEF AddLB
<1> QED BY <1>1, NewBalancerType, AppendProperties DEF TypeOK

\* Removing a balancer keeps the type of the table.
LEMMA RemoveLBType ==
    ASSUME TypeOK, NEW a, RemoveLB(a)
    PROVE  lb_list' \in Seq(Balancer)
<1>1. PICK i \in Indices : lb_list' = RemoveAt(lb_list, i + 1)
    BY DEF RemoveLB
<1> DEFINE n == Len(lb_list)
           left == SubSeq(lb_list, 1, i)
           right == SubSeq(lb_list, i + 2, n)
<1>2. n \in Nat /\ i \in 0 .. n - 1 /\ lb_list \in Seq(Balancer)
      /\ lb_list \in [1 .. n -> Balancer]
    BY ListShape DEF TypeOK, Indices
<1>3. left \in Seq(Balancer)
    <2>1. \A k \in 1 .. i : lb_list[k] \in Balancer
        BY <1>2
    <2> QED BY <1>2, <2>1, SubSeqProperties
<1>4. right \in Seq(Balancer)
    <2>1. \A k \in i + 2 .. n : lb_list[k] \in Balancer
        BY <1>2
    <2> QED BY <1>2, <2>1, SubSeqProperties
<1>5. lb_list' = left \o right
    <2>1. (i + 1) - 1 = i /\ (i + 1) + 1 = i + 2
        BY <1>2
    <2> QED BY <1>1, <2>1 DEF RemoveAt
<1> HIDE DEF left, right
<1> QED BY <1>3, <1>4, <1>5, ConcatProperties

\* The types are right at start-up.
LEMMA InitType == Init => TypeOK
<1> SUFFICES ASSUME Init PROVE TypeOK
    OBVIOUS
<1> DEFINE n == Len(Configured)
<1>1. n \in Nat /\ DOMAIN Configured = 1 .. n /\ Configured \in [1 .. n -> Address]
    BY ConfiguredAssumption, LenProperties
<1>2. PICK ratio \in [1 .. n -> Ratio] :
         lb_list = [i \in 1 .. n |-> NewBalancer(Configured[i], ratio[i])]
    BY <1>1 DEF Init
<1>3. \A i \in 1 .. n : NewBalancer(Configured[i], ratio[i]) \in Balancer
    <2> TAKE i \in 1 .. n
    <2>1. PICK requested \in RequestedRatio : ratio[i] = ValidatedRatio(requested)
        BY <1>2 DEF Ratio
    <2> QED BY <1>1, <2>1, NewBalancerType
<1>4. lb_list \in Seq(Balancer)
    <2> HIDE DEF n
    <2>1. lb_list \in [1 .. n -> Balancer]
        BY <1>2, <1>3
    <2> QED BY <1>1, <2>1, FunctionIsSeq
<1> QED BY <1>4 DEF Init, TypeOK, Absent

\* Both kinds of turn move to a natural number.
LEMMA TurnType ==
    ASSUME TypeOK, Indices # {}, NEW i \in Nat
    PROVE  Succ(i) \in Indices /\ Succ(i) \in Nat
<1> DEFINE n == Len(lb_list)
<1>1. n \in Nat \ {0}
    BY ListShape DEF Indices
<1>2. (i + 1) % n \in 0 .. n - 1
    <2> HIDE DEF n
    <2> QED BY <1>1, ModuloRange, i + 1 \in Nat
<1> QED BY <1>1, <1>2 DEF Succ, Indices

\* A selection keeps the types.
LEMMA SelectType ==
    ASSUME TypeOK, NEW s \in Source, NEW tried, NEW from \in Indices,
           NEW pick \in Indices, Select(s, tried, from, pick)
    PROVE  TypeOK'
<1>1. lb_list' \in Seq(Balancer)
    BY SelectKeeps DEF Kept
<1>2. from \in Nat /\ pick \in Nat
    BY ListShape
<1>3. lb_index' \in Nat
    BY TurnType DEF Select, TypeOK
<1>4. source_lb_indices' \in [Source -> Nat \cup {Absent}]
    <2> DEFINE turn == source_lb_indices'[s]
    <2>1. \A used : TurnAfter(used, from, pick) \in Nat
        BY <1>2, TurnType DEF TurnAfter
    <2> QED BY <2>1 DEF Select, TypeOK
<1> QED BY <1>1, <1>3, <1>4 DEF Select, TypeOK

\* Every step keeps the types, one case per action.
LEMMA NextType == TypeOK /\ [Next]_lbVars => TypeOK'
<1> SUFFICES ASSUME TypeOK, [Next]_lbVars PROVE TypeOK'
    OBVIOUS
<1>1. ASSUME NEW s \in Source, NEW tried \in Bitsets, NEW from \in Indices,
             NEW pick \in Indices, Select(s, tried, from, pick)
      PROVE  TypeOK'
    BY <1>1, SelectType
<1>2. ASSUME NEW s \in Source, NEW tried \in Bitsets, NEW from \in Indices,
             SelectFallback(s, tried, from)
      PROVE  TypeOK'
    <2>1. lb_list' \in Seq(Balancer)
        BY <1>2, SelectFallbackKeeps DEF Kept
    <2> QED BY <1>2, <2>1, ListShape DEF SelectFallback, TypeOK
<1>3. ASSUME NEW s \in Source, NEW recovered \in BOOLEAN, SelectPanic(s, recovered)
      PROVE  TypeOK'
    <2>1. TurnOf(s) \in Nat
        BY DEF TurnOf, TypeOK
    <2> QED BY <1>3, <2>1 DEF SelectPanic, TypeOK
<1>4. ASSUME NEW a \in Address, NEW on \in BOOLEAN, SetStatus(a, on)
      PROVE  TypeOK'
    BY <1>4, SetStatusKeeps DEF SetStatus, Manages, Kept, TypeOK
<1>5. ASSUME NEW a \in Address, NEW s \in Source, NEW rule \in RuleRatio \cup {NoRule},
             SetRule(a, s, rule)
      PROVE  TypeOK'
    <2>1. Kept
        BY <1>5, SetRuleKeeps
    <2>2. Manages
        BY <1>5 DEF SetRule
    <2> QED BY <2>1, <2>2 DEF Manages, Kept, TypeOK
<1>6. ASSUME NEW a \in Address, NEW requested \in RequestedRatio, AddLB(a, requested)
      PROVE  TypeOK'
    BY <1>6, AddLBType DEF AddLB, Manages, TypeOK
<1>7. ASSUME NEW a \in Address, RemoveLB(a)
      PROVE  TypeOK'
    BY <1>7, RemoveLBType DEF RemoveLB, Manages, TypeOK
<1>8. CASE UNCHANGED lbVars
    BY <1>8 DEF lbVars, TypeOK
<1> QED BY <1>1, <1>2, <1>3, <1>4, <1>5, <1>6, <1>7, <1>8
        DEF Next, Dispatch, Manage, AddRule, RemoveRule

\* Whatever the constants, every reachable table is well-typed: ratios are
\* positive (web_server.go:1663) and no index becomes negative.
THEOREM TypeCorrect == Spec => []TypeOK
<1>1. Init => TypeOK
    BY InitType
<1>2. TypeOK /\ [Next]_lbVars => TypeOK'
    BY NextType
<1> QED BY <1>1, <1>2, PTL DEF Spec

-----------------------------------------------------------------------------
(* No selection panics as long as no balancer is removed.  TurnsInRange is *)
(* not inductive by itself: it needs the types, and that the panic it      *)
(* excludes has not happened.                                              *)

SafeInv == TypeOK /\ TurnsInRange /\ NoCrash

\* Turns that are in range stay so when the slice keeps its length or grows.
LEMMA TurnsKept ==
    ASSUME TypeOK, TurnsInRange, UNCHANGED <<lb_index, source_lb_indices>>,
           Len(lb_list') \in Nat, Len(lb_list') >= Len(lb_list)
    PROVE  TurnsInRange'
<1>1. Len(lb_list) \in Nat
    BY ListShape
<1> QED BY <1>1 DEF TurnsInRange, Indices

\* Every step keeps the turns in range and the process alive.
LEMMA SafeNext ==
    ASSUME Removable = {}
    PROVE  SafeInv /\ [Next]_lbVars => SafeInv'
<1> SUFFICES ASSUME SafeInv, [Next]_lbVars PROVE SafeInv'
    OBVIOUS
<1> USE DEF SafeInv
<1>0. TypeOK'
    BY NextType
<1>1. ASSUME NEW s \in Source, NEW tried \in Bitsets, NEW from \in Indices,
             NEW pick \in Indices, Select(s, tried, from, pick)
      PROVE  SafeInv'
    <2>1. Indices' = Indices
        BY <1>1, SelectKeeps DEF Kept, Indices
    <2>2. from \in Nat /\ pick \in Nat
        BY ListShape
    <2>3. lb_index' \in Indices
        BY <1>1, TurnType DEF Select, TurnsInRange, TypeOK
    <2>4. \A used : TurnAfter(used, from, pick) \in Indices
        BY <2>2, TurnType DEF TurnAfter
    <2>5. \A t \in Source : source_lb_indices'[t] # Absent => source_lb_indices'[t] \in Indices
        BY <1>1, <2>4 DEF Select, TurnsInRange, TypeOK
    <2> QED BY <1>0, <1>1, <2>1, <2>3, <2>5 DEF TurnsInRange, NoCrash, Select
<1>2. ASSUME NEW s \in Source, NEW tried \in Bitsets, NEW from \in Indices,
             SelectFallback(s, tried, from)
      PROVE  SafeInv'
    <2>1. Indices' = Indices
        BY <1>2, SelectFallbackKeeps DEF Kept, Indices
    <2> QED BY <1>0, <1>2, <2>1 DEF TurnsInRange, NoCrash, SelectFallback, TypeOK
<1>3. ASSUME NEW s \in Source, NEW recovered \in BOOLEAN, SelectPanic(s, recovered)
      PROVE  SafeInv'
    BY <1>3 DEF SelectPanic, TurnOf, TurnsInRange
<1>4. ASSUME NEW a \in Address, NEW on \in BOOLEAN, SetStatus(a, on)
      PROVE  SafeInv'
    <2>1. Kept /\ Manages
        BY <1>4, SetStatusKeeps DEF SetStatus
    <2> QED BY <1>0, <2>1, TurnsKept, ListShape DEF Kept, Manages, NoCrash
<1>5. ASSUME NEW a \in Address, NEW s \in Source, NEW rule \in RuleRatio \cup {NoRule},
             SetRule(a, s, rule)
      PROVE  SafeInv'
    <2>1. Kept
        BY <1>5, SetRuleKeeps
    <2>2. Manages
        BY <1>5 DEF SetRule
    <2> QED BY <1>0, <2>1, <2>2, TurnsKept, ListShape DEF Kept, Manages, NoCrash
<1>6. ASSUME NEW a \in Address, NEW requested \in RequestedRatio, AddLB(a, requested)
      PROVE  SafeInv'
    <2>1. Len(lb_list') = Len(lb_list) + 1 /\ Manages
        BY <1>6, AddLBType DEF AddLB
    <2> QED BY <1>0, <2>1, TurnsKept, ListShape DEF Manages, NoCrash
<1>7. ASSUME NEW a \in Address, RemoveLB(a)
      PROVE  SafeInv'
    BY <1>7 DEF RemoveLB
<1>8. CASE UNCHANGED lbVars
    BY <1>8 DEF lbVars, TypeOK, TurnsInRange, Indices, NoCrash
<1> QED BY <1>1, <1>2, <1>3, <1>4, <1>5, <1>6, <1>7, <1>8
        DEF Next, Dispatch, Manage, AddRule, RemoveRule

\* At start-up the turns are in range, as a balancer is configured.
LEMMA SafeInit ==
    ASSUME Configured # <<>>
    PROVE  Init => SafeInv
<1> SUFFICES ASSUME Init PROVE SafeInv
    OBVIOUS
<1>1. TypeOK
    BY InitType
<1>2. Len(Configured) \in Nat \ {0} /\ DOMAIN Configured = 1 .. Len(Configured)
    BY ConfiguredAssumption, LenProperties, EmptySeq
<1>3. DOMAIN lb_list = DOMAIN Configured
    BY DEF Init
<1>4. Len(lb_list) \in Nat /\ DOMAIN lb_list = 1 .. Len(lb_list)
    BY <1>1, ListShape
<1>5. Len(lb_list) \in Nat \ {0}
    BY <1>2, <1>3, <1>4
<1> QED BY <1>1, <1>5 DEF Init, SafeInv, TurnsInRange, Indices, NoCrash, Absent

\* Every turn stays a legal index of the slice (main.go:300-304, 315-316, 358,
\* 365) through every interleaving of selections, retries, toggles, rules and
\* additions, provided that a balancer is configured and none is removed.
THEOREM TurnsAlwaysInRange ==
    ASSUME Configured # <<>>, Removable = {}
    PROVE  Spec => []TurnsInRange
<1>1. Init => SafeInv
    BY SafeInit
<1>2. SafeInv /\ [Next]_lbVars => SafeInv'
    BY SafeNext
<1>3. SafeInv => TurnsInRange
    BY DEF SafeInv
<1> QED BY <1>1, <1>2, <1>3, PTL DEF Spec

\* Under the same provisos no selection panics, hence the process stays up.
THEOREM NeverCrashes ==
    ASSUME Configured # <<>>, Removable = {}
    PROVE  Spec => []NoCrash
<1>1. Init => SafeInv
    BY SafeInit
<1>2. SafeInv /\ [Next]_lbVars => SafeInv'
    BY SafeNext
<1>3. SafeInv => NoCrash
    BY DEF SafeInv
<1> QED BY <1>1, <1>2, <1>3, PTL DEF Spec

-----------------------------------------------------------------------------
(* What every entry of the table satisfies, whatever is removed.           *)

\* Division with remainder.
LEMMA Division ==
    ASSUME NEW r \in Nat \ {0}, NEW t \in Nat
    PROVE  /\ t \div r \in Nat
           /\ (t % r) \in 0 .. r - 1
           /\ t = (r * (t \div r)) + (t % r)
OBVIOUS

LEMMA Remainder ==
    ASSUME NEW r \in Nat \ {0}, NEW q \in Nat, NEW c \in 0 .. r - 1
    PROVE  ((r * q) + c) % r = c
OBVIOUS

\* The remainder counts up, and starts anew where the divisor is reached.
LEMMA NextRemainder ==
    ASSUME NEW r \in Nat \ {0}, NEW t \in Nat
    PROVE  (t + 1) % r = IF (t % r) + 1 >= r THEN 0 ELSE (t % r) + 1
<1> DEFINE q == t \div r
           c == t % r
<1>1. q \in Nat /\ c \in 0 .. r - 1 /\ t = (r * q) + c
    BY Division
<1> HIDE DEF q, c
<1>2. CASE c + 1 < r
    <2>1. t + 1 = (r * q) + (c + 1) /\ c + 1 \in 0 .. r - 1
        BY <1>1, <1>2
    <2>2. ((r * q) + (c + 1)) % r = c + 1
        BY <1>1, <2>1, Remainder
    <2>3. (t + 1) % r = c + 1
        BY <2>1, <2>2
    <2> QED BY <1>1, <1>2, <2>3 DEF c
<1>3. CASE c + 1 >= r
    <2>1. r * (q + 1) = (r * q) + r /\ c + 1 = r
        BY <1>1, <1>3
    <2>2. t + 1 = (r * (q + 1)) + 0
        BY <1>1, <2>1
    <2>3. ((r * (q + 1)) + 0) % r = 0
        <3>1. q + 1 \in Nat /\ 0 \in 0 .. r - 1
            BY <1>1
        <3> QED BY <3>1, Remainder
    <2>4. (t + 1) % r = 0
        BY <2>2, <2>3
    <2> QED BY <1>1, <1>3, <2>4 DEF c
<1> QED BY <1>1, <1>2, <1>3

\* A balancer's position in its global quota is what its lifetime counter says.
\* The counter is kept modulo a multiple of every ratio.
Phased(b) ==
    /\ b.contention_ratio \in Ratio
    /\ b.total_connections < CountModulus
    /\ b.current_connections = b.total_connections % b.contention_ratio

LEMMA ChargedPhase ==
    ASSUME NEW b \in Balancer, NEW s \in Source, Phased(b)
    PROVE  Phased(Charged(b, s))
<1> DEFINE r == b.contention_ratio
           t == b.total_connections
           c == b.current_connections
           x == Charged(b, s)
<1>1. r \in Nat \ {0} /\ t \in Nat /\ c \in Nat
    BY DEF Balancer
<1>2. r \in Ratio /\ t < CountModulus /\ c = t % r
    BY DEF Phased
<1>3. /\ x.contention_ratio = r
      /\ x.total_connections = (t + 1) % CountModulus
      /\ x.current_connections = IF c + 1 >= r THEN 0 ELSE c + 1
    BY DEF Charged, Balancer, GlobalQuotaUsed
<1> HIDE DEF r, t, c, x
<1>4. (t + 1) % r = IF c + 1 >= r THEN 0 ELSE c + 1
    BY <1>1, <1>2, NextRemainder
<1>5. CountModulus \in Nat \ {0} /\ CountModulus % r = 0
    BY <1>2, CountModulusAssumption
<1>6. ((t + 1) % CountModulus) % r = (t + 1) % r
    <2>1. CASE t + 1 < CountModulus
        <3>1. (t + 1) % CountModulus = t + 1
            BY <1>1, <1>5, <2>1
        <3> QED BY <3>1
    <2>2. CASE t + 1 = CountModulus
        <3>1. (t + 1) % CountModulus = 0 /\ 0 % r = 0
            BY <1>1, <1>5, <2>2
        <3> QED BY <1>5, <2>2, <3>1
    <2> QED BY <1>1, <1>2, <1>5, <2>1, <2>2
<1>7. (t + 1) % CountModulus < CountModulus
    <2>1. (t + 1) % CountModulus \in 0 .. CountModulus - 1
        BY <1>1, <1>5, ModuloRange, t + 1 \in Nat
    <2> QED BY <1>5, <2>1
<1> QED BY <1>2, <1>3, <1>4, <1>6, <1>7 DEF Phased, x

LEMMA ClearedPhase ==
    ASSUME NEW b \in Balancer, NEW s \in Source, NEW skip, Phased(b)
    PROVE  Phased(Cleared(b, s, skip))
<1>1. /\ Cleared(b, s, skip).contention_ratio = b.contention_ratio
      /\ Cleared(b, s, skip).total_connections = b.total_connections
      /\ Cleared(b, s, skip).current_connections = b.current_connections
    BY DEF Cleared, Balancer
<1> QED BY <1>1 DEF Phased

\* An update in place keeps the address and the phase of every entry.
SameEntries ==
    /\ Len(lb_list') = Len(lb_list)
    /\ \A j \in 1 .. Len(lb_list) :
          /\ lb_list'[j].address = lb_list[j].address
          /\ Phased(lb_list[j]) => Phased(lb_list'[j])

LEMMA SelectSame ==
    ASSUME TypeOK, NEW s \in Source, NEW tried, NEW from, NEW pick \in Indices,
           Select(s, tried, from, pick)
    PROVE  SameEntries
<1> DEFINE cleared(j) == Cleared(lb_list[j], s, j - 1 \in Skipped(s, from))
           n == Len(lb_list)
<1>1. n \in Nat /\ DOMAIN lb_list = 1 .. n /\ \A j \in 1 .. n : lb_list[j] \in Balancer
    BY ListShape
<1>2. \A j \in 1 .. n : /\ cleared(j) \in Balancer
                        /\ cleared(j).address = lb_list[j].address
                        /\ Phased(lb_list[j]) => Phased(cleared(j))
    BY <1>1, ClearedType, ClearedPhase
<1>3. \A j \in 1 .. n : cleared(j) = Cleared(At(j - 1), s, j - 1 \in Skipped(s, from))
    BY <1>1 DEF At
<1>4. pick + 1 \in 1 .. n /\ pick + 1 - 1 = pick
    BY <1>1, ListShape
<1>5. cleared(pick + 1) = Cleared(At(pick), s, pick \in Skipped(s, from))
    <2>1. pick \in Int /\ (pick + 1) - 1 = pick
        BY ListShape
    <2> QED BY <2>1 DEF At
<1>6. lb_list' = [j \in 1 .. n |-> IF j = pick + 1 THEN Charged(cleared(pick + 1), s)
                                                 ELSE cleared(j)]
    BY <1>1, <1>3, <1>5 DEF Select
<1> HIDE DEF cleared
<1>7. ASSUME NEW j \in 1 .. n
      PROVE  /\ lb_list'[j].address = lb_list[j].address
             /\ Phased(lb_list[j]) => Phased(lb_list'[j])
    <2>1. CASE j = pick + 1
        <3>1. lb_list'[j] = Charged(cleared(j), s)
            BY <1>6, <2>1
        <3> QED BY <1>2, <3>1, ChargedType, ChargedPhase
    <2>2. CASE j # pick + 1
        BY <1>2, <1>6, <2>2
    <2> QED BY <2>1, <2>2
<1>8. Len(lb_list') = n
    BY SelectKeeps DEF Kept
<1> QED BY <1>7, <1>8 DEF SameEntries

LEMMA SelectFallbackSame ==
    ASSUME TypeOK, NEW s \in Source, NEW tried, NEW from, SelectFallback(s, tried, from)
    PROVE  SameEntries
<1> DEFINE cleared(j) == Cleared(lb_list[j], s, j - 1 \in Skipped(s, from))
           n == Len(lb_list)
<1>1. n \in Nat /\ DOMAIN lb_list = 1 .. n /\ \A j \in 1 .. n : lb_list[j] \in Balancer
    BY ListShape
<1>2. \A j \in 1 .. n : /\ cleared(j).address = lb_list[j].address
                        /\ Phased(lb_list[j]) => Phased(cleared(j))
    BY <1>1, ClearedType, ClearedPhase
<1>3. lb_list' = [j \in 1 .. n |-> cleared(j)]
    BY <1>1 DEF SelectFallback
<1> HIDE DEF cleared
<1>4. Len(lb_list') = n
    BY SelectFallbackKeeps DEF Kept
<1> QED BY <1>2, <1>3, <1>4 DEF SameEntries

LEMMA UpdateSame ==
    ASSUME TypeOK, NEW i \in Indices, NEW b \in Balancer,
           lb_list' = [lb_list EXCEPT ![i + 1] = b],
           b.address = At(i).address, Phased(At(i)) => Phased(b)
    PROVE  SameEntries
<1>1. Len(lb_list') = Len(lb_list)
    BY UpdateKeeps DEF Kept
<1>2. DOMAIN lb_list = 1 .. Len(lb_list) /\ i + 1 \in 1 .. Len(lb_list)
    BY ListShape
<1>3. \A j \in 1 .. Len(lb_list) : lb_list'[j] = IF j = i + 1 THEN b ELSE lb_list[j]
    BY <1>2
<1> QED BY <1>1, <1>3 DEF SameEntries, At

LEMMA SetStatusSame ==
    ASSUME TypeOK, NEW a, NEW on \in BOOLEAN, SetStatus(a, on)
    PROVE  SameEntries
<1>1. PICK i \in Indices : lb_list' = [lb_list EXCEPT ![i + 1].enabled = on]
    BY DEF SetStatus
<1> DEFINE b == [At(i) EXCEPT !.enabled = on]
<1>2. b \in Balancer /\ b.address = At(i).address /\ (Phased(At(i)) => Phased(b))
    BY ListShape DEF Balancer, Phased
<1>3. lb_list' = [lb_list EXCEPT ![i + 1] = b]
    BY <1>1 DEF At
<1> HIDE DEF b
<1> QED BY <1>2, <1>3, UpdateSame

LEMMA SetRuleSame ==
    ASSUME TypeOK, NEW a, NEW s \in Source, NEW rule \in RuleRatio \cup {NoRule},
           SetRule(a, s, rule)
    PROVE  SameEntries
<1>1. PICK i \in Indices : lb_list' = [lb_list EXCEPT ![i + 1].source_ip_rules[s] = rule]
    BY DEF SetRule
<1> DEFINE b == [At(i) EXCEPT !.source_ip_rules[s] = rule]
<1>2. b \in Balancer /\ b.address = At(i).address /\ (Phased(At(i)) => Phased(b))
    BY ListShape DEF Balancer, Phased
<1>3. lb_list' = [lb_list EXCEPT ![i + 1] = b]
    BY <1>1 DEF At
<1> HIDE DEF b
<1> QED BY <1>2, <1>3, UpdateSame

\* A fresh balancer is at the start of its quota.
LEMMA NewBalancerPhase ==
    ASSUME NEW a \in Address, NEW requested \in RequestedRatio
    PROVE  Phased(NewBalancer(a, ValidatedRatio(requested)))
<1> DEFINE r == ValidatedRatio(requested)
           b == NewBalancer(a, r)
<1>1. r \in Ratio
    BY DEF Ratio
<1>2. b.contention_ratio = r /\ b.total_connections = 0 /\ b.current_connections = 0
    BY DEF NewBalancer
<1>3. r \in Nat \ {0}
    BY RatioAssumption DEF ValidatedRatio
<1> HIDE DEF r, b
<1>4. 0 % r = 0
    BY <1>3
<1> QED BY <1>1, <1>2, <1>4, CountModulusAssumption DEF Phased, b, r

\* Where the entries of a shorter table come from.
LEMMA RemoveLBEntries ==
    ASSUME TypeOK, NEW a, RemoveLB(a)
    PROVE  \E i \in 1 .. Len(lb_list) :
              /\ Len(lb_list') = Len(lb_list) - 1
              /\ \A k \in 1 .. Len(lb_list) - 1 :
                    lb_list'[k] = lb_list[IF k < i THEN k ELSE k + 1]
<1>1. PICK i \in Indices : lb_list' = RemoveAt(lb_list, i + 1)
    BY DEF RemoveLB
<1> DEFINE n == Len(lb_list)
           left == SubSeq(lb_list, 1, i)
           right == SubSeq(lb_list, i + 2, n)
<1>2. n \in Nat /\ i \in 0 .. n - 1 /\ lb_list \in Seq(Balancer)
      /\ lb_list \in [1 .. n -> Balancer]
    BY ListShape DEF TypeOK, Indices
<1>3. left \in Seq(Balancer) /\ Len(left) = i /\ \A k \in 1 .. i : left[k] = lb_list[k]
    <2>1. \A k \in 1 .. i : lb_list[k] \in Balancer
        BY <1>2
    <2> QED BY <1>2, <2>1, SubSeqProperties
<1>4. /\ right \in Seq(Balancer) /\ Len(right) = n - i - 1
      /\ \A k \in 1 .. n - i - 1 : right[k] = lb_list[i + 1 + k]
    <2> DEFINE m == i + 2
    <2>1. m \in 1 .. n + 1 /\ \A k \in m .. n : lb_list[k] \in Balancer
        BY <1>2
    <2>2. Len(SubSeq(lb_list, m, n)) = IF m <= n THEN n - m + 1 ELSE 0
        BY <1>2, <2>1, SubSeqProperties
    <2>3. \A k \in 1 .. n - m + 1 : SubSeq(lb_list, m, n)[k] = lb_list[m + k - 1]
        BY <1>2, <2>1, SubSeqProperties
    <2>4. SubSeq(lb_list, m, n) \in Seq(Balancer)
        BY <1>2, <2>1, SubSeqProperties
    <2>5. n - m + 1 = n - i - 1
        BY <1>2
    <2>6. Len(right) = n - i - 1
        <3>1. n \in Nat /\ i \in 0 .. n - 1
            BY <1>2
        <3> HIDE DEF n
        <3>2. CASE i + 2 <= n
            BY <2>2, <2>5, <3>2
        <3>3. CASE i + 1 = n
            <4>1. n - i - 1 = 0 /\ ~(i + 2 <= n)
                BY <3>1, <3>3
            <4> QED BY <2>2, <4>1
        <3> QED BY <3>1, <3>2, <3>3
    <2>7. ASSUME NEW k \in 1 .. n - i - 1 PROVE right[k] = lb_list[i + 1 + k]
        <3>1. m + k - 1 = i + 1 + k
            BY <1>2
        <3>2. right[k] = lb_list[m + k - 1]
            <4> HIDE DEF m
            <4> QED BY <2>3, <2>5 DEF m
        <3> QED BY <3>1, <3>2
    <2> QED BY <2>4, <2>6, <2>7
<1>5. lb_list' = left \o right
    <2>1. (i + 1) - 1 = i /\ (i + 1) + 1 = i + 2
        BY <1>2
    <2> QED BY <1>1, <2>1 DEF RemoveAt
<1> HIDE DEF left, right
<1>6. Len(lb_list') = n - 1
    <2>1. Len(lb_list') = Len(left) + Len(right)
        BY <1>3, <1>4, <1>5, ConcatProperties
    <2> QED BY <1>2, <1>3, <1>4, <2>1
<1>7. ASSUME NEW k \in 1 .. n - 1
      PROVE  lb_list'[k] = lb_list[IF k < i + 1 THEN k ELSE k + 1]
    <2>1. CASE k <= i
        BY <1>2, <1>3, <1>4, <1>5, <2>1, ConcatProperties
    <2>2. CASE k > i
        <3>1. lb_list'[k] = right[k - i]
            BY <1>2, <1>3, <1>4, <1>5, <2>2, ConcatProperties
        <3>2. k - i \in 1 .. n - i - 1 /\ i + 1 + (k - i) = k + 1
            BY <1>2, <2>2
        <3> QED BY <1>2, <1>4, <2>2, <3>1, <3>2
    <2> QED BY <1>2, <2>1, <2>2
<1>8. i + 1 \in 1 .. n
    BY <1>2
<1> QED BY <1>6, <1>7, <1>8

\* The entries are distinct, and each is in phase.
TableInv ==
    /\ \A j, k \in 1 .. Len(lb_list) : lb_list[j].address = lb_list[k].address => j = k
    /\ \A j \in 1 .. Len(lb_list) : Phased(lb_list[j])

LEMMA TableInit == Init => TableInv
<1> SUFFICES ASSUME Init PROVE TableInv
    OBVIOUS
<1> DEFINE n == Len(lb_list)
<1>1. DOMAIN lb_list = 1 .. n
    BY InitType, ListShape
<1>2. PICK ratio \in [DOMAIN Configured -> Ratio] :
         lb_list = [i \in DOMAIN Configured |-> NewBalancer(Configured[i], ratio[i])]
    BY DEF Init
<1>3. 1 .. n = DOMAIN Configured
    BY <1>1, <1>2
<1> HIDE DEF n
<1>4. ASSUME NEW j \in 1 .. n PROVE Phased(lb_list[j]) /\ lb_list[j].address = Configured[j]
    <2>1. PICK requested \in RequestedRatio : ratio[j] = ValidatedRatio(requested)
        <3>1. ratio[j] \in Ratio
            BY <1>2, <1>3
        <3> QED BY <3>1 DEF Ratio
    <2>2. Configured[j] \in Address
        <3>1. Configured \in [1 .. Len(Configured) -> Address]
            BY ConfiguredAssumption, LenProperties
        <3> QED BY <1>3, <3>1
    <2>3. lb_list[j] = NewBalancer(Configured[j], ValidatedRatio(requested))
        BY <1>2, <1>3, <2>1
    <2>4. lb_list[j].address = Configured[j]
        BY <2>3 DEF NewBalancer
    <2> QED BY <2>2, <2>3, <2>4, NewBalancerPhase
<1> QED BY <1>3, <1>4, ConfiguredAssumption DEF TableInv, n

LEMMA TableNext == TypeOK /\ TableInv /\ [Next]_lbVars => TableInv'
<1> SUFFICES ASSUME TypeOK, TableInv, [Next]_lbVars PROVE TableInv'
    OBVIOUS
<1> DEFINE n == Len(lb_list)
<1>1. n \in Nat /\ \A j \in 1 .. n : lb_list[j] \in Balancer
    BY ListShape
<1>2. CASE SameEntries
    BY <1>2 DEF SameEntries, TableInv
<1>3. ASSUME NEW a \in Address, NEW requested \in RequestedRatio, AddLB(a, requested)
      PROVE  TableInv'
    <2> DEFINE b == NewBalancer(a, ValidatedRatio(requested))
    <2>1. b \in Balancer /\ Phased(b) /\ b.address = a
        BY NewBalancerType, NewBalancerPhase DEF NewBalancer
    <2>2. lb_list' = Append(lb_list, b) /\ a \notin Listed
        BY <1>3 DEF AddLB
    <2> HIDE DEF b
    <2>3. /\ Len(lb_list') = n + 1
          /\ \A k \in 1 .. n : lb_list'[k] = lb_list[k]
          /\ lb_list'[n + 1] = b
        BY <2>1, <2>2, AppendProperties DEF TypeOK
    <2>4. \A k \in 1 .. n : lb_list[k].address # a
        <3> SUFFICES ASSUME NEW k \in 1 .. n, lb_list[k].address = a PROVE FALSE
            OBVIOUS
        <3>1. k - 1 \in Indices /\ At(k - 1) = lb_list[k]
            BY <1>1 DEF Indices, At
        <3> QED BY <2>2, <3>1 DEF Listed
    <2>5. ASSUME NEW j \in 1 .. n + 1 PROVE Phased(lb_list'[j])
        BY <1>1, <2>1, <2>3, <2>5 DEF TableInv
    <2>6. ASSUME NEW j \in 1 .. n + 1, NEW k \in 1 .. n + 1, lb_list'[j].address = lb_list'[k].address
          PROVE  j = k
        BY <1>1, <2>1, <2>3, <2>4, <2>6 DEF TableInv
    <2> QED BY <2>3, <2>5, <2>6 DEF TableInv
<1>4. ASSUME NEW a \in Address, RemoveLB(a)
      PROVE  TableInv'
    <2>1. PICK i \in 1 .. n :
              /\ Len(lb_list') = n - 1
              /\ \A k \in 1 .. n - 1 : lb_list'[k] = lb_list[IF k < i THEN k ELSE k + 1]
        BY <1>4, RemoveLBEntries
    <2>2. \A k \in 1 .. n - 1 : (IF k < i THEN k ELSE k + 1) \in 1 .. n
        BY <1>1
    <2>3. ASSUME NEW j \in 1 .. n - 1 PROVE Phased(lb_list'[j])
        BY <2>1, <2>2 DEF TableInv
    <2>4. ASSUME NEW j \in 1 .. n - 1, NEW k \in 1 .. n - 1, lb_list'[j].address = lb_list'[k].address
          PROVE  j = k
        <3>1. (IF j < i THEN j ELSE j + 1) = (IF k < i THEN k ELSE k + 1)
            BY <2>1, <2>2, <2>4 DEF TableInv
        <3> QED BY <1>1, <3>1
    <2> QED BY <2>1, <2>3, <2>4 DEF TableInv
<1>5. CASE UNCHANGED lb_list
    BY <1>5 DEF TableInv
<1> QED
    BY <1>2, <1>3, <1>4, <1>5, SelectSame, SelectFallbackSame, SetStatusSame, SetRuleSame
    DEF Next, Dispatch, Manage, AddRule, RemoveRule, SelectPanic, lbVars

LEMMA TableAlways == Spec => [](TypeOK /\ TableInv)
<1>1. Init => TypeOK /\ TableInv
    BY InitType, TableInit
<1>2. (TypeOK /\ TableInv) /\ [Next]_lbVars => (TypeOK /\ TableInv)'
    BY NextType, TableNext
<1> QED BY <1>1, <1>2, PTL DEF Spec

\* No two entries ever have the same address (web_server.go:1668-1679).
THEOREM AddressesDistinct == Spec => []DistinctAddresses
<1>1. TypeOK /\ TableInv => DistinctAddresses
    <2> SUFFICES ASSUME TypeOK, TableInv, NEW i \in Indices, NEW j \in Indices,
                        At(i).address = At(j).address
                 PROVE  i = j
        BY DEF DistinctAddresses
    <2>1. /\ i \in Nat /\ i + 1 \in 1 .. Len(lb_list)
          /\ j \in Nat /\ j + 1 \in 1 .. Len(lb_list)
        BY ListShape
    <2>2. i + 1 = j + 1
        BY <2>1 DEF TableInv, At
    <2> QED BY <2>1, <2>2
<1> QED BY <1>1, TableAlways, PTL

\* Selections, retries, rules, toggles and removals keep a balancer's position in
\* its global quota (main.go:350, 363-365) in step with its lifetime counter (351).
THEOREM QuotaInPhase == Spec => []GlobalQuotaPhase
<1>1. TypeOK /\ TableInv => GlobalQuotaPhase
    <2> SUFFICES ASSUME TypeOK, TableInv, NEW i \in Indices
                 PROVE  At(i).current_connections = At(i).total_connections % At(i).contention_ratio
        BY DEF GlobalQuotaPhase
    <2>1. i + 1 \in 1 .. Len(lb_list)
        BY ListShape
    <2> QED BY <2>1 DEF TableInv, Phased, At
<1> QED BY <1>1, TableAlways, PTL
=============================================================================
