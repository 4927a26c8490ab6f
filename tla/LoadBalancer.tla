---------------------------- MODULE LoadBalancer ----------------------------
(***************************************************************************)
(* The load balancer table of main.go: the selection of an outgoing        *)
(* balancer for a source IP (get_enhanced_load_balancer), and the          *)
(* management operations that change the table while selections go on.     *)
(* Every operation runs under the global `mutex`, so each one is a single  *)
(* action.                                                                 *)
(*                                                                         *)
(* Go slices are 0-based: index i of the program is lb_list[i + 1] here.   *)
(***************************************************************************)
EXTENDS Integers, Sequences, FiniteSets, SequencesExt

CONSTANTS
    Address,        \* the balancer addresses an operator may configure
    Source,         \* the client IP addresses
    RequestedRatio, \* contention ratios an operator may ask for a balancer
    RuleRatio,      \* contention ratios an operator may give a source rule
    NoRule,         \* "this source has no rule for this balancer"
    Configured,     \* the balancers stored in the database at start-up
    Removable,      \* the balancers the operator may remove
    CountModulus    \* bound of the model: lifetime counters are kept modulo this

\* handleAPIAddLB turns a ratio that is not positive into 1.
ValidatedRatio(r) == IF r <= 0 THEN 1 ELSE r
Ratio == {ValidatedRatio(r) : r \in RequestedRatio}

ASSUME RatioAssumption     == RequestedRatio \subseteq Int
ASSUME RuleRatioAssumption == RuleRatio \subseteq Int  \* rules are not validated
ASSUME ConfiguredAssumption ==
    /\ Configured \in Seq(Address)
    /\ \A i, j \in DOMAIN Configured : Configured[i] = Configured[j] => i = j
ASSUME CountModulusAssumption ==
    /\ CountModulus \in Nat \ {0}
    /\ \A r \in Ratio : CountModulus % r = 0

VARIABLES
    lb_list,            \* the balancers, in the order of the slice
    lb_index,           \* where a source seen for the first time starts
    source_lb_indices,  \* each source's own turn, Absent before its first use
    crashed             \* an index-out-of-range panic ended the process

lbVars == <<lb_list, lb_index, source_lb_indices, crashed>>

-----------------------------------------------------------------------------
Absent == -1

Balancer ==
    [ address             : Address,
      contention_ratio    : Nat \ {0},
      enabled             : BOOLEAN,
      current_connections : Nat,
      total_connections   : Nat,
      source_ip_rules     : [Source -> RuleRatio \cup {NoRule}],
      source_ip_counters  : [Source -> Nat] ]

\* A balancer as the database loader and handleAPIAddLB build it.
NewBalancer(a, ratio) ==
    [ address             |-> a,
      contention_ratio    |-> ratio,
      enabled             |-> TRUE,
      current_connections |-> 0,
      total_connections   |-> 0,
      source_ip_rules     |-> [s \in Source |-> NoRule],
      source_ip_counters  |-> [s \in Source |-> 0] ]

Indices == 0 .. Len(lb_list) - 1
At(i)   == lb_list[i + 1]
Enabled == {i \in Indices : At(i).enabled}
Listed  == {At(i).address : i \in Indices}

\* The steps a scan that wraps around takes from index i to index j.
Dist(i, j) == IF i <= j THEN j - i ELSE Len(lb_list) - i + j

\* j is the first member of S that a scan from index i meets.
First(i, S, j) == j \in S /\ \A k \in S : Dist(i, j) <= Dist(i, k)

\* (i + 1) % len(lb_list); i is below the length unless a balancer was removed.
SuccUnwrapped(i) == i + 1
Succ(i) == (i + 1) % Len(lb_list)

EffectiveRatio(b, s) ==
    IF b.source_ip_rules[s] # NoRule THEN b.source_ip_rules[s]
                                     ELSE b.contention_ratio

TurnOf(s) == IF source_lb_indices[s] = Absent THEN lb_index
                                              ELSE source_lb_indices[s]

-----------------------------------------------------------------------------
\* main() loads the balancers of the database before it accepts connections.
\* The database never holds statistics or a disabled balancer: only
\* handleAPIAddLB writes a row, and it writes an enabled, unused one.
Init ==
    /\ \E ratio \in [DOMAIN Configured -> Ratio] :
          lb_list = [i \in DOMAIN Configured |-> NewBalancer(Configured[i], ratio[i])]
    /\ lb_index = 0
    /\ source_lb_indices = [s \in Source |-> Absent]
    /\ crashed = FALSE

-----------------------------------------------------------------------------
(* Selection.                                                              *)

\* The balancers a scan from the source's turn to index `from` steps over.
Skipped(s, from) == {k \in Indices : Dist(TurnOf(s), k) < Dist(TurnOf(s), from)}

\* The pick uses up balancer b's quota for source s, so that the turn moves on.
SourceQuotaUsedLate(counter, b, s) == counter + 1 > EffectiveRatio(b, s)
SourceQuotaUsed(counter, b, s) == counter + 1 >= EffectiveRatio(b, s)

\* The pick uses up b's quota over all sources, so that lb_index moves on.
GlobalQuotaUsedLate(b) == b.current_connections + 1 > b.contention_ratio
GlobalQuotaUsed(b) == b.current_connections + 1 >= b.contention_ratio

\* b after the bitset loop stepped over it (`skip`): its quota starts anew.
Cleared(b, s, skip) ==
    IF skip THEN [b EXCEPT !.source_ip_counters[s] = 0] ELSE b

\* b after it is picked for source s.
Charged(b, s) ==
    [b EXCEPT
       !.source_ip_counters[s] = IF SourceQuotaUsed(@, b, s) THEN 0 ELSE @ + 1,
       !.current_connections   = IF GlobalQuotaUsed(b) THEN 0 ELSE @ + 1,
       !.total_connections     = (@ + 1) % CountModulus]

\* The source's turn after the pick: past the balancer whose quota is used up,
\* else where the bitset loop stopped (a scan past disabled balancers is not
\* stored).
TurnAfterUnstored(used, from, pick) == from
TurnAfterScanOnly(used, from, pick) == IF used THEN Succ(from) ELSE from
TurnAfter(used, from, pick) == IF used THEN Succ(pick) ELSE from

\* get_enhanced_load_balancer when some balancer is enabled.  `tried` is the
\* caller's bitset ({} when it has none), `from` where the bitset loop stops
\* and `pick` the index it returns.
Select(s, tried, from, pick) ==
    LET cleared(i) == Cleared(At(i), s, i \in Skipped(s, from))
    IN
    /\ ~crashed
    /\ TurnOf(s) \in Indices
    /\ First(TurnOf(s), Indices \ tried, from)
    /\ First(from, Enabled, pick)
    /\ lb_list' = [j \in DOMAIN lb_list |->
                     IF j = pick + 1 THEN Charged(cleared(pick), s)
                                     ELSE cleared(j - 1)]
    /\ lb_index' = IF GlobalQuotaUsed(At(pick)) THEN Succ(lb_index) ELSE lb_index
    /\ source_lb_indices' =
          [source_lb_indices EXCEPT
             ![s] = TurnAfter(SourceQuotaUsed(cleared(pick).source_ip_counters[s],
                                              At(pick), s), from, pick)]
    /\ UNCHANGED crashed

\* The same when every balancer is disabled: index 0 is returned, uncounted.
SelectFallback(s, tried, from) ==
    /\ ~crashed
    /\ TurnOf(s) \in Indices
    /\ First(TurnOf(s), Indices \ tried, from)
    /\ Enabled = {}
    /\ lb_list' = [j \in DOMAIN lb_list |->
                     Cleared(lb_list[j], s, j - 1 \in Skipped(s, from))]
    /\ source_lb_indices' = [source_lb_indices EXCEPT ![s] = from]
    /\ UNCHANGED <<lb_index, crashed>>

\* The same when the turn is past the end of the slice: the access panics.
\* `recovered` tells the SOCKS goroutine, which recovers, from the tunnel and
\* the transparent handlers, whose panic ends the process.
SelectPanic(s, recovered) ==
    /\ ~crashed
    /\ TurnOf(s) \notin Indices
    /\ source_lb_indices' = [source_lb_indices EXCEPT ![s] = TurnOf(s)]
    /\ crashed' = ~recovered
    /\ UNCHANGED <<lb_list, lb_index>>

-----------------------------------------------------------------------------
(* Management.  An operation on an address that is not listed, and one     *)
(* whose database statement fails, changes nothing.                        *)

Manages == ~crashed /\ UNCHANGED <<lb_index, source_lb_indices, crashed>>

SetStatus(a, on) ==
    /\ Manages
    /\ \E i \in Indices : At(i).address = a /\ lb_list' = [lb_list EXCEPT ![i + 1].enabled = on]

SetRuleResetting(a, s, rule) ==
    /\ Manages
    /\ \E i \in Indices :
          /\ At(i).address = a
          /\ lb_list' = [lb_list EXCEPT ![i + 1].source_ip_rules[s] = rule,
                                       ![i + 1].source_ip_counters[s] = 0]

SetRule(a, s, rule) ==
    /\ Manages
    /\ \E i \in Indices :
          /\ At(i).address = a
          /\ lb_list' = [lb_list EXCEPT ![i + 1].source_ip_rules[s] = rule]

AddRule(a, s, ratio) == SetRule(a, s, ratio)

RemoveRule(a, s) == SetRule(a, s, NoRule)

AddLBUnchecked(a, requested) ==
    /\ Manages
    /\ lb_list' = Append(lb_list, NewBalancer(a, ValidatedRatio(requested)))

AddLBUnvalidated(a, requested) ==
    /\ Manages
    /\ a \notin Listed
    /\ lb_list' = Append(lb_list, NewBalancer(a, requested))

AddLB(a, requested) ==
    /\ Manages
    /\ a \notin Listed
    /\ lb_list' = Append(lb_list, NewBalancer(a, ValidatedRatio(requested)))

\* The turns of the sources and lb_index stay what they were.
RemoveLB(a) ==
    /\ Manages
    /\ a \in Removable
    /\ \E i \in Indices : At(i).address = a /\ lb_list' = RemoveAt(lb_list, i + 1)

-----------------------------------------------------------------------------
\* A caller's bitset holds balancers it failed to reach, and not all of them:
\* handle_tunnel_connection gives up when it does.  (If a removal between that
\* check and the retry leaves only failed ones, the bitset loop never ends.)
Bitsets == (SUBSET Indices) \ {Indices}

Dispatch ==
    \E s \in Source :
       \/ \E tried \in Bitsets, from, pick \in Indices : Select(s, tried, from, pick)
       \/ \E tried \in Bitsets, from \in Indices : SelectFallback(s, tried, from)
       \/ \E recovered \in BOOLEAN : SelectPanic(s, recovered)

Manage ==
    \E a \in Address :
       \/ \E on \in BOOLEAN : SetStatus(a, on)
       \/ \E s \in Source, ratio \in RuleRatio : AddRule(a, s, ratio)
       \/ \E s \in Source : RemoveRule(a, s)
       \/ \E requested \in RequestedRatio : AddLB(a, requested)
       \/ RemoveLB(a)

Next == Dispatch \/ Manage

Spec == Init /\ [][Next]_lbVars

-----------------------------------------------------------------------------
(* Properties.                                                             *)

\* The types of the table, of the two kinds of turn and of the process.
TypeOK ==
    /\ lb_list \in Seq(Balancer)
    /\ lb_index \in Nat
    /\ source_lb_indices \in [Source -> Nat \cup {Absent}]
    /\ crashed \in BOOLEAN

\* However selections, retries, rules, toggles and removals interleave, the
\* position of a balancer in its global quota (main.go:350 and 363-365) is
\* what its lifetime counter (351) says: no selection is lost from the one and
\* counted in the other, and no quota is exceeded.
GlobalQuotaPhase ==
    \A i \in Indices :
       At(i).current_connections = At(i).total_connections % At(i).contention_ratio

\* No two entries have the same address: the check for a duplicate in
\* handleAPIAddLB (web_server.go:1668-1679) and the append are one critical
\* section, on which every management call's search by address depends.
DistinctAddresses ==
    \A i, j \in Indices : At(i).address = At(j).address => i = j

\* Every turn designates a listed balancer, so that the slice accesses of a
\* selection (main.go:312, 326) are in range.
TurnsInRange ==
    /\ lb_index \in Indices
    /\ \A s \in Source : source_lb_indices[s] # Absent => source_lb_indices[s] \in Indices

\* No selection ends the process.
NoCrash == ~crashed
=============================================================================
