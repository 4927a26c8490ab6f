------------------------ MODULE TunnelFailoverProofs ------------------------
(***************************************************************************)
(* Proofs about TunnelFailover, for any number of clients and balancers,   *)
(* whatever answers.  The handlers use the table of LoadBalancer as its    *)
(* specification allows, so that what is proved of that table holds here;  *)
(* the inductive invariant is                                              *)
(*     TypeOK /\ HandlersTypeOK /\ what each handler has tried (Progress). *)
(***************************************************************************)
EXTENDS TunnelFailover, LoadBalancerProofs

\* What handler c has dialled, and what it knows of the table.
Progress(c) ==
    /\ pc[c] \in {"accepted", "selected"} => failed[c] = {}
    /\ pc[c] \in {"accepted", "selected", "retrying"} => ~complete[c]
    /\ ~complete[c] => tried[c] = failed[c]
    /\ arrived[c] <= Len(lb_list)
    /\ pc[c] = "selected" => lb[c] < arrived[c]
    /\ pc[c] = "dialing" /\ complete[c] => lb[c] < arrived[c] /\ arrived[c] <= 1
    /\ pc[c] = "retrying" => ~(Indices \subseteq tried[c])
    /\ pc[c] = "gave up" => 0 .. arrived[c] - 1 \subseteq failed[c]

HandlersInv == TypeOK /\ HandlersTypeOK /\ \A c \in Conn : Progress(c)

-----------------------------------------------------------------------------
(* What a step does to the table.                                          *)

\* The slice does not shrink.
Grown == Len(lb_list') \in Nat /\ Len(lb_list') >= Len(lb_list)

\* What a handler does with the table is a selection of LoadBalancer, provided
\* that its bitset leaves something to try, and it is given an index in range.
LEMMA GivenSelects ==
    ASSUME TypeOK, NEW c \in Conn, NEW bits \in Bitsets, Given(c, bits)
    PROVE  /\ Next
           /\ TypeOK' /\ Len(lb_list') = Len(lb_list)
           /\ \E j \in Indices : lb' = [lb EXCEPT ![c] = j]
<1>1. SourceOf[c] \in Source
    BY SourceOfAssumption
<1>2. ASSUME NEW from \in Indices, NEW pick \in Indices,
             Select(SourceOf[c], bits, from, pick), lb' = [lb EXCEPT ![c] = pick]
      PROVE  Next /\ Len(lb_list') = Len(lb_list)
    <2>1. Len(lb_list') = Len(lb_list)
        BY <1>1, <1>2, SelectKeeps DEF Kept
    <2>2. Next
        BY <1>1, <1>2 DEF Next, Dispatch
    <2> QED BY <2>1, <2>2
<1>3. ASSUME NEW from \in Indices,
             SelectFallback(SourceOf[c], bits, from), lb' = [lb EXCEPT ![c] = 0]
      PROVE  Next /\ Len(lb_list') = Len(lb_list) /\ 0 \in Indices
    <2>1. Len(lb_list') = Len(lb_list)
        BY <1>1, <1>3, SelectFallbackKeeps DEF Kept
    <2>2. Next
        BY <1>1, <1>3 DEF Next, Dispatch
    <2>3. 0 \in Indices
        BY <1>3, ListShape DEF Indices
    <2> QED BY <2>1, <2>2, <2>3
<1>4. /\ Next /\ Len(lb_list') = Len(lb_list)
      /\ \E j \in Indices : lb' = [lb EXCEPT ![c] = j]
    BY <1>2, <1>3 DEF Given
<1> QED BY <1>4, NextType

\* The operator's steps do not shrink the slice, as nothing is removed.
LEMMA OperateGrows ==
    ASSUME TypeOK, Operate
    PROVE  Next /\ TypeOK' /\ Grown
<1>1. Next
    BY DEF Operate, Next
<1>2. TypeOK'
    BY <1>1, NextType
<1>3. Len(lb_list) \in Nat
    BY ListShape
<1>4. ASSUME NEW a \in Address, NEW on \in BOOLEAN, SetStatus(a, on)
      PROVE  Grown
    BY <1>3, <1>4, SetStatusKeeps DEF Kept, Grown
<1>5. ASSUME NEW a \in Address, NEW s \in Source, NEW rule \in RuleRatio \cup {NoRule},
             SetRule(a, s, rule)
      PROVE  Grown
    BY <1>3, <1>5, SetRuleKeeps DEF Kept, Grown
<1>6. ASSUME NEW a \in Address, NEW requested \in RequestedRatio, AddLB(a, requested)
      PROVE  Grown
    BY <1>3, <1>6, AddLBType DEF Grown
<1>7. ASSUME NEW a \in Address, RemoveLB(a)
      PROVE  Grown
    BY <1>7, TableAssumption DEF RemoveLB
<1>8. Grown
    BY <1>4, <1>5, <1>6, <1>7 DEF Operate, Manage, AddRule, RemoveRule
<1> QED BY <1>1, <1>2, <1>8

\* A handler that took no step has made as much progress on a grown table.
LEMMA Undisturbed ==
    ASSUME TypeOK, HandlersTypeOK, Grown, NEW d \in Conn, Progress(d),
           pc'[d] = pc[d], lb'[d] = lb[d], tried'[d] = tried[d],
           complete'[d] = complete[d], arrived'[d] = arrived[d], failed'[d] = failed[d]
    PROVE  Progress(d)'
<1>1. Len(lb_list) \in Nat /\ arrived[d] \in Nat
    BY ListShape DEF HandlersTypeOK
<1>2. Indices \subseteq Indices'
    BY <1>1 DEF Grown, Indices
<1>3. arrived[d] <= Len(lb_list)
    BY DEF Progress
<1>4. arrived[d] <= Len(lb_list')
    BY <1>1, <1>3 DEF Grown
<1> QED BY <1>2, <1>4 DEF Progress

-----------------------------------------------------------------------------
(* The inductive invariant.                                                *)

LEMMA HandlersInit == TInit => HandlersInv
<1> SUFFICES ASSUME TInit PROVE HandlersInv
    OBVIOUS
<1>1. TypeOK /\ TurnsInRange /\ lb_index = 0
    BY SafeInit, TableAssumption DEF TInit, SafeInv, Init
<1>2. 0 \in Indices /\ Len(lb_list) \in Nat
    BY <1>1, ListShape DEF TurnsInRange
<1>3. HandlersTypeOK
    BY <1>2 DEF TInit, HandlersTypeOK
<1>4. ASSUME NEW c \in Conn
      PROVE  Progress(c)
    BY <1>2 DEF TInit, Progress
<1> QED BY <1>1, <1>3, <1>4 DEF HandlersInv

\* A handler's step is a step of the table or leaves it alone.
LEMMA HandleUsesTable ==
    ASSUME HandlersInv, NEW c \in Conn, Handle(c)
    PROVE  [Next]_lbVars /\ TypeOK' /\ Len(lb_list') = Len(lb_list)
<1>0. TypeOK /\ Progress(c) /\ tried[c] \in SUBSET Indices
    BY DEF HandlersInv, HandlersTypeOK
<1>1. CASE FirstSelection(c)
    <2>1. Indices # {}
        BY <1>1 DEF FirstSelection, Given
    <2>2. {} \in Bitsets
        BY <2>1 DEF Bitsets
    <2> QED BY <1>0, <1>1, <2>2, GivenSelects DEF FirstSelection
<1>2. CASE Retry(c)
    <2>0. ~(Indices \subseteq tried[c])
        BY <1>0, <1>2 DEF Retry, Progress
    <2>1. tried[c] \in Bitsets
        <3> DEFINE bits == tried[c]
        <3>1. bits \in SUBSET Indices /\ bits # Indices
            BY <1>0, <2>0
        <3> QED BY <3>1 DEF Bitsets
    <2> QED BY <1>0, <1>2, <2>1, GivenSelects DEF Retry
<1>3. CASE UNCHANGED lbVars
    BY <1>0, <1>3 DEF lbVars, TypeOK
<1> QED BY <1>1, <1>2, <1>3 DEF Handle, CountBalancers, DialSucceeds, DialFails

\* Every step of a handler keeps its types and its progress, and the others'.
LEMMA HandleKeeps ==
    ASSUME HandlersInv, NEW c \in Conn, Handle(c)
    PROVE  HandlersInv'
<1>0. /\ TypeOK /\ HandlersTypeOK /\ Progress(c)
      /\ TypeOK' /\ Len(lb_list') = Len(lb_list) /\ Len(lb_list) \in Nat
    BY HandleUsesTable, ListShape DEF HandlersInv
<1>1. Indices' = Indices /\ Grown
    BY <1>0 DEF Indices, Grown
<1>2. \E j \in Indices : lb' = [lb EXCEPT ![c] = j]
    <2>1. CASE FirstSelection(c)
        <3>1. {} \in Bitsets
            BY <2>1 DEF FirstSelection, Given, Bitsets
        <3> QED BY <1>0, <2>1, <3>1, GivenSelects DEF FirstSelection
    <2>2. CASE Retry(c)
        <3>0. ~(Indices \subseteq tried[c]) /\ tried[c] \in SUBSET Indices
            BY <1>0, <2>2 DEF Retry, Progress, HandlersTypeOK
        <3>1. tried[c] \in Bitsets
            <4> DEFINE bits == tried[c]
            <4>1. bits \in SUBSET Indices /\ bits # Indices
                BY <3>0
            <4> QED BY <4>1 DEF Bitsets
        <3> QED BY <1>0, <2>2, <3>1, GivenSelects DEF Retry
    <2>3. CASE lb' = lb
        <3>1. lb[c] \in Indices /\ lb = [lb EXCEPT ![c] = lb[c]]
            BY <1>0 DEF HandlersTypeOK
        <3> QED BY <2>3, <3>1
    <2> QED BY <2>1, <2>2, <2>3 DEF Handle, CountBalancers, DialSucceeds, DialFails
<1>3. /\ HandlersTypeOK'
      /\ Progress(c)'
      /\ \A d \in Conn \ {c} :
            /\ pc'[d] = pc[d] /\ lb'[d] = lb[d] /\ tried'[d] = tried[d]
            /\ complete'[d] = complete[d] /\ arrived'[d] = arrived[d] /\ failed'[d] = failed[d]
    <2>1. CASE FirstSelection(c)
        <3>1. PICK j \in Indices : lb' = [lb EXCEPT ![c] = j]
            BY <1>2
        <3>2. HandlersTypeOK'
            BY <1>0, <1>1, <2>1, <3>1 DEF FirstSelection, HandlersTypeOK
        <3>3. /\ pc'[c] = "selected" /\ lb'[c] = j /\ arrived'[c] = Len(lb_list)
              /\ tried'[c] = tried[c] /\ complete'[c] = complete[c] /\ failed'[c] = failed[c]
            BY <1>0, <2>1, <3>1 DEF FirstSelection, HandlersTypeOK
        <3>4. j < Len(lb_list)
            BY <1>0 DEF Indices
        <3>5. failed[c] = {} /\ ~complete[c] /\ tried[c] = failed[c]
            BY <1>0, <2>1 DEF FirstSelection, Progress
        <3>6. Progress(c)'
            <4> DEFINE st == pc'[c]
                       m == arrived'[c]
            <4>1. st = "selected" /\ m = Len(lb_list') /\ lb'[c] < m /\ m <= Len(lb_list')
                BY <1>0, <3>3, <3>4
            <4>2. failed'[c] = {} /\ ~complete'[c] /\ tried'[c] = failed'[c]
                BY <3>3, <3>5
            <4> QED BY <4>1, <4>2 DEF Progress
        <3> QED BY <1>0, <2>1, <3>1, <3>2, <3>6 DEF FirstSelection, HandlersTypeOK
    <2>2. CASE CountBalancers(c)
        BY <1>0, <1>1, <2>2 DEF CountBalancers, HandlersTypeOK, Progress
    <2>3. CASE DialSucceeds(c)
        BY <1>0, <1>1, <2>3 DEF DialSucceeds, HandlersTypeOK, Progress
    <2>4. CASE DialFails(c)
        <3>1. /\ lb[c] \in Indices /\ tried[c] \in SUBSET Indices /\ failed[c] \in SUBSET Indices
              /\ complete[c] \in BOOLEAN /\ arrived[c] \in Nat
            BY <1>0 DEF HandlersTypeOK
        <3>2. Marked(c) \in SUBSET Indices
            BY <3>1 DEF Marked
        <3>3. /\ tried'[c] = Marked(c) /\ complete'[c] = (complete[c] \/ AllTried(Marked(c)))
              /\ pc'[c] = IF complete'[c] THEN "gave up" ELSE "retrying"
              /\ failed'[c] = failed[c] \cup {lb[c]} /\ UNCHANGED <<lb, arrived>>
            BY <1>0, <2>4 DEF DialFails, HandlersTypeOK
        <3>4. HandlersTypeOK'
            BY <1>0, <1>1, <2>4, <3>1, <3>2 DEF DialFails, HandlersTypeOK
        <3>5. arrived[c] <= Len(lb_list)
            BY <1>0 DEF Progress
        <3>6. CASE complete[c]
            <4>1. lb[c] < arrived[c] /\ arrived[c] <= 1
                BY <1>0, <2>4, <3>6 DEF DialFails, Progress
            <4>2. arrived[c] = 1 /\ lb[c] = 0
                <5>1. lb[c] \in Nat
                    BY <3>1, <1>0, ListShape
                <5> QED BY <3>1, <4>1, <5>1
            <4>3. 0 .. arrived'[c] - 1 \subseteq failed'[c]
                <5>1. arrived'[c] = 1 /\ 0 \in failed'[c]
                    BY <3>3, <4>2
                <5> DEFINE m == arrived'[c]
                <5>2. \A k \in 0 .. m - 1 : k = 0
                    <6> HIDE DEF m
                    <6> QED BY <5>1 DEF m
                <5> QED BY <5>1, <5>2
            <4>4. Progress(c)'
                BY <1>0, <3>3, <3>5, <3>6, <4>3 DEF Progress
            <4> QED BY <1>0, <2>4, <3>4, <4>4 DEF DialFails, HandlersTypeOK
        <3>7. CASE ~complete[c]
            <4>1. tried'[c] = failed'[c]
                <5>1. tried[c] = failed[c]
                    BY <1>0, <3>7 DEF Progress
                <5> QED BY <3>3, <3>7, <5>1 DEF Marked
            <4>2. complete'[c] = (Indices \subseteq tried'[c])
                BY <3>1, <3>3, <3>7 DEF AllTried
            <4>3. 0 .. arrived[c] - 1 \subseteq Indices
                BY <1>0, <3>1, <3>5 DEF Indices
            <4>4. Progress(c)'
                BY <1>0, <1>1, <3>3, <3>5, <4>1, <4>2, <4>3 DEF Progress
            <4> QED BY <1>0, <2>4, <3>4, <4>4 DEF DialFails, HandlersTypeOK
        <3> QED BY <3>6, <3>7
    <2>5. CASE Retry(c)
        BY <1>0, <1>1, <1>2, <2>5 DEF Retry, HandlersTypeOK, Progress
    <2> QED BY <2>1, <2>2, <2>3, <2>4, <2>5 DEF Handle
<1>4. ASSUME NEW d \in Conn
      PROVE  Progress(d)'
    <2>1. CASE d = c
        BY <1>3, <2>1
    <2>2. CASE d # c
        BY <1>0, <1>1, <1>3, <2>2, Undisturbed DEF HandlersInv
    <2> QED BY <2>1, <2>2
<1> QED BY <1>0, <1>3, <1>4 DEF HandlersInv

\* So does every other step.
LEMMA HandlersNext == HandlersInv /\ [TNext]_tunnelVars => HandlersInv'
<1> SUFFICES ASSUME HandlersInv, [TNext]_tunnelVars PROVE HandlersInv'
    OBVIOUS
<1>1. ASSUME TypeOK', Grown, UNCHANGED handlers
      PROVE  HandlersInv'
    <2>1. TypeOK /\ HandlersTypeOK /\ Len(lb_list) \in Nat
        BY ListShape DEF HandlersInv
    <2>2. Indices \subseteq Indices'
        BY <1>1, <2>1 DEF Grown, Indices
    <2>3. HandlersTypeOK'
        BY <1>1, <2>1, <2>2 DEF handlers, HandlersTypeOK
    <2>4. ASSUME NEW d \in Conn
          PROVE  Progress(d)'
        BY <1>1, <2>1, Undisturbed DEF handlers, HandlersInv
    <2> QED BY <1>1, <2>3, <2>4 DEF HandlersInv
<1>2. CASE Operate
    BY <1>1, <1>2, OperateGrows DEF Operate, HandlersInv
<1>3. CASE UNCHANGED tunnelVars
    <2>1. TypeOK' /\ Grown
        BY <1>3, ListShape DEF tunnelVars, lbVars, HandlersInv, TypeOK, Grown
    <2> QED BY <1>1, <1>3, <2>1 DEF tunnelVars
<1> QED BY <1>2, <1>3, HandleKeeps DEF TNext

\* Whatever the clients and the operator do, in any order, a handler has made
\* the progress that its place in handle_tunnel_connection says.
THEOREM HandlersInvariant == TSpec => []HandlersInv
<1>1. TInit => HandlersInv
    BY HandlersInit
<1>2. HandlersInv /\ [TNext]_tunnelVars => HandlersInv'
    BY HandlersNext
<1> QED BY <1>1, <1>2, PTL DEF TSpec

\* The index a handler uses after the selection released the mutex, and the bits
\* it has set, always designate balancers that are listed (main.go:667-689).
THEOREM HandlersTypes == TSpec => []HandlersTypeOK
<1>1. HandlersInv => HandlersTypeOK
    BY DEF HandlersInv
<1> QED BY <1>1, HandlersInvariant, PTL

\* A client is turned away (main.go:691-693) only after every balancer that was
\* listed when it arrived has failed for it, though the handler counts them in
\* steps of its own while others are added.
THEOREM TurnedAwayHonestly == TSpec => []GivesUpHonestly
<1>1. HandlersInv => GivesUpHonestly
    BY DEF HandlersInv, Progress, GivesUpHonestly
<1> QED BY <1>1, HandlersInvariant, PTL

-----------------------------------------------------------------------------
(* A retry.                                                                *)

\* A scan that starts at a member of the set stops there.
LEMMA FirstIsThere ==
    ASSUME TypeOK, NEW S \in SUBSET Indices, NEW i \in S, NEW j, First(i, S, j)
    PROVE  j = i
<1>1. /\ i \in Indices /\ j \in Indices /\ Len(lb_list) \in Nat
      /\ Dist(i, j) <= Dist(i, i)
    BY ListShape DEF First
<1> QED BY <1>1 DEF Dist, Indices

\* A retry (main.go:687) never redials a balancer that failed, wherever other
\* clients have left the turn, unless the operator has disabled one that did not.
THEOREM RetriesAreNew == TSpec => RetriesDifferent
<1>1. ASSUME HandlersInv, [TNext]_tunnelVars, NEW c \in Conn,
             pc[c] = "retrying", pc'[c] = "dialing", Indices \ failed[c] \subseteq Enabled
      PROVE  lb'[c] \notin failed[c]
    <2>1. Retry(c)
        <3>1. pc \in [Conn -> {"accepted", "selected", "dialing", "retrying", "piping", "gave up"}]
            BY <1>1 DEF HandlersInv, HandlersTypeOK
        <3>2. PICK d \in Conn : Handle(d)
            BY <1>1 DEF TNext, Operate, tunnelVars, handlers
        <3>3. d = c
            BY <1>1, <3>1, <3>2
               DEF Handle, FirstSelection, CountBalancers, DialSucceeds, DialFails, Retry
        <3> QED BY <1>1, <3>2, <3>3
                DEF Handle, FirstSelection, CountBalancers, DialSucceeds, DialFails
    <2>2. TypeOK /\ tried[c] = failed[c] /\ lb \in [Conn -> Indices]
        BY <1>1 DEF HandlersInv, HandlersTypeOK, Progress
    <2>3. ASSUME NEW from \in Indices, First(TurnOf(SourceOf[c]), Indices \ tried[c], from)
          PROVE  from \in Indices \ failed[c] /\ from \in Enabled
        BY <1>1, <2>2, <2>3 DEF First
    <2>4. ASSUME NEW from \in Indices, NEW pick \in Indices,
                 Select(SourceOf[c], tried[c], from, pick), lb' = [lb EXCEPT ![c] = pick]
          PROVE  lb'[c] \notin failed[c]
        <3>1. from \in Indices \ failed[c] /\ from \in Enabled
            BY <2>3, <2>4 DEF Select
        <3>2. pick = from
            <4>1. Enabled \in SUBSET Indices /\ First(from, Enabled, pick)
                BY <2>4 DEF Enabled, Select
            <4> QED BY <2>2, <3>1, <4>1, FirstIsThere
        <3> QED BY <2>2, <2>4, <3>1, <3>2
    <2>5. ASSUME NEW from \in Indices, SelectFallback(SourceOf[c], tried[c], from)
          PROVE  FALSE
        <3>1. from \in Enabled
            BY <2>3, <2>5 DEF SelectFallback
        <3> QED BY <2>5, <3>1 DEF SelectFallback
    <2> QED BY <2>1, <2>4, <2>5 DEF Retry, Given
<1>2. HandlersInv /\ [TNext]_tunnelVars =>
        [ \A c \in Conn :
            pc[c] = "retrying" /\ pc'[c] = "dialing" /\ Indices \ failed[c] \subseteq Enabled
               => lb'[c] \notin failed[c] ]_tunnelVars
    BY <1>1
<1> QED BY <1>2, HandlersInvariant, PTL DEF TSpec, RetriesDifferent

-----------------------------------------------------------------------------
(* The handlers and the table.                                             *)

\* A handler never asks for a balancer with the bit of every listed one set, on
\* which the bitset loop (main.go:308-320) would not end, although it checked the
\* bits (683) before it waited for the mutex.
THEOREM BitsetLoopEnds ==
    TSpec => [](\A c \in Conn : pc[c] = "retrying" => ~AllTried(tried[c]))
<1>1. HandlersInv => \A c \in Conn : pc[c] = "retrying" => ~AllTried(tried[c])
    BY DEF HandlersInv, Progress, AllTried
<1> QED BY <1>1, HandlersInvariant, PTL

\* Every step of tunnel mode is a step that LoadBalancer allows the table, or
\* leaves the table alone.
THEOREM TunnelsUseTheTable == TSpec => Spec
<1>1. TInit => Init
    BY DEF TInit
<1>2. HandlersInv /\ [TNext]_tunnelVars => [Next]_lbVars
    <2> SUFFICES ASSUME HandlersInv, [TNext]_tunnelVars PROVE [Next]_lbVars
        OBVIOUS
    <2> QED BY HandleUsesTable DEF TNext, Operate, Next, tunnelVars
<1> QED BY <1>1, <1>2, HandlersInvariant, PTL DEF TSpec, Spec

\* Hence what holds of the table holds in tunnel mode: no selection leaves the
\* slice's range or ends the process, and every quota is in phase.
THEOREM TunnelsKeepTheTable == TSpec => [](TurnsInRange /\ NoCrash /\ GlobalQuotaPhase)
<1>1. Configured # <<>> /\ Removable = {}
    BY TableAssumption
<1>2. (Spec => []TurnsInRange) /\ (Spec => []NoCrash)
    BY <1>1, TurnsAlwaysInRange, NeverCrashes
<1> QED BY <1>2, QuotaInPhase, TunnelsUseTheTable, PTL
=============================================================================
