--------------------------- MODULE TunnelFailover ---------------------------
(***************************************************************************)
(* Tunnel mode: one goroutine per client runs handle_tunnel_connection     *)
(* (main.go), which dials the balancer it was given and, while that fails, *)
(* asks for another one with a bitset of those it has tried.  Only the     *)
(* selection holds `mutex`; the number of balancers is read, and the       *)
(* bitset is filled, between selections, while other clients select and    *)
(* the operator toggles and adds balancers.                                *)
(*                                                                         *)
(* No balancer is removed here: a removal shifts the slice under the       *)
(* pointer and the index a handler holds, and is checked in LoadBalancer.  *)
(***************************************************************************)
EXTENDS LoadBalancer

CONSTANTS
    Conn,       \* the clients' connections
    SourceOf,   \* the source IP of each
    Alive       \* the balancers whose address answers a dial

ASSUME SourceOfAssumption  == SourceOf \in [Conn -> Source]
ASSUME TableAssumption    == Configured # <<>> /\ Removable = {}

VARIABLES
    pc,         \* where each handler is
    lb,         \* i, the index of the balancer the handler was given
    tried,      \* _bitset: the balancers whose dial failed
    complete,   \* there is nothing left to try
    arrived,    \* history: how many balancers were listed at the first selection
    failed      \* history: the balancers whose dial failed

handlers == <<pc, lb, tried, complete, arrived, failed>>
tunnelVars == <<lbVars, handlers>>

Settled(c) == pc[c] \in {"piping", "gave up"}

TInit ==
    /\ Init
    /\ pc       = [c \in Conn |-> "accepted"]
    /\ lb       = [c \in Conn |-> 0]
    /\ tried    = [c \in Conn |-> {}]
    /\ complete = [c \in Conn |-> FALSE]
    /\ arrived  = [c \in Conn |-> 0]
    /\ failed   = [c \in Conn |-> {}]

-----------------------------------------------------------------------------
\* get_enhanced_load_balancer on behalf of c, which learns the index.
Given(c, bits) ==
    \E from \in Indices :
       \/ \E pick \in Indices : Select(SourceOf[c], bits, from, pick) /\ lb' = [lb EXCEPT ![c] = pick]
       \/ SelectFallback(SourceOf[c], bits, from) /\ lb' = [lb EXCEPT ![c] = 0]

FirstSelection(c) ==
    /\ pc[c] = "accepted"
    /\ Given(c, {})
    /\ pc' = [pc EXCEPT ![c] = "selected"]
    /\ arrived' = [arrived EXCEPT ![c] = Len(lb_list)]
    /\ UNCHANGED <<tried, complete, failed>>

\* complete := 1 == len(lb_list), read after the selection released the mutex.
CountBalancers(c) ==
    /\ pc[c] = "selected"
    /\ complete' = [complete EXCEPT ![c] = Len(lb_list) = 1]
    /\ pc' = [pc EXCEPT ![c] = "dialing"]
    /\ UNCHANGED <<lbVars, lb, tried, arrived, failed>>

DialSucceeds(c) ==
    /\ pc[c] = "dialing"
    /\ At(lb[c]).address \in Alive
    /\ pc' = [pc EXCEPT ![c] = "piping"]
    /\ UNCHANGED <<lbVars, lb, tried, complete, arrived, failed>>

\* _bitset & mask == mask, the mask of the balancers listed now.
AllTriedButLast(bits) == Indices \ {Len(lb_list) - 1} \subseteq bits
AllTried(bits) == Indices \subseteq bits

\* The bit of a failed balancer is set, unless there was only one to try.
MarkedOneBased(c) == IF complete[c] THEN tried[c] ELSE tried[c] \cup {lb[c] + 1}
Marked(c) == IF complete[c] THEN tried[c] ELSE tried[c] \cup {lb[c]}

DialFails(c) ==
    /\ pc[c] = "dialing"
    /\ At(lb[c]).address \notin Alive
    /\ tried' = [tried EXCEPT ![c] = Marked(c)]
    /\ complete' = [complete EXCEPT ![c] = @ \/ AllTried(Marked(c))]
    /\ pc' = [pc EXCEPT ![c] = IF complete'[c] THEN "gave up" ELSE "retrying"]
    /\ failed' = [failed EXCEPT ![c] = @ \cup {lb[c]}]
    /\ UNCHANGED <<lbVars, lb, arrived>>

Retry(c) ==
    /\ pc[c] = "retrying"
    /\ Given(c, tried[c])
    /\ pc' = [pc EXCEPT ![c] = "dialing"]
    /\ UNCHANGED <<tried, complete, arrived, failed>>

Handle(c) ==
    \/ FirstSelection(c)
    \/ CountBalancers(c)
    \/ DialSucceeds(c)
    \/ DialFails(c)
    \/ Retry(c)

Operate == Manage /\ UNCHANGED handlers

TNext == (\E c \in Conn : Handle(c)) \/ Operate

\* The runtime schedules every goroutine, a dial ends by the timeout of the
\* system, and sync.Mutex hands itself to a goroutine that has waited 1 ms.
TSpec == TInit /\ [][TNext]_tunnelVars /\ \A c \in Conn : WF_tunnelVars(Handle(c))

-----------------------------------------------------------------------------
(* Properties.                                                             *)

\* The types of the handlers' variables; an index and a bit designate a balancer.
HandlersTypeOK ==
    /\ pc \in [Conn -> {"accepted", "selected", "dialing", "retrying", "piping", "gave up"}]
    /\ lb \in [Conn -> Indices]
    /\ tried \in [Conn -> SUBSET Indices]
    /\ complete \in [Conn -> BOOLEAN]
    /\ arrived \in [Conn -> Nat]
    /\ failed \in [Conn -> SUBSET Indices]

\* A client is turned away (main.go:691-693) only when every balancer that was
\* listed when it arrived has been dialled for it and has failed, although the
\* table grows, and the number of balancers is read without the mutex, between
\* the selection and the decision.
GivesUpHonestly ==
    \A c \in Conn : pc[c] = "gave up" => 0 .. arrived[c] - 1 \subseteq failed[c]

\* While a balancer that answers stays enabled, or while all are enabled, every
\* client is served or turned away: the turn that other clients of its source
\* move, and disabled balancers between tried ones, do not keep it retrying.
Hope == Enabled = Indices \/ \E i \in Enabled : At(i).address \in Alive

EventuallySettled ==
    (<>[]Hope) => \A c \in Conn : (pc[c] = "selected") ~> Settled(c)

\* A retry (main.go:687) is given a balancer that has not failed yet, wherever other
\* clients have left the turn, as long as the operator has disabled none of those.
RetriesDifferent ==
    [][ \A c \in Conn :
          pc[c] = "retrying" /\ pc'[c] = "dialing" /\ Indices \ failed[c] \subseteq Enabled
             => lb'[c] \notin failed[c] ]_tunnelVars
=============================================================================
