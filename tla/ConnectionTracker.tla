------------------------- MODULE ConnectionTracker -------------------------
(***************************************************************************)
(* Admission and tracking of connections (main.go): handle_connection with *)
(* its semaphore, the sessions that it and the transparent proxy start,    *)
(* the table of active connections, its history and the byte counters.     *)
(*                                                                         *)
(* The table is guarded by connection_mutex, under which the counters of   *)
(* the balancers are guarded by `mutex` and those of the clients by        *)
(* client_traffic_mutex; the dashboard takes the last under the second.    *)
(* Neither mutex is reentrant: an owner that locks again waits for itself. *)
(* A critical section that takes no other mutex is a single step here, so  *)
(* client_traffic_mutex needs no variable.                                 *)
(*                                                                         *)
(* A connection is accounted to the balancer that had its index in lb_list *)
(* when it was selected. Balancers are added and removed meanwhile; a      *)
(* removal moves those behind it, and an index that is held may designate  *)
(* another balancer then, or none.                                         *)
(***************************************************************************)
EXTENDS Integers, FiniteSets, Sequences, SequencesExt, FiniteSetsExt

CONSTANTS
    Conn,            \* the connections, each accepted once
    Mode,            \* the kinds of connection that occur
    Dashboard,       \* the goroutine that serves the web dashboard
    Nobody,          \* the owner of a free mutex
    max_connections,
    max_goroutines,
    MaxWrites,       \* bound of the model: writes that are accounted for
    MaxBalancers     \* bound of the model: balancers; one is never removed

ASSUME ConnAssumption  == IsFiniteSet(Conn)
ASSUME ModeAssumption  == Mode \subseteq {"tunnel", "socks", "transparent"}
ASSUME LimitAssumption ==
    /\ max_connections \in Nat
    /\ max_goroutines \in Nat
    /\ max_goroutines \div 2 <= max_connections  \* both are 500 in the code
ASSUME BoundAssumption == MaxWrites \in Nat /\ MaxBalancers \in Nat \ {0}
ASSUME OwnerAssumption == Nobody \notin Conn \cup {Dashboard} /\ Dashboard \notin Conn

VARIABLES
    mode,               \* the kind of each connection; fixed
    handler,            \* handle_connection's goroutine for it
    session,            \* where the work on each connection is
    semaphore,          \* len(connection_semaphore)
    active_goroutines,
    active_connections, \* the keys of the table
    connection_history, \* the archived entries, oldest first
    discarded,          \* history variable: entries the archive dropped
    connection_mutex,   \* its owner
    mutex,              \* its owner
    bytes,              \* the three ledgers: in all, by balancer, by client
    lb_count,           \* len(lb_list)
    lb_index,           \* the index each connection is accounted to
    stranded            \* history variable: a removal left a connection that
                        \* has an index without a balancer at it

admission == <<handler, semaphore, active_goroutines>>
table     == <<active_connections, connection_history, discarded>>
locks     == <<connection_mutex, mutex>>
balancers == <<lb_count, lb_index, stranded>>
vars      == <<mode, session, admission, table, locks, bytes, balancers>>

Init ==
    /\ mode \in [Conn -> Mode]
    /\ handler = [c \in Conn |-> "none"]
    /\ session = [c \in Conn |-> IF mode[c] = "transparent" THEN "dialing" ELSE "arriving"]
    /\ semaphore = 0
    /\ active_goroutines = 0
    /\ active_connections = {}
    /\ connection_history = <<>>
    /\ discarded = {}
    /\ connection_mutex = Nobody
    /\ mutex = Nobody
    /\ bytes = [global |-> 0, lb |-> 0, client |-> 0]
    /\ lb_count \in 1 .. MaxBalancers
    /\ lb_index = [c \in Conn |-> 0]
    /\ stranded = FALSE

Go(c, from, to) ==
    /\ session[c] = from
    /\ session' = [session EXCEPT ![c] = to]
    /\ UNCHANGED mode

-----------------------------------------------------------------------------
(* handle_connection.                                                      *)

SemaphoreSize == max_goroutines \div 2

CheckGoroutines(c) ==
    /\ Go(c, "arriving", IF active_goroutines >= max_goroutines THEN "ended" ELSE "checked")
    /\ UNCHANGED <<admission, table, locks, bytes, balancers>>

\* The semaphore is tried, never waited for ...
Admit(c) ==
    /\ Go(c, "checked", "admitted")
    /\ semaphore < SemaphoreSize
    /\ handler' = [handler EXCEPT ![c] = "admitted"]
    /\ semaphore' = semaphore + 1
    /\ UNCHANGED <<active_goroutines, table, locks, bytes, balancers>>

\* ... and the handler counted after it has its slot.
Count(c) ==
    /\ Go(c, "admitted", IF mode[c] = "tunnel" THEN "dialing" ELSE "handshaking")
    /\ handler' = [handler EXCEPT ![c] = "running"]
    /\ active_goroutines' = active_goroutines + 1
    /\ UNCHANGED <<semaphore, table, locks, bytes, balancers>>

Reject(c) ==
    /\ Go(c, "checked", "ended")
    /\ semaphore = SemaphoreSize
    /\ UNCHANGED <<admission, table, locks, bytes, balancers>>

\* A SOCKS client that completes the handshake is served by a goroutine of its
\* own; one that does not is closed.
Handshake(c) ==
    /\ \E to \in {"dialing", "ended"} : Go(c, "handshaking", to)
    /\ UNCHANGED <<admission, table, locks, bytes, balancers>>

\* A tunnel session is part of the handler, a SOCKS session outlives it.
HandlerDoneAtDial(c) == session[c] # "handshaking"
HandlerDone(c) ==
    IF mode[c] = "tunnel" THEN session[c] = "ended" ELSE session[c] # "handshaking"

\* The deferred releases, the last deferred first.
Uncount(c) ==
    /\ handler[c] = "running"
    /\ HandlerDone(c)
    /\ handler' = [handler EXCEPT ![c] = "uncounted"]
    /\ active_goroutines' = active_goroutines - 1
    /\ UNCHANGED <<mode, session, semaphore, table, locks, bytes, balancers>>

Return(c) ==
    /\ handler[c] = "uncounted"
    /\ handler' = [handler EXCEPT ![c] = "returned"]
    /\ semaphore' = semaphore - 1
    /\ UNCHANGED <<mode, session, active_goroutines, table, locks, bytes, balancers>>

-----------------------------------------------------------------------------
(* The table and its history.                                              *)

\* The entries `gone` leave the table for the history, in some order; the
\* history keeps the newest max_connections.
ArchiveUntrimmed(gone) ==
    /\ active_connections' = active_connections \ gone
    /\ \E order \in SetToSeqs(gone) : connection_history' = connection_history \o order
    /\ UNCHANGED discarded
Archive(gone) ==
    /\ active_connections' = active_connections \ gone
    /\ \E order \in SetToSeqs(gone) :
          LET all  == connection_history \o order
              over == Max({0, Len(all) - max_connections})
          IN  /\ connection_history' = SubSeq(all, over + 1, Len(all))
              /\ discarded' = discarded \cup {all[i] : i \in 1 .. over}

\* remove_active_connection archives an entry unless the cleanup has.
RemovedAnyway(c) == {c}
Removed(c) == {c} \cap active_connections

\* cleanup_old_connections, from the 5-minute ticker: the entries for which no
\* write was counted for idle_timeout, any of them for all the model knows.
Cleanup ==
    /\ connection_mutex = Nobody
    /\ \E idle \in (SUBSET active_connections) \ {{}} : Archive(idle)
    /\ UNCHANGED <<mode, session, admission, locks, bytes, balancers>>

-----------------------------------------------------------------------------
(* A session: selection and dial, tracking, relay.                         *)

\* The selection, under `mutex`, is a step of LoadBalancer, which also says what
\* it does after a removal; in tunnel mode TunnelFailover repeats it.
Selectable == 0 .. lb_count - 1

Dial(c) ==
    /\ mutex = Nobody
    /\ \/ /\ Go(c, "dialing", "connected")
          /\ \E i \in Selectable : lb_index' = [lb_index EXCEPT ![c] = i]
       \/ /\ Go(c, "dialing", "ended")
          /\ UNCHANGED lb_index
    /\ UNCHANGED <<admission, table, locks, bytes, lb_count, stranded>>

\* add_active_connection takes the mutex ...
LockTable(c) ==
    /\ Go(c, "connected", "adding")
    /\ connection_mutex = Nobody
    /\ connection_mutex' = c
    /\ UNCHANGED <<admission, table, mutex, bytes, balancers>>

Full == Cardinality(active_connections) >= max_connections

Insert(c) ==
    /\ Go(c, "adding", "relaying")
    /\ ~Full
    /\ active_connections' = active_connections \cup {c}
    /\ connection_mutex' = Nobody
    /\ UNCHANGED <<admission, connection_history, discarded, mutex, bytes, balancers>>

\* ... and, when the table is full, calls cleanup_old_connections, whose first
\* statement locks the mutex its caller holds: nothing continues from here.
CleanUpInAdd(c) ==
    /\ Go(c, "adding", "locking again")
    /\ Full
    /\ UNCHANGED <<admission, table, locks, bytes, balancers>>

\* update_connection_traffic, after a write of either copy loop. The length of
\* lb_list is read without `mutex`, and the balancer's ledger left alone when
\* the index is past the end ...
InList(c) == lb_index[c] < lb_count

Account(c) ==
    /\ Go(c, "relaying", IF InList(c) THEN "accounting" ELSE "accounting client")
    /\ c \in active_connections
    /\ bytes.global < MaxWrites
    /\ connection_mutex = Nobody
    /\ connection_mutex' = c
    /\ bytes' = [bytes EXCEPT !.global = @ + 1]
    /\ UNCHANGED <<admission, table, mutex, balancers>>

\* ... otherwise `mutex` is waited for, with connection_mutex owned until the
\* client's counters are updated.
OwnerAfterLB(c) == Nobody
OwnerWhileAccounting(c) == c

AccountLB(c) ==
    /\ Go(c, "accounting", "accounting client")
    /\ mutex = Nobody
    /\ InList(c)
    /\ bytes' = [bytes EXCEPT !.lb = @ + 1]
    /\ connection_mutex' = OwnerWhileAccounting(c)
    /\ UNCHANGED <<admission, table, mutex, balancers>>

\* The balancer was removed while the goroutine waited: the index is out of
\* range, nothing recovers the copy loop, and the process ends.
Panic(c) ==
    /\ Go(c, "accounting", "panicked")
    /\ mutex = Nobody
    /\ ~InList(c)
    /\ UNCHANGED <<admission, table, locks, bytes, balancers>>

AccountClient(c) ==
    /\ Go(c, "accounting client", "relaying")
    /\ bytes' = [bytes EXCEPT !.client = @ + 1]
    /\ connection_mutex' = Nobody
    /\ UNCHANGED <<admission, table, mutex, balancers>>

\* The same for an entry the cleanup archived: nothing is counted any more.
AccountMiss(c) ==
    /\ session[c] = "relaying"
    /\ c \notin active_connections
    /\ connection_mutex = Nobody
    /\ UNCHANGED vars

\* Both ends are closed, by whichever copy loop ends first.
Close(c) ==
    /\ Go(c, "relaying", "closing")
    /\ UNCHANGED <<admission, table, locks, bytes, balancers>>

Untrack(c) ==
    /\ Go(c, "closing", "ended")
    /\ connection_mutex = Nobody
    /\ Archive(Removed(c))
    /\ lb_index' = [lb_index EXCEPT ![c] = 0]  \* gone with its entry
    /\ UNCHANGED <<admission, locks, bytes, lb_count, stranded>>

-----------------------------------------------------------------------------
(* getDashboardData: the balancers and the counters of their clients under *)
(* `mutex`, then, without it, the connections.                             *)

ShowBalancers ==
    /\ mutex = Nobody
    /\ mutex' = Dashboard
    /\ UNCHANGED <<mode, session, admission, table, connection_mutex, bytes, balancers>>

ShowConnectionsLocked ==
    /\ mutex = Dashboard
    /\ connection_mutex = Nobody
    /\ mutex' = Nobody
    /\ UNCHANGED <<mode, session, admission, table, connection_mutex, bytes, balancers>>
BalancersShown ==
    /\ mutex = Dashboard
    /\ mutex' = Nobody
    /\ UNCHANGED <<mode, session, admission, table, connection_mutex, bytes, balancers>>

-----------------------------------------------------------------------------
(* The dashboard's requests to add and to remove a balancer.               *)

\* Where a connection holds an index: it is used for every write.
Indexed == {"connected", "adding", "locking again", "relaying", "accounting",
            "accounting client", "closing"}

AddLB ==
    /\ mutex = Nobody
    /\ lb_count < MaxBalancers
    /\ lb_count' = lb_count + 1
    /\ UNCHANGED <<mode, session, admission, table, locks, bytes, lb_index, stranded>>

RemoveLB ==
    /\ mutex = Nobody
    /\ lb_count > 1
    /\ lb_count' = lb_count - 1
    /\ stranded' = (stranded \/ \E c \in Conn : session[c] \in Indexed /\ lb_index[c] = lb_count - 1)
    /\ UNCHANGED <<mode, session, admission, table, locks, bytes, lb_index>>

-----------------------------------------------------------------------------
Panicked == \E c \in Conn : session[c] = "panicked"

\* What a goroutine does without waiting for its peers to send or hang up.
Work(c) ==
    /\ ~Panicked
    /\ \/ CheckGoroutines(c) \/ Admit(c) \/ Count(c) \/ Reject(c) \/ Uncount(c) \/ Return(c)
       \/ Handshake(c) \/ Dial(c)
       \/ AccountLB(c) \/ Panic(c) \/ AccountClient(c)

\* What it does once it is given connection_mutex.
Locked(c) ==
    /\ ~Panicked
    /\ LockTable(c) \/ Insert(c) \/ CleanUpInAdd(c) \/ Untrack(c)

Peers(c) ==
    /\ ~Panicked
    /\ Account(c) \/ AccountMiss(c) \/ Close(c)

Others ==
    /\ ~Panicked
    /\ Cleanup \/ ShowBalancers \/ AddLB \/ RemoveLB

FinishShowing == ~Panicked /\ BalancersShown

\* Nothing happens after the process has ended.
Over == Panicked /\ UNCHANGED vars

Next ==
    \/ \E c \in Conn : Work(c) \/ Locked(c) \/ Peers(c)
    \/ Others
    \/ FinishShowing
    \/ Over

\* Goroutines are scheduled, handshakes and dials time out, and a sync.Mutex
\* hands itself to a goroutine that has waited for it, hence strong fairness.
Fairness ==
    /\ \A c \in Conn : SF_vars(Work(c)) /\ SF_vars(Locked(c))
    /\ WF_vars(FinishShowing)

Spec == Init /\ [][Next]_vars /\ Fairness

-----------------------------------------------------------------------------
(* Properties.                                                             *)

\* The types, and the limits: no more handlers than slots, no more entries in
\* the table or in the history than max_connections.
TypeOK ==
    /\ mode \in [Conn -> Mode]
    /\ handler \in [Conn -> {"none", "admitted", "running", "uncounted", "returned"}]
    /\ session \in [Conn -> {"arriving", "checked", "admitted", "handshaking", "dialing",
                             "connected", "adding", "locking again", "relaying", "accounting",
                             "accounting client", "panicked", "closing", "ended"}]
    /\ semaphore \in 0 .. SemaphoreSize
    /\ active_goroutines \in 0 .. semaphore
    /\ active_connections \in SUBSET Conn /\ Cardinality(active_connections) <= max_connections
    /\ connection_history \in Seq(Conn) /\ Len(connection_history) <= max_connections
    /\ discarded \in SUBSET Conn
    /\ connection_mutex \in Conn \cup {Nobody}
    /\ mutex \in {Dashboard, Nobody}
    /\ bytes \in [global : Nat, lb : Nat, client : Nat]
    /\ lb_count \in 1 .. MaxBalancers
    /\ lb_index \in [Conn -> 0 .. MaxBalancers - 1]
    /\ stranded \in BOOLEAN

\* The goroutine that holds connection_mutex never waits for itself
\* (main.go:389-391 and 496).
NoSelfDeadlock == \A c \in Conn : session[c] # "locking again"

\* Tunnel sessions keep their slot of the semaphore until they have left the
\* table, so that they alone never fill it: a goroutine comes to lock
\* connection_mutex twice only when a SOCKS or a transparent connection is in
\* the table or about to enter it.
OnlyUnlimitedModesFill ==
    \A c \in Conn :
       session[c] = "locking again" =>
          \E d \in active_connections \cup {c} : mode[d] # "tunnel"

\* An entry is archived once, when it leaves the table, although the relay's
\* end and the periodic cleanup both remove entries.
ArchivedOnce ==
    /\ IsInjective(connection_history)
    /\ active_connections \cap (ToSet(connection_history) \cup discarded) = {}
    /\ ToSet(connection_history) \cap discarded = {}

\* Whenever no goroutine owns connection_mutex, as many bytes are counted by
\* client as in all, and by balancer never more: the same as long as no removal
\* of a balancer left an open connection with an index past the end of lb_list
\* (main.go:455).
LedgersAgree ==
    connection_mutex = Nobody =>
       /\ bytes.client = bytes.global
       /\ bytes.lb <= bytes.global
       /\ ~stranded => bytes.lb = bytes.global

\* When all connections are tunnels, one that is relayed is tracked first, and
\* one that hangs up leaves the table and gives its slot back: sessions,
\* cleanup and dashboard never wait for one another in a circle. The only other
\* end is that of the process, by a panic of the accounting.
AllTunnels == \A c \in Conn : mode[c] = "tunnel"

TunnelsComeAndGo ==
    \A c \in Conn :
       /\ (AllTunnels /\ session[c] = "connected") ~> (session[c] = "relaying" \/ Panicked)
       /\ (AllTunnels /\ session[c] = "closing") ~>
             ((c \notin active_connections /\ handler[c] = "returned") \/ Panicked)
=============================================================================
