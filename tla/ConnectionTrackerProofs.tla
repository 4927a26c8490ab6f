----------------------- MODULE ConnectionTrackerProofs -----------------------
(***************************************************************************)
(* For any number of connections and any limits: the slots of the          *)
(* semaphore bound the tunnels in the table of active connections, so that *)
(* tunnels alone never make a goroutine lock connection_mutex twice; the   *)
(* three byte ledgers agree whenever that mutex is free, unless a removal  *)
(* left an open connection without a balancer at its index; and an entry   *)
(* is archived once, in a table and a history within their limits.         *)
(*                                                                         *)
(* The inductive invariant, TrackerInv, has a part for each of these, one  *)
(* for who owns connection_mutex and one for the indices that connections  *)
(* hold; a step that moves no session in or out of a critical section      *)
(* keeps the parts by QuietKeeps.                                          *)
(***************************************************************************)
EXTENDS ConnectionTracker, FiniteSetTheorems, SequenceTheorems, TLAPS

\* The handlers that have a slot of the semaphore, and those that are counted.
Slotted == {c \in Conn : handler[c] \in {"admitted", "running", "uncounted"}}
Counted == {c \in Conn : handler[c] = "running"}

\* Where a session is in update_connection_traffic, where it owns
\* connection_mutex, and where its entry may be listed.
Accounting == {"accounting", "accounting client", "panicked"}
Owning     == {"adding", "locking again"} \cup Accounting
Listing    == {"relaying", "closing"} \cup Accounting

Handlers == {"none", "admitted", "running", "uncounted", "returned"}

States == {"arriving", "checked", "admitted", "handshaking", "dialing", "connected",
           "adding", "locking again", "relaying", "accounting", "accounting client",
           "panicked", "closing", "ended"}

Ledgers == [global : Nat, lb : Nat, client : Nat]

TypeInv ==
    /\ mode \in [Conn -> Mode]
    /\ handler \in [Conn -> Handlers]
    /\ session \in [Conn -> States]
    /\ active_connections \in SUBSET Conn
    /\ connection_mutex \in Conn \cup {Nobody}
    /\ mutex \in {Dashboard, Nobody}
    /\ bytes \in Ledgers
    /\ lb_count \in 1 .. MaxBalancers
    /\ lb_index \in [Conn -> 0 .. MaxBalancers - 1]
    /\ stranded \in BOOLEAN

OwnerInv == \A c \in Conn : session[c] \in Owning => connection_mutex = c

ListedInv == \A c \in active_connections : session[c] \in Listing

\* The semaphore counts the slots taken, and a tunnel has one from its
\* admission to its end.
SlotInv ==
    /\ semaphore = Cardinality(Slotted)
    /\ semaphore <= SemaphoreSize
    /\ active_goroutines = Cardinality(Counted)
    /\ \A c \in Conn : session[c] \in {"arriving", "checked"} => handler[c] = "none"
    /\ \A c \in Conn : session[c] = "admitted" => handler[c] = "admitted"
    /\ \A c \in Conn : mode[c] = "tunnel" =>
          /\ session[c] # "handshaking"
          /\ session[c] \notin {"arriving", "checked", "ended"} => handler[c] \in {"admitted", "running"}

\* A connection's index is that of a balancer until a removal strands one.
BalancerInv ==
    /\ ~stranded => \A c \in Conn : session[c] \in Indexed => InList(c)
    /\ \A c \in Conn : session[c] = "panicked" => stranded

\* The ledgers when `due` of the client's entries and `dueLB` of the
\* balancer's are still to be made.
Balanced(due, dueLB) ==
    /\ bytes.global = bytes.client + due
    /\ bytes.lb + dueLB <= bytes.global
    /\ ~stranded => bytes.lb + dueLB = bytes.global

\* The ledger entries that the owner of connection_mutex has still to make.
LedgerInv ==
    /\ \A c \in Conn : session[c] = "accounting" => Balanced(1, 1)
    /\ \A c \in Conn : session[c] = "accounting client" => Balanced(1, 0)
    /\ (\A c \in Conn : session[c] \notin Accounting) => Balanced(0, 0)

\* The table and the history are within their limits, an entry is in one of
\* them, and one that was archived will not be listed again.
Archived == ToSet(connection_history) \cup discarded

HistoryInv ==
    /\ connection_history \in Seq(Conn) /\ Len(connection_history) <= max_connections
    /\ discarded \in SUBSET Conn
    /\ Cardinality(active_connections) <= max_connections
    /\ ArchivedOnce
    /\ \A c \in Archived : session[c] \in Listing \cup {"ended"}

TrackerInv ==
    /\ TypeInv /\ OwnerInv /\ ListedInv /\ SlotInv /\ BalancerInv /\ LedgerInv
    /\ OnlyUnlimitedModesFill /\ HistoryInv

-----------------------------------------------------------------------------
(* The table and the semaphore.                                            *)

\* There are finitely many connections, so finitely many handlers.
LEMMA HandlersFinite == IsFiniteSet(Slotted) /\ IsFiniteSet(Counted)
  <1>1. Slotted \subseteq Conn /\ Counted \subseteq Conn
    BY DEF Slotted, Counted
  <1> QED  BY <1>1, ConnAssumption, FS_Subset

\* When all entries, and the connection that looks, are tunnels, each of them
\* has a slot of its own, so that the table has room.
LEMMA TunnelsLeaveRoom ==
  ASSUME TrackerInv, NEW c \in Conn, session[c] = "adding",
         \A d \in active_connections \cup {c} : mode[d] = "tunnel"
  PROVE  ~Full
  <1>1. c \notin active_connections
    BY DEF TrackerInv, ListedInv, Listing, Accounting
  <1>2. active_connections \cup {c} \subseteq Slotted
    <2> SUFFICES ASSUME NEW d \in active_connections \cup {c}  PROVE d \in Slotted
      OBVIOUS
    <2>1. d \in Conn /\ mode[d] = "tunnel"
      BY DEF TrackerInv, TypeInv
    <2>2. session[d] \in Listing \cup {"adding"}
      BY DEF TrackerInv, ListedInv
    <2> QED
      BY <2>1, <2>2 DEF TrackerInv, SlotInv, Slotted, Listing, Accounting
  <1>3. IsFiniteSet(active_connections) /\ IsFiniteSet(active_connections \cup {c})
    BY <1>2, HandlersFinite, FS_Subset
  <1>4. Cardinality(active_connections \cup {c}) = Cardinality(active_connections) + 1
    BY <1>1, <1>3, FS_AddElement
  <1>5. Cardinality(active_connections \cup {c}) <= Cardinality(Slotted)
    BY <1>2, HandlersFinite, FS_Subset
  <1>6. /\ Cardinality(active_connections) \in Nat
        /\ Cardinality(active_connections \cup {c}) \in Nat
        /\ Cardinality(Slotted) \in Nat
    BY <1>3, HandlersFinite, FS_CardinalityType
  <1>7. Cardinality(Slotted) <= SemaphoreSize
    BY DEF TrackerInv, SlotInv
  <1>8. SemaphoreSize <= max_connections /\ SemaphoreSize \in Int /\ max_connections \in Nat
    BY LimitAssumption DEF SemaphoreSize
  <1> QED
    BY <1>4, <1>5, <1>6, <1>7, <1>8 DEF Full

\* The strengthened invariant holds at start-up.
LEMMA TrackerInit == Init => TrackerInv
  <1> SUFFICES ASSUME Init  PROVE TrackerInv
    OBVIOUS
  <1>1. TypeInv
    <2>1. /\ mode \in [Conn -> Mode] /\ handler \in [Conn -> Handlers]
          /\ session \in [Conn -> States] /\ active_connections \in SUBSET Conn
      BY DEF Init, Handlers, States
    <2>2. /\ connection_mutex \in Conn \cup {Nobody} /\ mutex \in {Dashboard, Nobody}
          /\ bytes \in Ledgers /\ stranded \in BOOLEAN
      BY DEF Init, Ledgers
    <2>3. lb_count \in 1 .. MaxBalancers /\ lb_index \in [Conn -> 0 .. MaxBalancers - 1]
      <3>1. 0 \in 0 .. MaxBalancers - 1
        BY BoundAssumption
      <3> QED
        BY <3>1 DEF Init
    <2> QED
      BY <2>1, <2>2, <2>3 DEF TypeInv
  <1>2. OwnerInv /\ ListedInv /\ OnlyUnlimitedModesFill
    BY DEF Init, OwnerInv, Owning, Accounting, ListedInv, OnlyUnlimitedModesFill
  <1>3. SlotInv
    <2>1. Slotted = {} /\ Counted = {}
      BY DEF Init, Slotted, Counted
    <2>2. Cardinality(Slotted) = 0 /\ Cardinality(Counted) = 0 /\ 0 <= SemaphoreSize
      BY <2>1, FS_EmptySet, LimitAssumption DEF SemaphoreSize
    <2> QED
      BY <2>2 DEF Init, SlotInv
  <1>4. HistoryInv
    <2>1. /\ connection_history = <<>> /\ discarded = {} /\ active_connections = {}
          /\ connection_history \in Seq(Conn) /\ Len(connection_history) = 0
      BY EmptySeq DEF Init
    <2>2. DOMAIN connection_history = {} /\ Cardinality(active_connections) = 0
      BY <2>1, LenProperties, FS_EmptySet
    <2>3. ToSet(connection_history) = {}
      BY <2>2 DEF ToSet
    <2>4. ArchivedOnce
      BY <2>1, <2>2, <2>3 DEF ArchivedOnce, IsInjective
    <2> QED
      BY <2>1, <2>2, <2>3, <2>4, LimitAssumption DEF HistoryInv, Archived
  <1>5. LedgerInv /\ BalancerInv
    <2>1. \A c \in Conn : session[c] \notin Accounting /\ session[c] \notin Indexed
      BY DEF Init, Accounting, Indexed
    <2>2. Balanced(0, 0)
      BY DEF Init, Balanced
    <2> QED
      BY <2>1, <2>2 DEF LedgerInv, BalancerInv, Accounting
  <1> QED
    BY <1>1, <1>2, <1>3, <1>4, <1>5 DEF TrackerInv

-----------------------------------------------------------------------------
(* What keeps each part.                                                   *)

\* A step that moves c and leaves every handler its slot.
LEMMA SlotsKept ==
  ASSUME TypeInv, SlotInv, NEW c \in Conn, NEW to,
         session' = [session EXCEPT ![c] = to], UNCHANGED <<mode, admission>>,
         to \in {"arriving", "checked"} => session[c] \in {"arriving", "checked"},
         to # "admitted",
         mode[c] = "tunnel" =>
            /\ to # "handshaking"
            /\ session[c] \in {"arriving", "checked", "ended"}
                  => to \in {"arriving", "checked", "ended"}
  PROVE  SlotInv'
  <1>1. Slotted' = Slotted /\ Counted' = Counted /\ SemaphoreSize' = SemaphoreSize
    BY DEF Slotted, Counted, SemaphoreSize, admission
  <1>2. \A d \in Conn : session'[d] = IF d = c THEN to ELSE session[d]
    BY DEF TypeInv
  <1>3. UNCHANGED <<mode, handler, semaphore, active_goroutines>>
    BY DEF admission
  <1> QED
    BY <1>1, <1>2, <1>3 DEF SlotInv

\* The same for a step that moves nobody.
LEMMA SlotsUntouched ==
  ASSUME SlotInv, UNCHANGED <<mode, session, admission>>
  PROVE  SlotInv'
  BY DEF SlotInv, Slotted, Counted, SemaphoreSize, admission

\* One more, and one fewer, in a finite set of handlers.
LEMMA OneMore ==
  ASSUME NEW S, NEW c, IsFiniteSet(S), c \notin S
  PROVE  Cardinality(S \cup {c}) = Cardinality(S) + 1 /\ Cardinality(S) \in Nat
  BY FS_AddElement, FS_CardinalityType

LEMMA OneFewer ==
  ASSUME NEW S, NEW c \in S, IsFiniteSet(S)
  PROVE  Cardinality(S \ {c}) = Cardinality(S) - 1 /\ Cardinality(S) \in Nat
  BY FS_RemoveElement, FS_CardinalityType

\* Taking a slot: those taken stay as many as the handlers that have one.
LEMMA AdmitSlots ==
  ASSUME TypeInv, SlotInv, NEW c \in Conn, Admit(c)
  PROVE  SlotInv'
  <1>1. /\ session[c] = "checked" /\ handler[c] = "none"
        /\ session' = [session EXCEPT ![c] = "admitted"] /\ handler' = [handler EXCEPT ![c] = "admitted"]
        /\ semaphore < SemaphoreSize /\ semaphore' = semaphore + 1
        /\ UNCHANGED <<mode, active_goroutines>>
    BY DEF Admit, Go, SlotInv
  <1>2. /\ \A d \in Conn : session'[d] = IF d = c THEN "admitted" ELSE session[d]
        /\ \A d \in Conn : handler'[d] = IF d = c THEN "admitted" ELSE handler[d]
    <2>1. session \in [Conn -> States] /\ handler \in [Conn -> Handlers]
      BY DEF TypeInv
    <2> QED
      BY <1>1, <2>1
  <1>3. c \notin Slotted /\ Slotted' = Slotted \cup {c} /\ Counted' = Counted
    BY <1>1, <1>2 DEF Slotted, Counted
  <1>4. Cardinality(Slotted') = Cardinality(Slotted) + 1 /\ Cardinality(Slotted) \in Nat
    BY <1>3, HandlersFinite, OneMore
  <1>5. semaphore = Cardinality(Slotted) /\ active_goroutines = Cardinality(Counted)
    BY DEF SlotInv
  <1>6. SemaphoreSize \in Int /\ SemaphoreSize' = SemaphoreSize
    BY LimitAssumption DEF SemaphoreSize
  <1>7. semaphore' = Cardinality(Slotted') /\ semaphore' <= SemaphoreSize
    BY <1>1, <1>4, <1>5, <1>6
  <1>8. active_goroutines' = Cardinality(Counted')
    BY <1>1, <1>3, <1>5
  <1> QED
    BY <1>1, <1>2, <1>6, <1>7, <1>8 DEF SlotInv

\* Counting a handler that has its slot.
LEMMA CountSlots ==
  ASSUME TypeInv, SlotInv, NEW c \in Conn, Count(c)
  PROVE  SlotInv'
  <1> DEFINE to == IF mode[c] = "tunnel" THEN "dialing" ELSE "handshaking"
  <1>1. /\ session[c] = "admitted" /\ handler[c] = "admitted"
        /\ session' = [session EXCEPT ![c] = to] /\ handler' = [handler EXCEPT ![c] = "running"]
        /\ active_goroutines' = active_goroutines + 1
        /\ UNCHANGED <<mode, semaphore>>
    BY DEF Count, Go, SlotInv
  <1>0. /\ to \notin {"arriving", "checked", "admitted", "ended"}
        /\ mode[c] = "tunnel" => to # "handshaking"
    OBVIOUS
  <1> HIDE DEF to
  <1>2. /\ \A d \in Conn : session'[d] = IF d = c THEN to ELSE session[d]
        /\ \A d \in Conn : handler'[d] = IF d = c THEN "running" ELSE handler[d]
    <2>1. session \in [Conn -> States] /\ handler \in [Conn -> Handlers]
      BY DEF TypeInv
    <2> QED
      BY <1>1, <2>1
  <1>3. c \notin Counted /\ Counted' = Counted \cup {c} /\ Slotted' = Slotted
    BY <1>1, <1>2 DEF Slotted, Counted
  <1>4. Cardinality(Counted') = Cardinality(Counted) + 1
    BY <1>3, HandlersFinite, OneMore
  <1>5. active_goroutines' = Cardinality(Counted')
    BY <1>1, <1>4 DEF SlotInv
  <1>6. SemaphoreSize' = SemaphoreSize
    BY DEF SemaphoreSize
  <1> QED
    BY <1>0, <1>1, <1>2, <1>3, <1>5, <1>6 DEF SlotInv

\* A handler that is done is counted no more, and then gives its slot back; that
\* of a tunnel is done when the tunnel has ended.
LEMMA UncountSlots ==
  ASSUME TypeInv, SlotInv, NEW c \in Conn, Uncount(c)
  PROVE  SlotInv'
  <1>1. /\ handler[c] = "running" /\ handler' = [handler EXCEPT ![c] = "uncounted"]
        /\ active_goroutines' = active_goroutines - 1
        /\ UNCHANGED <<mode, session, semaphore>>
        /\ mode[c] = "tunnel" => session[c] = "ended"
    BY DEF Uncount, HandlerDone
  <1>2. \A d \in Conn : handler'[d] = IF d = c THEN "uncounted" ELSE handler[d]
    BY <1>1 DEF TypeInv
  <1>3. c \in Counted /\ Counted' = Counted \ {c} /\ Slotted' = Slotted
    BY <1>1, <1>2 DEF Slotted, Counted
  <1>4. Cardinality(Counted') = Cardinality(Counted) - 1
    BY <1>3, HandlersFinite, OneFewer
  <1>5. active_goroutines' = Cardinality(Counted')
    BY <1>1, <1>4 DEF SlotInv
  <1>6. SemaphoreSize' = SemaphoreSize
    BY DEF SemaphoreSize
  <1> QED
    BY <1>1, <1>2, <1>3, <1>5, <1>6 DEF SlotInv

LEMMA ReturnSlots ==
  ASSUME TypeInv, SlotInv, NEW c \in Conn, Return(c)
  PROVE  SlotInv'
  <1>1. /\ handler[c] = "uncounted" /\ handler' = [handler EXCEPT ![c] = "returned"]
        /\ semaphore' = semaphore - 1
        /\ UNCHANGED <<mode, session, active_goroutines>>
    BY DEF Return
  <1>2. \A d \in Conn : handler'[d] = IF d = c THEN "returned" ELSE handler[d]
    BY <1>1 DEF TypeInv
  <1>3. c \in Slotted /\ Slotted' = Slotted \ {c} /\ Counted' = Counted
    BY <1>1, <1>2 DEF Slotted, Counted
  <1>4. Cardinality(Slotted') = Cardinality(Slotted) - 1 /\ Cardinality(Slotted) \in Nat
    BY <1>3, HandlersFinite, OneFewer
  <1>5. semaphore = Cardinality(Slotted) /\ semaphore <= SemaphoreSize
    BY DEF SlotInv
  <1>6. SemaphoreSize \in Int /\ SemaphoreSize' = SemaphoreSize
    BY LimitAssumption DEF SemaphoreSize
  <1>7. semaphore' = Cardinality(Slotted') /\ semaphore' <= SemaphoreSize
    BY <1>1, <1>4, <1>5, <1>6
  <1>8. mode[c] = "tunnel" => session[c] \in {"arriving", "checked", "ended"}
    BY <1>1 DEF SlotInv
  <1> QED
    BY <1>1, <1>2, <1>3, <1>6, <1>7, <1>8 DEF SlotInv

\* One session owns connection_mutex, and none does while nobody has it.
LEMMA Owners ==
  ASSUME OwnerInv
  PROVE  /\ connection_mutex = Nobody => \A d \in Conn : session[d] \notin Owning
         /\ \A c, d \in Conn : session[c] \in Owning /\ d # c => session[d] \notin Owning
  BY OwnerAssumption DEF OwnerInv

\* The ledgers are as they were when no session starts or ends an accounting.
LEMMA LedgerKept ==
  ASSUME LedgerInv, UNCHANGED bytes, stranded => stranded',
         \A d \in Conn : \/ session'[d] = session[d]
                         \/ session[d] \notin Accounting /\ session'[d] \notin Accounting
  PROVE  LedgerInv'
  <1>1. /\ Balanced(0, 0) => Balanced(0, 0)'
        /\ Balanced(1, 0) => Balanced(1, 0)'
        /\ Balanced(1, 1) => Balanced(1, 1)'
    BY DEF Balanced
  <1> QED
    BY <1>1 DEF LedgerInv, Accounting

\* Held indices are those of balancers as before when no balancer comes or goes
\* and no session gets an index.
LEMMA BalancersKept ==
  ASSUME BalancerInv, UNCHANGED balancers,
         \A d \in Conn : /\ session'[d] \in Indexed => session[d] \in Indexed
                         /\ session'[d] = "panicked" => session[d] = "panicked"
  PROVE  BalancerInv'
  BY DEF BalancerInv, balancers, InList

\* The table's limit and the history are as they were when neither changes.
LEMMA HistoryKept ==
  ASSUME HistoryInv, UNCHANGED table,
         \A d \in Conn : session[d] \in Listing \cup {"ended"} => session'[d] \in Listing \cup {"ended"}
  PROVE  HistoryInv'
  <1>1. UNCHANGED <<active_connections, connection_history, discarded>>
    BY DEF table
  <1>2. ArchivedOnce' /\ Archived' = Archived
    BY <1>1 DEF HistoryInv, ArchivedOnce, Archived
  <1>3. Archived \subseteq Conn
    <2>1. \A i \in DOMAIN connection_history : connection_history[i] \in Conn
      BY LenProperties DEF HistoryInv
    <2> QED
      BY <2>1 DEF HistoryInv, Archived, ToSet
  <1> QED
    BY <1>1, <1>2, <1>3 DEF HistoryInv

\* Sessions move, if at all, outside the critical sections and forwards.
Quiet ==
  \A d \in Conn :
     \/ session'[d] = session[d]
     \/ /\ session[d] \notin Owning /\ session'[d] \notin Owning
        /\ session[d] # "ended"
        /\ session[d] \in Listing => session'[d] \in Listing

LEMMA QuietKeeps ==
  ASSUME TrackerInv, Quiet, UNCHANGED <<mode, table, connection_mutex, bytes>>,
         stranded => stranded'
  PROVE  (OwnerInv /\ ListedInv /\ LedgerInv /\ OnlyUnlimitedModesFill /\ HistoryInv)'
  <1>0. TypeInv /\ OwnerInv /\ ListedInv /\ LedgerInv /\ OnlyUnlimitedModesFill /\ HistoryInv
    BY DEF TrackerInv
  <1>1. OwnerInv'
    BY <1>0 DEF OwnerInv, Quiet
  <1>2. ListedInv'
    <2>1. active_connections' = active_connections /\ active_connections \subseteq Conn
      BY <1>0 DEF table, TypeInv
    <2> QED
      BY <1>0, <2>1 DEF ListedInv, Quiet
  <1>3. LedgerInv'
    BY <1>0, LedgerKept DEF Quiet, Owning
  <1>4. OnlyUnlimitedModesFill'
    <2>1. \A d \in Conn : session'[d] = "locking again" => session[d] = "locking again"
      BY DEF Quiet, Owning
    <2> QED
      BY <1>0, <2>1 DEF OnlyUnlimitedModesFill, table
  <1>5. HistoryInv'
    <2>1. \A d \in Conn : session[d] \in Listing \cup {"ended"} => session'[d] \in Listing \cup {"ended"}
      BY DEF Quiet
    <2> QED
      BY <1>0, <2>1, HistoryKept
  <1> QED
    BY <1>1, <1>2, <1>3, <1>4, <1>5

\* The move of one session.
LEMMA Moved ==
  ASSUME TypeInv, NEW c \in Conn, NEW from, NEW to, Go(c, from, to)
  PROVE  /\ session[c] = from /\ session'[c] = to /\ UNCHANGED mode
         /\ \A d \in Conn \ {c} : session'[d] = session[d]
         /\ to \in States => session' \in [Conn -> States]
  BY DEF TypeInv, Go

-----------------------------------------------------------------------------
(* The archive.                                                            *)

\* A function on 1..n is a sequence of that length.
LEMMA EnumerationIsSeq ==
  ASSUME NEW S, NEW n \in Nat, NEW f \in [1 .. n -> S]
  PROVE  f \in Seq(S) /\ Len(f) = n
  <1>1. f \in Seq(S)
    BY SeqDef
  <1>2. DOMAIN f = 1 .. Len(f) /\ Len(f) \in Nat
    BY <1>1, LenProperties
  <1>3. 1 .. n = 1 .. Len(f)
    BY <1>2
  <1>4. Len(f) = n
    BY <1>2, <1>3
  <1> QED
    BY <1>1, <1>4

LEMMA MaxOfTwo ==
  ASSUME NEW a \in Int, NEW b \in Int
  PROVE  Max({a, b}) = IF a >= b THEN a ELSE b
  <1> DEFINE m == IF a >= b THEN a ELSE b
  <1>1. m \in {a, b} /\ \A y \in {a, b} : m >= y
    OBVIOUS
  <1>2. \A x \in {a, b} : (\A y \in {a, b} : x >= y) => x = m
    OBVIOUS
  <1> HIDE DEF m
  <1>3. \A x : (x \in {a, b} /\ \A y \in {a, b} : x >= y) <=> x = m
    BY <1>1, <1>2
  <1> QED
    BY <1>3 DEF Max, m

\* What the archive drops of a history of n entries, to keep at most m.
LEMMA Dropped ==
  ASSUME NEW n \in Nat, NEW m \in Nat, NEW over, over = Max({0, n - m})
  PROVE  over \in 0 .. n /\ n - over <= m
  <1>1. over = IF 0 >= n - m THEN 0 ELSE n - m
    BY MaxOfTwo
  <1> QED
    BY <1>1

\* The elements of a sequence from one on.
LEMMA LastElements ==
  ASSUME NEW S, NEW all \in Seq(S), NEW first \in 1 .. Len(all) + 1
  PROVE  /\ SubSeq(all, first, Len(all)) \in Seq(S)
         /\ Len(SubSeq(all, first, Len(all))) = Len(all) - first + 1
         /\ \A i \in 1 .. Len(all) - first + 1 : SubSeq(all, first, Len(all))[i] = all[first + i - 1]
  <1> DEFINE n == Len(all)
  <1>1. n \in Nat /\ first \in 1 .. n + 1 /\ \A i \in 1 .. n : all[i] \in S
    BY LenProperties
  <1> HIDE DEF n
  <1>2. \A i \in first .. n : all[i] \in S
    BY <1>1
  <1>3. first \in Int /\ n \in Int /\ (first <= n \/ n - first + 1 = 0)
    BY <1>1
  <1>4. /\ SubSeq(all, first, n) \in Seq(S)
        /\ Len(SubSeq(all, first, n)) = IF first <= n THEN n - first + 1 ELSE 0
        /\ \A i \in 1 .. n - first + 1 : SubSeq(all, first, n)[i] = all[first + i - 1]
    BY <1>2, <1>3, SubSeqProperties
  <1>5. Len(SubSeq(all, first, n)) = n - first + 1
    BY <1>3, <1>4
  <1> QED
    BY <1>4, <1>5 DEF n

\* Entries that leave the table are appended to the history, each once.
LEMMA Appended ==
  ASSUME TypeInv, HistoryInv, NEW gone \in SUBSET active_connections, NEW order \in SetToSeqs(gone)
  PROVE  LET all == connection_history \o order
         IN  /\ all \in Seq(Conn)
             /\ \A i \in 1 .. Len(all) :
                   /\ all[i] \in ToSet(connection_history) \cup gone
                   /\ \A j \in 1 .. Len(all) : all[i] = all[j] => i = j
  <1> DEFINE old == connection_history
             all == old \o order
             n   == Cardinality(gone)
  <1>1. IsFiniteSet(gone) /\ n \in Nat /\ gone \subseteq Conn
    BY ConnAssumption, FS_Subset, FS_CardinalityType DEF TypeInv
  <1>2. order \in [1 .. n -> gone] /\ \A i, j \in 1 .. n : i # j => order[i] # order[j]
    BY DEF SetToSeqs
  <1> HIDE DEF n
  <1>3. order \in Seq(Conn) /\ Len(order) = n
    <2>1. order \in [1 .. n -> Conn]
      BY <1>1, <1>2
    <2> QED
      BY <1>1, <2>1, EnumerationIsSeq
  <1>4. /\ old \in Seq(Conn) /\ Len(old) \in Nat /\ DOMAIN old = 1 .. Len(old)
        /\ \A i, j \in 1 .. Len(old) : old[i] = old[j] => i = j
        /\ \A i \in 1 .. Len(old) : old[i] \in ToSet(old)
    <2>1. old \in Seq(Conn) /\ IsInjective(old)
      BY DEF HistoryInv, ArchivedOnce
    <2>2. Len(old) \in Nat /\ DOMAIN old = 1 .. Len(old)
      BY <2>1, LenProperties
    <2> QED
      BY <2>1, <2>2 DEF IsInjective, ToSet
  <1>5. ToSet(old) \cap gone = {}
    BY DEF HistoryInv, ArchivedOnce
  <1>6. /\ all \in Seq(Conn) /\ Len(all) = Len(old) + n
        /\ \A i \in 1 .. Len(old) + n : all[i] = IF i <= Len(old) THEN old[i] ELSE order[i - Len(old)]
    <2> HIDE DEF old
    <2>1. /\ all \in Seq(Conn) /\ Len(all) = Len(old) + Len(order)
          /\ \A i \in 1 .. Len(old) + Len(order) :
                all[i] = IF i <= Len(old) THEN old[i] ELSE order[i - Len(old)]
      <3>1. old \in Seq(Conn) /\ order \in Seq(Conn)
        BY <1>3, <1>4
      <3> QED
        BY <3>1, ConcatProperties
    <2> HIDE DEF all
    <2> QED
      BY <1>3, <2>1
  <1> DEFINE l == Len(old)
  <1> HIDE DEF all, old, l
  <1>7. l \in Nat /\ n \in Nat
    BY <1>1, <1>4 DEF l
  <1>8. ASSUME NEW i \in 1 .. l + n
        PROVE  /\ i <= l => i \in 1 .. l /\ all[i] = old[i] /\ all[i] \in ToSet(old)
               /\ i > l => i - l \in 1 .. n /\ all[i] = order[i - l] /\ all[i] \in gone
    <2>1. all[i] = IF i <= l THEN old[i] ELSE order[i - l]
      BY <1>6 DEF l
    <2>2. CASE i <= l
      <3>1. i \in 1 .. l /\ ~(i > l)
        BY <1>7, <2>2
      <3> QED
        BY <1>4, <2>1, <2>2, <3>1 DEF l
    <2>3. CASE i > l
      <3>1. i - l \in 1 .. n /\ ~(i <= l)
        BY <1>7, <2>3
      <3> QED
        BY <1>2, <2>1, <3>1
    <2> QED
      BY <1>7, <2>2, <2>3
  <1>9. ASSUME NEW i \in 1 .. l + n, NEW j \in 1 .. l + n, all[i] = all[j]
        PROVE  i = j
    <2>1. CASE i <= l /\ j <= l
      BY <1>4, <1>8, <1>9, <2>1 DEF l
    <2>2. CASE i > l /\ j > l
      <3>1. i - l = j - l
        BY <1>2, <1>8, <1>9, <2>2
      <3> QED
        BY <1>7, <3>1
    <2>3. CASE (i <= l /\ j > l) \/ (i > l /\ j <= l)
      BY <1>5, <1>8, <1>9, <2>3
    <2> QED
      BY <1>7, <2>1, <2>2, <2>3
  <1>10. \A i \in 1 .. l + n : all[i] \in ToSet(old) \cup gone
    BY <1>7, <1>8
  <1> QED
    BY <1>6, <1>9, <1>10 DEF all, old, l

\* An archive keeps the limits, and archives each entry once.
LEMMA ArchiveKeeps ==
  ASSUME TypeInv, HistoryInv, NEW gone \in SUBSET active_connections, Archive(gone),
         \A d \in Conn : session[d] \in Listing \cup {"ended"} => session'[d] \in Listing \cup {"ended"},
         \A d \in gone : session'[d] \in Listing \cup {"ended"}
  PROVE  HistoryInv'
  <1> DEFINE old == connection_history
  <1>1. PICK order \in SetToSeqs(gone) :
           LET all  == old \o order
               over == Max({0, Len(all) - max_connections})
           IN  /\ connection_history' = SubSeq(all, over + 1, Len(all))
               /\ discarded' = discarded \cup {all[i] : i \in 1 .. over}
    BY DEF Archive
  <1> DEFINE all  == old \o order
             n    == Len(all)
             over == Max({0, n - max_connections})
             new  == SubSeq(all, over + 1, n)
  <1>2. connection_history' = new /\ discarded' = discarded \cup {all[i] : i \in 1 .. over}
    BY <1>1
  <1>3. all \in Seq(Conn)
    BY Appended
  <1>4. \A i \in 1 .. n : all[i] \in ToSet(old) \cup gone
    BY Appended
  <1>5. \A i, j \in 1 .. n : all[i] = all[j] => i = j
    BY Appended
  <1> HIDE DEF all
  <1>6. /\ over \in 0 .. n /\ new \in Seq(Conn) /\ Len(new) = n - over /\ Len(new) <= max_connections
        /\ \A i \in 1 .. n - over : new[i] = all[over + i]
    <2>1. over \in 0 .. Len(all) /\ Len(all) - over <= max_connections
      <3>1. Len(all) \in Nat /\ max_connections \in Nat
        BY <1>3, LenProperties, LimitAssumption
      <3> QED
        BY <3>1, Dropped
    <2> DEFINE first == over + 1
               tail  == SubSeq(all, first, Len(all))
    <2>2. new = tail
      OBVIOUS
    <2>3. Len(all) \in Nat
      BY <1>3, LenProperties
    <2> HIDE DEF over, new
    <2>4. /\ first \in 1 .. Len(all) + 1 /\ Len(all) - first + 1 = Len(all) - over
          /\ \A i \in 1 .. Len(all) - over : first + i - 1 = over + i
      BY <2>1, <2>3
    <2> HIDE DEF first
    <2>5. /\ tail \in Seq(Conn)
          /\ Len(tail) = Len(all) - first + 1
          /\ \A i \in 1 .. Len(all) - first + 1 : tail[i] = all[first + i - 1]
      BY <1>3, <2>4, LastElements
    <2> HIDE DEF tail
    <2>6. /\ tail \in Seq(Conn) /\ Len(tail) = Len(all) - over
          /\ \A i \in 1 .. Len(all) - over : tail[i] = all[over + i]
      BY <2>4, <2>5
    <2> QED
      BY <2>1, <2>2, <2>6
  <1>7. n \in Nat /\ DOMAIN new = 1 .. n - over
    <2>1. n \in Nat
      BY <1>3, LenProperties
    <2>2. DOMAIN new = 1 .. Len(new)
      BY <1>6, LenProperties
    <2> QED
      BY <1>6, <2>1, <2>2
  <1> HIDE DEF n, over, new
  <1>8. over \in Nat /\ \A i \in 1 .. n - over : over + i \in 1 .. n /\ over + i > over
    BY <1>6, <1>7
  <1>9. \A i \in 1 .. over : i \in 1 .. n /\ ~(i > over)
    BY <1>6, <1>7
  <1>10. \A x \in ToSet(new) : \E i \in 1 .. n : i > over /\ x = all[i]
    BY <1>6, <1>7, <1>8 DEF ToSet
  <1>11. \A x \in discarded' : x \in discarded \/ \E i \in 1 .. n : ~(i > over) /\ x = all[i]
    BY <1>2, <1>9
  <1>12. IsInjective(new)
    <2> SUFFICES ASSUME NEW i \in 1 .. n - over, NEW j \in 1 .. n - over, new[i] = new[j]
                 PROVE  i = j
      BY <1>7 DEF IsInjective
    <2>1. over + i = over + j
      BY <1>5, <1>6, <1>8
    <2> QED
      BY <1>8, <2>1
  <1>13. /\ active_connections' = active_connections \ gone
         /\ active_connections \cap (ToSet(old) \cup discarded) = {} /\ ToSet(old) \cap discarded = {}
    BY DEF Archive, HistoryInv, ArchivedOnce
  <1>14. ToSet(new) \cup discarded' \subseteq ToSet(old) \cup discarded \cup gone
    BY <1>4, <1>10, <1>11
  <1>15. active_connections' \cap (ToSet(new) \cup discarded') = {}
    BY <1>13, <1>14
  <1>16. ToSet(new) \cap discarded' = {}
    <2> SUFFICES ASSUME NEW x \in ToSet(new), x \in discarded'  PROVE FALSE
      OBVIOUS
    <2>1. PICK i \in 1 .. n : i > over /\ x = all[i]
      BY <1>10
    <2>2. x \notin discarded
      BY <1>4, <1>13, <2>1
    <2>3. PICK j \in 1 .. n : ~(j > over) /\ x = all[j]
      BY <1>11, <2>2
    <2> QED
      BY <1>5, <2>1, <2>3
  <1>17. Cardinality(active_connections') <= max_connections
    <2>1. IsFiniteSet(active_connections)
      BY ConnAssumption, FS_Subset DEF TypeInv
    <2>2. /\ Cardinality(active_connections') <= Cardinality(active_connections)
          /\ Cardinality(active_connections') \in Nat /\ Cardinality(active_connections) \in Nat
      BY <1>13, <2>1, FS_Subset, FS_CardinalityType
    <2>3. Cardinality(active_connections) <= max_connections
      BY DEF HistoryInv
    <2> QED
      BY <2>2, <2>3, LimitAssumption
  <1>18. ToSet(old) \cup discarded \cup gone \subseteq Conn
    <2>1. \A i \in DOMAIN old : old[i] \in Conn
      BY LenProperties DEF HistoryInv
    <2> QED
      BY <2>1 DEF HistoryInv, ToSet, TypeInv
  <1>19. \A d \in ToSet(old) \cup discarded \cup gone : session'[d] \in Listing \cup {"ended"}
    <2>1. \A d \in ToSet(old) \cup discarded : session[d] \in Listing \cup {"ended"}
      BY DEF HistoryInv, Archived
    <2> HIDE DEF old
    <2> QED
      BY <1>18, <2>1
  <1>20. Len(new) <= max_connections
    BY <1>6
  <1>21. ArchivedOnce'
    BY <1>2, <1>12, <1>15, <1>16 DEF ArchivedOnce
  <1>22. \A d \in Archived' : session'[d] \in Listing \cup {"ended"}
    BY <1>2, <1>14, <1>19 DEF Archived
  <1>23. discarded' \subseteq Conn
    BY <1>14, <1>18
  <1> QED
    BY <1>2, <1>6, <1>17, <1>20, <1>21, <1>22, <1>23 DEF HistoryInv
-----------------------------------------------------------------------------
(* The steps.                                                              *)

\* Steps that leave the table, connection_mutex and the ledgers alone.
LEMMA QuietStep ==
  ASSUME TrackerInv, TypeInv', SlotInv', BalancerInv', Quiet,
         UNCHANGED <<mode, table, connection_mutex, bytes>>, stranded => stranded'
  PROVE  TrackerInv'
  BY QuietKeeps DEF TrackerInv

\* The same for a session that goes on before it is tracked, or ends.
LEMMA EarlyStep ==
  ASSUME TrackerInv, NEW c \in Conn, NEW from, NEW to \in States, Go(c, from, to),
         from \notin Listing \cup Owning \cup {"ended"}, to \notin Owning \cup Indexed,
         handler' \in [Conn -> Handlers], SlotInv',
         UNCHANGED <<table, locks, bytes, balancers>>
  PROVE  TrackerInv'
  <1>1. TypeInv /\ BalancerInv
    BY DEF TrackerInv
  <1>2. Quiet
    BY <1>1, Moved DEF Quiet
  <1>3. TypeInv'
    BY <1>1, Moved DEF TypeInv, table, locks, balancers
  <1>4. BalancerInv'
    <2>1. to # "panicked"
      BY DEF Owning, Accounting
    <2> QED
      BY <1>1, <2>1, Moved, BalancersKept
  <1> QED
    BY <1>2, <1>3, <1>4, QuietStep DEF locks, balancers, Go

\* add_active_connection.
LEMMA LockTableKeeps ==
  ASSUME TrackerInv, NEW c \in Conn, LockTable(c)
  PROVE  TrackerInv'
  <1>0. /\ TypeInv /\ OwnerInv /\ ListedInv /\ SlotInv /\ BalancerInv /\ LedgerInv
        /\ OnlyUnlimitedModesFill /\ HistoryInv
    BY DEF TrackerInv
  <1>1. /\ session[c] = "connected" /\ session'[c] = "adding" /\ UNCHANGED mode
        /\ \A d \in Conn \ {c} : session'[d] = session[d]
        /\ session' \in [Conn -> States]
    BY <1>0, Moved DEF LockTable, States
  <1>2. connection_mutex = Nobody /\ connection_mutex' = c /\ UNCHANGED <<admission, table, mutex, bytes, balancers>>
    BY DEF LockTable
  <1>3. TypeInv'
    BY <1>0, <1>1, <1>2 DEF TypeInv, admission, table, balancers
  <1>4. OwnerInv'
    BY <1>0, <1>1, <1>2, Owners DEF OwnerInv
  <1>5. ListedInv'
    BY <1>0, <1>1, <1>2 DEF ListedInv, Listing, Accounting, table, TypeInv
  <1>6. SlotInv'
    BY <1>0, SlotsKept DEF LockTable, Go
  <1>7. LedgerInv'
    BY <1>0, <1>1, <1>2, LedgerKept DEF Accounting, balancers
  <1>8. OnlyUnlimitedModesFill'
    BY <1>0, <1>1, <1>2 DEF OnlyUnlimitedModesFill, table
  <1>9. HistoryInv'
    BY <1>0, <1>1, <1>2, HistoryKept DEF Listing, Accounting
  <1>10. BalancerInv'
    BY <1>0, <1>1, <1>2, BalancersKept DEF Indexed
  <1> QED
    BY <1>3, <1>4, <1>5, <1>6, <1>7, <1>8, <1>9, <1>10 DEF TrackerInv

LEMMA InsertKeeps ==
  ASSUME TrackerInv, NEW c \in Conn, Insert(c)
  PROVE  TrackerInv'
  <1>0. /\ TypeInv /\ OwnerInv /\ ListedInv /\ SlotInv /\ BalancerInv /\ LedgerInv
        /\ OnlyUnlimitedModesFill /\ HistoryInv
    BY DEF TrackerInv
  <1>1. /\ session[c] = "adding" /\ session'[c] = "relaying" /\ UNCHANGED mode
        /\ \A d \in Conn \ {c} : session'[d] = session[d]
        /\ session' \in [Conn -> States]
    BY <1>0, Moved DEF Insert, States
  <1>2. /\ ~Full /\ active_connections' = active_connections \cup {c} /\ connection_mutex' = Nobody
        /\ UNCHANGED <<admission, connection_history, discarded, mutex, bytes, balancers>>
    BY DEF Insert
  <1>3. \A d \in Conn : session'[d] \notin Owning
    <2>1. session[c] \in Owning /\ session'[c] \notin Owning
      BY <1>1 DEF Owning, Accounting
    <2> QED
      BY <1>0, <1>1, <2>1, Owners
  <1>4. TypeInv'
    BY <1>0, <1>1, <1>2 DEF TypeInv, admission, balancers
  <1>5. OwnerInv'
    BY <1>3 DEF OwnerInv
  <1>6. ListedInv'
    BY <1>0, <1>1, <1>2 DEF ListedInv, Listing, Accounting, TypeInv
  <1>7. SlotInv'
    BY <1>0, SlotsKept DEF Insert, Go
  <1>8. LedgerInv'
    BY <1>0, <1>1, <1>2, LedgerKept DEF Accounting, balancers
  <1>9. OnlyUnlimitedModesFill'
    BY <1>3 DEF OnlyUnlimitedModesFill, Owning, Accounting
  <1>10. HistoryInv'
    <2>1. c \notin Archived
      BY <1>0, <1>1 DEF HistoryInv, Listing, Accounting
    <2>2. ArchivedOnce' /\ Archived' = Archived
      BY <1>0, <1>2, <2>1 DEF HistoryInv, ArchivedOnce, Archived
    <2>3. Cardinality(active_connections') <= max_connections
      <3>1. IsFiniteSet(active_connections)
        BY <1>0, ConnAssumption, FS_Subset DEF TypeInv
      <3>2. /\ Cardinality(active_connections) \in Nat
            /\ Cardinality(active_connections') \in {Cardinality(active_connections),
                                                    Cardinality(active_connections) + 1}
        BY <1>2, <3>1, FS_CardinalityType, FS_AddElement
      <3>3. ~(Cardinality(active_connections) >= max_connections) /\ max_connections \in Nat
        BY <1>2, LimitAssumption DEF Full
      <3> QED
        BY <3>2, <3>3
    <2>4. \A d \in Archived : session'[d] \in Listing \cup {"ended"}
      <3>1. \A d \in Archived : session[d] \in Listing \cup {"ended"} /\ d # c
        BY <1>0, <2>1 DEF HistoryInv
      <3>2. Archived \subseteq Conn
        <4>1. \A i \in DOMAIN connection_history : connection_history[i] \in Conn
          BY <1>0, LenProperties DEF HistoryInv
        <4> QED
          BY <1>0, <4>1 DEF HistoryInv, Archived, ToSet
      <3> QED
        BY <1>1, <3>1, <3>2
    <2> QED
      BY <1>0, <1>2, <2>2, <2>3, <2>4 DEF HistoryInv
  <1>11. BalancerInv'
    BY <1>0, <1>1, <1>2, BalancersKept DEF Indexed
  <1> QED
    BY <1>4, <1>5, <1>6, <1>7, <1>8, <1>9, <1>10, <1>11 DEF TrackerInv

\* The self-deadlock: only for, or behind, a session that has no slot.
LEMMA CleanUpInAddKeeps ==
  ASSUME TrackerInv, NEW c \in Conn, CleanUpInAdd(c)
  PROVE  TrackerInv'
  <1>0. /\ TypeInv /\ OwnerInv /\ ListedInv /\ SlotInv /\ BalancerInv /\ LedgerInv
        /\ OnlyUnlimitedModesFill /\ HistoryInv
    BY DEF TrackerInv
  <1>1. /\ session[c] = "adding" /\ session'[c] = "locking again" /\ UNCHANGED mode
        /\ \A d \in Conn \ {c} : session'[d] = session[d]
        /\ session' \in [Conn -> States]
    BY <1>0, Moved DEF CleanUpInAdd, States
  <1>2. UNCHANGED <<admission, table, locks, bytes, balancers>>
    BY DEF CleanUpInAdd
  <1>3. TypeInv'
    BY <1>0, <1>1, <1>2 DEF TypeInv, admission, table, locks, balancers
  <1>4. OwnerInv'
    BY <1>0, <1>1, <1>2 DEF OwnerInv, Owning, Accounting, locks
  <1>5. ListedInv'
    BY <1>0, <1>1, <1>2 DEF ListedInv, Listing, Accounting, table, TypeInv
  <1>6. SlotInv'
    BY <1>0, SlotsKept DEF CleanUpInAdd, Go
  <1>7. LedgerInv'
    BY <1>0, <1>1, <1>2, LedgerKept DEF Accounting, balancers
  <1>8. OnlyUnlimitedModesFill'
    <2>1. \E d \in active_connections \cup {c} : mode[d] # "tunnel"
      BY <1>1, TunnelsLeaveRoom DEF CleanUpInAdd
    <2> QED
      BY <1>0, <1>1, <1>2, <2>1 DEF OnlyUnlimitedModesFill, table
  <1>9. HistoryInv'
    BY <1>0, <1>1, <1>2, HistoryKept DEF Listing, Accounting
  <1>10. BalancerInv'
    BY <1>0, <1>1, <1>2, BalancersKept DEF Indexed
  <1> QED
    BY <1>3, <1>4, <1>5, <1>6, <1>7, <1>8, <1>9, <1>10 DEF TrackerInv

\* What the steps of update_connection_traffic have in common.
LEMMA AccountingKeeps ==
  ASSUME TrackerInv, NEW c \in Conn, NEW from \in Listing, NEW to \in Listing, Go(c, from, to),
         UNCHANGED <<admission, table, mutex, balancers>>, connection_mutex' \in Conn \cup {Nobody},
         OwnerInv', LedgerInv', BalancerInv', bytes' \in Ledgers
  PROVE  TrackerInv'
  <1>0. /\ TypeInv /\ ListedInv /\ SlotInv /\ OnlyUnlimitedModesFill /\ HistoryInv
    BY DEF TrackerInv
  <1>1. /\ session[c] = from /\ session'[c] = to /\ UNCHANGED mode
        /\ \A d \in Conn \ {c} : session'[d] = session[d]
        /\ session' \in [Conn -> States]
    BY <1>0, Moved DEF Listing, Accounting, States
  <1>2. TypeInv'
    BY <1>0, <1>1 DEF TypeInv, admission, table, balancers
  <1>3. ListedInv'
    BY <1>0, <1>1 DEF ListedInv, table, TypeInv
  <1>4. SlotInv'
    BY <1>0, SlotsKept DEF Go, Listing, Accounting
  <1>5. OnlyUnlimitedModesFill'
    BY <1>0, <1>1 DEF OnlyUnlimitedModesFill, Listing, Accounting, table
  <1>6. HistoryInv'
    BY <1>0, <1>1, HistoryKept
  <1> QED
    BY <1>2, <1>3, <1>4, <1>5, <1>6 DEF TrackerInv

\* One more in a ledger.
LEMMA Counting ==
  ASSUME bytes \in Ledgers
  PROVE  /\ bytes.global \in Nat /\ bytes.lb \in Nat /\ bytes.client \in Nat
         /\ bytes' = [bytes EXCEPT !.global = @ + 1] =>
               bytes' \in Ledgers /\ bytes'.global = bytes.global + 1
                  /\ bytes'.lb = bytes.lb /\ bytes'.client = bytes.client
         /\ bytes' = [bytes EXCEPT !.lb = @ + 1] =>
               bytes' \in Ledgers /\ bytes'.lb = bytes.lb + 1
                  /\ bytes'.global = bytes.global /\ bytes'.client = bytes.client
         /\ bytes' = [bytes EXCEPT !.client = @ + 1] =>
               bytes' \in Ledgers /\ bytes'.client = bytes.client + 1
                  /\ bytes'.global = bytes.global /\ bytes'.lb = bytes.lb
  BY DEF Ledgers

LEMMA AccountKeeps ==
  ASSUME TrackerInv, NEW c \in Conn, Account(c)
  PROVE  TrackerInv'
  <1> DEFINE to == IF InList(c) THEN "accounting" ELSE "accounting client"
  <1>0. TypeInv /\ OwnerInv /\ BalancerInv /\ LedgerInv
    BY DEF TrackerInv
  <1>1. /\ Go(c, "relaying", to) /\ session[c] = "relaying" /\ session'[c] = to
        /\ \A d \in Conn \ {c} : session'[d] = session[d]
    BY <1>0, Moved DEF Account
  <1>2. /\ connection_mutex = Nobody /\ connection_mutex' = c /\ bytes \in Ledgers
        /\ bytes' = [bytes EXCEPT !.global = @ + 1]
        /\ UNCHANGED <<admission, table, mutex, balancers>>
    BY <1>0 DEF Account, TypeInv
  <1>3. \A d \in Conn : session[d] \notin Owning
    BY <1>0, <1>2, Owners
  <1>4. Balanced(0, 0)
    BY <1>0, <1>3 DEF LedgerInv, Owning
  <1>5. /\ bytes.global \in Nat /\ bytes.lb \in Nat /\ bytes.client \in Nat
        /\ bytes' \in Ledgers /\ bytes'.global = bytes.global + 1
        /\ bytes'.lb = bytes.lb /\ bytes'.client = bytes.client
    BY <1>2, Counting
  <1>6. stranded' = stranded /\ (InList(c) \/ stranded)
    BY <1>0, <1>1, <1>2 DEF BalancerInv, Indexed, balancers
  <1>7. Balanced(1, 1)'
    BY <1>4, <1>5, <1>6 DEF Balanced
  <1>8. stranded => Balanced(1, 0)'
    BY <1>4, <1>5, <1>6 DEF Balanced
  <1>9. LedgerInv'
    <2>1. \A d \in Conn \ {c} : session'[d] \notin Accounting
      BY <1>1, <1>3 DEF Owning
    <2>2. to \in Accounting
      BY DEF Accounting
    <2>3. CASE InList(c)
      BY <1>1, <1>7, <2>1, <2>2, <2>3 DEF LedgerInv, Accounting
    <2>4. CASE ~InList(c)
      BY <1>1, <1>6, <1>8, <2>1, <2>2, <2>4 DEF LedgerInv, Accounting
    <2> QED
      BY <2>3, <2>4
  <1>10. OwnerInv'
    BY <1>1, <1>2, <1>3 DEF OwnerInv
  <1>11. BalancerInv'
    BY <1>0, <1>1, <1>2, BalancersKept DEF Indexed
  <1>12. to \in Listing /\ "relaying" \in Listing
    BY DEF Listing, Accounting
  <1> HIDE DEF to
  <1> QED
    BY <1>1, <1>2, <1>5, <1>9, <1>10, <1>11, <1>12, AccountingKeeps

LEMMA AccountLBKeeps ==
  ASSUME TrackerInv, NEW c \in Conn, AccountLB(c)
  PROVE  TrackerInv'
  <1>0. TypeInv /\ OwnerInv /\ BalancerInv /\ LedgerInv
    BY DEF TrackerInv
  <1>1. /\ session[c] = "accounting" /\ session'[c] = "accounting client"
        /\ \A d \in Conn \ {c} : session'[d] = session[d]
    BY <1>0, Moved DEF AccountLB
  <1>2. /\ connection_mutex' = c /\ bytes \in Ledgers
        /\ bytes' = [bytes EXCEPT !.lb = @ + 1]
        /\ UNCHANGED <<admission, table, mutex, balancers>>
    BY <1>0 DEF AccountLB, OwnerWhileAccounting, TypeInv
  <1>3. \A d \in Conn \ {c} : session[d] \notin Owning
    <2>1. session[c] \in Owning
      BY <1>1 DEF Owning, Accounting
    <2> QED
      BY <1>0, <2>1, Owners
  <1>4. Balanced(1, 1)
    BY <1>0, <1>1 DEF LedgerInv
  <1>5. /\ bytes.global \in Nat /\ bytes.lb \in Nat /\ bytes.client \in Nat
        /\ bytes' \in Ledgers /\ bytes'.lb = bytes.lb + 1
        /\ bytes'.global = bytes.global /\ bytes'.client = bytes.client
    BY <1>2, Counting
  <1>6. Balanced(1, 0)'
    <2>1. stranded' = stranded
      BY <1>2 DEF balancers
    <2> QED
      BY <1>4, <1>5, <2>1 DEF Balanced
  <1>7. LedgerInv'
    BY <1>1, <1>3, <1>6 DEF LedgerInv, Owning, Accounting
  <1>8. OwnerInv'
    BY <1>1, <1>2, <1>3 DEF OwnerInv
  <1>9. BalancerInv'
    BY <1>0, <1>1, <1>2, BalancersKept DEF Indexed
  <1> QED
    BY <1>2, <1>5, <1>7, <1>8, <1>9, AccountingKeeps DEF AccountLB, Listing, Accounting

\* Only a removal puts an index past the end.
LEMMA PanicKeeps ==
  ASSUME TrackerInv, NEW c \in Conn, Panic(c)
  PROVE  TrackerInv'
  <1>0. TypeInv /\ OwnerInv /\ BalancerInv /\ LedgerInv
    BY DEF TrackerInv
  <1>1. /\ session[c] = "accounting" /\ session'[c] = "panicked"
        /\ \A d \in Conn \ {c} : session'[d] = session[d]
    BY <1>0, Moved DEF Panic
  <1>2. ~InList(c) /\ UNCHANGED <<admission, table, locks, bytes, balancers>>
    BY DEF Panic
  <1>3. \A d \in Conn \ {c} : session[d] \notin Owning
    <2>1. session[c] \in Owning
      BY <1>1 DEF Owning, Accounting
    <2> QED
      BY <1>0, <2>1, Owners
  <1>4. stranded' /\ stranded
    BY <1>0, <1>1, <1>2 DEF BalancerInv, Indexed, balancers
  <1>5. LedgerInv'
    BY <1>1, <1>3 DEF LedgerInv, Owning, Accounting
  <1>6. OwnerInv'
    BY <1>0, <1>1, <1>2 DEF OwnerInv, Owning, Accounting, locks
  <1>7. BalancerInv'
    BY <1>4 DEF BalancerInv
  <1>8. bytes' \in Ledgers /\ connection_mutex' \in Conn \cup {Nobody} /\ UNCHANGED mutex
    BY <1>0, <1>2 DEF TypeInv, locks
  <1> QED
    BY <1>2, <1>5, <1>6, <1>7, <1>8, AccountingKeeps DEF Panic, Listing, Accounting

LEMMA AccountClientKeeps ==
  ASSUME TrackerInv, NEW c \in Conn, AccountClient(c)
  PROVE  TrackerInv'
  <1>0. TypeInv /\ OwnerInv /\ BalancerInv /\ LedgerInv
    BY DEF TrackerInv
  <1>1. /\ session[c] = "accounting client" /\ session'[c] = "relaying"
        /\ \A d \in Conn \ {c} : session'[d] = session[d]
    BY <1>0, Moved DEF AccountClient
  <1>2. /\ connection_mutex' = Nobody /\ bytes \in Ledgers
        /\ bytes' = [bytes EXCEPT !.client = @ + 1]
        /\ UNCHANGED <<admission, table, mutex, balancers>>
    BY <1>0 DEF AccountClient, TypeInv
  <1>3. \A d \in Conn : session'[d] \notin Owning
    <2>1. session[c] \in Owning /\ session'[c] \notin Owning
      BY <1>1 DEF Owning, Accounting
    <2> QED
      BY <1>0, <1>1, <2>1, Owners
  <1>4. Balanced(1, 0)
    BY <1>0, <1>1 DEF LedgerInv
  <1>5. /\ bytes.global \in Nat /\ bytes.lb \in Nat /\ bytes.client \in Nat
        /\ bytes' \in Ledgers /\ bytes'.client = bytes.client + 1
        /\ bytes'.global = bytes.global /\ bytes'.lb = bytes.lb
    BY <1>2, Counting
  <1>6. Balanced(0, 0)'
    <2>1. stranded' = stranded
      BY <1>2 DEF balancers
    <2> QED
      BY <1>4, <1>5, <2>1 DEF Balanced
  <1>7. LedgerInv'
    BY <1>3, <1>6 DEF LedgerInv, Owning, Accounting
  <1>8. OwnerInv'
    BY <1>3 DEF OwnerInv
  <1>9. BalancerInv'
    BY <1>0, <1>1, <1>2, BalancersKept DEF Indexed
  <1> QED
    BY <1>2, <1>5, <1>7, <1>8, <1>9, AccountingKeeps DEF AccountClient, Listing, Accounting

\* remove_active_connection and cleanup_old_connections.
LEMMA UntrackKeeps ==
  ASSUME TrackerInv, NEW c \in Conn, Untrack(c)
  PROVE  TrackerInv'
  <1>0. /\ TypeInv /\ OwnerInv /\ ListedInv /\ SlotInv /\ BalancerInv /\ LedgerInv /\ HistoryInv
    BY DEF TrackerInv
  <1>1. /\ session[c] = "closing" /\ session'[c] = "ended" /\ UNCHANGED mode
        /\ \A d \in Conn \ {c} : session'[d] = session[d]
        /\ session' \in [Conn -> States]
    BY <1>0, Moved DEF Untrack, States
  <1>2. /\ connection_mutex = Nobody /\ UNCHANGED <<admission, locks, bytes, lb_count, stranded>>
        /\ active_connections' = active_connections \ {c} /\ lb_index' = [lb_index EXCEPT ![c] = 0]
    BY DEF Untrack, Archive, Removed
  <1>3. \A d \in Conn : session'[d] \notin Owning
    BY <1>0, <1>1, <1>2, Owners DEF Owning, Accounting
  <1>4. TypeInv'
    <2>1. 0 \in 0 .. MaxBalancers - 1
      BY BoundAssumption
    <2>2. lb_index' \in [Conn -> 0 .. MaxBalancers - 1]
      BY <1>0, <1>2, <2>1 DEF TypeInv
    <2> QED
      BY <1>0, <1>1, <1>2, <2>2 DEF TypeInv, admission, locks
  <1>5. OwnerInv'
    BY <1>3 DEF OwnerInv
  <1>6. ListedInv'
    BY <1>0, <1>1, <1>2 DEF ListedInv, TypeInv
  <1>7. SlotInv'
    BY <1>0, SlotsKept DEF Untrack, Go
  <1>8. LedgerInv'
    BY <1>0, <1>1, <1>2, LedgerKept DEF Accounting, balancers
  <1>9. OnlyUnlimitedModesFill'
    BY <1>3 DEF OnlyUnlimitedModesFill, Owning, Accounting
  <1>10. HistoryInv'
    <2>1. Removed(c) \in SUBSET active_connections /\ Archive(Removed(c))
      BY DEF Untrack, Removed
    <2>2. \A d \in Removed(c) : session'[d] \in Listing \cup {"ended"}
      BY <1>1 DEF Removed
    <2>3. \A d \in Conn : session[d] \in Listing \cup {"ended"} => session'[d] \in Listing \cup {"ended"}
      BY <1>1
    <2> QED
      BY <1>0, <2>1, <2>2, <2>3, ArchiveKeeps
  <1>11. BalancerInv'
    <2>1. \A d \in Conn : session'[d] \in Indexed => session[d] \in Indexed /\ d # c
      BY <1>1 DEF Indexed
    <2>2. \A d \in Conn \ {c} : lb_index'[d] = lb_index[d]
      BY <1>0, <1>2 DEF TypeInv
    <2>3. \A d \in Conn : session'[d] = "panicked" => session[d] = "panicked"
      BY <1>1
    <2> QED
      BY <1>0, <1>2, <2>1, <2>2, <2>3 DEF BalancerInv, InList
  <1> QED
    BY <1>4, <1>5, <1>6, <1>7, <1>8, <1>9, <1>10, <1>11 DEF TrackerInv

LEMMA CleanupKeeps ==
  ASSUME TrackerInv, Cleanup
  PROVE  TrackerInv'
  <1>0. /\ TypeInv /\ OwnerInv /\ ListedInv /\ SlotInv /\ BalancerInv /\ LedgerInv /\ HistoryInv
    BY DEF TrackerInv
  <1>1. PICK idle \in SUBSET active_connections : Archive(idle)
    BY DEF Cleanup
  <1>2. connection_mutex = Nobody /\ UNCHANGED <<mode, session, admission, locks, bytes, balancers>>
    BY DEF Cleanup
  <1>3. active_connections' = active_connections \ idle
    BY <1>1 DEF Archive
  <1>4. \A d \in Conn : session'[d] \notin Owning
    BY <1>0, <1>2, Owners
  <1>5. TypeInv'
    BY <1>0, <1>2, <1>3 DEF TypeInv, admission, locks, balancers
  <1>6. OwnerInv'
    BY <1>4 DEF OwnerInv
  <1>7. ListedInv'
    BY <1>0, <1>2, <1>3 DEF ListedInv
  <1>8. SlotInv'
    BY <1>0, <1>2, SlotsUntouched
  <1>9. LedgerInv'
    BY <1>0, <1>2, LedgerKept DEF Accounting, balancers
  <1>10. OnlyUnlimitedModesFill'
    BY <1>4 DEF OnlyUnlimitedModesFill, Owning, Accounting
  <1>11. HistoryInv'
    <2>1. \A d \in idle : session'[d] \in Listing \cup {"ended"}
      BY <1>0, <1>1, <1>2 DEF ListedInv
    <2> QED
      BY <1>0, <1>1, <1>2, <2>1, ArchiveKeeps
  <1>12. BalancerInv'
    BY <1>0, <1>2, BalancersKept
  <1> QED
    BY <1>5, <1>6, <1>7, <1>8, <1>9, <1>10, <1>11, <1>12 DEF TrackerInv

\* A connection's index is one of those the selection could give.
LEMMA DialKeeps ==
  ASSUME TrackerInv, NEW c \in Conn, Dial(c)
  PROVE  TrackerInv'
  <1>0. TypeInv /\ SlotInv /\ BalancerInv
    BY DEF TrackerInv
  <1>1. UNCHANGED <<admission, table, locks, bytes, lb_count, stranded>>
    BY DEF Dial
  <1>2. CASE Go(c, "dialing", "ended") /\ UNCHANGED lb_index
    <2>1. SlotInv'
      BY <1>0, <1>1, <1>2, SlotsKept DEF Go
    <2>2. handler' \in [Conn -> Handlers] /\ UNCHANGED balancers
      BY <1>0, <1>1, <1>2 DEF admission, balancers, TypeInv
    <2> QED
      BY <1>1, <1>2, <2>1, <2>2, EarlyStep DEF Listing, Owning, Accounting, States, Indexed
  <1>3. ASSUME Go(c, "dialing", "connected"),
               NEW i \in Selectable, lb_index' = [lb_index EXCEPT ![c] = i]
        PROVE  TrackerInv'
    <2>1. SlotInv'
      BY <1>0, <1>1, <1>3, SlotsKept DEF Go
    <2>2. i \in 0 .. MaxBalancers - 1 /\ i < lb_count
      BY <1>0, BoundAssumption DEF Selectable, TypeInv
    <2>3. lb_index' \in [Conn -> 0 .. MaxBalancers - 1] /\ lb_index'[c] = i
          /\ \A d \in Conn \ {c} : lb_index'[d] = lb_index[d]
      BY <1>0, <1>3, <2>2 DEF TypeInv
    <2>4. /\ session[c] = "dialing" /\ session'[c] = "connected" /\ UNCHANGED mode
          /\ \A d \in Conn \ {c} : session'[d] = session[d]
          /\ session' \in [Conn -> States]
      BY <1>0, <1>3, Moved DEF States
    <2>5. TypeInv'
      BY <1>0, <1>1, <2>3, <2>4 DEF TypeInv, admission, table, locks
    <2>6. BalancerInv'
      BY <1>0, <1>1, <2>2, <2>3, <2>4 DEF BalancerInv, InList
    <2>7. Quiet
      BY <2>4 DEF Quiet, Owning, Listing, Accounting
    <2> QED
      BY <1>1, <2>1, <2>4, <2>5, <2>6, <2>7, QuietStep DEF locks
  <1> QED
    BY <1>2, <1>3 DEF Dial

\* An addition leaves every index that of a balancer, a removal says when it
\* does not.
LEMMA AddLBKeeps ==
  ASSUME TrackerInv, AddLB
  PROVE  TrackerInv'
  <1>0. TypeInv /\ SlotInv /\ BalancerInv
    BY DEF TrackerInv
  <1>1. /\ lb_count < MaxBalancers /\ lb_count' = lb_count + 1
        /\ UNCHANGED <<mode, session, admission, table, locks, bytes, lb_index, stranded>>
    BY DEF AddLB
  <1>2. lb_count' \in 1 .. MaxBalancers /\ \A d \in Conn : InList(d) => InList(d)'
    <2>1. lb_count \in 1 .. MaxBalancers /\ \A d \in Conn : lb_index[d] \in Int
      BY <1>0, BoundAssumption DEF TypeInv
    <2> QED
      BY <1>1, <2>1, BoundAssumption DEF InList
  <1>3. TypeInv'
    BY <1>0, <1>1, <1>2 DEF TypeInv, admission, table, locks
  <1>4. BalancerInv'
    BY <1>0, <1>1, <1>2 DEF BalancerInv
  <1>5. SlotInv'
    BY <1>0, <1>1, SlotsUntouched
  <1> QED
    BY <1>1, <1>3, <1>4, <1>5, QuietStep DEF Quiet, locks

LEMMA RemoveLBKeeps ==
  ASSUME TrackerInv, RemoveLB
  PROVE  TrackerInv'
  <1>0. TypeInv /\ SlotInv /\ BalancerInv
    BY DEF TrackerInv
  <1>1. /\ lb_count > 1 /\ lb_count' = lb_count - 1
        /\ UNCHANGED <<mode, session, admission, table, locks, bytes, lb_index>>
        /\ stranded' = (stranded \/ \E d \in Conn : session[d] \in Indexed /\ lb_index[d] = lb_count - 1)
    BY DEF RemoveLB
  <1>2. /\ lb_count' \in 1 .. MaxBalancers
        /\ \A d \in Conn : InList(d) => InList(d)' \/ lb_index[d] = lb_count - 1
    <2>1. lb_count \in 1 .. MaxBalancers /\ \A d \in Conn : lb_index[d] \in Int
      BY <1>0, BoundAssumption DEF TypeInv
    <2> QED
      BY <1>1, <2>1, BoundAssumption DEF InList
  <1>3. stranded' \in BOOLEAN /\ (stranded => stranded')
    BY <1>0, <1>1 DEF TypeInv
  <1>4. TypeInv'
    BY <1>0, <1>1, <1>2, <1>3 DEF TypeInv, admission, table, locks
  <1>5. BalancerInv'
    BY <1>0, <1>1, <1>2, <1>3 DEF BalancerInv
  <1>6. SlotInv'
    BY <1>0, <1>1, SlotsUntouched
  <1> QED
    BY <1>1, <1>3, <1>4, <1>5, <1>6, QuietStep DEF Quiet, locks

\* Every step keeps the strengthened invariant, one case per action.
LEMMA TrackerStep ==
  ASSUME TrackerInv, [Next]_vars
  PROVE  TrackerInv'
  <1>0. TypeInv /\ SlotInv /\ BalancerInv
    BY DEF TrackerInv
  <1>1. ASSUME NEW c \in Conn, CheckGoroutines(c)  PROVE TrackerInv'
    <2>1. PICK to \in {"ended", "checked"} : Go(c, "arriving", to)
      BY <1>1 DEF CheckGoroutines
    <2>2. SlotInv'
      BY <1>0, <1>1, <2>1, SlotsKept DEF CheckGoroutines, Go
    <2> QED
      BY <1>0, <1>1, <2>1, <2>2, EarlyStep
         DEF CheckGoroutines, Listing, Owning, Accounting, Indexed, States, admission, TypeInv
  <1>2. ASSUME NEW c \in Conn, Admit(c)  PROVE TrackerInv'
    <2>1. SlotInv'
      BY <1>0, <1>2, AdmitSlots
    <2>2. handler' \in [Conn -> Handlers]
      BY <1>0, <1>2 DEF Admit, Handlers, TypeInv
    <2> QED
      BY <1>2, <2>1, <2>2, EarlyStep DEF Admit, Listing, Owning, Accounting, Indexed, States
  <1>3. ASSUME NEW c \in Conn, Count(c)  PROVE TrackerInv'
    <2>1. PICK to \in {"dialing", "handshaking"} : Go(c, "admitted", to)
      BY <1>3 DEF Count
    <2>2. SlotInv'
      BY <1>0, <1>3, CountSlots
    <2>3. handler' \in [Conn -> Handlers]
      BY <1>0, <1>3 DEF Count, Handlers, TypeInv
    <2>4. UNCHANGED <<table, locks, bytes, balancers>>
      BY <1>3 DEF Count
    <2> QED
      BY <2>1, <2>2, <2>3, <2>4, EarlyStep DEF Listing, Owning, Accounting, Indexed, States
  <1>4. ASSUME NEW c \in Conn, Reject(c)  PROVE TrackerInv'
    <2>1. SlotInv'
      BY <1>0, <1>4, SlotsKept DEF Reject, Go
    <2> QED
      BY <1>0, <1>4, <2>1, EarlyStep
         DEF Reject, Listing, Owning, Accounting, Indexed, States, admission, TypeInv
  <1>5. ASSUME NEW c \in Conn, Handshake(c)  PROVE TrackerInv'
    <2>1. PICK to \in {"dialing", "ended"} : Go(c, "handshaking", to)
      BY <1>5 DEF Handshake
    <2>2. UNCHANGED <<admission, table, locks, bytes, balancers>>
      BY <1>5 DEF Handshake
    <2>3. mode[c] = "tunnel" => session[c] # "handshaking"
      BY <1>0 DEF SlotInv
    <2>4. SlotInv'
      BY <1>0, <2>1, <2>2, <2>3, SlotsKept DEF Go
    <2> QED
      BY <1>0, <2>1, <2>2, <2>4, EarlyStep
         DEF Listing, Owning, Accounting, Indexed, States, admission, TypeInv
  <1>6. ASSUME NEW c \in Conn, Close(c)  PROVE TrackerInv'
    <2>1. UNCHANGED <<admission, table, locks, bytes, balancers>> /\ Go(c, "relaying", "closing")
      BY <1>6 DEF Close
    <2>2. SlotInv'
      BY <1>0, <2>1, SlotsKept DEF Go
    <2>3. Quiet
      BY <1>0, <2>1, Moved DEF Quiet, Owning, Listing, Accounting
    <2>4. TypeInv'
      BY <1>0, <2>1, Moved DEF States, TypeInv, admission, table, locks, balancers
    <2>5. BalancerInv'
      <3>1. /\ session[c] = "relaying" /\ session'[c] = "closing"
            /\ \A d \in Conn \ {c} : session'[d] = session[d]
        BY <1>0, <2>1, Moved
      <3> QED
        BY <1>0, <2>1, <3>1, BalancersKept DEF Indexed
    <2> QED
      BY <2>1, <2>2, <2>3, <2>4, <2>5, QuietStep DEF Go, locks, balancers
  <1>7. ASSUME UNCHANGED <<mode, session, table, connection_mutex, bytes, balancers>>, SlotInv',
               handler' \in [Conn -> Handlers],
               mutex' \in {Dashboard, Nobody}
        PROVE  TrackerInv'
    <2>1. TypeInv'
      BY <1>0, <1>7 DEF TypeInv, table, balancers
    <2>2. BalancerInv'
      BY <1>0, <1>7, BalancersKept
    <2> QED
      BY <1>7, <2>1, <2>2, QuietStep DEF Quiet, balancers
  <1>8. ASSUME NEW c \in Conn, Uncount(c) \/ Return(c)  PROVE TrackerInv'
    <2>1. SlotInv'
      BY <1>0, <1>8, UncountSlots, ReturnSlots
    <2>2. handler' \in [Conn -> Handlers] /\ mutex' \in {Dashboard, Nobody}
      BY <1>0, <1>8 DEF Uncount, Return, Handlers, TypeInv, locks
    <2> QED
      BY <1>7, <1>8, <2>1, <2>2 DEF Uncount, Return, locks
  <1>9. CASE ShowBalancers \/ BalancersShown \/ UNCHANGED vars
    <2>1. UNCHANGED <<mode, session, admission>>
      BY <1>9 DEF ShowBalancers, BalancersShown, vars
    <2>2. SlotInv'
      BY <1>0, <2>1, SlotsUntouched
    <2>3. handler' \in [Conn -> Handlers]
      BY <1>0, <2>1 DEF admission, TypeInv
    <2> QED
      BY <1>0, <1>7, <1>9, <2>2, <2>3 DEF ShowBalancers, BalancersShown, vars, locks, TypeInv
  <1>10. ASSUME NEW c \in Conn, Work(c)  PROVE TrackerInv'
    BY <1>1, <1>2, <1>3, <1>4, <1>5, <1>8, <1>10, DialKeeps, AccountLBKeeps, PanicKeeps,
       AccountClientKeeps DEF Work
  <1>11. ASSUME NEW c \in Conn, Locked(c)  PROVE TrackerInv'
    BY <1>11, LockTableKeeps, InsertKeeps, CleanUpInAddKeeps, UntrackKeeps DEF Locked
  <1>12. ASSUME NEW c \in Conn, Peers(c)  PROVE TrackerInv'
    BY <1>6, <1>9, <1>12, AccountKeeps DEF Peers, AccountMiss
  <1>13. CASE Others
    BY <1>9, <1>13, CleanupKeeps, AddLBKeeps, RemoveLBKeeps DEF Others
  <1>14. CASE FinishShowing \/ Over
    BY <1>9, <1>14 DEF FinishShowing, Over
  <1> QED
    BY <1>9, <1>10, <1>11, <1>12, <1>13, <1>14 DEF Next

\* The strengthened invariant holds in every reachable state.
LEMMA TrackerInvariant == Spec => []TrackerInv
  <1>1. Init => TrackerInv
    BY TrackerInit
  <1>2. TrackerInv /\ [Next]_vars => TrackerInv'
    BY TrackerStep
  <1> QED
    BY <1>1, <1>2, PTL DEF Spec

-----------------------------------------------------------------------------
(* What it says.                                                           *)

\* The handlers, the table and the history never exceed their limits, and no
\* more handlers are counted than slots are taken (main.go:709-728).
THEOREM TrackerTypes == Spec => []TypeOK
  <1>1. TrackerInv => TypeOK
    <2> SUFFICES ASSUME TrackerInv  PROVE TypeOK
      OBVIOUS
    <2>1. /\ semaphore = Cardinality(Slotted) /\ semaphore <= SemaphoreSize
          /\ active_goroutines = Cardinality(Counted)
      BY DEF TrackerInv, SlotInv
    <2>2. Counted \subseteq Slotted
      BY DEF Counted, Slotted
    <2>3. /\ Cardinality(Counted) <= Cardinality(Slotted)
          /\ Cardinality(Counted) \in Nat /\ Cardinality(Slotted) \in Nat
      BY <2>2, HandlersFinite, FS_Subset, FS_CardinalityType
    <2>4. SemaphoreSize \in Int
      BY LimitAssumption DEF SemaphoreSize
    <2>5. semaphore \in 0 .. SemaphoreSize /\ active_goroutines \in 0 .. semaphore
      BY <2>1, <2>3, <2>4
    <2>6. TypeInv /\ HistoryInv
      BY DEF TrackerInv
    <2> QED
      BY <2>5, <2>6 DEF TypeOK, TypeInv, Handlers, States, Ledgers, HistoryInv
  <1> QED
    BY <1>1, TrackerInvariant, PTL

\* Only a SOCKS or a transparent connection can make a goroutine lock
\* connection_mutex twice (main.go:389-391), whatever the number of clients and
\* the limits, as long as the semaphore is no larger than the table.
THEOREM TunnelsNeverFill == Spec => []OnlyUnlimitedModesFill
  <1>1. TrackerInv => OnlyUnlimitedModesFill
    BY DEF TrackerInv
  <1> QED
    BY <1>1, TrackerInvariant, PTL

\* Whenever no goroutine owns connection_mutex, the counters of main.go:449-451
\* and those of the clients (465) agree, and those of the balancers (457-459)
\* with both unless a removal left an open connection without a balancer at its
\* index, whose writes line 455 passes over.
THEOREM LedgersAlwaysAgree == Spec => []LedgersAgree
  <1>1. TrackerInv => LedgersAgree
    <2> SUFFICES ASSUME TrackerInv, connection_mutex = Nobody  PROVE LedgersAgree
      BY DEF LedgersAgree
    <2>1. \A c \in Conn : session[c] \notin Owning
      BY Owners DEF TrackerInv
    <2>2. Balanced(0, 0)
      BY <2>1 DEF TrackerInv, LedgerInv, Owning
    <2>3. bytes.global \in Nat /\ bytes.lb \in Nat /\ bytes.client \in Nat
      BY DEF TrackerInv, TypeInv, Ledgers
    <2>4. /\ bytes.client = bytes.global /\ bytes.lb <= bytes.global
          /\ ~stranded => bytes.lb = bytes.global
      BY <2>2, <2>3 DEF Balanced
    <2> QED
      BY <2>4 DEF LedgersAgree
  <1> QED
    BY <1>1, TrackerInvariant, PTL

\* The relay's end (remove_active_connection) and the periodic cleanup never
\* archive the same entry twice, nor list one that was archived.
THEOREM EntriesArchivedOnce == Spec => []ArchivedOnce
  <1>1. TrackerInv => ArchivedOnce
    BY DEF TrackerInv, HistoryInv
  <1> QED
    BY <1>1, TrackerInvariant, PTL
=============================================================================
