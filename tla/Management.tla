----------------------------- MODULE Management -----------------------------
(***************************************************************************)
(* The operator's requests (web_server.go) and what is left of them after  *)
(* a crash (database.go): web sessions, balancers and settings.  Every     *)
(* request is a goroutine of its own.  The balancers and their rows change *)
(* together under `mutex`, the sessions under sessionMutex one access at a *)
(* time, the settings under nothing.  Any exec of the database may fail.   *)
(*                                                                         *)
(* The process has no handler of signals: however it ends is a crash.      *)
(***************************************************************************)

CONSTANTS
    Request,        \* requests in flight at one time; each serves one after the other
    Session,        \* session ids; one that has left no trace stands for a new one
    Address,        \* of balancers
    Value,          \* of the settings
    Default,        \* the value in defaultSettings and defaultGatewayConfig
    Flag,           \* the web port on the command line
    NoRow, NoChange, Nobody,
    Mixes           \* bound: which kinds of request occur together

Kinds == {"login", "logout", "page", "toggle", "add", "remove", "settings"}

ASSUME ValueAssumption == Default \in Value /\ Flag \in Value /\ NoRow \notin Value /\ NoChange \notin Value
ASSUME OwnerAssumption == Nobody \notin Request
ASSUME SomeAddress     == Address # {}
ASSUME MixAssumption   == Mixes \subseteq SUBSET Kinds

VARIABLES
    mix,              \* the kinds of request of this behaviour; fixed
    up,               \* the process runs
    \* what a crash leaves
    rows,             \* addresses in the table load_balancers
    table,            \* the rows of the tables settings and gateway_config, but for
    file_row,         \* the name of the rules file, in settings
    \* what a crash loses
    lb_list,          \* addresses of the listed balancers
    unloaded,         \* loading them failed, or rows.Next stopped early (rows.Err is not asked)
    currentSettings,
    config_file,      \* the name of the rules file in use
    mutex,            \* its owner
    sessions,         \* the map of sessions, by age: younger than 24 h or not
    request,          \* where each request is, what it asks and what it copied
    \* history
    stored,           \* addresses whose addition took effect, until a removal does
    gone,             \* addresses whose removal took effect, until an addition does
    left,             \* sessions logged out while no other request was using them
    alone,            \* settings requests that overlapped no other and saved what they tried
    synced            \* the last settings request was one of these

durable   == <<rows, table>>
balancers == <<lb_list, unloaded, mutex>>
settings  == <<currentSettings, file_row, config_file, alone, synced>>
effects   == <<stored, gone>>
web       == <<sessions, left>>
vars == <<mix, up, durable, balancers, settings, effects, web, request>>

Part == {"main", "gateway"}
FileNames == {"named", "deprecated"}    \* "named": the default, source_ip_rules.json
Idle == [at |-> "idle"]
NoChanges == [p \in Part |-> NoChange]

\* initializeDefaultData, then initializeWebPortFromFlag, then the settings are read.
Defaulted(t) == [p \in Part |-> IF t[p] = NoRow THEN Default ELSE t[p]]
FlagApplied(t) ==
    IF Flag # Default /\ t["main"] = Default THEN [t EXCEPT !["main"] = Flag] ELSE t

Init ==
    /\ mix \in Mixes
    /\ up = FALSE
    /\ rows = {}
    /\ table = [p \in Part |-> NoRow]
    /\ lb_list = {}
    /\ unloaded = FALSE
    /\ currentSettings = [p \in Part |-> Default]
    /\ file_row = "named" /\ config_file = "named"
    /\ mutex = Nobody
    /\ sessions = [s \in Session |-> "none"]
    /\ request = [r \in Request |-> Idle]
    /\ stored = {} /\ gone = {}
    /\ left = {}
    /\ alone = {}
    /\ synced = FALSE

At(r, where) == request[r].at = where
GoTo(r, where) == request' = [request EXCEPT ![r].at = where]
Answered(r) == request' = [request EXCEPT ![r] = Idle]

-----------------------------------------------------------------------------
(* Start and crash.                                                        *)

\* With the flag or, when the process has executed itself again, without it.
Loaded(t) == {Defaulted(t), FlagApplied(Defaulted(t))}

Start ==
    /\ ~up
    /\ up' = TRUE
    /\ \E t \in Loaded(table) : table' = t /\ currentSettings' = t
    /\ config_file' = file_row
    /\ \/ lb_list' = rows /\ unloaded' = FALSE
       \/ lb_list' \in SUBSET rows /\ unloaded' = TRUE     \* only a warning, or not even that
    /\ synced' = TRUE
    /\ UNCHANGED <<mix, rows, file_row, mutex, alone, effects, web, request>>

Crash ==
    /\ up
    /\ up' = FALSE
    /\ lb_list' = {} /\ unloaded' = FALSE
    /\ currentSettings' = [p \in Part |-> Default]
    /\ config_file' = "named"
    /\ mutex' = Nobody
    /\ sessions' = [s \in Session |-> "none"]
    /\ request' = [r \in Request |-> Idle]
    /\ alone' = {} /\ synced' = FALSE
    /\ UNCHANGED <<mix, durable, file_row, effects, left>>

-----------------------------------------------------------------------------
(* Web sessions.                                                           *)

Carried(s) == \E r \in Request : ~At(r, "idle") /\ request[r].session = s

\* requireAuth and the dashboard renew a session, isAuthenticated does not.
Renewing == {"page", "toggle"}

\* A request arrives with a cookie, or to log in: then s is the id it will get.
Arrive(r, kind, s, address, change) ==
    /\ up /\ At(r, "idle")
    /\ kind \in mix
    /\ kind = "login" => sessions[s] = "none" /\ ~Carried(s)
    /\ request' = [request EXCEPT ![r] =
          [at |-> IF kind \in {"login", "logout"} THEN "work" ELSE "lookup", kind |-> kind,
           session |-> s, address |-> address, change |-> change, copy |-> NoChange]]
    /\ UNCHANGED <<mix, up, durable, balancers, settings, effects, web>>

\* exists && time.Since(sessionTime) < 24*time.Hour
ValidUnlessOld(s) == sessions[s] # "old"
Valid(s) == sessions[s] = "young"

LookUp(r) ==
    /\ At(r, "lookup")
    /\ LET s == request[r].session
           kind == request[r].kind
       IN \/ Valid(s) /\ GoTo(r, IF kind \in Renewing THEN "renew" ELSE "work")
          \/ ~Valid(s) /\ kind = "page" /\ GoTo(r, "forget")
          \/ ~Valid(s) /\ kind # "page" /\ Answered(r)
    /\ UNCHANGED <<mix, up, durable, balancers, settings, effects, web>>

\* The session is stored again, whatever became of it since the lookup.
Renew(r) ==
    /\ At(r, "renew")
    /\ sessions' = [sessions EXCEPT ![request[r].session] = "young"]
    /\ GoTo(r, "work")
    /\ UNCHANGED <<mix, up, durable, balancers, settings, effects, left>>

Forget(r) ==
    /\ At(r, "forget")
    /\ sessions' = [sessions EXCEPT ![request[r].session] = "none"]
    /\ Answered(r)
    /\ UNCHANGED <<mix, up, durable, balancers, settings, effects, left>>

Working(r, kind) == At(r, "work") /\ request[r].kind = kind

Login(r) ==
    /\ Working(r, "login")
    /\ sessions' = [sessions EXCEPT ![request[r].session] = "young"]
    /\ left' = left \ {request[r].session}
    /\ Answered(r)
    /\ UNCHANGED <<mix, up, durable, balancers, settings, effects>>

InUse(r, s) == \E q \in Request \ {r} : At(q, "renew") /\ request[q].session = s

Logout(r) ==
    /\ Working(r, "logout")
    /\ sessions' = [sessions EXCEPT ![request[r].session] = "none"]
    /\ left' = IF InUse(r, request[r].session) THEN left ELSE left \cup {request[r].session}
    /\ Answered(r)
    /\ UNCHANGED <<mix, up, durable, balancers, settings, effects>>

\* A session is not used for 24 hours; no request takes so long.
GrowOld(s) ==
    /\ sessions[s] = "young" /\ ~Carried(s)
    /\ sessions' = [sessions EXCEPT ![s] = "old"]
    /\ UNCHANGED <<mix, up, durable, balancers, settings, effects, left, request>>

ShowPage(r) ==
    /\ Working(r, "page")
    /\ Answered(r)
    /\ UNCHANGED <<mix, up, durable, balancers, settings, effects, web>>

-----------------------------------------------------------------------------
(* Balancers and their rows: DB first, then the list, both under mutex.    *)

Quiet == <<mix, up, table, unloaded, settings, web>>

\* set_load_balancer_status, and the rules: nothing of it reaches the database.
Toggle(r) ==
    /\ Working(r, "toggle") /\ mutex = Nobody
    /\ Answered(r)
    /\ UNCHANGED <<Quiet, rows, lb_list, mutex, effects>>

LockToAdd(r) ==
    /\ Working(r, "add") /\ mutex = Nobody
    /\ IF request[r].address \in lb_list
       THEN Answered(r) /\ UNCHANGED mutex
       ELSE GoTo(r, "insert") /\ mutex' = r
    /\ UNCHANGED <<Quiet, rows, lb_list, effects>>

InsertRow(r) ==
    /\ At(r, "insert")
    /\ request[r].address \notin rows      \* UNIQUE
    /\ rows' = rows \cup {request[r].address}
    /\ gone' = gone \ {request[r].address}
    /\ GoTo(r, "append")
    /\ UNCHANGED <<Quiet, lb_list, mutex, stored>>

\* The handler unlocks on each of its paths by hand.
InsertFailsIgnored(r) ==
    /\ At(r, "insert")
    /\ GoTo(r, "append")
    /\ UNCHANGED <<Quiet, rows, lb_list, mutex, effects>>
InsertFailsLocked(r) ==
    /\ At(r, "insert")
    /\ Answered(r)
    /\ UNCHANGED <<Quiet, rows, lb_list, mutex, effects>>
InsertFails(r) ==
    /\ At(r, "insert")
    /\ mutex' = Nobody
    /\ Answered(r)
    /\ UNCHANGED <<Quiet, rows, lb_list, effects>>

AppendLB(r) ==
    /\ At(r, "append")
    /\ lb_list' = lb_list \cup {request[r].address}
    /\ stored' = stored \cup {request[r].address}
    /\ mutex' = Nobody
    /\ Answered(r)
    /\ UNCHANGED <<Quiet, rows, gone>>

LockToRemove(r) ==
    /\ Working(r, "remove") /\ mutex = Nobody
    /\ IF request[r].address \in lb_list
       THEN GoTo(r, "delete") /\ mutex' = r
       ELSE Answered(r) /\ UNCHANGED mutex
    /\ UNCHANGED <<Quiet, rows, lb_list, effects>>

DeleteRow(r) ==
    /\ At(r, "delete")
    /\ request[r].address \in rows
    /\ rows' = rows \ {request[r].address}
    /\ stored' = stored \ {request[r].address}
    /\ GoTo(r, "unlist")
    /\ UNCHANGED <<Quiet, lb_list, mutex, gone>>

DeleteFails(r) ==
    /\ At(r, "delete")
    /\ mutex' = Nobody
    /\ Answered(r)
    /\ UNCHANGED <<Quiet, rows, lb_list, effects>>

Unlist(r) ==
    /\ At(r, "unlist")
    /\ lb_list' = lb_list \ {request[r].address}
    /\ gone' = gone \cup {request[r].address}
    /\ mutex' = Nobody
    /\ Answered(r)
    /\ UNCHANGED <<Quiet, rows, stored>>

\* syncLoadBalancersToDatabase, every five minutes: it means to update the rows, but
\* inserts, which fails for a balancer that has one.
SyncUnlocked ==
    /\ up
    /\ \E added \in SUBSET lb_list : rows' = rows \cup added
    /\ UNCHANGED <<Quiet, lb_list, mutex, effects, request>>
SyncLoadBalancers ==
    /\ up /\ mutex = Nobody
    /\ \E added \in SUBSET lb_list : rows' = rows \cup added
    /\ UNCHANGED <<Quiet, lb_list, mutex, effects, request>>

-----------------------------------------------------------------------------
(* Settings: the fields are set one after the other, then copied and saved *)
(* table by table.                                                         *)

Steady == <<mix, up, rows, balancers, effects, web>>

\* "main" stands for the fields of the table settings, of which debug_mode is in
\* truth set before those of the gateway.
\* Nothing of what was asked for is read once both parts are set.
Changed(old, new) == IF new = NoChange THEN old ELSE new

\* Requests that have begun to set fields and not saved the last table.
Changing == {r \in Request : request[r].at \in {"set main", "copy main", "save main",
                                                "copy gateway", "save gateway"}}

SetGateway(r) ==
    /\ Working(r, "settings")
    /\ currentSettings' = [currentSettings EXCEPT !["gateway"] =
                               Changed(currentSettings["gateway"], request[r].change["gateway"])]
    /\ alone' = IF Changing = {} THEN {r} ELSE {}
    /\ synced' = FALSE
    /\ GoTo(r, "set main")
    /\ UNCHANGED <<Steady, table, file_row, config_file>>

SetMain(r) ==
    /\ At(r, "set main")
    /\ currentSettings' = [currentSettings EXCEPT !["main"] =
                               Changed(currentSettings["main"], request[r].change["main"])]
    /\ request' = [request EXCEPT ![r].at = "copy main", ![r].change = NoChanges]
    /\ UNCHANGED <<Steady, table, file_row, config_file, alone, synced>>

Copying(p) == IF p = "main" THEN "copy main" ELSE "copy gateway"
Saving(p)  == IF p = "main" THEN "save main" ELSE "save gateway"

\* The copy for the table settings has "deprecated" in the place of ConfigFile: see Save.
Copy(r, p) ==
    /\ At(r, Copying(p))
    /\ request' = [request EXCEPT ![r].copy = currentSettings[p], ![r].at = Saving(p)]
    /\ UNCHANGED <<Steady, table, settings>>

\* INSERT OR REPLACE; an error is only logged.
ReplacedMain(p, copy) == IF p = "main" THEN [table EXCEPT ![p] = copy] ELSE table
Replaced(p, copy) == [table EXCEPT ![p] = copy]

Save(r, p) ==
    /\ At(r, Saving(p))
    /\ \/ /\ table' = Replaced(p, request[r].copy)
          /\ file_row' = IF p = "main" THEN "deprecated" ELSE file_row
          /\ UNCHANGED alone
       \/ alone' = alone \ {r} /\ UNCHANGED <<table, file_row>>
    /\ IF p = "main"
       THEN GoTo(r, "copy gateway") /\ UNCHANGED synced
       ELSE Answered(r) /\ synced' = (r \in alone')
    /\ UNCHANGED <<Steady, currentSettings, config_file>>

-----------------------------------------------------------------------------
Authenticate(r) == LookUp(r) \/ Renew(r) \/ Forget(r) \/ Login(r) \/ Logout(r) \/ ShowPage(r)

ManageLBs(r) ==
    \/ Toggle(r)
    \/ LockToAdd(r) \/ InsertRow(r) \/ InsertFails(r) \/ AppendLB(r)
    \/ LockToRemove(r) \/ DeleteRow(r) \/ DeleteFails(r) \/ Unlist(r)

ChangeSettings(r) == SetGateway(r) \/ SetMain(r) \/ \E p \in Part : Copy(r, p) \/ Save(r, p)

Serve(r) == Authenticate(r) \/ ManageLBs(r) \/ ChangeSettings(r)

\* What a request of each kind asks for; only some kinds name a balancer.
Asked(kind) ==
    {asked \in Address \X [Part -> Value \cup {NoChange}] :
        /\ kind \notin {"add", "remove"} => asked[1] = CHOOSE a \in Address : TRUE
        /\ kind = "settings" <=> asked[2] # NoChanges}

Next ==
    \/ \E r \in Request, kind \in Kinds, s \in Session :
          \E asked \in Asked(kind) : Arrive(r, kind, s, asked[1], asked[2])
    \/ \E r \in Request : Serve(r)
    \/ \E s \in Session : GrowOld(s)
    \/ SyncLoadBalancers
    \/ Start
    \/ Crash

\* Goroutines are scheduled, a call of the database returns, and sync.Mutex hands
\* itself to a waiter that has waited 1 ms.
Spec == Init /\ [][Next]_vars /\ \A r \in Request : SF_vars(Serve(r))

-----------------------------------------------------------------------------
(* Properties.                                                             *)

Stages == {"lookup", "renew", "forget", "work", "insert", "append", "delete", "unlist",
           "set main", "copy main", "save main", "copy gateway", "save gateway"}
Asking == [at : Stages, kind : Kinds, session : Session, address : Address,
           change : [Part -> Value \cup {NoChange}], copy : Value \cup {NoChange}]

\* The types of the variables; only a request in its critical section owns the mutex.
TypeOK ==
    /\ mix \in Mixes
    /\ up \in BOOLEAN
    /\ rows \subseteq Address /\ lb_list \subseteq Address
    /\ table \in [Part -> Value \cup {NoRow}]
    /\ unloaded \in BOOLEAN
    /\ currentSettings \in [Part -> Value]
    /\ file_row \in FileNames /\ config_file \in FileNames
    /\ mutex \in Request \cup {Nobody}
    /\ \A r \in Request : mutex = r <=> request[r].at \in {"insert", "append", "delete", "unlist"}
    /\ sessions \in [Session -> {"none", "young", "old"}]
    /\ request \in [Request -> {Idle} \cup Asking]
    /\ stored \subseteq Address /\ gone \subseteq Address
    /\ left \subseteq Session
    /\ alone \subseteq Request
    /\ synced \in BOOLEAN

\* Whenever the mutex is free the table holds exactly the listed balancers
\* (web_server.go:1680-1721, 1761-1769), after any failure of the database and any
\* crash, unless loading them failed (main.go:945), after which the list is empty or partial.
ListedIsStored ==
    up /\ mutex = Nobody => IF unloaded THEN lb_list \subseteq rows ELSE lb_list = rows

\* An addition that took effect outlives every crash until a removal takes effect, and
\* a balancer that was removed does not come back by itself: neither the periodic
\* synchronization (database.go:622) nor a restart brings it.
BalancersDurable == stored \subseteq rows /\ gone \cap (rows \cup lb_list) = {}

\* The table keeps what the operator is promised, with an addition or a removal done
\* when its row is (web_server.go:1688, 1759), whatever is listed at that time.
Wanted(r) ==
    IF At(r, "append") \/ At(r, "unlist") THEN [todo |-> "done"]
    ELSE IF ~At(r, "idle") /\ request[r].kind \in {"add", "remove"}
    THEN [todo |-> request[r].kind, address |-> request[r].address]
    ELSE [todo |-> "nothing"]

Promised == INSTANCE DurableBalancers
                WITH members <- rows, asked <- [r \in Request |-> Wanted(r)]

KeepsBalancers == Promised!Spec

\* A settings request that overlapped no other one and whose saves succeeded leaves
\* both tables as the settings in memory are (web_server.go:1515-1542), and so does
\* a start, with the flag or without it (main.go:912-921), except that the name of the
\* rules file, which no request asks about, may be replaced in the table by
\* "deprecated" (web_server.go:1521) until a start takes that for its name.
SettingsSaved ==
    up /\ synced => table = currentSettings /\ file_row \in {config_file, "deprecated"}

\* A session that is logged out while no other request is between its lookup and its
\* renewal (web_server.go:323-330) is never accepted or stored again.
LogoutHolds == \A s \in left : sessions[s] = "none"

\* Every request is answered, by whichever path its handler returns
\* (web_server.go:1670, 1694, 1722 unlock one by one).
EveryRequestAnswered == \A r \in Request : ~At(r, "idle") ~> At(r, "idle")
=============================================================================
