-------------------------- MODULE ManagementProofs --------------------------
(***************************************************************************)
(* Proofs about Management, for any number of requests, sessions,          *)
(* balancers and values.  The inductive invariant is                       *)
(*     TypeOK /\ StageInv                  who holds the mutex and why     *)
(*            /\ RowInv                    list and table under way        *)
(*            /\ LeftInv                   sessions about to be renewed    *)
(*            /\ SettingsInv               how far a settings request got  *)
(*            /\ NameInv                   the name of the rules file      *)
(* where each of the last four stands on the first two alone.             *)
(***************************************************************************)
EXTENDS Management, TLAPS

USE DEF At

Critical == {"insert", "append", "delete", "unlist"}
Requests == [Request -> {Idle} \cup Asking]

\* The part of TypeOK about the mutex.
Owned(m, req) == \A r \in Request : m = r <=> req[r].at \in Critical

\* A request moves on: only its stage changes.
LEMMA MovesOn ==
  ASSUME TypeOK, NEW r \in Request, ~At(r, "idle"), NEW where \in Stages, GoTo(r, where)
  PROVE  /\ request' \in Requests
         /\ request'[r] = [request[r] EXCEPT !.at = where]
         /\ request'[r] \in Asking
         /\ request[r] \in Asking
         /\ request'[r].at = where
         /\ request'[r].kind = request[r].kind
         /\ request'[r].session = request[r].session
         /\ request'[r].address = request[r].address
         /\ request'[r].change = request[r].change
         /\ request'[r].copy = request[r].copy
         /\ \A q \in Request \ {r} : request'[q] = request[q]
<1>1. request[r] \in Asking
  BY DEF TypeOK, Idle
<1>2. request'[r] = [request[r] EXCEPT !.at = where]
  BY DEF GoTo, TypeOK
<1>3. request'[r] \in Asking
  BY <1>1, <1>2 DEF Asking
<1>4. \A q \in Request \ {r} : request'[q] = request[q]
  BY DEF GoTo, TypeOK
<1>5. request' \in Requests
  BY <1>3, <1>4 DEF GoTo, TypeOK, Requests
<1> QED
  BY <1>1, <1>2, <1>3, <1>4, <1>5 DEF Asking

\* A request that is answered is gone.
LEMMA Leaves ==
  ASSUME TypeOK, NEW r \in Request, Answered(r)
  PROVE  /\ request' \in Requests
         /\ request'[r] = Idle
         /\ request'[r].at = "idle"
         /\ \A q \in Request \ {r} : request'[q] = request[q]
  BY DEF Answered, TypeOK, Idle, Requests

\* A request that changes the balancers is answered, or goes on in its critical section.
LEMMA StaysInside ==
  ASSUME TypeOK, NEW r \in Request, ~At(r, "idle"),
         Answered(r) \/ \E where \in Critical : GoTo(r, where)
  PROVE  request'[r].at \in Critical \cup {"idle"}
<1>1. CASE Answered(r)
  BY <1>1, Leaves
<1>2. ASSUME NEW where \in Critical, GoTo(r, where)
      PROVE  request'[r].at \in Critical
  <2>1. where \in Stages
    BY DEF Critical, Stages
  <2> QED
    BY <1>2, <2>1, MovesOn
<1> QED
  BY <1>1, <1>2

\* A request that arrives is one that asks.
LEMMA Arrives ==
  ASSUME TypeOK, NEW r \in Request, NEW kind \in Kinds, NEW s \in Session,
         NEW asked \in Asked(kind), Arrive(r, kind, s, asked[1], asked[2])
  PROVE  /\ request' \in Requests
         /\ request'[r].at \in {"work", "lookup"}
         /\ request'[r].kind = kind
         /\ request'[r].session = s
         /\ request'[r].address \in Address
         /\ \A q \in Request \ {r} : request'[q] = request[q]
<1> DEFINE new == [at |-> IF kind \in {"login", "logout"} THEN "work" ELSE "lookup", kind |-> kind,
                   session |-> s, address |-> asked[1], change |-> asked[2], copy |-> NoChange]
<1>1. asked[1] \in Address /\ asked[2] \in [Part -> Value \cup {NoChange}]
  BY DEF Asked
<1>2. request' = [request EXCEPT ![r] = new]
  BY DEF Arrive
<1>3. new \in Asking
  BY <1>1 DEF Asking, Stages
<1>4. /\ new.at \in {"work", "lookup"} /\ new.kind = kind /\ new.session = s
      /\ new.address \in Address
  BY <1>1
<1> HIDE DEF new
<1> QED
  BY <1>2, <1>3, <1>4 DEF TypeOK, Requests

-----------------------------------------------------------------------------
(* Types.                                                                  *)

\* What TypeOK says of all variables but those of requests and the mutex.
Elsewhere ==
    /\ mix \in Mixes
    /\ up \in BOOLEAN
    /\ rows \subseteq Address /\ lb_list \subseteq Address
    /\ table \in [Part -> Value \cup {NoRow}]
    /\ unloaded \in BOOLEAN
    /\ currentSettings \in [Part -> Value]
    /\ file_row \in FileNames /\ config_file \in FileNames
    /\ sessions \in [Session -> {"none", "young", "old"}]
    /\ stored \subseteq Address /\ gone \subseteq Address
    /\ left \subseteq Session
    /\ alone \subseteq Request
    /\ synced \in BOOLEAN

LEMMA TypeParts ==
  ASSUME Elsewhere', request' \in Requests, mutex' \in Request \cup {Nobody}, Owned(mutex', request')
  PROVE  TypeOK'
  BY DEF TypeOK, Elsewhere, Requests, Owned, Critical

\* A request that neither takes nor leaves the mutex keeps its owner.
LEMMA StaysOut ==
  ASSUME TypeOK, NEW r \in Request, UNCHANGED mutex,
         request'[r].at \in Critical <=> request[r].at \in Critical,
         \A q \in Request \ {r} : request'[q] = request[q]
  PROVE  mutex' \in Request \cup {Nobody} /\ Owned(mutex', request')
  BY DEF TypeOK, Owned, Critical

LEMMA Takes ==
  ASSUME TypeOK, NEW r \in Request, mutex = Nobody, mutex' = r, request'[r].at \in Critical,
         \A q \in Request \ {r} : request'[q] = request[q]
  PROVE  mutex' \in Request \cup {Nobody} /\ Owned(mutex', request')
  BY OwnerAssumption DEF TypeOK, Owned, Critical

LEMMA Unlocks ==
  ASSUME TypeOK, NEW r \in Request, request[r].at \in Critical, mutex' = Nobody,
         request'[r].at \notin Critical,
         \A q \in Request \ {r} : request'[q] = request[q]
  PROVE  mutex' \in Request \cup {Nobody} /\ Owned(mutex', request')
  BY OwnerAssumption DEF TypeOK, Owned, Critical

LEMMA AuthenticateTypes ==
  ASSUME TypeOK, NEW r \in Request, Authenticate(r)
  PROVE  TypeOK'
<1>1. Elsewhere /\ request[r] \in {Idle} \cup Asking
  BY DEF TypeOK, Elsewhere
<1>2. ~At(r, "idle") => request[r].session \in Session
  BY <1>1 DEF Asking, Idle
<1>3. CASE LookUp(r)
  <2>1. ~At(r, "idle") /\ request[r].at \notin Critical /\ Elsewhere' /\ UNCHANGED mutex
    BY <1>1, <1>3 DEF LookUp, Critical, Elsewhere, durable, balancers, settings, effects, web
  <2>2. CASE GoTo(r, "renew") \/ GoTo(r, "work") \/ GoTo(r, "forget")
    BY <2>1, <2>2, MovesOn, StaysOut, TypeParts DEF Stages, Critical
  <2>3. CASE Answered(r)
    BY <2>1, <2>3, Leaves, StaysOut, TypeParts DEF Critical
  <2> QED
    BY <1>3, <2>2, <2>3 DEF LookUp
<1>4. CASE Renew(r)
  <2>1. ~At(r, "idle") /\ request[r].at \notin Critical /\ Elsewhere' /\ UNCHANGED mutex
    BY <1>1, <1>2, <1>4 DEF Renew, Critical, Elsewhere, durable, balancers, settings, effects
  <2> QED
    BY <1>4, <2>1, MovesOn, StaysOut, TypeParts DEF Renew, Stages, Critical
<1>5. CASE Forget(r) \/ Login(r) \/ Logout(r) \/ ShowPage(r)
  <2>1. ~At(r, "idle") /\ request[r].at \notin Critical /\ Elsewhere' /\ UNCHANGED mutex
    BY <1>1, <1>2, <1>5
    DEF Forget, Login, Logout, ShowPage, Working, Critical, Elsewhere, durable, balancers, settings, effects, web
  <2> QED
    BY <1>5, <2>1, Leaves, StaysOut, TypeParts DEF Forget, Login, Logout, ShowPage, Critical
<1> QED
  BY <1>3, <1>4, <1>5 DEF Authenticate

LEMMA ManageTypes ==
  ASSUME TypeOK, NEW r \in Request, ManageLBs(r)
  PROVE  TypeOK'
<1>1. Elsewhere /\ request[r] \in {Idle} \cup Asking
  BY DEF TypeOK, Elsewhere
<1>2. ~At(r, "idle") => request[r].address \in Address
  BY <1>1 DEF Asking, Idle
<1>3. ~At(r, "idle") /\ Elsewhere'
  <2>1. CASE Toggle(r) \/ LockToAdd(r) \/ LockToRemove(r)
    BY <1>1, <2>1 DEF Toggle, LockToAdd, LockToRemove, Working, Quiet, Elsewhere, settings, effects, web
  <2>2. CASE InsertRow(r) \/ InsertFails(r) \/ AppendLB(r)
    BY <1>1, <1>2, <2>2 DEF InsertRow, InsertFails, AppendLB, Quiet, Elsewhere, settings, effects, web
  <2>3. CASE DeleteRow(r) \/ DeleteFails(r) \/ Unlist(r)
    BY <1>1, <1>2, <2>3 DEF DeleteRow, DeleteFails, Unlist, Quiet, Elsewhere, settings, effects, web
  <2> QED
    BY <2>1, <2>2, <2>3 DEF ManageLBs
<1>4. CASE Toggle(r)
  BY <1>3, <1>4, Leaves, StaysOut, TypeParts DEF Toggle, Working, Critical
<1>5. CASE LockToAdd(r)
  <2>1. CASE request[r].address \in lb_list
    BY <1>3, <1>5, <2>1, Leaves, StaysOut, TypeParts DEF LockToAdd, Working, Critical
  <2>2. CASE request[r].address \notin lb_list
    BY <1>3, <1>5, <2>2, MovesOn, Takes, TypeParts DEF LockToAdd, Working, Critical, Stages
  <2> QED
    BY <2>1, <2>2
<1>6. CASE LockToRemove(r)
  <2>1. CASE request[r].address \notin lb_list
    BY <1>3, <1>6, <2>1, Leaves, StaysOut, TypeParts DEF LockToRemove, Working, Critical
  <2>2. CASE request[r].address \in lb_list
    BY <1>3, <1>6, <2>2, MovesOn, Takes, TypeParts DEF LockToRemove, Working, Critical, Stages
  <2> QED
    BY <2>1, <2>2
<1>7. CASE InsertRow(r)
  BY <1>3, <1>7, MovesOn, StaysOut, TypeParts DEF InsertRow, Critical, Stages, Quiet
<1>8. CASE DeleteRow(r)
  BY <1>3, <1>8, MovesOn, StaysOut, TypeParts DEF DeleteRow, Critical, Stages, Quiet
<1>9. CASE InsertFails(r) \/ AppendLB(r) \/ DeleteFails(r) \/ Unlist(r)
  BY <1>3, <1>9, Leaves, Unlocks, TypeParts DEF InsertFails, AppendLB, DeleteFails, Unlist, Critical
<1> QED
  BY <1>4, <1>5, <1>6, <1>7, <1>8, <1>9 DEF ManageLBs

\* What a request carries is in the range of its parts.
LEMMA Carries ==
  ASSUME TypeOK, NEW r \in Request, ~At(r, "idle")
  PROVE  /\ request[r] \in Asking
         /\ request[r].session \in Session
         /\ request[r].address \in Address
         /\ request[r].change \in [Part -> Value \cup {NoChange}]
         /\ request[r].copy \in Value \cup {NoChange}
  BY DEF TypeOK, Asking, Idle

\* A request that saves has copied a value.
CopyInv ==
    \A r \in Request, p \in Part : At(r, Saving(p)) => request[r].copy \in Value

\* The stages that only one kind of request reaches.
KindInv ==
    \A r \in Request :
        /\ request[r].at \in {"insert", "append"} => request[r].kind = "add"
        /\ request[r].at \in {"delete", "unlist"} => request[r].kind = "remove"

\* Nothing is served while the process is down.
DownInv == ~up => mutex = Nobody /\ \A r \in Request : At(r, "idle")

StageInv == CopyInv /\ KindInv /\ DownInv

\* A copy takes a value and a save stores one.
LEMMA SetsMain ==
  ASSUME TypeOK, NEW r \in Request, SetMain(r)
  PROVE  /\ request' \in Requests
         /\ request'[r].at = "copy main"
         /\ request'[r].kind = request[r].kind
         /\ request'[r].session = request[r].session
         /\ request'[r].address = request[r].address
         /\ \A q \in Request \ {r} : request'[q] = request[q]
<1> DEFINE new == [request[r] EXCEPT !.at = "copy main", !.change = NoChanges]
<1>1. request[r] \in Asking
  BY Carries DEF SetMain
<1>2. request' = [request EXCEPT ![r] = new]
  BY <1>1 DEF SetMain, TypeOK, Asking
<1>3. NoChanges \in [Part -> Value \cup {NoChange}]
  BY DEF NoChanges
<1>4. new \in Asking
  BY <1>1, <1>3 DEF Asking, Stages
<1> QED
  BY <1>1, <1>2, <1>4 DEF TypeOK, Requests, Asking

LEMMA Copies ==
  ASSUME TypeOK, NEW r \in Request, NEW p \in Part, Copy(r, p)
  PROVE  /\ request' \in Requests
         /\ request'[r].at = Saving(p)
         /\ request'[r].copy = currentSettings[p]
         /\ request'[r].kind = request[r].kind
         /\ request'[r].session = request[r].session
         /\ request'[r].address = request[r].address
         /\ \A q \in Request \ {r} : request'[q] = request[q]
<1> DEFINE new == [request[r] EXCEPT !.copy = currentSettings[p], !.at = Saving(p)]
<1>1. request[r] \in Asking
  BY Carries DEF Copy, Copying, Part
<1>2. request' = [request EXCEPT ![r] = new]
  BY <1>1 DEF Copy, TypeOK, Asking
<1>3. currentSettings[p] \in Value /\ Saving(p) \in Stages
  BY DEF TypeOK, Saving, Stages, Part
<1>4. new \in Asking
  BY <1>1, <1>3 DEF Asking
<1> QED
  BY <1>1, <1>2, <1>4 DEF TypeOK, Requests, Asking

LEMMA SettingsTypes ==
  ASSUME TypeOK, CopyInv, NEW r \in Request, ChangeSettings(r)
  PROVE  TypeOK'
<1>1. Elsewhere
  BY DEF TypeOK, Elsewhere
<1>2. CASE SetGateway(r)
  <2>1. ~At(r, "idle") /\ request[r].at \notin Critical
    BY <1>2 DEF SetGateway, Working, Critical
  <2>2. Changed(currentSettings["gateway"], request[r].change["gateway"]) \in Value
    BY <1>1, <2>1, Carries DEF Elsewhere, Changed, Part
  <2>3. Elsewhere' /\ UNCHANGED mutex
    BY <1>1, <1>2, <2>2 DEF SetGateway, Elsewhere, Steady, durable, balancers, effects, web
  <2> QED
    BY <1>2, <2>1, <2>3, MovesOn, StaysOut, TypeParts DEF SetGateway, Stages, Critical
<1>3. CASE SetMain(r)
  <2>1. ~At(r, "idle") /\ request[r].at \notin Critical
    BY <1>3 DEF SetMain, Critical
  <2>2. Changed(currentSettings["main"], request[r].change["main"]) \in Value
    BY <1>1, <2>1, Carries DEF Elsewhere, Changed, Part
  <2>3. Elsewhere' /\ UNCHANGED mutex
    BY <1>1, <1>3, <2>2 DEF SetMain, Elsewhere, Steady, durable, balancers, effects, web
  <2> QED
    BY <1>3, <2>1, <2>3, SetsMain, StaysOut, TypeParts DEF Critical
<1>4. ASSUME NEW p \in Part, Copy(r, p) PROVE TypeOK'
  <2>1. request[r].at \notin Critical /\ Saving(p) \notin Critical
    BY <1>4 DEF Copy, Copying, Saving, Critical
  <2>2. Elsewhere' /\ UNCHANGED mutex
    BY <1>1, <1>4 DEF Copy, Elsewhere, Steady, balancers, settings, effects, web
  <2> QED
    BY <1>4, <2>1, <2>2, Copies, StaysOut, TypeParts
<1>5. ASSUME NEW p \in Part, Save(r, p) PROVE TypeOK'
  <2>1. ~At(r, "idle") /\ request[r].at \notin Critical
    BY <1>5 DEF Save, Saving, Critical
  <2>2. request[r].copy \in Value
    BY <1>5 DEF Save, CopyInv
  <2>3. table' \in [Part -> Value \cup {NoRow}]
    BY <1>1, <1>5, <2>2 DEF Save, Replaced, Elsewhere
  <2>4. alone' \subseteq Request /\ synced' \in BOOLEAN
    <3>1. alone' \subseteq Request
      BY <1>1, <1>5 DEF Save, Elsewhere
    <3>2. synced' = synced \/ synced' = (r \in alone')
      BY <1>5 DEF Save
    <3>3. synced \in BOOLEAN
      BY <1>1 DEF Elsewhere
    <3>4. (r \in alone') \in BOOLEAN
      OBVIOUS
    <3> QED
      BY <3>1, <3>2, <3>3, <3>4, Zenon
  <2>5. file_row' \in FileNames
    BY <1>1, <1>5 DEF Save, Elsewhere, FileNames
  <2>6. Elsewhere' /\ UNCHANGED mutex
    BY <1>1, <1>5, <2>3, <2>4, <2>5 DEF Save, Elsewhere, Steady, balancers, effects, web
  <2>7. CASE GoTo(r, "copy gateway")
    BY <2>1, <2>6, <2>7, MovesOn, StaysOut, TypeParts DEF Stages, Critical
  <2>8. CASE Answered(r)
    BY <2>1, <2>6, <2>8, Leaves, StaysOut, TypeParts DEF Critical
  <2> QED
    BY <1>5, <2>7, <2>8 DEF Save
<1> QED
  BY <1>2, <1>3, <1>4, <1>5 DEF ChangeSettings

LEMMA OthersTypes ==
  ASSUME TypeOK,
         \/ \E s \in Session : GrowOld(s)
         \/ SyncLoadBalancers
         \/ Start
         \/ Crash
         \/ UNCHANGED vars
  PROVE  TypeOK'
<1>1. Elsewhere /\ request \in Requests /\ mutex \in Request \cup {Nobody} /\ Owned(mutex, request)
  BY DEF TypeOK, Elsewhere, Requests, Owned, Critical
<1>2. CASE \E s \in Session : GrowOld(s)
  <2>1. Elsewhere' /\ UNCHANGED <<mutex, request>>
    BY <1>1, <1>2 DEF GrowOld, Elsewhere, durable, balancers, settings, effects
  <2> QED
    BY <1>1, <2>1, TypeParts DEF Owned
<1>3. CASE SyncLoadBalancers
  <2>1. Elsewhere' /\ UNCHANGED <<mutex, request>>
    BY <1>1, <1>3 DEF SyncLoadBalancers, Elsewhere, Quiet, settings, effects, web
  <2> QED
    BY <1>1, <2>1, TypeParts DEF Owned
<1>4. CASE Start
  <2>1. \A t \in Loaded(table) : t \in [Part -> Value]
    BY <1>1, ValueAssumption DEF Elsewhere, Loaded, FlagApplied, Defaulted
  <2>2. table' \in [Part -> Value \cup {NoRow}] /\ currentSettings' \in [Part -> Value]
    BY <1>4, <2>1 DEF Start
  <2>3. Elsewhere' /\ UNCHANGED <<mutex, request>>
    BY <1>1, <1>4, <2>2 DEF Start, Elsewhere, effects, web
  <2> QED
    BY <1>1, <2>3, TypeParts DEF Owned
<1>5. CASE Crash
  <2>1. Elsewhere'
    BY <1>1, <1>5, ValueAssumption DEF Crash, Elsewhere, durable, effects, FileNames
  <2>2. request' \in Requests /\ mutex' = Nobody /\ Owned(mutex', request')
    BY <1>5, OwnerAssumption DEF Crash, Requests, Owned, Critical, Idle
  <2> QED
    BY <2>1, <2>2, TypeParts
<1>6. CASE UNCHANGED vars
  BY <1>1, <1>6 DEF TypeOK, vars, durable, balancers, settings, effects, web
<1> QED
  BY <1>2, <1>3, <1>4, <1>5, <1>6

LEMMA ArriveTypes ==
  ASSUME TypeOK, NEW r \in Request, NEW kind \in Kinds, NEW s \in Session,
         NEW asked \in Asked(kind), Arrive(r, kind, s, asked[1], asked[2])
  PROVE  TypeOK'
<1>1. Elsewhere
  BY DEF TypeOK, Elsewhere
<1>2. Elsewhere' /\ UNCHANGED mutex /\ request[r].at \notin Critical
  BY <1>1 DEF Arrive, Elsewhere, Critical, durable, balancers, settings, effects, web
<1>3. request'[r].at \notin Critical
  BY Arrives DEF Critical
<1> QED
  BY <1>2, <1>3, Arrives, StaysOut, TypeParts

LEMMA InitTypes == Init => TypeOK
<1> SUFFICES ASSUME Init PROVE TypeOK
  OBVIOUS
<1>1. Idle.at = "idle"
  BY DEF Idle
<1>2. currentSettings \in [Part -> Value] /\ table \in [Part -> Value \cup {NoRow}]
  BY ValueAssumption DEF Init
<1>3. sessions \in [Session -> {"none", "young", "old"}]
  BY DEF Init
<1>4. file_row \in FileNames /\ config_file \in FileNames
  BY DEF Init, FileNames
<1> QED
  BY <1>1, <1>2, <1>3, <1>4, OwnerAssumption DEF Init, TypeOK

-----------------------------------------------------------------------------
(* Stages.                                                                 *)

LEMMA Busy ==
  ASSUME DownInv, NEW r \in Request, ~At(r, "idle")
  PROVE  up
  BY DEF DownInv

\* Where a step of a request leaves it.
Moves(r) ==
    \/ request'[r] = Idle
    \/ /\ request'[r].kind = request[r].kind
       /\ request'[r].session = request[r].session
       /\ request'[r].address = request[r].address
       /\ \/ request'[r].at \notin {"lookup", "insert", "append", "delete", "unlist", "save main", "save gateway"}
          \/ Working(r, "add") /\ request'[r].at = "insert"
          \/ At(r, "insert") /\ request'[r].at = "append"
          \/ Working(r, "remove") /\ request'[r].at = "delete"
          \/ At(r, "delete") /\ request'[r].at = "unlist"
          \/ \E p \in Part : request'[r].at = Saving(p) /\ request'[r].copy = currentSettings[p]

\* How a step of a request changes requests.
LEMMA ServeMoves ==
  ASSUME TypeOK, NEW r \in Request, Serve(r)
  PROVE  /\ ~At(r, "idle") /\ UNCHANGED up
         /\ \A q \in Request \ {r} : request'[q] = request[q]
         /\ Moves(r)
<1>1. CASE Authenticate(r)
  <2>1. ~At(r, "idle") /\ UNCHANGED up
    BY <1>1 DEF Authenticate, LookUp, Renew, Forget, Login, Logout, ShowPage, Working
  <2>2. Answered(r) \/ GoTo(r, "renew") \/ GoTo(r, "work") \/ GoTo(r, "forget")
    BY <1>1 DEF Authenticate, LookUp, Renew, Forget, Login, Logout, ShowPage
  <2> QED
    BY <2>1, <2>2, MovesOn, Leaves DEF Stages, Moves
<1>2. CASE ManageLBs(r)
  <2>1. ~At(r, "idle") /\ UNCHANGED up
    BY <1>2 DEF ManageLBs, Toggle, LockToAdd, InsertRow, InsertFails, AppendLB,
                LockToRemove, DeleteRow, DeleteFails, Unlist, Working, Quiet
  <2>2. \/ Answered(r)
        \/ Working(r, "add") /\ GoTo(r, "insert")
        \/ At(r, "insert") /\ GoTo(r, "append")
        \/ Working(r, "remove") /\ GoTo(r, "delete")
        \/ At(r, "delete") /\ GoTo(r, "unlist")
    BY <1>2 DEF ManageLBs, Toggle, LockToAdd, InsertRow, InsertFails, AppendLB,
                LockToRemove, DeleteRow, DeleteFails, Unlist
  <2> QED
    BY <2>1, <2>2, MovesOn, Leaves DEF Stages, Moves
<1>3. CASE ChangeSettings(r)
  <2>1. CASE SetGateway(r)
    BY <2>1, MovesOn DEF SetGateway, Working, Steady, Stages, Moves
  <2>2. CASE SetMain(r)
    BY <2>2, SetsMain DEF SetMain, Steady, Moves
  <2>3. ASSUME NEW p \in Part, Copy(r, p)
        PROVE  /\ ~At(r, "idle") /\ UNCHANGED up
               /\ request'[r].at = Saving(p) /\ request'[r].copy = currentSettings[p]
               /\ request'[r].kind = request[r].kind
               /\ request'[r].session = request[r].session
               /\ request'[r].address = request[r].address
               /\ \A q \in Request \ {r} : request'[q] = request[q]
    BY <2>3, Copies DEF Copy, Copying, Steady
  <2>4. ASSUME NEW p \in Part, Save(r, p)
        PROVE  /\ ~At(r, "idle") /\ UNCHANGED up
               /\ GoTo(r, "copy gateway") \/ Answered(r)
    BY <2>4 DEF Save, Saving, Steady
  <2>5. CASE \E p \in Part : Save(r, p)
    BY <2>4, <2>5, MovesOn, Leaves DEF Stages, Moves
  <2> QED
    BY <1>3, <2>1, <2>2, <2>3, <2>5 DEF ChangeSettings, Moves
<1> QED
  BY <1>1, <1>2, <1>3 DEF Serve

LEMMA ServeStages ==
  ASSUME TypeOK, StageInv, NEW r \in Request, Serve(r)
  PROVE  CopyInv' /\ KindInv' /\ DownInv'
<1>0. Moves(r)
  BY ServeMoves
<1>1. \A p \in Part : currentSettings[p] \in Value
  BY DEF TypeOK
<1>2. \A p, q \in Part : Saving(p) \in {"save main", "save gateway"} /\ (Saving(p) = Saving(q) => p = q)
  BY DEF Saving, Part
<1>3. DownInv'
  BY ServeMoves DEF StageInv, DownInv
<1>4. KindInv'
  <2> SUFFICES ASSUME NEW q \in Request
               PROVE  /\ request'[q].at \in {"insert", "append"} => request'[q].kind = "add"
                      /\ request'[q].at \in {"delete", "unlist"} => request'[q].kind = "remove"
    BY DEF KindInv
  <2>1. CASE q # r
    BY <2>1, ServeMoves DEF StageInv, KindInv
  <2>2. CASE q = r
    <3>1. CASE request'[r] = Idle
      BY <2>2, <3>1 DEF Idle
    <3>2. CASE request'[r] # Idle
      <4>1. \A p \in Part : Saving(p) \notin Critical
        BY DEF Saving, Critical
      <4>2. /\ request'[r].kind = request[r].kind
            /\ request'[r].at \in {"insert", "append"} =>
                   Working(r, "add") \/ At(r, "insert")
            /\ request'[r].at \in {"delete", "unlist"} =>
                   Working(r, "remove") \/ At(r, "delete")
        BY <1>0, <3>2, <4>1 DEF Moves, Critical
      <4> QED
        BY <2>2, <4>2 DEF StageInv, KindInv, Working
    <3> QED
      BY <3>1, <3>2
  <2> QED
    BY <2>1, <2>2
<1>5. CopyInv'
  <2> SUFFICES ASSUME NEW q \in Request, NEW p \in Part, request'[q].at = Saving(p)
               PROVE  request'[q].copy \in Value
    BY DEF CopyInv
  <2>1. CASE q # r
    BY <2>1, ServeMoves DEF StageInv, CopyInv
  <2>2. CASE q = r
    <3>1. request'[r].at \in {"save main", "save gateway"}
      BY <1>2, <2>2
    <3> QED
      <4>0. Idle.at = "idle"
        BY DEF Idle
      <4>1. request'[r] # Idle
        BY <3>1, <4>0
      <4>2. PICK s \in Part : request'[r].at = Saving(s) /\ request'[r].copy = currentSettings[s]
        BY <1>0, <3>1, <4>1 DEF Moves
      <4> QED
        BY <1>1, <2>2, <4>2
  <2> QED
    BY <2>1, <2>2
<1> QED
  BY <1>3, <1>4, <1>5

\* The steps that are not a request's.
LEMMA OthersStages ==
  ASSUME TypeOK, StageInv,
         \/ \E s \in Session : GrowOld(s)
         \/ SyncLoadBalancers
         \/ Start
         \/ Crash
         \/ UNCHANGED vars
  PROVE  StageInv'
<1>1. CASE UNCHANGED <<request, mutex>> /\ (up => up')
  BY <1>1 DEF StageInv, CopyInv, KindInv, DownInv
<1>2. CASE Crash
  <2>1. \A r \in Request : request'[r].at = "idle"
    BY <1>2 DEF Crash, Idle
  <2> QED
    BY <1>2, <2>1 DEF StageInv, CopyInv, KindInv, DownInv, Crash, Saving
<1>3. CASE Start
  BY <1>1, <1>3 DEF Start
<1> QED
  BY <1>1, <1>2, <1>3
  DEF GrowOld, SyncLoadBalancers, Quiet, balancers, vars

LEMMA ArriveStages ==
  ASSUME TypeOK, StageInv, NEW r \in Request, NEW kind \in Kinds, NEW s \in Session,
         NEW asked \in Asked(kind), Arrive(r, kind, s, asked[1], asked[2])
  PROVE  StageInv'
<1>1. request'[r].at \in {"work", "lookup"} /\ \A q \in Request \ {r} : request'[q] = request[q]
  BY Arrives
<1>2. DownInv'
  BY DEF Arrive, DownInv
<1>3. KindInv'
  BY <1>1 DEF StageInv, KindInv
<1>4. \A p \in Part : Saving(p) \notin {"work", "lookup"}
  BY DEF Saving
<1>5. CopyInv'
  BY <1>1, <1>4 DEF StageInv, CopyInv
<1> QED
  BY <1>2, <1>3, <1>5 DEF StageInv

\* One step keeps the types and the stages.
LEMMA StageStep ==
  ASSUME TypeOK, StageInv, [Next]_vars
  PROVE  TypeOK' /\ StageInv'
<1>1. ASSUME NEW r \in Request, Serve(r) PROVE TypeOK' /\ StageInv'
  BY <1>1, ServeStages, AuthenticateTypes, ManageTypes, SettingsTypes DEF Serve, StageInv
<1>2. ASSUME NEW r \in Request, NEW kind \in Kinds, NEW s \in Session,
             NEW asked \in Asked(kind), Arrive(r, kind, s, asked[1], asked[2])
      PROVE  TypeOK' /\ StageInv'
  BY <1>2, ArriveTypes, ArriveStages
<1> QED
  BY <1>1, <1>2, OthersTypes, OthersStages DEF Next

LEMMA InitStages == Init => StageInv
<1> SUFFICES ASSUME Init PROVE StageInv
  OBVIOUS
<1>1. \A r \in Request : request[r].at = "idle"
  BY DEF Init, Idle
<1> QED
  BY <1>1 DEF Init, StageInv, CopyInv, KindInv, DownInv, Saving

\* TypeOK holds in every reachable state: every variable keeps its type, and a request
\* owns the mutex exactly while it is in its critical section (web_server.go:1667-1788).
THEOREM TypeCorrect == Spec => []TypeOK
<1>1. Init => TypeOK /\ StageInv
  BY InitTypes, InitStages
<1>2. TypeOK /\ StageInv /\ [Next]_vars => (TypeOK /\ StageInv)'
  BY StageStep
<1> QED
  BY <1>1, <1>2, PTL DEF Spec

-----------------------------------------------------------------------------
(* The list of balancers and its table.                                    *)

\* How list l and table t agree; u says that loading failed.
Same(u, l, t) == IF u THEN l \subseteq t ELSE l = t

\* In the critical section list and table differ by what is under way.
ListInv ==
    /\ up /\ mutex = Nobody => Same(unloaded, lb_list, rows)
    /\ \A r \in Request :
          LET a == request[r].address
          IN /\ request[r].at \in {"insert", "delete"} => Same(unloaded, lb_list, rows)
             /\ At(r, "append") => a \in rows /\ Same(unloaded, lb_list \cup {a}, rows)
             /\ At(r, "unlist") => a \notin rows /\ Same(unloaded, lb_list \ {a}, rows)

RowInv == ListInv /\ BalancersDurable

LEMMA RowFrame ==
  ASSUME RowInv, UNCHANGED <<up, mutex, unloaded, lb_list, rows, stored, gone>>,
         \A q \in Request : request'[q].at \in Critical => request'[q] = request[q]
  PROVE  RowInv'
  BY DEF RowInv, ListInv, BalancersDurable, Critical

\* Whoever leaves the mutex free has left list and table in agreement.
LEMMA RowUnlocked ==
  ASSUME TypeOK', mutex' = Nobody, Same(unloaded, lb_list, rows)', BalancersDurable'
  PROVE  RowInv'
<1>1. \A q \in Request : request'[q].at \notin Critical
  BY OwnerAssumption DEF TypeOK, Critical
<1> QED
  BY <1>1 DEF RowInv, ListInv, Critical

\* Only the owner of the mutex is in its critical section.
LEMMA RowOwned ==
  ASSUME TypeOK', NEW r \in Request, mutex' = r, BalancersDurable',
         request'[r].at \in {"insert", "delete"} => Same(unloaded, lb_list, rows)',
         request'[r].at = "append" =>
            request'[r].address \in rows' /\ Same(unloaded', lb_list' \cup {request'[r].address}, rows'),
         request'[r].at = "unlist" =>
            request'[r].address \notin rows' /\ Same(unloaded', lb_list' \ {request'[r].address}, rows')
  PROVE  RowInv'
<1>1. \A q \in Request : request'[q].at \in Critical => q = r
  BY DEF TypeOK, Critical
<1> QED
  BY <1>1, OwnerAssumption DEF RowInv, ListInv, Critical

LEMMA ManageRows ==
  ASSUME TypeOK, StageInv, RowInv, NEW r \in Request, ManageLBs(r), TypeOK'
  PROVE  RowInv'
<1> DEFINE a == request[r].address
<1>1. ~At(r, "idle") /\ up /\ (request[r].at \in Critical <=> mutex = r)
  BY ServeMoves, Busy DEF Serve, StageInv, TypeOK, Critical
<1>2. CASE Toggle(r)
  <2>1. request'[r].at \notin Critical /\ \A q \in Request \ {r} : request'[q] = request[q]
    BY <1>2, Leaves DEF Toggle, Critical
  <2> QED
    BY <1>2, <2>1, RowFrame DEF Toggle, Quiet, effects
<1>3. CASE LockToAdd(r)
  <2>1. Same(unloaded, lb_list, rows)' /\ BalancersDurable'
    BY <1>1, <1>3 DEF LockToAdd, RowInv, ListInv, BalancersDurable, Quiet, effects
  <2>2. CASE a \in lb_list
    BY <1>3, <2>1, <2>2, RowUnlocked DEF LockToAdd
  <2>3. CASE a \notin lb_list
    <3>1. request'[r].at = "insert" /\ mutex' = r
      BY <1>1, <1>3, <2>3, MovesOn DEF LockToAdd, Stages
    <3> QED
      BY <2>1, <3>1, RowOwned
  <2> QED
    BY <2>2, <2>3
<1>4. CASE LockToRemove(r)
  <2>1. Same(unloaded, lb_list, rows)' /\ BalancersDurable'
    BY <1>1, <1>4 DEF LockToRemove, RowInv, ListInv, BalancersDurable, Quiet, effects
  <2>2. CASE a \notin lb_list
    BY <1>4, <2>1, <2>2, RowUnlocked DEF LockToRemove
  <2>3. CASE a \in lb_list
    <3>1. request'[r].at = "delete" /\ mutex' = r
      BY <1>1, <1>4, <2>3, MovesOn DEF LockToRemove, Stages
    <3> QED
      BY <2>1, <3>1, RowOwned
  <2> QED
    BY <2>2, <2>3
<1>5. CASE InsertRow(r)
  <2>1. request'[r].at = "append" /\ mutex' = r /\ request'[r].address = a
    BY <1>1, <1>5, MovesOn DEF InsertRow, Stages, Critical
  <2>2. BalancersDurable'
    BY <1>5 DEF InsertRow, RowInv, BalancersDurable
  <2>3. Same(unloaded, lb_list, rows)
    BY <1>5 DEF InsertRow, RowInv, ListInv
  <2>4. a \in rows' /\ Same(unloaded', lb_list' \cup {a}, rows')
    BY <1>5, <2>3 DEF InsertRow, Same, Quiet
  <2> QED
    BY <2>1, <2>2, <2>4, RowOwned
<1>6. CASE DeleteRow(r)
  <2>1. request'[r].at = "unlist" /\ mutex' = r /\ request'[r].address = a
    BY <1>1, <1>6, MovesOn DEF DeleteRow, Stages, Critical
  <2>2. BalancersDurable'
    BY <1>6 DEF DeleteRow, RowInv, BalancersDurable
  <2>3. Same(unloaded, lb_list, rows)
    BY <1>6 DEF DeleteRow, RowInv, ListInv
  <2>4. a \notin rows' /\ Same(unloaded', lb_list' \ {a}, rows')
    BY <1>6, <2>3 DEF DeleteRow, Same, Quiet
  <2> QED
    BY <2>1, <2>2, <2>4, RowOwned
<1>7. CASE InsertFails(r) \/ DeleteFails(r)
  <2>1. Same(unloaded, lb_list, rows)' /\ BalancersDurable' /\ mutex' = Nobody
    BY <1>7 DEF InsertFails, DeleteFails, RowInv, ListInv, BalancersDurable, Quiet, effects
  <2> QED
    BY <2>1, RowUnlocked
<1>8. CASE AppendLB(r)
  <2>1. a \in rows /\ Same(unloaded, lb_list \cup {a}, rows)
    BY <1>8 DEF AppendLB, RowInv, ListInv
  <2>2. Same(unloaded, lb_list, rows)' /\ BalancersDurable' /\ mutex' = Nobody
    BY <1>8, <2>1 DEF AppendLB, RowInv, BalancersDurable, Quiet
  <2> QED
    BY <2>2, RowUnlocked
<1>9. CASE Unlist(r)
  <2>1. a \notin rows /\ Same(unloaded, lb_list \ {a}, rows)
    BY <1>9 DEF Unlist, RowInv, ListInv
  <2>2. Same(unloaded, lb_list, rows)' /\ BalancersDurable' /\ mutex' = Nobody
    BY <1>9, <2>1 DEF Unlist, RowInv, BalancersDurable, Quiet
  <2> QED
    BY <2>2, RowUnlocked
<1> QED
  BY <1>2, <1>3, <1>4, <1>5, <1>6, <1>7, <1>8, <1>9 DEF ManageLBs

\* A request that leaves the mutex alone neither enters nor moves in a critical section.
LEMMA RowUntouched ==
  ASSUME TypeOK, RowInv, NEW r \in Request, TypeOK', request[r].at \notin Critical,
         \A q \in Request \ {r} : request'[q] = request[q],
         UNCHANGED <<up, mutex, unloaded, lb_list, rows, stored, gone>>
  PROVE  RowInv'
<1>1. request'[r].at \notin Critical
  BY DEF TypeOK, Critical
<1> QED
  BY <1>1, RowFrame

LEMMA ServeRows ==
  ASSUME TypeOK, StageInv, RowInv, NEW r \in Request, Serve(r), TypeOK'
  PROVE  RowInv'
<1>1. CASE Authenticate(r)
  <2>1. request[r].at \notin Critical /\ UNCHANGED <<up, mutex, unloaded, lb_list, rows, stored, gone>>
    BY <1>1 DEF Authenticate, LookUp, Renew, Forget, Login, Logout, ShowPage, Working, Critical,
                durable, balancers, effects
  <2> QED
    BY <2>1, ServeMoves, RowUntouched
<1>2. CASE ChangeSettings(r)
  <2>1. request[r].at \notin Critical
    BY <1>2 DEF ChangeSettings, SetGateway, SetMain, Copy, Copying, Save, Saving, Working, Critical
  <2>2. UNCHANGED <<up, mutex, unloaded, lb_list, rows, stored, gone>>
    BY <1>2 DEF ChangeSettings, SetGateway, SetMain, Copy, Save, Steady, balancers, effects
  <2> QED
    BY <2>1, <2>2, ServeMoves, RowUntouched
<1> QED
  BY <1>1, <1>2, ManageRows DEF Serve

LEMMA OthersRows ==
  ASSUME TypeOK, StageInv, RowInv, TypeOK',
         \/ \E s \in Session : GrowOld(s)
         \/ SyncLoadBalancers
         \/ Start
         \/ Crash
         \/ UNCHANGED vars
  PROVE  RowInv'
<1>1. CASE SyncLoadBalancers
  <2>1. PICK added \in SUBSET lb_list : rows' = rows \cup added
    BY <1>1 DEF SyncLoadBalancers
  <2>2. Same(unloaded, lb_list, rows)' /\ BalancersDurable' /\ mutex' = Nobody
    BY <1>1, <2>1 DEF SyncLoadBalancers, RowInv, ListInv, BalancersDurable, Same, Quiet, effects
  <2> QED
    BY <2>2, RowUnlocked
<1>2. CASE Start
  <2>1. Same(unloaded, lb_list, rows)' /\ BalancersDurable' /\ mutex' = Nobody
    BY <1>2 DEF Start, StageInv, DownInv, RowInv, BalancersDurable, Same, effects
  <2> QED
    BY <2>1, RowUnlocked
<1>3. CASE Crash
  <2>1. ~up' /\ mutex' = Nobody /\ BalancersDurable'
    BY <1>3 DEF Crash, RowInv, BalancersDurable, durable, effects
  <2>2. \A q \in Request : request'[q].at = "idle"
    BY <1>3 DEF Crash, Idle
  <2> QED
    BY <2>1, <2>2 DEF RowInv, ListInv
<1>4. CASE (\E s \in Session : GrowOld(s)) \/ UNCHANGED vars
  <2>1. UNCHANGED <<up, mutex, unloaded, lb_list, rows, stored, gone, request>>
    BY <1>4 DEF GrowOld, vars, durable, balancers, effects
  <2> QED
    BY <2>1, RowFrame
<1> QED
  BY <1>1, <1>2, <1>3, <1>4

LEMMA RowStep ==
  ASSUME TypeOK, StageInv, RowInv, TypeOK', [Next]_vars
  PROVE  RowInv'
<1>1. ASSUME NEW r \in Request, NEW kind \in Kinds, NEW s \in Session,
             NEW asked \in Asked(kind), Arrive(r, kind, s, asked[1], asked[2])
      PROVE  RowInv'
  <2>1. /\ request[r].at \notin Critical
        /\ UNCHANGED <<up, mutex, unloaded, lb_list, rows, stored, gone>>
    BY <1>1 DEF Arrive, Critical, durable, balancers, effects
  <2> QED
    BY <1>1, <2>1, Arrives, RowUntouched
<1> QED
  BY <1>1, ServeRows, OthersRows DEF Next

LEMMA InitRows == Init => RowInv
<1> SUFFICES ASSUME Init PROVE RowInv
  OBVIOUS
<1>1. \A r \in Request : request[r].at = "idle"
  BY DEF Init, Idle
<1> QED
  BY <1>1 DEF Init, RowInv, ListInv, BalancersDurable

LEMMA RowsInvariant == Spec => [](TypeOK /\ StageInv /\ RowInv)
<1>1. Init => TypeOK /\ StageInv /\ RowInv
  BY InitTypes, InitStages, InitRows
<1>2. TypeOK /\ StageInv /\ RowInv /\ [Next]_vars => (TypeOK /\ StageInv /\ RowInv)'
  BY StageStep, RowStep
<1> QED
  BY <1>1, <1>2, PTL DEF Spec

\* Between two critical sections the table holds exactly the listed balancers, after any
\* failure of the database and any crash (web_server.go:1680-1721, 1761-1769).
THEOREM ListAgrees == Spec => []ListedIsStored
<1>1. RowInv => ListedIsStored
  BY DEF RowInv, ListInv, Same, ListedIsStored
<1> QED
  BY <1>1, RowsInvariant, PTL

\* What took effect stays: additions are stored, and removed balancers are neither stored
\* nor listed, whatever the synchronization (database.go:622) and restarts do.
THEOREM EffectsStay == Spec => []BalancersDurable
<1>1. RowInv => BalancersDurable
  BY DEF RowInv
<1> QED
  BY <1>1, RowsInvariant, PTL

-----------------------------------------------------------------------------
(* The table implements DurableBalancers.                                  *)

Todo == [r \in Request |-> Wanted(r)]

\* What is wanted depends on where a request is and what it carries.
LEMMA WantedKept ==
  ASSUME NEW r \in Request, request'[r] = request[r]
  PROVE  Wanted(r)' = Wanted(r)
  BY DEF Wanted

LEMMA WantedOfOne ==
  ASSUME NEW r \in Request, \A q \in Request \ {r} : request'[q] = request[q]
  PROVE  Todo' = [Todo EXCEPT ![r] = Wanted(r)']
<1>1. \A q \in Request \ {r} : Wanted(q)' = Wanted(q)
  BY WantedKept
<1> QED
  BY <1>1 DEF Todo

LEMMA WantedIdle ==
  ASSUME NEW r \in Request, request'[r].at = "idle"
  PROVE  Wanted(r)' = Promised!Nothing
  BY DEF Wanted, Promised!Nothing

\* A step of a request that changes no row is an answer, or nothing at all.
LEMMA PromisedAnswer ==
  ASSUME NEW r \in Request, UNCHANGED rows, \A q \in Request \ {r} : request'[q] = request[q],
         Wanted(r)' = Wanted(r) \/ Wanted(r)' = Promised!Nothing
  PROVE  [Promised!Next]_(Promised!vars)
<1>1. Todo' = [Todo EXCEPT ![r] = Wanted(r)']
  BY WantedOfOne
<1>2. Todo[r] = Wanted(r)
  BY DEF Todo
<1>3. CASE Wanted(r)' = Wanted(r)
  <2>1. Todo' = Todo
    BY <1>1, <1>2, <1>3 DEF Todo
  <2> QED
    BY <2>1 DEF Promised!vars, Todo
<1>4. CASE Wanted(r) # Promised!Nothing /\ Wanted(r)' = Promised!Nothing
  <2>1. Promised!Answer(r)
    BY <1>1, <1>2, <1>4 DEF Promised!Answer, Todo
  <2> QED
    BY <2>1 DEF Promised!Next
<1> QED
  BY <1>3, <1>4

\* The stages at which what is wanted is what was asked for.
Pending == Stages \ {"append", "unlist"}

LEMMA WantedPending ==
  ASSUME NEW r \in Request, request[r].at \in Pending, request'[r].at \in Pending,
         request'[r].kind = request[r].kind, request'[r].address = request[r].address
  PROVE  Wanted(r)' = Wanted(r)
  BY DEF Wanted, Pending, Stages

LEMMA PromisedServe ==
  ASSUME TypeOK, NEW r \in Request, Serve(r), ~InsertRow(r), ~DeleteRow(r)
  PROVE  [Promised!Next]_(Promised!vars)
<1>0. \A q \in Request \ {r} : request'[q] = request[q]
  BY ServeMoves
<1>1. CASE Answered(r) /\ UNCHANGED rows
  BY <1>0, <1>1, Leaves, WantedIdle, PromisedAnswer
<1>2. ASSUME NEW where \in Pending, GoTo(r, where), request[r].at \in Pending, UNCHANGED rows
      PROVE  [Promised!Next]_(Promised!vars)
  <2>1. where \in Stages /\ ~At(r, "idle")
    BY <1>2 DEF Pending, Stages
  <2>2. request'[r].at \in Pending /\ request'[r].kind = request[r].kind /\ request'[r].address = request[r].address
    BY <1>2, <2>1, MovesOn
  <2>3. Wanted(r)' = Wanted(r)
    BY <1>2, <2>2, WantedPending
  <2> QED
    BY <1>0, <1>2, <2>3, PromisedAnswer
<1>3. CASE Authenticate(r)
  <2>1. UNCHANGED rows
    BY <1>3 DEF Authenticate, LookUp, Renew, Forget, Login, Logout, ShowPage, durable
  <2>2. \/ Answered(r)
        \/ request[r].at \in {"lookup", "renew"} /\ (GoTo(r, "renew") \/ GoTo(r, "work") \/ GoTo(r, "forget"))
    BY <1>3 DEF Authenticate, LookUp, Renew, Forget, Login, Logout, ShowPage
  <2> QED
    BY <1>1, <1>2, <2>1, <2>2 DEF Pending, Stages
<1>4. CASE ManageLBs(r)
  <2>1. UNCHANGED rows
    BY <1>4 DEF ManageLBs, Toggle, LockToAdd, InsertFails, AppendLB, LockToRemove, DeleteFails, Unlist
  <2>2. \/ Answered(r)
        \/ At(r, "work") /\ (GoTo(r, "insert") \/ GoTo(r, "delete"))
    BY <1>4 DEF ManageLBs, Toggle, LockToAdd, InsertFails, AppendLB, LockToRemove, DeleteFails, Unlist, Working
  <2> QED
    BY <1>1, <1>2, <2>1, <2>2 DEF Pending, Stages
<1>5. CASE ChangeSettings(r)
  <2>1. UNCHANGED rows
    BY <1>5 DEF ChangeSettings, SetGateway, SetMain, Copy, Save, Steady
  <2>2. CASE SetGateway(r)
    BY <1>2, <2>1, <2>2 DEF SetGateway, Working, Pending, Stages
  <2>3. CASE SetMain(r)
    BY <1>0, <2>1, <2>3, SetsMain, WantedPending, PromisedAnswer DEF SetMain, Pending, Stages
  <2>4. ASSUME NEW p \in Part, Copy(r, p) PROVE [Promised!Next]_(Promised!vars)
    <3>1. request[r].at \in Pending /\ Saving(p) \in Pending
      BY <2>4 DEF Copy, Copying, Saving, Pending, Stages
    <3> QED
      BY <1>0, <2>1, <2>4, <3>1, Copies, WantedPending, PromisedAnswer
  <2>5. ASSUME NEW p \in Part, Save(r, p) PROVE [Promised!Next]_(Promised!vars)
    BY <1>1, <1>2, <2>1, <2>5 DEF Save, Saving, Pending, Stages
  <2> QED
    BY <1>5, <2>2, <2>3, <2>4, <2>5 DEF ChangeSettings
<1> QED
  BY <1>3, <1>4, <1>5 DEF Serve

\* The row is the effect of an addition or a removal.
LEMMA PromisedEffect ==
  ASSUME TypeOK, StageInv, NEW r \in Request, InsertRow(r) \/ DeleteRow(r)
  PROVE  Promised!Next
<1> DEFINE a == request[r].address
<1>1. a \in Address /\ ~At(r, "idle") /\ \A q \in Request \ {r} : request'[q] = request[q]
  BY Carries, MovesOn DEF InsertRow, DeleteRow, Stages
<1>2. Todo' = [Todo EXCEPT ![r] = Wanted(r)'] /\ Todo[r] = Wanted(r)
  BY <1>1, WantedOfOne DEF Todo
<1>3. CASE InsertRow(r)
  <2>1. request'[r].at = "append" /\ request[r].kind = "add"
    BY <1>1, <1>3, MovesOn DEF InsertRow, Stages, StageInv, KindInv
  <2>2. Wanted(r) = [todo |-> "add", address |-> a] /\ Wanted(r)' = Promised!Done
    BY <1>3, <2>1 DEF Wanted, InsertRow, Promised!Done
  <2>3. Promised!Add(r, a)
    BY <1>2, <1>3, <2>2 DEF Promised!Add, InsertRow, Todo
  <2> QED
    BY <1>1, <2>3 DEF Promised!Next
<1>4. CASE DeleteRow(r)
  <2>1. request'[r].at = "unlist" /\ request[r].kind = "remove"
    BY <1>1, <1>4, MovesOn DEF DeleteRow, Stages, StageInv, KindInv
  <2>2. Wanted(r) = [todo |-> "remove", address |-> a] /\ Wanted(r)' = Promised!Done
    BY <1>4, <2>1 DEF Wanted, DeleteRow, Promised!Done
  <2>3. Promised!Remove(r, a)
    BY <1>2, <1>4, <2>2 DEF Promised!Remove, DeleteRow, Todo
  <2> QED
    BY <1>1, <2>3 DEF Promised!Next
<1> QED
  BY <1>3, <1>4

\* An arrival asks, if it is to add or to remove, and a crash forgets what was asked.
LEMMA PromisedArrive ==
  ASSUME TypeOK, NEW r \in Request, NEW kind \in Kinds, NEW s \in Session,
         NEW asked \in Asked(kind), Arrive(r, kind, s, asked[1], asked[2])
  PROVE  [Promised!Next]_(Promised!vars)
<1> DEFINE new == [todo |-> kind, address |-> request'[r].address]
<1>1. /\ request'[r].at \in {"work", "lookup"} /\ request'[r].kind = kind
      /\ request'[r].address \in Address
      /\ \A q \in Request \ {r} : request'[q] = request[q]
  BY Arrives
<1>2. Todo[r] = Promised!Nothing /\ UNCHANGED rows
  BY DEF Arrive, Todo, Wanted, Promised!Nothing, durable
<1>3. CASE kind \in {"add", "remove"}
  <2>1. Wanted(r)' = new
    BY <1>1, <1>3 DEF Wanted
  <2>2. new \in Promised!Operation
    BY <1>1, <1>3 DEF Promised!Operation
  <2>3. Todo' = [Todo EXCEPT ![r] = new]
    BY <1>1, <2>1, WantedOfOne
  <2> HIDE DEF new
  <2>4. Promised!Ask(r, new)
    BY <1>2, <2>3 DEF Promised!Ask, Todo
  <2> QED
    BY <2>2, <2>4 DEF Promised!Next
<1>4. CASE kind \notin {"add", "remove"}
  <2>1. Wanted(r)' = Promised!Nothing
    BY <1>1, <1>4 DEF Wanted, Promised!Nothing
  <2> QED
    BY <1>1, <1>2, <2>1, PromisedAnswer
<1> QED
  BY <1>3, <1>4

LEMMA PromisedOthers ==
  ASSUME TypeOK,
         \/ \E s \in Session : GrowOld(s)
         \/ SyncLoadBalancers
         \/ Start
         \/ Crash
         \/ UNCHANGED vars,
         ListedIsStored
  PROVE  [Promised!Next]_(Promised!vars)
<1>1. ASSUME UNCHANGED <<rows, request>> PROVE [Promised!Next]_(Promised!vars)
  <2>1. \A r \in Request : Wanted(r)' = Wanted(r)
    BY <1>1, WantedKept
  <2> QED
    BY <1>1, <2>1 DEF Promised!vars
<1>2. CASE SyncLoadBalancers
  <2>1. PICK added \in SUBSET lb_list : rows' = rows \cup added
    BY <1>2 DEF SyncLoadBalancers
  <2>2. lb_list \subseteq rows
    BY <1>2 DEF SyncLoadBalancers, ListedIsStored
  <2> QED
    BY <1>1, <1>2, <2>1, <2>2 DEF SyncLoadBalancers
<1>3. CASE Crash
  <2>1. \A r \in Request : request'[r].at = "idle"
    BY <1>3 DEF Crash, Idle
  <2>2. \A r \in Request : Wanted(r)' = Promised!Nothing
    BY <2>1, WantedIdle
  <2>3. Promised!Crash
    BY <1>3, <2>2 DEF Crash, Promised!Crash, durable
  <2> QED
    BY <2>3 DEF Promised!Next
<1> QED
  BY <1>1, <1>2, <1>3 DEF GrowOld, Start, web, vars, durable

\* The table implements DurableBalancers: only a request changes a row, once, by what it
\* asked for, between its arrival and its answer (web_server.go:1627-1788), and neither the
\* synchronization (database.go:622) nor a crash or a start changes any.
THEOREM KeepsTheBalancers == Spec => KeepsBalancers
<1>1. Init => Promised!Init
  BY DEF Init, Idle, Promised!Init, Promised!Nothing, Wanted
<1>2. TypeOK /\ StageInv /\ RowInv /\ [Next]_vars => [Promised!Next]_(Promised!vars)
  <2> SUFFICES ASSUME TypeOK, StageInv, RowInv, [Next]_vars
               PROVE  [Promised!Next]_(Promised!vars)
    OBVIOUS
  <2>1. ListedIsStored
    BY DEF RowInv, ListInv, Same, ListedIsStored
  <2> QED
    BY <2>1, PromisedServe, PromisedEffect, PromisedArrive, PromisedOthers DEF Next
<1> QED
  BY <1>1, <1>2, RowsInvariant, PTL DEF Spec, KeepsBalancers, Promised!Spec

-----------------------------------------------------------------------------
(* Logging out.                                                            *)

\* A session that is logged out is not about to be renewed either.
LeftInv == LogoutHolds /\ \A r \in Request : At(r, "renew") => request[r].session \notin left

LEMMA LeftFrame ==
  ASSUME LeftInv, UNCHANGED web, NEW r \in Request, request'[r].at # "renew",
         \A q \in Request \ {r} : request'[q] = request[q]
  PROVE  LeftInv'
  BY DEF LeftInv, LogoutHolds, web

LEMMA AuthenticateLeft ==
  ASSUME TypeOK, LeftInv, NEW r \in Request, Authenticate(r)
  PROVE  LeftInv'
<1> DEFINE s == request[r].session
<1>1. ~At(r, "idle") /\ s \in Session /\ sessions \in [Session -> {"none", "young", "old"}]
  BY Carries DEF Authenticate, LookUp, Renew, Forget, Login, Logout, ShowPage, Working, TypeOK
<1>2. CASE LookUp(r)
  <2>1. CASE Answered(r) \/ GoTo(r, "work") \/ GoTo(r, "forget")
    <3>1. request'[r].at # "renew" /\ \A q \in Request \ {r} : request'[q] = request[q]
      BY <1>1, <2>1, Leaves, MovesOn DEF Stages
    <3> QED
      BY <1>2, <3>1, LeftFrame DEF LookUp
  <2>2. CASE Valid(s) /\ GoTo(r, "renew")
    <3>1. s \notin left
      BY <2>2 DEF Valid, LeftInv, LogoutHolds
    <3>2. request'[r].session = s /\ \A q \in Request \ {r} : request'[q] = request[q]
      BY <1>1, <2>2, MovesOn DEF Stages
    <3> QED
      BY <1>2, <3>1, <3>2 DEF LookUp, LeftInv, LogoutHolds, web
  <2> QED
    BY <1>2, <2>1, <2>2 DEF LookUp
<1>3. CASE Renew(r)
  <2>1. s \notin left
    BY <1>3 DEF Renew, LeftInv
  <2>2. request'[r].at = "work" /\ \A q \in Request \ {r} : request'[q] = request[q]
    BY <1>1, <1>3, MovesOn DEF Renew, Stages
  <2>3. \A t \in left' : sessions'[t] = sessions[t]
    BY <1>1, <1>3, <2>1 DEF Renew
  <2> QED
    BY <1>3, <2>2, <2>3 DEF Renew, LeftInv, LogoutHolds
<1>4. CASE Answered(r) /\ left' \subseteq left /\ \A t \in left' : sessions'[t] = sessions[t] \/ sessions'[t] = "none"
  <2>1. request'[r].at = "idle" /\ \A q \in Request \ {r} : request'[q] = request[q]
    BY <1>4, Leaves
  <2> QED
    BY <1>4, <2>1 DEF LeftInv, LogoutHolds
<1>5. CASE Forget(r) \/ Login(r) \/ ShowPage(r)
  <2>1. left \subseteq Session
    BY DEF TypeOK
  <2> QED
    BY <1>1, <1>4, <1>5, <2>1 DEF Forget, Login, ShowPage, web
<1>6. CASE Logout(r)
  <2>1. request'[r].at = "idle" /\ \A q \in Request \ {r} : request'[q] = request[q]
    BY <1>6, Leaves DEF Logout
  <2>2. LogoutHolds'
    BY <1>1, <1>6 DEF Logout, LeftInv, LogoutHolds, TypeOK
  <2>3. ASSUME NEW q \in Request, request'[q].at = "renew" PROVE request'[q].session \notin left'
    <3>1. q # r /\ request'[q] = request[q] /\ At(q, "renew")
      BY <2>1, <2>3
    <3>2. request[q].session \notin left
      BY <3>1 DEF LeftInv
    <3>3. CASE request[q].session = s
      <4>1. InUse(r, s)
        BY <3>1, <3>3 DEF InUse
      <4> QED
        BY <1>6, <3>1, <3>2, <4>1 DEF Logout
    <3>4. CASE request[q].session # s
      BY <1>6, <3>1, <3>2, <3>4 DEF Logout
    <3> QED
      BY <3>3, <3>4
  <2> QED
    BY <2>2, <2>3 DEF LeftInv
<1> QED
  BY <1>2, <1>3, <1>5, <1>6 DEF Authenticate

LEMMA ServeLeft ==
  ASSUME TypeOK, LeftInv, NEW r \in Request, Serve(r)
  PROVE  LeftInv'
<1>0. ~At(r, "idle") /\ \A q \in Request \ {r} : request'[q] = request[q]
  BY ServeMoves
<1>1. CASE ManageLBs(r)
  <2>1. UNCHANGED web
    BY <1>1 DEF ManageLBs, Toggle, LockToAdd, InsertRow, InsertFails, AppendLB,
                LockToRemove, DeleteRow, DeleteFails, Unlist, Quiet
  <2>2. Answered(r) \/ \E where \in Critical : GoTo(r, where)
    BY <1>1 DEF ManageLBs, Toggle, LockToAdd, InsertRow, InsertFails, AppendLB,
                LockToRemove, DeleteRow, DeleteFails, Unlist, Critical
  <2>3. request'[r].at # "renew"
    BY <1>0, <2>2, StaysInside DEF Critical
  <2> QED
    BY <1>0, <2>1, <2>3, LeftFrame
<1>2. CASE ChangeSettings(r)
  <2>1. UNCHANGED web
    BY <1>2 DEF ChangeSettings, SetGateway, SetMain, Copy, Save, Steady
  <2>2. request'[r].at # "renew"
    <3>1. ASSUME NEW p \in Part, Copy(r, p) PROVE request'[r].at # "renew"
      BY <3>1, Copies DEF Saving
    <3>2. ASSUME NEW p \in Part, Save(r, p) PROVE request'[r].at # "renew"
      BY <1>0, <3>2, Leaves, MovesOn DEF Save, Stages
    <3>3. CASE SetGateway(r)
      BY <1>0, <3>3, MovesOn DEF SetGateway, Stages
    <3>4. CASE SetMain(r)
      BY <3>4, SetsMain
    <3> QED
      BY <1>2, <3>1, <3>2, <3>3, <3>4 DEF ChangeSettings
  <2> QED
    BY <1>0, <2>1, <2>2, LeftFrame
<1> QED
  BY <1>1, <1>2, AuthenticateLeft DEF Serve

LEMMA LeftStep ==
  ASSUME TypeOK, LeftInv, [Next]_vars
  PROVE  LeftInv'
<1>1. ASSUME NEW r \in Request, NEW kind \in Kinds, NEW s \in Session,
             NEW asked \in Asked(kind), Arrive(r, kind, s, asked[1], asked[2])
      PROVE  LeftInv'
  <2>1. UNCHANGED web
    BY <1>1 DEF Arrive
  <2> QED
    BY <1>1, <2>1, Arrives, LeftFrame
<1>2. CASE UNCHANGED <<web, request>>
  BY <1>2 DEF LeftInv, LogoutHolds, web
<1>3. ASSUME NEW s \in Session, GrowOld(s) PROVE LeftInv'
  <2>1. s \notin left
    BY <1>3 DEF GrowOld, LeftInv, LogoutHolds
  <2>2. left \subseteq Session /\ sessions \in [Session -> {"none", "young", "old"}]
    BY DEF TypeOK
  <2> QED
    BY <1>3, <2>1, <2>2 DEF GrowOld, LeftInv, LogoutHolds
<1>4. CASE Crash
  <2>1. \A q \in Request : request'[q].at = "idle"
    BY <1>4 DEF Crash, Idle
  <2>2. left' \subseteq Session
    BY <1>4 DEF Crash, TypeOK
  <2> QED
    BY <1>4, <2>1, <2>2 DEF Crash, LeftInv, LogoutHolds
<1> QED
  BY <1>1, <1>2, <1>3, <1>4, ServeLeft
  DEF Next, SyncLoadBalancers, Quiet, Start, vars

\* A session that is logged out while no other request is between its lookup and its
\* renewal (web_server.go:323-330) is never accepted again, and no request stores it again.
THEOREM LogoutsHold == Spec => []LogoutHolds
<1>1. Init => TypeOK /\ StageInv /\ LeftInv
  BY InitTypes, InitStages DEF Init, LeftInv, LogoutHolds, Idle
<1>2. TypeOK /\ StageInv /\ LeftInv /\ [Next]_vars => (TypeOK /\ StageInv /\ LeftInv)'
  BY StageStep, LeftStep
<1>3. LeftInv => LogoutHolds
  BY DEF LeftInv
<1> QED
  BY <1>1, <1>2, <1>3, PTL DEF Spec

-----------------------------------------------------------------------------
(* Settings.                                                               *)

Setting == {"set main", "copy main", "save main", "copy gateway", "save gateway"}

\* How far a request that has the settings to itself has got.
Progress(r) ==
    /\ At(r, "save main") => request[r].copy = currentSettings["main"]
    /\ request[r].at \in {"copy gateway", "save gateway"} => table["main"] = currentSettings["main"]
    /\ At(r, "save gateway") => request[r].copy = currentSettings["gateway"]

SettingsInv ==
    /\ up /\ synced => table = currentSettings /\ Changing = {}
    /\ \A r \in alone : request[r].at \in Setting => Changing = {r} /\ Progress(r)

LEMMA ChangingIs == Changing = {r \in Request : request[r].at \in Setting}
  BY DEF Changing, Setting

LEMMA ChangingNext ==
  ASSUME NEW r \in Request, \A q \in Request \ {r} : request'[q] = request[q]
  PROVE  Changing' = IF request'[r].at \in Setting THEN Changing \cup {r} ELSE Changing \ {r}
  BY DEF Changing, Setting

\* A step of a request that does not touch the settings.
LEMMA SettingsFrame ==
  ASSUME TypeOK, SettingsInv, NEW r \in Request, \A q \in Request \ {r} : request'[q] = request[q],
         request[r].at \notin Setting, request'[r].at \notin Setting,
         UNCHANGED <<up, table, settings>>
  PROVE  SettingsInv'
<1>1. Changing' = Changing
  <2>1. r \notin Changing
    BY ChangingIs
  <2>2. Changing' = Changing \ {r}
    BY ChangingNext
  <2> QED
    BY <2>1, <2>2
<1>2. ASSUME NEW q \in alone', request'[q].at \in Setting
      PROVE  Changing' = {q} /\ Progress(q)'
  <2>1. q \in alone /\ q \in Request /\ q # r /\ request'[q] = request[q]
    BY <1>2 DEF settings, TypeOK
  <2>2. Changing = {q} /\ Progress(q)
    BY <1>2, <2>1 DEF SettingsInv
  <2> QED
    BY <1>1, <2>1, <2>2 DEF Progress, settings
<1> QED
  BY <1>1, <1>2 DEF SettingsInv, settings

LEMMA SetGatewaySettings ==
  ASSUME TypeOK, SettingsInv, NEW r \in Request, SetGateway(r)
  PROVE  SettingsInv'
<1>1. request'[r].at = "set main" /\ \A q \in Request \ {r} : request'[q] = request[q]
  BY MovesOn DEF SetGateway, Working, Stages
<1>2. Changing' = Changing \cup {r}
  BY <1>1, ChangingNext DEF Setting
<1>3. ASSUME NEW q \in alone' PROVE Changing' = {q} /\ Progress(q)'
  <2>1. q = r /\ Changing = {}
    BY <1>3 DEF SetGateway
  <2> QED
    BY <1>1, <1>2, <2>1 DEF Progress
<1> QED
  BY <1>3 DEF SetGateway, SettingsInv

\* A request that is changing the settings moves on to another stage of that.
LEMMA SettingsAlone ==
  ASSUME TypeOK, SettingsInv, NEW r \in Request, request[r].at \in Setting,
         \A q \in Request \ {r} : request'[q] = request[q], request'[r].at \in Setting,
         alone' \subseteq alone, UNCHANGED <<up, synced>>,
         r \in alone' => Progress(r)'
  PROVE  SettingsInv'
<1>1. r \in Changing
  BY ChangingIs
<1>2. Changing' = Changing
  <2>1. Changing' = Changing \cup {r}
    BY ChangingNext
  <2> QED
    BY <1>1, <2>1
<1>3. ~(up' /\ synced')
  BY <1>1 DEF SettingsInv
<1>4. ASSUME NEW q \in alone', request'[q].at \in Setting
      PROVE  Changing' = {q} /\ Progress(q)'
  <2>1. q \in alone /\ q \in Request
    BY DEF TypeOK
  <2>2. request[q].at \in Setting
    BY <1>4, <2>1
  <2>3. Changing = {q}
    BY <2>1, <2>2 DEF SettingsInv
  <2> QED
    BY <1>1, <1>2, <1>4, <2>3
<1> QED
  BY <1>3, <1>4 DEF SettingsInv

LEMMA SaveSettings ==
  ASSUME TypeOK, StageInv, SettingsInv, NEW r \in Request, NEW p \in Part, Save(r, p), TypeOK'
  PROVE  SettingsInv'
<1>1. request[r].at \in Setting /\ request[r].at = Saving(p) /\ ~At(r, "idle") /\ up
  BY Busy DEF Save, Saving, Setting, StageInv
<1>2. alone' \subseteq alone
  BY <1>1 DEF Save
<1>3. table \in [Part -> Value \cup {NoRow}]
  BY DEF TypeOK
<1>4. r \in alone => Changing = {r} /\ Progress(r)
  BY <1>1 DEF SettingsInv
<1>5. r \in alone' => table' = [table EXCEPT ![p] = request[r].copy]
  BY DEF Save, Replaced
<1>6. CASE p = "main"
  <2>1. request'[r].at = "copy gateway" /\ \A q \in Request \ {r} : request'[q] = request[q]
    BY <1>1, <1>6, MovesOn DEF Save, Stages
  <2>2. At(r, "save main")
    BY <1>1, <1>6 DEF Saving
  <2>3. r \in alone' => Progress(r)'
    BY <1>2, <1>3, <1>4, <1>5, <1>6, <2>1, <2>2 DEF Progress, Save
  <2> QED
    BY <1>1, <1>2, <1>6, <2>1, <2>3, SettingsAlone DEF Save, Setting, Steady
<1>7. CASE p = "gateway"
  <2>1. request'[r].at = "idle" /\ \A q \in Request \ {r} : request'[q] = request[q]
    BY <1>7, Leaves DEF Save
  <2>2. Changing' = Changing \ {r}
    BY <2>1, ChangingNext DEF Setting
  <2>3. At(r, "save gateway")
    BY <1>1, <1>7 DEF Saving
  <2>4. r \in alone' => table' = currentSettings' /\ Changing' = {}
    <3> SUFFICES ASSUME r \in alone' PROVE table' = currentSettings' /\ Changing' = {}
      OBVIOUS
    <3>1. Changing = {r} /\ table["main"] = currentSettings["main"] /\ request[r].copy = currentSettings["gateway"]
      BY <1>2, <1>4, <2>3 DEF Progress
    <3>2. currentSettings' = currentSettings /\ currentSettings \in [Part -> Value]
      BY DEF Save, TypeOK
    <3>3. table'["main"] = currentSettings["main"] /\ table'["gateway"] = currentSettings["gateway"]
      BY <1>3, <1>5, <1>7, <3>1 DEF Part
    <3>4. table' \in [Part -> Value \cup {NoRow}]
      BY DEF TypeOK
    <3> QED
      BY <2>2, <3>1, <3>2, <3>3, <3>4 DEF Part
  <2>5. synced' => r \in alone'
    BY <1>7 DEF Save
  <2>6. ASSUME NEW q \in alone', request'[q].at \in Setting PROVE FALSE
    <3>1. q \in Request /\ q \in alone /\ q # r
      BY <1>2, <2>1, <2>6 DEF TypeOK, Setting
    <3>2. request[q].at \in Setting
      BY <2>1, <2>6, <3>1
    <3>3. Changing = {q}
      BY <3>1, <3>2 DEF SettingsInv
    <3>4. r \in Changing
      BY <1>1, ChangingIs
    <3> QED
      BY <3>1, <3>3, <3>4
  <2> QED
    BY <2>4, <2>5, <2>6 DEF SettingsInv
<1> QED
  BY <1>6, <1>7 DEF Part

LEMMA ServeSettings ==
  ASSUME TypeOK, StageInv, SettingsInv, NEW r \in Request, Serve(r), TypeOK'
  PROVE  SettingsInv'
<1>0. ~At(r, "idle") /\ \A q \in Request \ {r} : request'[q] = request[q]
  BY ServeMoves
<1>1. CASE Authenticate(r)
  <2>1. UNCHANGED <<up, table, settings>> /\ request[r].at \notin Setting
    BY <1>1 DEF Authenticate, LookUp, Renew, Forget, Login, Logout, ShowPage, Working, Setting, durable
  <2>2. Answered(r) \/ GoTo(r, "renew") \/ GoTo(r, "work") \/ GoTo(r, "forget")
    BY <1>1 DEF Authenticate, LookUp, Renew, Forget, Login, Logout, ShowPage
  <2>3. request'[r].at \notin Setting
    BY <1>0, <2>2, Leaves, MovesOn DEF Stages, Setting
  <2> QED
    BY <1>0, <2>1, <2>3, SettingsFrame
<1>2. CASE ManageLBs(r)
  <2>1. UNCHANGED <<up, table, settings>> /\ request[r].at \notin Setting
    BY <1>2 DEF ManageLBs, Toggle, LockToAdd, InsertRow, InsertFails, AppendLB,
                LockToRemove, DeleteRow, DeleteFails, Unlist, Quiet, Working, Setting
  <2>2. Answered(r) \/ \E where \in Critical : GoTo(r, where)
    BY <1>2 DEF ManageLBs, Toggle, LockToAdd, InsertRow, InsertFails, AppendLB,
                LockToRemove, DeleteRow, DeleteFails, Unlist, Critical
  <2>3. request'[r].at \notin Setting
    BY <1>0, <2>2, StaysInside DEF Critical, Setting
  <2> QED
    BY <1>0, <2>1, <2>3, SettingsFrame
<1>3. CASE SetMain(r)
  <2>1. /\ request[r].at \in Setting /\ request'[r].at = "copy main"
        /\ UNCHANGED <<up, synced, alone>>
    BY <1>3, SetsMain DEF SetMain, Setting, Steady
  <2>2. Progress(r)' /\ request'[r].at \in Setting
    BY <2>1 DEF Progress, Setting
  <2> QED
    BY <1>0, <2>1, <2>2, SettingsAlone
<1>4. ASSUME NEW p \in Part, Copy(r, p) PROVE SettingsInv'
  <2>1. /\ request[r].at \in Setting /\ request'[r].at = Saving(p) /\ request'[r].at \in Setting
        /\ request'[r].copy = currentSettings[p]
        /\ UNCHANGED <<up, table, synced, alone, currentSettings>>
    <3>1. request[r].at = Copying(p) /\ UNCHANGED <<up, table, synced, alone, currentSettings>>
      BY <1>4 DEF Copy, Steady, settings
    <3>2. Copying(p) \in Setting /\ Saving(p) \in Setting
      BY DEF Copying, Saving, Setting, Part
    <3> QED
      BY <1>4, <3>1, <3>2, Copies
  <2>2. r \in alone => Progress(r)
    BY <2>1 DEF SettingsInv
  <2>3. r \in alone' => Progress(r)'
    <3> SUFFICES ASSUME r \in alone' PROVE Progress(r)'
      OBVIOUS
    <3>1. CASE p = "main"
      BY <2>1, <3>1 DEF Progress, Saving
    <3>2. CASE p = "gateway"
      <4>1. At(r, "copy gateway") /\ request'[r].at = "save gateway"
        BY <1>4, <2>1, <3>2 DEF Copy, Copying, Saving
      <4>2. table["main"] = currentSettings["main"]
        BY <2>1, <2>2, <4>1 DEF Progress
      <4> QED
        BY <2>1, <3>2, <4>1, <4>2 DEF Progress
    <3> QED
      BY <3>1, <3>2 DEF Part
  <2> QED
    BY <1>0, <2>1, <2>3, SettingsAlone
<1>5. CASE ChangeSettings(r)
  BY <1>3, <1>4, <1>5, SetGatewaySettings, SaveSettings DEF ChangeSettings
<1> QED
  BY <1>1, <1>2, <1>5 DEF Serve

LEMMA SettingsStep ==
  ASSUME TypeOK, StageInv, SettingsInv, [Next]_vars, TypeOK'
  PROVE  SettingsInv'
<1>1. ASSUME NEW r \in Request, NEW kind \in Kinds, NEW s \in Session,
             NEW asked \in Asked(kind), Arrive(r, kind, s, asked[1], asked[2])
      PROVE  SettingsInv'
  <2>1. /\ UNCHANGED <<up, table, settings>> /\ request[r].at \notin Setting /\ request'[r].at \notin Setting
        /\ \A q \in Request \ {r} : request'[q] = request[q]
    BY <1>1, Arrives DEF Arrive, durable, Setting
  <2> QED
    BY <2>1, SettingsFrame
<1>2. CASE UNCHANGED <<up, table, settings, request>>
  BY <1>2 DEF SettingsInv, Changing, Progress, settings
<1>3. CASE Start
  <2>1. \A r \in Request : At(r, "idle") /\ request'[r].at = "idle"
    BY <1>3 DEF Start, StageInv, DownInv
  <2>2. Changing' = {}
    BY <2>1 DEF Changing
  <2>3. table' = currentSettings'
    BY <1>3 DEF Start
  <2>4. \A r \in alone' : request'[r].at \notin Setting
    BY <2>1 DEF TypeOK, Setting
  <2> QED
    BY <2>2, <2>3, <2>4 DEF SettingsInv
<1>4. CASE Crash
  BY <1>4 DEF Crash, SettingsInv
<1> QED
  BY <1>1, <1>2, <1>3, <1>4, ServeSettings
  DEF Next, GrowOld, SyncLoadBalancers, Quiet, durable, vars

\* The name of the rules file in the table is the one in use, or "deprecated".
NameInv == file_row \in {config_file, "deprecated"}

LEMMA NameStep ==
  ASSUME TypeOK, NameInv, [Next]_vars
  PROVE  NameInv'
<1>0. file_row \in {"named", "deprecated"}
  BY DEF TypeOK, FileNames
<1>1. ASSUME NEW r \in Request, Serve(r) PROVE NameInv'
  <2>1. CASE UNCHANGED settings
    BY <2>1 DEF settings, NameInv
  <2>2. CASE Authenticate(r)
    BY <2>1, <2>2 DEF Authenticate, LookUp, Renew, Forget, Login, Logout, ShowPage
  <2>3. CASE ManageLBs(r)
    BY <2>1, <2>3 DEF ManageLBs, Toggle, LockToAdd, InsertRow, InsertFails, AppendLB,
                      LockToRemove, DeleteRow, DeleteFails, Unlist, Quiet
  <2>4. CASE SetGateway(r) \/ SetMain(r)
    BY <2>4 DEF SetGateway, SetMain, NameInv
  <2>5. ASSUME NEW p \in Part, Copy(r, p) PROVE NameInv'
    BY <2>1, <2>5 DEF Copy
  <2>6. ASSUME NEW p \in Part, Save(r, p) PROVE NameInv'
    BY <2>6 DEF Save, NameInv
  <2> QED
    BY <1>1, <2>2, <2>3, <2>4, <2>5, <2>6 DEF Serve, ChangeSettings
<1>2. CASE Start
  BY <1>2 DEF Start, NameInv
<1>3. CASE Crash
  BY <1>0, <1>3 DEF Crash, NameInv
<1>4. CASE UNCHANGED settings
  BY <1>4 DEF settings, NameInv
<1>5. ASSUME NEW r \in Request, NEW kind \in Kinds, NEW s \in Session,
             NEW asked \in Asked(kind), Arrive(r, kind, s, asked[1], asked[2])
      PROVE  NameInv'
  BY <1>4, <1>5 DEF Arrive
<1> QED
  BY <1>1, <1>2, <1>3, <1>4, <1>5 DEF Next, GrowOld, SyncLoadBalancers, Quiet, vars

\* A settings request that overlapped no other one and whose saves succeeded leaves both
\* tables as the settings in memory are (web_server.go:1515-1542), and so does every start,
\* but for the name of the rules file, which is then the one in use or "deprecated" (1521).
THEOREM SettingsKept == Spec => []SettingsSaved
<1>1. Init => TypeOK /\ StageInv /\ SettingsInv /\ NameInv
  BY InitTypes, InitStages DEF Init, SettingsInv, NameInv
<1>2. TypeOK /\ StageInv /\ SettingsInv /\ NameInv /\ [Next]_vars
         => (TypeOK /\ StageInv /\ SettingsInv /\ NameInv)'
  BY StageStep, SettingsStep, NameStep
<1>3. SettingsInv /\ NameInv => SettingsSaved
  BY DEF SettingsInv, NameInv, SettingsSaved
<1> QED
  BY <1>1, <1>2, <1>3, PTL DEF Spec
=============================================================================
