---------------------------- MODULE ProxySession ----------------------------
(***************************************************************************)
(* One connection from its acceptance to its end: the SOCKS handshake      *)
(* (socks.go), the dial and its answer (servers_response_linux.go), and    *)
(* the relay, which is two copy loops that share a close-once (main.go     *)
(* 559-654).  Admission, the mutexes and the other connections are in      *)
(* ConnectionTracker; the choice of a balancer is in LoadBalancer.         *)
(*                                                                         *)
(* Time: a deadline is the number of ticks that are left until it, Never   *)
(* where none is set.  A tick passes only while the goroutines wait for    *)
(* a peer: what the code does between two system calls takes no time       *)
(* measured in seconds.                                                    *)
(***************************************************************************)
EXTENDS Integers, Sequences

CONSTANTS
    Mode,               \* the kinds of connection that occur
    handshake_timeout,  \* 10 s, in ticks
    idle_timeout,       \* 5 min, in ticks
    MaxPending,         \* bound: chunks a peer has sent that are not yet read
    MaxUncounted        \* bound: up to where uncounted chunks are told apart

ASSUME ModeAssumption    == Mode \subseteq {"socks", "tunnel", "transparent"}
ASSUME TimeoutAssumption == handshake_timeout \in Nat \ {0} /\ idle_timeout \in Nat \ {0}
ASSUME BoundsAssumption  == MaxPending \in Nat \ {0} /\ MaxUncounted \in Nat \ {0, 1}

VARIABLES
    mode,
    stage,          \* where the goroutine that serves the connection is
    message,        \* how much of the next handshake message has arrived
    address_type,   \* of the request that is being read
    replies,        \* what the client was answered during the handshake
    open,           \* the ends the program has not closed
    peer,           \* what the peers have done to their ends
    read_deadline,
    write_deadline,
    pending,        \* chunks sent by the source of a direction and not read
    loop,           \* monitored_copy and its deferred close, for each direction
    cause,          \* why the loop of a direction ended
    once,           \* closeOnce
    entry,          \* the connection's entry in active_connections
    age,            \* ticks since its LastActivity
    elapsed,        \* history: ticks the present handshake has taken
    uncounted       \* history: chunks delivered and not accounted for

handshake == <<message, address_type, replies>>
deadlines == <<read_deadline, write_deadline>>
tracking  == <<entry, age>>
relay     == <<pending, loop, cause, once, uncounted>>
vars      == <<mode, stage, handshake, open, peer, deadlines, tracking, relay, elapsed>>

End == {"client", "remote"}
Dir == {"out", "in"}
Src(d) == IF d = "out" THEN "client" ELSE "remote"
Dst(d) == IF d = "out" THEN "remote" ELSE "client"

Never    == -1
Later(t) == IF t > 0 THEN t - 1 ELSE t
Capped(n, bound) == IF n > bound THEN bound ELSE n

GreetingStages == {"greeting", "methods"}
RequestStages  == {"header", "length", "address", "port"}
HandshakeStages == GreetingStages \cup {"choice"} \cup RequestStages

\* handle_connection sets the deadline of the handshake, and
\* handle_socks_connection sets the same again; a transparent connection has none.
HandshakeLimit(m) == IF m = "transparent" THEN Never ELSE handshake_timeout

Init ==
    /\ mode \in Mode
    /\ stage = CASE mode = "socks"  -> "greeting"
                 [] mode = "tunnel" -> "dialing"
                 [] OTHER           -> "lookup"
    /\ message = "none"
    /\ address_type = "none"
    /\ replies = <<>>
    /\ open = [e \in End |-> e = "client"]
    /\ peer = [e \in End |-> "up"]
    /\ read_deadline  = [e \in End |-> IF e = "client" THEN HandshakeLimit(mode) ELSE Never]
    /\ write_deadline = [e \in End |-> IF e = "client" THEN HandshakeLimit(mode) ELSE Never]
    /\ pending = [d \in Dir |-> 0]
    /\ loop  = [d \in Dir |-> "none"]
    /\ cause = [d \in Dir |-> "none"]
    /\ once = "free"
    /\ entry = "none"
    /\ age = 0
    /\ elapsed = 0
    /\ uncounted = [d \in Dir |-> 0]

-----------------------------------------------------------------------------
(* The handshake.                                                          *)

CanWrite(e) == open[e] /\ write_deadline[e] # 0 /\ peer[e] # "reset"

\* conn.Write whose error is ignored.
Told(code) == IF CanWrite("client") THEN Append(replies, code) ELSE replies

CloseTheClient == open' = [open EXCEPT !["client"] = FALSE]

\* The stages after a message that was read whole; type is the request's.  No method,
\* or no letter of a name, is no message: such a read returns at once.
Following(s, type) ==
    CASE s = "greeting" -> {"methods", "choice"}
      [] s = "methods"  -> {"choice"}
      [] s = "header"   -> {IF type = "domain" THEN "length" ELSE "address"}
      [] s = "length"   -> {"address", "port"}
      [] s = "address"  -> {"port"}
      [] s = "port"     -> {"dialing"}

\* After the request the deadlines of the client are cleared, both of them.
LiftedNever(s, limit) == limit
Lifted(s, limit) == IF s = "dialing" THEN [limit EXCEPT !["client"] = Never] ELSE limit

\* Reading a message renews nothing.
RenewedByReads(limit) == [limit EXCEPT !["client"] = handshake_timeout]
AfterMessage(limit) == limit

ReadMessage ==
    /\ stage \in (GreetingStages \cup RequestStages) \ {"header"}
    /\ message = "whole" /\ read_deadline["client"] # 0 /\ peer["client"] # "reset"
    /\ stage' \in Following(stage, address_type)
    /\ message' = "none"
    /\ read_deadline'  = Lifted(stage', AfterMessage(read_deadline))
    /\ write_deadline' = Lifted(stage', write_deadline)
    /\ address_type' = IF stage' = "dialing" THEN "none" ELSE address_type
    /\ elapsed' = IF stage' = "dialing" THEN 0 ELSE elapsed
    /\ UNCHANGED <<mode, replies, open, peer, tracking, relay>>

\* The header of a CONNECT request of version 5, with an address type it knows.
ReadHeader(type) ==
    /\ stage = "header"
    /\ message = "whole" /\ read_deadline["client"] # 0 /\ peer["client"] # "reset"
    /\ address_type' = type
    /\ stage' \in Following(stage, type)
    /\ message' = "none"
    /\ UNCHANGED <<mode, replies, open, peer, deadlines, tracking, relay, elapsed>>

\* What else a header, or an IPv6 address after its port, is answered with.
Refusal(s, type) ==
    CASE s = "header" -> {"server failure", "command not supported", "address type not supported"}
      [] s = "port" /\ type = "ipv6" -> {"host unreachable"}
      [] OTHER -> {}

RefuseRequest(code) ==
    /\ code \in Refusal(stage, address_type)
    /\ message = "whole" /\ read_deadline["client"] # 0 /\ peer["client"] # "reset"
    /\ replies' = Told(code)
    /\ CloseTheClient
    /\ stage' = "closed"
    /\ message' = "none"
    /\ UNCHANGED <<mode, address_type, peer, deadlines, tracking, relay, elapsed>>

\* conn.Read returned an error or fewer bytes than the message has: a message that
\* arrives in two segments is refused like a time-out.  Only the stages of the
\* request answer; after an error in the greeting handle_connection closes.
ReadFails ==
    /\ stage \in GreetingStages \cup RequestStages
    /\ \/ message = "part"
       \/ read_deadline["client"] = 0
       \/ peer["client"] = "reset"
       \/ peer["client"] = "finished" /\ message = "none"
    /\ replies' = IF stage \in RequestStages THEN Told("server failure") ELSE replies
    /\ CloseTheClient
    /\ stage' = "closed"
    /\ message' = "none"
    /\ UNCHANGED <<mode, address_type, peer, deadlines, tracking, relay, elapsed>>

servers_choice ==
    /\ stage = "choice"
    /\ \/ CanWrite("client") /\ stage' = "header" /\ replies' = Told("choice") /\ UNCHANGED open
       \/ ~CanWrite("client") /\ stage' = "closed" /\ CloseTheClient /\ UNCHANGED replies
    /\ UNCHANGED <<mode, message, address_type, peer, deadlines, tracking, relay, elapsed>>

\* handle_transparent_connection asks the kernel for the original destination.
LookUpDestination ==
    /\ stage = "lookup"
    /\ \/ stage' = "dialing" /\ UNCHANGED open
       \/ stage' = "closed" /\ CloseTheClient
    /\ UNCHANGED <<mode, handshake, peer, deadlines, tracking, relay, elapsed>>

-----------------------------------------------------------------------------
(* The dial.                                                               *)

\* Any balancer's address or the destination answers; then the client is told.
DialSucceeds ==
    /\ stage = "dialing"
    /\ open' = [open EXCEPT !["remote"] = TRUE]
    /\ replies' = IF mode = "socks" THEN Told("success") ELSE replies
    /\ stage' = "tracking"
    /\ UNCHANGED <<mode, message, address_type, peer, deadlines, tracking, relay, elapsed>>

DialFails ==
    /\ stage = "dialing"
    /\ replies' = IF mode = "socks" THEN Told("network unreachable") ELSE replies
    /\ CloseTheClient
    /\ stage' = "closed"
    /\ UNCHANGED <<mode, message, address_type, peer, deadlines, tracking, relay, elapsed>>

\* The choice of a balancer panics: recovered for SOCKS, the end of the process otherwise.
Recovered ==
    /\ stage = "dialing" /\ mode = "socks"
    /\ CloseTheClient
    /\ stage' = "closed"
    /\ UNCHANGED <<mode, handshake, peer, deadlines, tracking, relay, elapsed>>

\* add_active_connection, and pipe_connections starts its two goroutines.
StartRelay ==
    /\ stage = "tracking"
    /\ entry' = "tracked" /\ age' = 0
    /\ loop' = [d \in Dir |-> "starting"]
    /\ stage' = "relaying"
    /\ UNCHANGED <<mode, handshake, open, peer, deadlines, pending, cause, once, uncounted, elapsed>>

-----------------------------------------------------------------------------
(* The relay: monitored_copy.                                              *)

Goes(d, from, to) == loop[d] = from /\ loop' = [loop EXCEPT ![d] = to]

\* SetReadDeadline of the source, before the first read.
StartWithoutDeadline(d) ==
    /\ Goes(d, "starting", "reading")
    /\ UNCHANGED <<mode, stage, handshake, open, peer, deadlines, tracking, pending, cause, once, uncounted, elapsed>>
StartLoop(d) ==
    /\ Goes(d, "starting", "reading")
    /\ read_deadline' = [read_deadline EXCEPT ![Src(d)] = idle_timeout]
    /\ UNCHANGED <<mode, stage, handshake, open, peer, write_deadline, tracking,
                   pending, cause, once, uncounted, elapsed>>

\* A read that returns data renews the source's deadline.
Read(d) ==
    /\ Goes(d, "reading", "writing")
    /\ open[Src(d)] /\ read_deadline[Src(d)] # 0 /\ peer[Src(d)] # "reset"
    /\ pending[d] > 0
    /\ pending' = [pending EXCEPT ![d] = @ - 1]
    /\ read_deadline' = [read_deadline EXCEPT ![Src(d)] = idle_timeout]
    /\ UNCHANGED <<mode, stage, handshake, open, peer, write_deadline, tracking,
                   cause, once, uncounted, elapsed>>

\* src.Read returns no data: the end of the stream, or an error.
ReadOver(d) ==
    \/ ~open[Src(d)]
    \/ peer[Src(d)] = "reset"
    \/ read_deadline[Src(d)] = 0
    \/ peer[Src(d)] = "finished" /\ pending[d] = 0

ReadEnds(d) ==
    /\ ReadOver(d)
    /\ Goes(d, "reading", "closing")
    /\ cause' = [cause EXCEPT ![d] = "read"]
    /\ UNCHANGED <<mode, stage, handshake, open, peer, deadlines, tracking,
                   pending, once, uncounted, elapsed>>

\* dst.Write returns when the destination has taken the data, however long that takes.
Write(d) ==
    /\ Goes(d, "writing", "accounting")
    /\ CanWrite(Dst(d))
    /\ uncounted' = [uncounted EXCEPT ![d] = Capped(@ + 1, MaxUncounted)]
    /\ UNCHANGED <<mode, stage, handshake, open, peer, deadlines, tracking,
                   pending, cause, once, elapsed>>

WriteFails(d) ==
    /\ ~CanWrite(Dst(d))
    /\ Goes(d, "writing", "accounting")
    /\ cause' = [cause EXCEPT ![d] =
                   IF open[Dst(d)] /\ write_deadline[Dst(d)] = 0 THEN "write deadline" ELSE "write"]
    /\ UNCHANGED <<mode, stage, handshake, open, peer, deadlines, tracking,
                   pending, once, uncounted, elapsed>>

\* update_connection_traffic, also for the 0 bytes of a write that failed: an entry
\* that is still there gets the bytes and a new LastActivity.
AgeOfStart == age
AgeAfterTraffic == IF entry = "tracked" THEN 0 ELSE age
CountedAsRead(d) == entry = "tracked"
Counted(d) == entry = "tracked" /\ cause[d] = "none"

Account(d) ==
    /\ Goes(d, "accounting", IF cause[d] = "none" THEN "reading" ELSE "closing")
    /\ age' = AgeAfterTraffic
    /\ uncounted' = [uncounted EXCEPT ![d] = IF Counted(d) THEN @ - 1 ELSE @]
    /\ UNCHANGED <<mode, stage, handshake, open, peer, deadlines, entry,
                   pending, cause, once, elapsed>>

-----------------------------------------------------------------------------
(* The end of the relay: pipe_connections.                                 *)

\* The first loop to end runs closeConnections: the client, the remote end, the entry.
RemoveEntryEarly(d) ==
    /\ once = "free"
    /\ Goes(d, "closing", "closing remote")
    /\ once' = "running"
    /\ entry' = "removed"
    /\ UNCHANGED <<mode, stage, handshake, open, peer, deadlines, age, pending, cause, uncounted, elapsed>>
CloseClient(d) ==
    /\ once = "free"
    /\ Goes(d, "closing", "closing remote")
    /\ once' = "running"
    /\ CloseTheClient
    /\ UNCHANGED <<mode, stage, handshake, peer, deadlines, tracking, pending, cause, uncounted, elapsed>>

CloseNoRemote(d) ==
    /\ Goes(d, "closing remote", "removing")
    /\ UNCHANGED <<mode, stage, handshake, open, peer, deadlines, tracking,
                   pending, cause, once, uncounted, elapsed>>
CloseRemote(d) ==
    /\ Goes(d, "closing remote", "removing")
    /\ open' = [open EXCEPT !["remote"] = FALSE]
    /\ UNCHANGED <<mode, stage, handshake, peer, deadlines, tracking,
                   pending, cause, once, uncounted, elapsed>>

\* remove_active_connection; an expired entry is no longer found.
RemoveEntry(d) ==
    /\ Goes(d, "removing", "ended")
    /\ entry' = IF entry = "tracked" THEN "removed" ELSE entry
    /\ once' = "done"
    /\ UNCHANGED <<mode, stage, handshake, open, peer, deadlines, age,
                   pending, cause, uncounted, elapsed>>

\* The other one waits in closeOnce.Do until the first has run it.
FindClosed(d) ==
    /\ once = "done"
    /\ Goes(d, "closing", "ended")
    /\ UNCHANGED <<mode, stage, handshake, open, peer, deadlines, tracking,
                   pending, cause, once, uncounted, elapsed>>

\* wg.Wait returns.
EndRelay ==
    /\ stage = "relaying"
    /\ \A d \in Dir : loop[d] = "ended"
    /\ stage' = "closed"
    /\ UNCHANGED <<mode, handshake, open, peer, deadlines, tracking, relay, elapsed>>

-----------------------------------------------------------------------------
(* The rest of the world.                                                  *)

\* A part of the next handshake message arrives, its rest, or all of it at once.
ClientSends(part) ==
    /\ stage \in GreetingStages \cup RequestStages /\ peer["client"] = "up"
    /\ \/ message = "none"
       \/ message = "part" /\ part = "whole"
    /\ message' = part
    /\ UNCHANGED <<mode, stage, address_type, replies, open, peer, deadlines, tracking, relay, elapsed>>

SendData(d) ==
    /\ stage = "relaying" /\ open[Src(d)] /\ peer[Src(d)] = "up"
    /\ pending[d] < MaxPending
    /\ pending' = [pending EXCEPT ![d] = @ + 1]
    /\ UNCHANGED <<mode, stage, handshake, open, peer, deadlines, tracking,
                   loop, cause, once, uncounted, elapsed>>

\* A peer closes its sending side, or resets the connection.
PeerLeaves(e, how) ==
    /\ open[e] /\ peer[e] # how /\ peer[e] # "reset"
    /\ peer' = [peer EXCEPT ![e] = how]
    /\ UNCHANGED <<mode, stage, handshake, open, deadlines, tracking, relay, elapsed>>

\* cleanup_old_connections, which the ticker calls: LastActivity.Before(cutoff).
Cleanup ==
    /\ entry = "tracked" /\ age > idle_timeout
    /\ entry' = "expired"
    /\ UNCHANGED <<mode, stage, handshake, open, peer, deadlines, age, relay, elapsed>>

\* The goroutines that serve the connection are blocked in a system call.
ReadBlocked(d)  == loop[d] = "reading" /\ ~ReadOver(d) /\ pending[d] = 0
WriteBlocked(d) == loop[d] = "writing" /\ CanWrite(Dst(d))
Blocked ==
    \/ /\ stage \in GreetingStages \cup RequestStages
       /\ message = "none" /\ peer["client"] = "up" /\ read_deadline["client"] # 0
    \/ stage = "dialing"
    \/ stage = "relaying" /\ \A d \in Dir : ReadBlocked(d) \/ WriteBlocked(d)

Tick ==
    /\ Blocked
    /\ read_deadline'  = [e \in End |-> Later(read_deadline[e])]
    /\ write_deadline' = [e \in End |-> Later(write_deadline[e])]
    /\ age' = Capped(age + 1, idle_timeout + 1)
    /\ elapsed' = IF stage \in HandshakeStages THEN elapsed + 1 ELSE elapsed
    /\ UNCHANGED <<mode, stage, handshake, open, peer, entry, relay>>

-----------------------------------------------------------------------------
Answers == {"server failure", "command not supported", "address type not supported", "host unreachable"}
AddressType == {"ipv4", "domain", "ipv6"}

Handshake ==
    \/ ReadMessage
    \/ \E type \in AddressType : ReadHeader(type)
    \/ \E code \in Answers : RefuseRequest(code)
    \/ ReadFails
    \/ servers_choice
    \/ LookUpDestination

Dial == DialSucceeds \/ DialFails \/ Recovered \/ StartRelay

\* What a loop does by itself; only Write also waits for a peer.
Copy(d) ==
    \/ StartLoop(d)
    \/ Read(d)
    \/ ReadEnds(d)
    \/ WriteFails(d)
    \/ Account(d)
    \/ CloseClient(d)
    \/ CloseRemote(d)
    \/ RemoveEntry(d)
    \/ FindClosed(d)

Peers ==
    \/ \E part \in {"part", "whole"} : ClientSends(part)
    \/ \E d \in Dir : SendData(d) \/ Write(d)
    \/ \E e \in End, how \in {"finished", "reset"} : PeerLeaves(e, how)

\* The session is over; any other state without a step would be a hang.
Over == stage = "closed" /\ UNCHANGED vars

Next ==
    \/ Handshake
    \/ Dial
    \/ \E d \in Dir : Copy(d)
    \/ EndRelay
    \/ Cleanup
    \/ Peers
    \/ Tick
    \/ Over

\* Goroutines are scheduled, a dial ends by the system's time-out, and however busy
\* the peers are, time passes (strong fairness: between two ticks a loop may run).
\* Nothing is assumed of the peers or of the ticker of the cleanup.
Spec ==
    /\ Init /\ [][Next]_vars
    /\ WF_vars(Handshake) /\ WF_vars(Dial) /\ WF_vars(EndRelay) /\ SF_vars(Tick)
    /\ \A d \in Dir : WF_vars(Copy(d))

-----------------------------------------------------------------------------
(* Properties.                                                             *)

Limit(longest) == Never .. longest
Longest == IF handshake_timeout > idle_timeout THEN handshake_timeout ELSE idle_timeout

\* The types of the variables.
TypeOK ==
    /\ mode \in Mode
    /\ stage \in HandshakeStages \cup {"lookup", "dialing", "tracking", "relaying", "closed"}
    /\ message \in {"none", "part", "whole"}
    /\ address_type \in AddressType \cup {"none"}
    /\ replies \in Seq(Answers \cup {"choice", "success", "network unreachable"})
    /\ open \in [End -> BOOLEAN]
    /\ peer \in [End -> {"up", "finished", "reset"}]
    /\ read_deadline \in [End -> Limit(Longest)]
    /\ write_deadline \in [End -> Limit(handshake_timeout)]
    /\ pending \in [Dir -> 0 .. MaxPending]
    /\ loop \in [Dir -> {"none", "starting", "reading", "writing", "accounting",
                         "closing", "closing remote", "removing", "ended"}]
    /\ cause \in [Dir -> {"none", "read", "write", "write deadline"}]
    /\ once \in {"free", "running", "done"}
    /\ entry \in {"none", "tracked", "removed", "expired"}
    /\ age \in 0 .. idle_timeout + 1
    /\ elapsed \in Nat
    /\ uncounted \in [Dir -> 0 .. MaxUncounted]

\* However its client spreads the messages over time, a handshake (socks.go:169)
\* is over when handshake_timeout has passed, and with it the slot of the
\* semaphore its goroutine holds.
HandshakeBounded == stage \in HandshakeStages => elapsed <= handshake_timeout

\* A SOCKS client for which a connection was made is told so (servers_response_linux.go:43,
\* whose error is ignored) after the choice of the method and nothing else, however
\* long the dial took, unless it has reset the connection.
ConnectedMeansTold ==
    mode = "socks" /\ open["remote"] /\ open["client"] /\ peer["client"] # "reset"
        => replies = <<"choice", "success">>

\* The handshake's deadline is for the handshake (main.go:730): no relay is cut by it.
HandshakeDeadlineOnly == \A d \in Dir : cause[d] # "write deadline"

\* Outside of tunnel mode this is so.
ClearedDeadlineOnly == mode # "tunnel" => HandshakeDeadlineOnly

\* At most the chunk a loop was writing when the other one removed the entry
\* (main.go:613) stays out of the byte counters, unless the cleanup had expired it.
AtMostOneUncounted ==
    entry # "expired" =>
        \A d \in Dir :
           /\ uncounted[d] <= 1
           /\ uncounted[d] = 1 /\ entry = "tracked" => loop[d] = "accounting"

\* The cleanup (main.go:506) takes an entry away only when both loops are in
\* writes that their peers held up, or have not yet accounted for those (586):
\* neither a silent source nor a loop that is about to end lets an entry grow
\* that old.
ExpiresOnlyStalled ==
    [][ entry = "tracked" /\ entry' = "expired" =>
          \A d \in Dir : loop[d] \in {"writing", "accounting"} ]_vars

\* When one loop has ended, the other one does not wait any longer for a peer that
\* neither sends nor takes data: both end, and the session is over (main.go:652).
BothLoopsEnd == \A d \in Dir : (loop[d] = "closing") ~> (stage = "closed")

\* A direction whose source stays silent ends the relay, also when the peers
\* stay connected (main.go:565).
SilenceEndsIt ==
    \A d \in Dir : (loop[d] = "reading" /\ pending[d] = 0) ~> (pending[d] > 0 \/ stage = "closed")
=============================================================================
