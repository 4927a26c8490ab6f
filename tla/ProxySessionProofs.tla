------------------------- MODULE ProxySessionProofs -------------------------
(***************************************************************************)
(* Proofs about ProxySession, for any time-outs and bounds.  The inductive *)
(* invariant is                                                            *)
(*     TypeOK /\ StageInv       where the session and its loops are        *)
(*            /\ LoopInv        chunks on their way through a loop         *)
(*            /\ DeadlineInv    time taken and time left of a handshake    *)
(*            /\ ToldInv /\ ConnectedMeansTold      what the client read   *)
(*            /\ ClearedDeadlineOnly                                       *)
(*            /\ AgeInv         age of the entry and the reads' deadlines  *)
(* and each lemma <Part>Step takes as hypotheses the parts it stands on.   *)
(***************************************************************************)
EXTENDS ProxySession, SequenceTheorems, TLAPS

LoopStages == {"none", "starting", "reading", "writing", "accounting",
               "closing", "closing remote", "removing", "ended"}

BeforeRelay == HandshakeStages \cup {"lookup", "dialing", "tracking"}

\* Where the connection and its loops are, and what of it exists there.
StageInv ==
    /\ stage \in HandshakeStages => mode = "socks"
    /\ stage = "lookup" => mode = "transparent"
    /\ stage \in BeforeRelay => entry = "none" /\ once = "free"
    /\ stage \in BeforeRelay \ {"tracking"} => ~open["remote"]
    /\ stage # "relaying" => \A d \in Dir : loop[d] \in {"none", "ended"}
    /\ entry = "none" <=> \A d \in Dir : loop[d] = "none"
    /\ entry = "removed" => ~open["client"] /\ ~open["remote"]

\* What a loop has written and not accounted for, and what it has closed.
LoopOK(d) ==
    /\ loop[d] \in {"none", "starting", "reading", "writing"} => cause[d] = "none"
    /\ loop[d] = "none" => uncounted[d] = 0
    /\ loop[d] = "accounting" /\ cause[d] = "none" => uncounted[d] > 0
    /\ entry = "tracked" /\ uncounted[d] > 0 =>
          uncounted[d] = 1 /\ loop[d] = "accounting" /\ cause[d] = "none"
    /\ entry = "removed" => uncounted[d] <= 1
    /\ loop[d] \in {"closing remote", "removing"} => ~open["client"]
    /\ loop[d] = "removing" => ~open["remote"]

LoopInv == \A d \in Dir : LoopOK(d)

\* The time a handshake has taken and what is left of its deadline; where there is none.
DeadlineInv ==
    /\ stage \in HandshakeStages =>
         /\ read_deadline["client"] >= 0
         /\ elapsed + read_deadline["client"] = handshake_timeout
    /\ write_deadline["remote"] = Never
    /\ mode # "tunnel" /\ stage \in {"lookup", "dialing", "tracking", "relaying"} =>
         write_deadline["client"] = Never

\* What a SOCKS client was told so far.
ToldInv ==
    mode = "socks" =>
      /\ stage \in GreetingStages \cup {"choice"} => replies = <<>>
      /\ stage \in RequestStages \cup {"dialing"} => replies = <<"choice">>

\* The age of the entry against the deadline of the read that renews it.
AgeOK(d) ==
    /\ loop[d] \in {"reading", "writing", "accounting"} => read_deadline[Src(d)] \in 0 .. idle_timeout
    /\ entry = "tracked" =>
         /\ loop[d] = "starting" => age = 0
         /\ loop[d] = "reading" => age + read_deadline[Src(d)] <= idle_timeout
         /\ loop[d] \notin {"writing", "accounting"} => age <= idle_timeout

AgeInv == \A d \in Dir : AgeOK(d)

USE DEF Never, Limit

\* The smallest facts about the ends and the directions.
LEMMA Ends ==
  /\ "client" \in End /\ "remote" \in End
  /\ \A d \in Dir : Src(d) \in End /\ Dst(d) \in End
  /\ \A e \in End : e = "client" \/ e = "remote"
BY DEF End, Dir, Src, Dst

\* A deadline that is given or cleared, and one that has come nearer, are deadlines.
LEMMA Deadlines ==
  /\ Longest \in Nat /\ handshake_timeout <= Longest /\ idle_timeout <= Longest
  /\ \A t \in Limit(Longest) : Later(t) \in Limit(Longest)
  /\ \A t \in Limit(handshake_timeout) : Later(t) \in Limit(handshake_timeout)
  /\ \A m : HandshakeLimit(m) \in Limit(handshake_timeout)
BY TimeoutAssumption DEF Longest, Later, HandshakeLimit

LEMMA TypeInit == Init => TypeOK
BY Deadlines, Ends, ModeAssumption, TimeoutAssumption, BoundsAssumption
   DEF Init, TypeOK, HandshakeStages, GreetingStages, RequestStages, End, Dir, HandshakeLimit, AddressType

\* The variables in groups: each has a part of TypeOK.
StageType == mode \in Mode /\ stage \in HandshakeStages \cup {"lookup", "dialing", "tracking", "relaying", "closed"}
MessageType ==
    /\ message \in {"none", "part", "whole"}
    /\ address_type \in AddressType \cup {"none"}
Replies == Seq(Answers \cup {"choice", "success", "network unreachable"})
OpenType == open \in [End -> BOOLEAN]
PeerType == peer \in [End -> {"up", "finished", "reset"}]
DeadlineType ==
    /\ read_deadline \in [End -> Limit(Longest)]
    /\ write_deadline \in [End -> Limit(handshake_timeout)]
PendingType == pending \in [Dir -> 0 .. MaxPending]
LoopType == loop \in [Dir -> LoopStages]
CauseType == cause \in [Dir -> {"none", "read", "write", "write deadline"}]
EntryType ==
    /\ once \in {"free", "running", "done"}
    /\ entry \in {"none", "tracked", "removed", "expired"}
AgeType == age \in 0 .. idle_timeout + 1
UncountedType == uncounted \in [Dir -> 0 .. MaxUncounted]

LEMMA Groups ==
  TypeOK <=> /\ StageType /\ MessageType /\ replies \in Replies /\ OpenType /\ PeerType /\ DeadlineType
             /\ PendingType /\ LoopType /\ CauseType /\ EntryType /\ AgeType /\ elapsed \in Nat /\ UncountedType
BY DEF TypeOK, StageType, MessageType, Replies, OpenType, PeerType, DeadlineType,
       PendingType, LoopType, LoopStages, CauseType, EntryType, AgeType, UncountedType

LEMMA GroupsNext ==
  /\ StageType' /\ MessageType' /\ replies' \in Replies /\ OpenType' /\ PeerType' /\ DeadlineType'
  /\ PendingType' /\ LoopType' /\ CauseType' /\ EntryType' /\ AgeType' /\ elapsed' \in Nat /\ UncountedType'
  => TypeOK'
BY DEF TypeOK, StageType, MessageType, Replies, OpenType, PeerType, DeadlineType,
       PendingType, LoopType, LoopStages, CauseType, EntryType, AgeType, UncountedType

\* What is left alone keeps its type.
LEMMA Untouched ==
  ASSUME TypeOK
  PROVE  /\ UNCHANGED <<mode, stage>> => StageType'
         /\ UNCHANGED <<message, address_type>> => MessageType'
         /\ UNCHANGED replies => replies' \in Replies
         /\ UNCHANGED open => OpenType'
         /\ UNCHANGED peer => PeerType'
         /\ UNCHANGED <<read_deadline, write_deadline>> => DeadlineType'
         /\ UNCHANGED pending => PendingType'
         /\ UNCHANGED loop => LoopType'
         /\ UNCHANGED cause => CauseType'
         /\ UNCHANGED <<once, entry>> => EntryType'
         /\ UNCHANGED age => AgeType'
         /\ UNCHANGED elapsed => elapsed' \in Nat
         /\ UNCHANGED uncounted => UncountedType'
BY Groups DEF StageType, MessageType, Replies, OpenType, PeerType, DeadlineType,
       PendingType, LoopType, CauseType, EntryType, AgeType, UncountedType

LEMMA Longer ==
  ASSUME NEW S, NEW s \in Seq(S), NEW e \in S
  PROVE  Append(s, e) \in Seq(S)
OBVIOUS

LEMMA AppendToOne ==
  ASSUME NEW S, NEW a \in S, NEW b \in S
  PROVE  Append(<<a>>, b) = <<a, b>>
<1>1. <<a>> \in Seq(S) /\ <<a, b>> \in Seq(S)
  OBVIOUS
<1>2. Append(<<a>>, b) \in Seq(S) /\ Len(Append(<<a>>, b)) = Len(<<a, b>>)
  OBVIOUS
<1>3. \A i \in 1 .. Len(<<a, b>>) : Append(<<a>>, b)[i] = <<a, b>>[i]
  <2>1. Append(<<a>>, b)[1] = a /\ Append(<<a>>, b)[2] = b
    OBVIOUS
  <2> QED
    BY <2>1
<1> QED
  BY <1>1, <1>2, <1>3, SeqEqual

\* The types of the changes that several actions share.
LEMMA Changes ==
  ASSUME TypeOK
  PROVE  /\ \A code \in Answers \cup {"choice", "success", "network unreachable"} : Told(code) \in Replies
         /\ CloseTheClient => OpenType'
         /\ mode' = mode /\ stage' \in HandshakeStages \cup {"dialing", "tracking", "relaying", "closed"} => StageType'
         /\ \A d \in Dir, from, to \in LoopStages : Goes(d, from, to) => LoopType'
<1>1. ASSUME NEW code \in Answers \cup {"choice", "success", "network unreachable"}
      PROVE  Told(code) \in Replies
  <2>1. replies \in Replies
    BY Groups
  <2>2. Append(replies, code) \in Replies
    BY <2>1, Longer DEF Replies
  <2> QED
    BY <2>1, <2>2 DEF Told
<1>2. CloseTheClient => OpenType'
  BY DEF TypeOK, CloseTheClient, OpenType
<1>3. mode' = mode /\ stage' \in HandshakeStages \cup {"dialing", "tracking", "relaying", "closed"} => StageType'
  BY DEF TypeOK, StageType
<1>4. \A d \in Dir, from, to \in LoopStages : Goes(d, from, to) => LoopType'
  BY DEF TypeOK, LoopType, Goes, LoopStages
<1> QED
  BY <1>1, <1>2, <1>3, <1>4

LEMMA HandshakeTypes ==
  ASSUME TypeOK, Handshake
  PROVE  TypeOK'
<1>1. CASE ReadMessage
  <2>1. stage' \in {"methods", "choice", "length", "address", "port", "dialing"}
    BY <1>1 DEF ReadMessage, Following, GreetingStages, RequestStages
  <2>2. stage' \in HandshakeStages \cup {"dialing"}
    BY <2>1 DEF HandshakeStages, GreetingStages, RequestStages
  <2>3. StageType'
    BY <1>1, <2>2, Changes DEF ReadMessage
  <2>4. MessageType'
    BY <1>1, Groups DEF ReadMessage, MessageType
  <2>5. DeadlineType'
    <3>1. /\ read_deadline' \in {read_deadline, [read_deadline EXCEPT !["client"] = Never]}
          /\ write_deadline' \in {write_deadline, [write_deadline EXCEPT !["client"] = Never]}
      BY <1>1 DEF ReadMessage, Lifted, AfterMessage
    <3>2. Never \in Limit(Longest) /\ Never \in Limit(handshake_timeout)
      BY Deadlines, TimeoutAssumption
    <3> QED
      BY <3>1, <3>2, Groups DEF DeadlineType
  <2>6. elapsed' \in Nat
    BY <1>1, Groups DEF ReadMessage
  <2> QED
    BY <1>1, <2>3, <2>4, <2>5, <2>6, Changes, Untouched, GroupsNext
       DEF ReadMessage, deadlines, tracking, relay, handshake
<1>2. ASSUME NEW type \in AddressType, ReadHeader(type) PROVE TypeOK'
  <2>1. StageType'
    BY <1>2, Changes DEF ReadHeader, Following, HandshakeStages, RequestStages
  <2>2. MessageType'
    BY <1>2 DEF ReadHeader, MessageType
  <2> QED
    BY <1>2, <2>1, <2>2, Changes, Untouched, GroupsNext
       DEF ReadHeader, deadlines, tracking, relay, handshake
<1>3. ASSUME NEW code \in Answers, RefuseRequest(code) PROVE TypeOK'
  <2>1. MessageType'
    BY <1>3, Groups DEF RefuseRequest, MessageType
  <2> QED
    BY <1>3, <2>1, Changes, Untouched, GroupsNext
       DEF RefuseRequest, deadlines, tracking, relay, handshake
<1>4. CASE ReadFails
  <2>1. MessageType'
    BY <1>4, Groups DEF ReadFails, MessageType
  <2>2. replies' \in Replies
    BY <1>4, Changes, Untouched DEF ReadFails, Answers
  <2> QED
    BY <1>4, <2>1, <2>2, Changes, Untouched, GroupsNext
       DEF ReadFails, deadlines, tracking, relay, handshake
<1>5. CASE servers_choice
  BY <1>5, Changes, Untouched, GroupsNext
     DEF servers_choice, HandshakeStages, RequestStages, deadlines, tracking, relay, handshake
<1>6. CASE LookUpDestination
  BY <1>6, Changes, Untouched, GroupsNext
     DEF LookUpDestination, deadlines, tracking, relay, handshake
<1> QED
  BY <1>1, <1>2, <1>3, <1>4, <1>5, <1>6 DEF Handshake

LEMMA DialTypes ==
  ASSUME TypeOK, Dial
  PROVE  TypeOK'
<1>1. CASE DialSucceeds
  <2>1. OpenType'
    BY <1>1, Groups DEF DialSucceeds, OpenType
  <2> QED
    BY <1>1, <2>1, Changes, Untouched, GroupsNext
       DEF DialSucceeds, deadlines, tracking, relay, handshake
<1>2. CASE DialFails
  BY <1>2, Changes, Untouched, GroupsNext
     DEF DialFails, deadlines, tracking, relay, handshake
<1>3. CASE Recovered
  BY <1>3, Changes, Untouched, GroupsNext
     DEF Recovered, deadlines, tracking, relay, handshake
<1>4. CASE StartRelay
  <2>1. LoopType'
    BY <1>4 DEF StartRelay, LoopType, LoopStages
  <2>2. AgeType'
    BY <1>4, TimeoutAssumption DEF StartRelay, AgeType
  <2>3. EntryType'
    BY <1>4, Groups DEF StartRelay, EntryType
  <2> QED
    BY <1>4, <2>1, <2>2, <2>3, Changes, Untouched, GroupsNext
       DEF StartRelay, deadlines, tracking, relay, handshake
<1> QED
  BY <1>1, <1>2, <1>3, <1>4 DEF Dial

LEMMA CopyTypes ==
  ASSUME TypeOK, LoopInv, NEW d \in Dir, Copy(d)
  PROVE  TypeOK'
<1>1. CASE StartLoop(d)
  <2>1. DeadlineType'
    BY <1>1, Deadlines, Ends, TimeoutAssumption, Groups DEF StartLoop, DeadlineType
  <2> QED
    BY <1>1, <2>1, Changes, Untouched, GroupsNext
       DEF StartLoop, deadlines, tracking, handshake, LoopStages
<1>2. CASE Read(d)
  <2>1. DeadlineType'
    BY <1>2, Deadlines, Ends, TimeoutAssumption, Groups DEF Read, DeadlineType
  <2>2. PendingType'
    <3>1. pending \in [Dir -> 0 .. MaxPending] /\ pending[d] > 0
      BY <1>2, Groups DEF Read, PendingType
    <3>2. pending[d] - 1 \in 0 .. MaxPending
      BY <3>1, BoundsAssumption
    <3> QED
      BY <1>2, <3>1, <3>2 DEF Read, PendingType
  <2> QED
    BY <1>2, <2>1, <2>2, Changes, Untouched, GroupsNext
       DEF Read, deadlines, tracking, handshake, LoopStages
<1>3. CASE ReadEnds(d)
  <2>1. CauseType'
    BY <1>3, Groups DEF ReadEnds, CauseType
  <2> QED
    BY <1>3, <2>1, Changes, Untouched, GroupsNext
       DEF ReadEnds, deadlines, tracking, handshake, LoopStages
<1>4. CASE WriteFails(d)
  <2>1. CauseType'
    BY <1>4, Groups DEF WriteFails, CauseType
  <2> QED
    BY <1>4, <2>1, Changes, Untouched, GroupsNext
       DEF WriteFails, deadlines, tracking, handshake, LoopStages
<1>5. CASE Account(d)
  <2>1. UncountedType'
    <3>1. uncounted[d] \in 0 .. MaxUncounted
      BY Groups DEF UncountedType
    <3>2. Counted(d) => uncounted[d] > 0
      BY <1>5 DEF Account, Goes, Counted, LoopInv, LoopOK
    <3>3. (IF Counted(d) THEN uncounted[d] - 1 ELSE uncounted[d]) \in 0 .. MaxUncounted
      BY <3>1, <3>2, BoundsAssumption
    <3> QED
      BY <1>5, <3>3, Groups DEF Account, UncountedType
  <2>2. AgeType'
    <3>1. age \in 0 .. idle_timeout + 1 /\ age' \in {0, age}
      BY <1>5, Groups DEF Account, AgeAfterTraffic, AgeType
    <3> QED
      BY <3>1, TimeoutAssumption DEF AgeType
  <2> QED
    BY <1>5, <2>1, <2>2, Changes, Untouched, GroupsNext
       DEF Account, deadlines, tracking, handshake, LoopStages
<1>6. CASE CloseClient(d)
  <2>1. EntryType'
    BY <1>6, Groups DEF CloseClient, EntryType, tracking
  <2> QED
    BY <1>6, <2>1, Changes, Untouched, GroupsNext
       DEF CloseClient, deadlines, tracking, handshake, LoopStages
<1>7. CASE CloseRemote(d)
  <2>1. OpenType'
    BY <1>7, Groups DEF CloseRemote, OpenType
  <2> QED
    BY <1>7, <2>1, Changes, Untouched, GroupsNext
       DEF CloseRemote, deadlines, tracking, handshake, LoopStages
<1>8. CASE RemoveEntry(d)
  <2>1. EntryType'
    BY <1>8, Groups DEF RemoveEntry, EntryType
  <2> QED
    BY <1>8, <2>1, Changes, Untouched, GroupsNext
       DEF RemoveEntry, deadlines, tracking, handshake, LoopStages
<1>9. CASE FindClosed(d)
  BY <1>9, Changes, Untouched, GroupsNext
     DEF FindClosed, deadlines, tracking, handshake, LoopStages
<1> QED
  BY <1>1, <1>2, <1>3, <1>4, <1>5, <1>6, <1>7, <1>8, <1>9 DEF Copy

LEMMA PeersTypes ==
  ASSUME TypeOK, Peers
  PROVE  TypeOK'
<1>1. ASSUME NEW part \in {"part", "whole"}, ClientSends(part) PROVE TypeOK'
  <2>1. MessageType'
    BY <1>1, Groups DEF ClientSends, MessageType
  <2> QED
    BY <1>1, <2>1, Changes, Untouched, GroupsNext
       DEF ClientSends, deadlines, tracking, relay, handshake
<1>2. ASSUME NEW d \in Dir, SendData(d) PROVE TypeOK'
  <2>1. PendingType'
    BY <1>2, BoundsAssumption, Groups DEF SendData, PendingType
  <2> QED
    BY <1>2, <2>1, Changes, Untouched, GroupsNext
       DEF SendData, deadlines, tracking, relay, handshake
<1>3. ASSUME NEW d \in Dir, Write(d) PROVE TypeOK'
  <2>1. UncountedType'
    BY <1>3, BoundsAssumption, Groups DEF Write, Capped, UncountedType
  <2> QED
    BY <1>3, <2>1, Changes, Untouched, GroupsNext
       DEF Write, LoopStages, deadlines, tracking, relay, handshake
<1>4. ASSUME NEW e \in End, NEW how \in {"finished", "reset"}, PeerLeaves(e, how) PROVE TypeOK'
  <2>1. PeerType'
    BY <1>4, Groups DEF PeerLeaves, PeerType
  <2> QED
    BY <1>4, <2>1, Changes, Untouched, GroupsNext
       DEF PeerLeaves, deadlines, tracking, relay, handshake
<1> QED
  BY <1>1, <1>2, <1>3, <1>4 DEF Peers

LEMMA TypeStep ==
  ASSUME TypeOK, LoopInv, [Next]_vars
  PROVE  TypeOK'
<1>1. CASE EndRelay
  BY <1>1, Changes, Untouched, GroupsNext
     DEF EndRelay, deadlines, tracking, relay, handshake
<1>2. CASE Cleanup
  <2>1. EntryType'
    BY <1>2, Groups DEF Cleanup, EntryType, relay
  <2> QED
    BY <1>2, <2>1, Changes, Untouched, GroupsNext
       DEF Cleanup, deadlines, tracking, relay, handshake
<1>3. CASE Tick
  <2>1. DeadlineType'
    BY <1>3, Deadlines, Groups DEF Tick, DeadlineType
  <2>2. AgeType'
    <3>1. age \in 0 .. idle_timeout + 1 /\ age' = Capped(age + 1, idle_timeout + 1)
      BY <1>3, Groups DEF Tick, AgeType
    <3> QED
      BY <3>1, TimeoutAssumption DEF Capped, AgeType
  <2>3. elapsed' \in Nat
    BY <1>3, Groups DEF Tick
  <2> QED
    BY <1>3, <2>1, <2>2, <2>3, Changes, Untouched, GroupsNext
       DEF Tick, deadlines, tracking, relay, handshake
<1>4. CASE UNCHANGED vars
  BY <1>4, Changes, Untouched, GroupsNext
     DEF vars, deadlines, tracking, relay, handshake
<1> QED
  BY <1>1, <1>2, <1>3, <1>4, HandshakeTypes, DialTypes, CopyTypes, PeersTypes DEF Next, Over

-----------------------------------------------------------------------------
LEMMA StageInit == Init => StageInv /\ LoopInv
BY Ends, ModeAssumption DEF Init, StageInv, LoopInv, LoopOK, BeforeRelay, HandshakeStages, GreetingStages, RequestStages, Dir

\* What a step of the handshake may do outside of the handshake.
LEMMA HandshakeFrame ==
  ASSUME TypeOK, Handshake
  PROVE  /\ stage \in HandshakeStages \cup {"lookup"}
         /\ stage' \in HandshakeStages \cup {"dialing", "closed"}
         /\ stage' \in HandshakeStages => stage \in HandshakeStages
         /\ UNCHANGED <<mode, peer, entry, age, pending, loop, cause, once, uncounted>>
         /\ open' = open \/ CloseTheClient
<1> USE DEF HandshakeStages, GreetingStages, RequestStages, tracking, relay
<1>1. CASE ReadMessage
  <2>1. stage \in HandshakeStages /\ stage' \in HandshakeStages \cup {"dialing"}
    BY <1>1 DEF ReadMessage, Following
  <2> QED
    BY <1>1, <2>1 DEF ReadMessage
<1>2. CASE \E type \in AddressType : ReadHeader(type)
  BY <1>2 DEF ReadHeader, Following
<1>3. CASE \E code \in Answers : RefuseRequest(code)
  BY <1>3 DEF RefuseRequest, Refusal
<1>4. CASE ReadFails
  BY <1>4 DEF ReadFails
<1>5. CASE servers_choice
  BY <1>5 DEF servers_choice
<1>6. CASE LookUpDestination
  BY <1>6 DEF LookUpDestination
<1> QED
  BY <1>1, <1>2, <1>3, <1>4, <1>5, <1>6 DEF Handshake

\* What a step of a loop may do outside of the loops.
LEMMA CopyFrame ==
  ASSUME TypeOK, NEW d \in Dir, Copy(d) \/ Write(d)
  PROVE  /\ UNCHANGED <<mode, stage, message, address_type, replies, peer, write_deadline, elapsed>>
         /\ \A e \in End : open'[e] => open[e]
         /\ \A c \in Dir \ {d} : /\ loop'[c] = loop[c]
                                /\ cause'[c] = cause[c]
                                /\ uncounted'[c] = uncounted[c]
                                /\ pending'[c] = pending[c]
                                /\ read_deadline'[Src(c)] = read_deadline[Src(c)]
         /\ loop[d] \notin {"none", "ended"} /\ loop'[d] # "none"
         /\ entry' = entry \/ (entry = "tracked" /\ entry' = "removed" /\ loop[d] = "removing")
         /\ age' = age \/ (entry = "tracked" /\ age' = 0)
<1>1. /\ loop \in [Dir -> LoopStages] /\ open \in [End -> BOOLEAN]
      /\ cause \in [Dir -> {"none", "read", "write", "write deadline"}]
      /\ uncounted \in [Dir -> 0 .. MaxUncounted]
      /\ pending \in [Dir -> 0 .. MaxPending]
      /\ read_deadline \in [End -> Limit(Longest)]
  BY Groups DEF LoopType, OpenType, CauseType, UncountedType, PendingType, DeadlineType
<1>2. \A c \in Dir \ {d} : Src(c) # Src(d)
  BY DEF Dir, Src
<1> USE DEF handshake, deadlines, tracking, Goes
<1>3. CASE StartLoop(d)
  BY <1>1, <1>2, <1>3, Ends DEF StartLoop
<1>4. CASE Read(d)
  BY <1>1, <1>2, <1>4, Ends DEF Read
<1>5. CASE ReadEnds(d)
  BY <1>1, <1>5 DEF ReadEnds
<1>6. CASE WriteFails(d)
  BY <1>1, <1>6 DEF WriteFails
<1>7. CASE Account(d)
  BY <1>1, <1>7 DEF Account, AgeAfterTraffic
<1>8. CASE CloseClient(d)
  BY <1>1, <1>8 DEF CloseClient, CloseTheClient
<1>9. CASE CloseRemote(d)
  BY <1>1, <1>9 DEF CloseRemote
<1>10. CASE RemoveEntry(d)
  BY <1>1, <1>10 DEF RemoveEntry
<1>11. CASE FindClosed(d)
  BY <1>1, <1>11 DEF FindClosed
<1>12. CASE Write(d)
  BY <1>1, <1>12 DEF Write
<1> QED
  BY <1>3, <1>4, <1>5, <1>6, <1>7, <1>8, <1>9, <1>10, <1>11, <1>12 DEF Copy

LEMMA StageStep ==
  ASSUME TypeOK, StageInv, LoopInv, [Next]_vars
  PROVE  StageInv'
<1>1. open \in [End -> BOOLEAN] /\ loop \in [Dir -> LoopStages]
  BY Groups DEF OpenType, LoopType
<1>2. CASE Handshake
  BY <1>1, <1>2, HandshakeFrame, Ends
     DEF StageInv, BeforeRelay, HandshakeStages, GreetingStages, RequestStages, CloseTheClient
<1>3. CASE DialSucceeds \/ DialFails \/ Recovered
  BY <1>1, <1>3, Ends DEF DialSucceeds, DialFails, Recovered, StageInv, BeforeRelay, HandshakeStages,
     GreetingStages, RequestStages, CloseTheClient, tracking, relay, handshake, deadlines
<1>4. CASE StartRelay
  BY <1>4 DEF StartRelay, StageInv, BeforeRelay, HandshakeStages, GreetingStages, RequestStages, Dir
<1>5. ASSUME NEW d \in Dir, Copy(d) \/ Write(d) PROVE StageInv'
  BY <1>5, CopyFrame, Ends DEF StageInv, LoopInv, LoopOK, BeforeRelay
<1>6. CASE EndRelay
  BY <1>6 DEF EndRelay, StageInv, BeforeRelay, HandshakeStages, GreetingStages, RequestStages,
     tracking, relay, handshake, deadlines
<1>7. CASE Cleanup
  BY <1>7 DEF Cleanup, StageInv, relay
<1>8. ASSUME NEW part \in {"part", "whole"}, ClientSends(part) PROVE StageInv'
  BY <1>8 DEF ClientSends, StageInv, tracking, relay
<1>9. ASSUME NEW d \in Dir, SendData(d) PROVE StageInv'
  BY <1>9 DEF SendData, StageInv, tracking
<1>10. ASSUME NEW e \in End, NEW how \in {"finished", "reset"}, PeerLeaves(e, how) PROVE StageInv'
  BY <1>10 DEF PeerLeaves, StageInv, tracking, relay
<1>11. CASE Tick
  BY <1>11 DEF Tick, StageInv, relay
<1>12. CASE UNCHANGED vars
  BY <1>12 DEF vars, StageInv, tracking, relay
<1> QED
  BY <1>2, <1>3, <1>4, <1>5, <1>6, <1>7, <1>8, <1>9, <1>10, <1>11, <1>12 DEF Next, Dial, Peers, Over

\* What the loop that runs does to its own chunk and its own stage.
LEMMA LoopStep ==
  ASSUME TypeOK, StageInv, LoopInv, [Next]_vars
  PROVE  LoopInv'
<1>1. /\ loop \in [Dir -> LoopStages] /\ open \in [End -> BOOLEAN]
      /\ cause \in [Dir -> {"none", "read", "write", "write deadline"}]
      /\ uncounted \in [Dir -> 0 .. MaxUncounted]
  BY Groups DEF LoopType, OpenType, CauseType, UncountedType
<1>0. ASSUME NEW d \in Dir PROVE LoopOK(d) /\ uncounted[d] \in Nat
  <2>1. uncounted[d] \in 0 .. MaxUncounted
    BY <1>1
  <2> QED
    BY <2>1 DEF LoopInv
<1>2. CASE Handshake
  BY <1>1, <1>2, HandshakeFrame, Ends DEF LoopInv, LoopOK, CloseTheClient
<1>3. CASE DialSucceeds \/ DialFails \/ Recovered
  BY <1>1, <1>3, Ends DEF DialSucceeds, DialFails, Recovered, StageInv, LoopInv, LoopOK, BeforeRelay,
     CloseTheClient, tracking, relay
<1>4. CASE StartRelay
  <2> SUFFICES ASSUME NEW d \in Dir PROVE LoopOK(d)'
    BY DEF LoopInv
  <2>1. loop[d] = "none"
    BY <1>4 DEF StartRelay, StageInv, BeforeRelay
  <2>2. cause[d] = "none" /\ uncounted[d] = 0
    BY <1>0, <2>1 DEF LoopOK
  <2>3. loop'[d] = "starting" /\ cause'[d] = "none" /\ uncounted'[d] = 0 /\ entry' = "tracked"
    BY <1>4, <2>2 DEF StartRelay
  <2> QED
    BY <2>3 DEF LoopOK
<1>5. ASSUME NEW d \in Dir, Copy(d) \/ Write(d) PROVE LoopInv'
  <2>1. ASSUME NEW c \in Dir \ {d} PROVE LoopOK(c)'
    <3>1. /\ loop'[c] = loop[c] /\ cause'[c] = cause[c] /\ uncounted'[c] = uncounted[c]
          /\ entry' = entry \/ (entry = "tracked" /\ entry' = "removed")
          /\ ~open["client"] => ~open'["client"]
          /\ ~open["remote"] => ~open'["remote"]
      BY <1>5, <2>1, CopyFrame, Ends
    <3>2. LoopOK(c) /\ uncounted[c] \in Nat
      BY <1>0
    <3>3. entry \in {"removed", "tracked"} => uncounted[c] <= 1
      <4>1. CASE entry = "removed"
        BY <3>2, <4>1 DEF LoopOK
      <4>2. CASE uncounted[c] > 0 /\ entry = "tracked"
        <5>1. uncounted[c] = 1
          BY <3>2, <4>2 DEF LoopOK
        <5> QED
          BY <5>1
      <4>3. CASE ~(uncounted[c] > 0)
        BY <3>2, <4>3
      <4> QED
        BY <4>1, <4>2, <4>3
    <3>4. /\ entry' = "tracked" => entry = "tracked"
          /\ entry' = "removed" => entry \in {"removed", "tracked"}
      BY <3>1
    <3> QED
      BY <3>1, <3>2, <3>3, <3>4 DEF LoopOK
  <2>0. LoopOK(d) /\ uncounted[d] \in Nat
    BY <1>0
  <2>2. LoopOK(d)'
    <3> USE DEF tracking, Goes
    <3>1. CASE StartLoop(d)
      BY <1>1, <2>0, <3>1 DEF LoopOK, StartLoop
    <3>2. CASE Read(d)
      BY <1>1, <2>0, <3>2 DEF LoopOK, Read
    <3>3. CASE ReadEnds(d)
      BY <1>1, <2>0, <3>3 DEF LoopOK, ReadEnds
    <3>4. CASE WriteFails(d)
      BY <1>1, <2>0, <3>4 DEF LoopOK, WriteFails
    <3>5. CASE Account(d)
      <4>1. /\ loop[d] = "accounting" /\ loop'[d] # "none" /\ cause'[d] = cause[d]
            /\ loop'[d] = IF cause[d] = "none" THEN "reading" ELSE "closing"
            /\ uncounted'[d] = IF entry = "tracked" /\ cause[d] = "none" THEN uncounted[d] - 1 ELSE uncounted[d]
            /\ entry' = entry
        BY <1>1, <3>5 DEF Account, Counted
      <4> QED
        BY <2>0, <4>1 DEF LoopOK
    <3>6. CASE CloseClient(d)
      BY <1>1, <2>0, <3>6, Ends DEF LoopOK, CloseClient, CloseTheClient
    <3>7. CASE CloseRemote(d)
      BY <1>1, <2>0, <3>7, Ends DEF LoopOK, CloseRemote
    <3>8. CASE RemoveEntry(d)
      <4>1. /\ loop[d] = "removing" /\ loop'[d] = "ended" /\ UNCHANGED <<open, cause, uncounted>>
            /\ entry' = IF entry = "tracked" THEN "removed" ELSE entry
        BY <1>1, <3>8 DEF RemoveEntry
      <4> QED
        BY <2>0, <4>1 DEF LoopOK
    <3>9. CASE FindClosed(d)
      BY <1>1, <2>0, <3>9 DEF LoopOK, FindClosed
    <3>10. CASE Write(d)
      <4>1. loop[d] = "writing" /\ loop'[d] = "accounting" /\ UNCHANGED <<open, cause, entry>>
        BY <1>1, <3>10 DEF Write
      <4>2. uncounted'[d] = Capped(uncounted[d] + 1, MaxUncounted)
        BY <1>1, <3>10 DEF Write
      <4>3. uncounted'[d] > 0 /\ uncounted'[d] <= uncounted[d] + 1
        BY <2>0, <4>2, BoundsAssumption DEF Capped
      <4>4. entry # "removed"
        BY <3>10, Ends DEF Write, CanWrite, StageInv, Dst
      <4>5. uncounted'[d] \in Nat
        BY <2>0, <4>2, BoundsAssumption DEF Capped
      <4> QED
        BY <2>0, <4>1, <4>3, <4>4, <4>5 DEF LoopOK
    <3> QED
      BY <1>5, <3>1, <3>2, <3>3, <3>4, <3>5, <3>6, <3>7, <3>8, <3>9, <3>10 DEF Copy
  <2> QED
    BY <2>1, <2>2 DEF LoopInv
<1>6. CASE EndRelay
  BY <1>6 DEF EndRelay, LoopInv, LoopOK, tracking, relay
<1>7. CASE Cleanup
  BY <1>7 DEF Cleanup, LoopInv, LoopOK, relay
<1>8. ASSUME NEW part \in {"part", "whole"}, ClientSends(part) PROVE LoopInv'
  BY <1>8 DEF ClientSends, LoopInv, LoopOK, tracking, relay
<1>9. ASSUME NEW d \in Dir, SendData(d) PROVE LoopInv'
  BY <1>9 DEF SendData, LoopInv, LoopOK, tracking
<1>10. ASSUME NEW e \in End, NEW how \in {"finished", "reset"}, PeerLeaves(e, how) PROVE LoopInv'
  BY <1>10 DEF PeerLeaves, LoopInv, LoopOK, tracking, relay
<1>11. CASE Tick
  BY <1>11 DEF Tick, LoopInv, LoopOK, relay
<1>12. CASE UNCHANGED vars
  BY <1>12 DEF vars, LoopInv, LoopOK, tracking, relay
<1> QED
  BY <1>2, <1>3, <1>4, <1>5, <1>6, <1>7, <1>8, <1>9, <1>10, <1>11, <1>12 DEF Next, Dial, Peers, Over

-----------------------------------------------------------------------------
\* A loop runs only while the session relays.
LEMMA LoopsRelay ==
  ASSUME StageInv, NEW d \in Dir, loop[d] \notin {"none", "ended"}
  PROVE  stage = "relaying"
BY DEF StageInv

LEMMA DeadlineInit == Init => DeadlineInv
BY Ends, ModeAssumption, TimeoutAssumption
   DEF Init, DeadlineInv, HandshakeLimit, HandshakeStages, GreetingStages, RequestStages

\* A message leaves the deadlines as they are, or is the last one and clears them.
LEMMA DeadlineStep ==
  ASSUME TypeOK, StageInv, DeadlineInv, [Next]_vars
  PROVE  DeadlineInv'
<1>1. /\ read_deadline \in [End -> Limit(Longest)]
      /\ write_deadline \in [End -> Limit(handshake_timeout)]
  BY Groups DEF DeadlineType
<1>2. CASE ReadMessage
  <2>1. stage' \in HandshakeStages \cup {"dialing"} /\ stage \in HandshakeStages
    BY <1>2 DEF ReadMessage, Following, HandshakeStages, GreetingStages, RequestStages
  <2>2. CASE stage' = "dialing"
    BY <1>1, <1>2, <2>1, <2>2, Ends DEF ReadMessage, Lifted, DeadlineInv,
       HandshakeStages, GreetingStages, RequestStages
  <2>3. CASE stage' # "dialing"
    BY <1>2, <2>1, <2>3 DEF ReadMessage, Lifted, AfterMessage, DeadlineInv,
       HandshakeStages, GreetingStages, RequestStages
  <2> QED
    BY <2>2, <2>3
<1>3. CASE Handshake /\ ~ReadMessage
  <2>1. UNCHANGED <<deadlines, elapsed>>
    BY <1>3 DEF Handshake, ReadHeader, RefuseRequest, ReadFails, servers_choice, LookUpDestination
  <2>2. stage' = "dialing" => stage = "lookup"
    BY <1>3 DEF Handshake, ReadHeader, Following, RefuseRequest, ReadFails, servers_choice, LookUpDestination,
       HandshakeStages, GreetingStages, RequestStages
  <2> QED
    BY <1>3, <2>1, <2>2, HandshakeFrame DEF DeadlineInv, deadlines, HandshakeStages, GreetingStages, RequestStages
<1>4. CASE Dial
  BY <1>4 DEF Dial, DialSucceeds, DialFails, Recovered, StartRelay, DeadlineInv, deadlines,
     HandshakeStages, GreetingStages, RequestStages
<1>5. ASSUME NEW d \in Dir, Copy(d) \/ Write(d) PROVE DeadlineInv'
  <2>1. stage = "relaying" /\ UNCHANGED <<stage, mode, write_deadline>>
    BY <1>5, CopyFrame, LoopsRelay
  <2> QED
    BY <2>1 DEF DeadlineInv, HandshakeStages, GreetingStages, RequestStages
<1>6. CASE Tick
  <2>1. CASE stage \in HandshakeStages
    <3>1. read_deadline["client"] # 0
      BY <1>6, <2>1 DEF Tick, Blocked, HandshakeStages, GreetingStages, RequestStages
    <3>2. /\ read_deadline'["client"] = Later(read_deadline["client"])
          /\ write_deadline'["remote"] = Later(write_deadline["remote"])
          /\ elapsed' = elapsed + 1
          /\ stage' = stage /\ mode' = mode
      BY <1>6, <2>1, Ends DEF Tick
    <3>3. /\ read_deadline["client"] \in Int /\ read_deadline["client"] > 0
          /\ elapsed \in Nat
          /\ elapsed + read_deadline["client"] = handshake_timeout
      BY <2>1, <3>1, <1>1, Ends, Groups DEF DeadlineInv
    <3>4. /\ read_deadline'["client"] = read_deadline["client"] - 1
          /\ write_deadline'["remote"] = Never
      BY <3>2, <3>3 DEF Later, DeadlineInv
    <3>5. read_deadline'["client"] >= 0 /\ elapsed' + read_deadline'["client"] = handshake_timeout
      BY <3>2, <3>3, <3>4, TimeoutAssumption
    <3> QED
      BY <2>1, <3>2, <3>4, <3>5 DEF DeadlineInv, HandshakeStages, GreetingStages, RequestStages
  <2>2. CASE stage \notin HandshakeStages
    BY <1>6, <2>2, Ends DEF Tick, Later, DeadlineInv
  <2> QED
    BY <2>1, <2>2
<1>7. CASE \/ EndRelay
           \/ Cleanup
           \/ \E part \in {"part", "whole"} : ClientSends(part)
           \/ \E d \in Dir : SendData(d)
           \/ \E e \in End, how \in {"finished", "reset"} : PeerLeaves(e, how)
           \/ UNCHANGED vars
  BY <1>7 DEF EndRelay, Cleanup, ClientSends, SendData, PeerLeaves, vars, deadlines, DeadlineInv,
     HandshakeStages, GreetingStages, RequestStages
<1> QED
  BY <1>2, <1>3, <1>4, <1>5, <1>6, <1>7 DEF Next, Peers, Over

\* A write to a relay's end misses no deadline unless the handshake's was left on it.
LEMMA CauseStep ==
  ASSUME TypeOK, StageInv, DeadlineInv, ClearedDeadlineOnly, [Next]_vars
  PROVE  ClearedDeadlineOnly'
<1>1. cause \in [Dir -> {"none", "read", "write", "write deadline"}]
  BY Groups DEF CauseType
<1>2. CASE Handshake
  BY <1>2, HandshakeFrame DEF ClearedDeadlineOnly, HandshakeDeadlineOnly
<1>3. CASE Dial
  BY <1>3 DEF Dial, DialSucceeds, DialFails, Recovered, StartRelay, relay,
     ClearedDeadlineOnly, HandshakeDeadlineOnly
<1>4. ASSUME NEW d \in Dir, WriteFails(d), mode # "tunnel" PROVE cause'[d] = "write"
  <2>1. stage = "relaying"
    BY <1>4, LoopsRelay DEF WriteFails, Goes
  <2>2. write_deadline[Dst(d)] = Never
    BY <1>4, <2>1, Ends DEF DeadlineInv
  <2>3. write_deadline[Dst(d)] # 0
    BY <2>2
  <2> QED
    BY <1>1, <1>4, <2>3 DEF WriteFails
<1>5. ASSUME NEW d \in Dir, Copy(d) \/ Write(d), mode # "tunnel" PROVE cause'[d] \in {cause[d], "read", "write"}
  BY <1>1, <1>4, <1>5 DEF Copy, StartLoop, Read, ReadEnds, Account, CloseClient, CloseRemote, RemoveEntry,
     FindClosed, Write, tracking
<1>6. ASSUME NEW d \in Dir, Copy(d) \/ Write(d) PROVE ClearedDeadlineOnly'
  BY <1>5, <1>6, CopyFrame DEF ClearedDeadlineOnly, HandshakeDeadlineOnly
<1>7. CASE \/ EndRelay
           \/ Cleanup
           \/ Tick
           \/ \E part \in {"part", "whole"} : ClientSends(part)
           \/ \E d \in Dir : SendData(d)
           \/ \E e \in End, how \in {"finished", "reset"} : PeerLeaves(e, how)
           \/ UNCHANGED vars
  BY <1>7 DEF EndRelay, Cleanup, Tick, ClientSends, SendData, PeerLeaves, vars, relay,
     ClearedDeadlineOnly, HandshakeDeadlineOnly
<1> QED
  BY <1>2, <1>3, <1>6, <1>7 DEF Next, Peers, Over

\* The client is told in the order of the handshake, and that it is connected while
\* its connection takes the answer.
LEMMA ToldStep ==
  ASSUME TypeOK, StageInv, DeadlineInv, ToldInv, ConnectedMeansTold, [Next]_vars
  PROVE  ToldInv' /\ ConnectedMeansTold'
<1>1. open \in [End -> BOOLEAN] /\ peer \in [End -> {"up", "finished", "reset"}]
  BY Groups DEF OpenType, PeerType
<1> USE DEF HandshakeStages, GreetingStages, RequestStages
<1>2. ASSUME Handshake PROVE ToldInv'
  <2>1. CASE ReadMessage
    BY <2>1 DEF ReadMessage, Following, ToldInv
  <2>2. CASE \E type \in AddressType : ReadHeader(type)
    BY <2>2 DEF ReadHeader, Following, ToldInv
  <2>3. CASE \E code \in Answers : RefuseRequest(code)
    BY <2>3 DEF RefuseRequest, ToldInv
  <2>4. CASE ReadFails
    BY <2>4 DEF ReadFails, ToldInv
  <2>5. CASE servers_choice
    BY <2>5 DEF servers_choice, ToldInv, Told
  <2>6. CASE LookUpDestination
    BY <2>6 DEF LookUpDestination, ToldInv, StageInv
  <2> QED
    BY <1>2, <2>1, <2>2, <2>3, <2>4, <2>5, <2>6 DEF Handshake
<1>3. ASSUME Handshake PROVE ConnectedMeansTold'
  <2>1. ~open["remote"]
    BY <1>3, HandshakeFrame DEF StageInv, BeforeRelay
  <2>2. ~open'["remote"]
    BY <1>1, <1>3, <2>1, HandshakeFrame, Ends DEF CloseTheClient
  <2> QED
    BY <2>2 DEF ConnectedMeansTold
<1>4. CASE DialSucceeds
  <2>1. CASE mode = "socks" /\ open["client"] /\ peer["client"] # "reset"
    <3>1. CanWrite("client")
      BY <1>4, <2>1 DEF DialSucceeds, CanWrite, DeadlineInv
    <3>2. replies = <<"choice">>
      BY <1>4, <2>1 DEF DialSucceeds, ToldInv
    <3>3. replies' = Append(replies, "success")
      BY <1>4, <2>1, <3>1 DEF DialSucceeds, Told
    <3>4. Append(<<"choice">>, "success") = <<"choice", "success">>
      <4> HIDE <3>2, <3>3
      <4>1. "choice" \in {"choice", "success"} /\ "success" \in {"choice", "success"}
        OBVIOUS
      <4> QED
        BY <4>1, AppendToOne
    <3>5. replies' = <<"choice", "success">>
      BY <3>2, <3>3, <3>4
    <3> QED
      BY <1>4, <3>5 DEF DialSucceeds, ToldInv, ConnectedMeansTold
  <2>2. CASE ~(mode = "socks" /\ open["client"] /\ peer["client"] # "reset")
    BY <1>1, <1>4, <2>2, Ends DEF DialSucceeds, ToldInv, ConnectedMeansTold
  <2> QED
    BY <2>1, <2>2
<1>5. CASE DialFails \/ Recovered
  BY <1>1, <1>5, Ends DEF DialFails, Recovered, CloseTheClient, handshake, ToldInv, ConnectedMeansTold
<1>6. CASE StartRelay \/ EndRelay
  BY <1>6 DEF StartRelay, EndRelay, handshake, ToldInv, ConnectedMeansTold
<1>7. ASSUME NEW d \in Dir, Copy(d) \/ Write(d) PROVE ToldInv' /\ ConnectedMeansTold'
  BY <1>7, CopyFrame, Ends DEF ToldInv, ConnectedMeansTold
<1>8. ASSUME NEW e \in End, NEW how \in {"finished", "reset"}, PeerLeaves(e, how)
      PROVE  ToldInv' /\ ConnectedMeansTold'
  BY <1>1, <1>8 DEF PeerLeaves, handshake, ToldInv, ConnectedMeansTold
<1>9. CASE \/ Cleanup
           \/ Tick
           \/ \E part \in {"part", "whole"} : ClientSends(part)
           \/ \E d \in Dir : SendData(d)
           \/ UNCHANGED vars
  BY <1>9 DEF Cleanup, Tick, ClientSends, SendData, vars, handshake, ToldInv, ConnectedMeansTold
<1> QED
  BY <1>2, <1>3, <1>4, <1>5, <1>6, <1>7, <1>8, <1>9 DEF Next, Dial, Peers, Over

-----------------------------------------------------------------------------
\* The entry of a relay that goes on is as old as its silence at most.
LEMMA AgeStep ==
  ASSUME TypeOK, StageInv, AgeInv, [Next]_vars
  PROVE  AgeInv'
<1>1. /\ read_deadline \in [End -> Limit(Longest)] /\ loop \in [Dir -> LoopStages]
      /\ age \in 0 .. idle_timeout + 1
  BY Groups DEF DeadlineType, LoopType, AgeType
<1>2. CASE stage \in BeforeRelay \ {"tracking"} /\ UNCHANGED <<loop, entry>>
  <2>1. entry = "none" /\ \A d \in Dir : loop[d] = "none"
    BY <1>2 DEF StageInv
  <2>2. entry' = "none" /\ \A d \in Dir : loop'[d] = "none"
    BY <1>2, <2>1
  <2> QED
    BY <2>2 DEF AgeInv, AgeOK
<1>3. CASE Handshake
  BY <1>2, <1>3, HandshakeFrame DEF BeforeRelay, HandshakeStages, GreetingStages, RequestStages
<1>4. CASE DialSucceeds \/ DialFails \/ Recovered
  BY <1>2, <1>4 DEF DialSucceeds, DialFails, Recovered, BeforeRelay, tracking, relay
<1>5. CASE StartRelay
  BY <1>5, TimeoutAssumption DEF StartRelay, AgeInv, AgeOK
<1>6. ASSUME NEW d \in Dir, Copy(d) \/ Write(d) PROVE AgeInv'
  <2>1. ASSUME NEW c \in Dir \ {d} PROVE AgeOK(c)'
    <3>1. /\ loop'[c] = loop[c] /\ read_deadline'[Src(c)] = read_deadline[Src(c)]
          /\ entry' = "tracked" => entry = "tracked"
          /\ age' = age \/ age' = 0
      BY <1>6, <2>1, CopyFrame
    <3>2. AgeOK(c)
      BY DEF AgeInv
    <3> QED
      BY <3>1, <3>2, TimeoutAssumption DEF AgeOK
  <2>2. AgeOK(d)
    BY DEF AgeInv
  <2>3. AgeOK(d)'
    <3> USE DEF Goes, tracking
    <3>1. CASE StartLoop(d)
      <4>1. /\ loop[d] = "starting" /\ loop'[d] = "reading" /\ read_deadline'[Src(d)] = idle_timeout
            /\ UNCHANGED <<entry, age>>
        BY <1>1, <3>1, Ends DEF StartLoop
      <4> QED
        BY <2>2, <4>1, TimeoutAssumption DEF AgeOK
    <3>2. CASE Read(d)
      <4>1. loop'[d] = "writing" /\ read_deadline'[Src(d)] = idle_timeout
        BY <1>1, <3>2, Ends DEF Read
      <4> QED
        BY <4>1, TimeoutAssumption DEF AgeOK
    <3>3. CASE ReadEnds(d)
      <4>1. loop[d] = "reading" /\ loop'[d] = "closing" /\ UNCHANGED <<entry, age>>
        BY <1>1, <3>3 DEF ReadEnds
      <4> QED
        BY <2>2, <4>1 DEF AgeOK
    <3>4. CASE WriteFails(d) \/ Write(d)
      <4>1. loop[d] = "writing" /\ loop'[d] = "accounting" /\ UNCHANGED <<entry, age, read_deadline>>
        BY <1>1, <3>4 DEF WriteFails, Write, deadlines
      <4> QED
        BY <2>2, <4>1 DEF AgeOK
    <3>5. CASE Account(d)
      <4>1. /\ loop[d] = "accounting" /\ loop'[d] \in {"reading", "closing"} /\ UNCHANGED <<entry, read_deadline>>
            /\ entry = "tracked" => age' = 0
        BY <1>1, <3>5 DEF Account, deadlines, AgeAfterTraffic
      <4> QED
        BY <2>2, <4>1, TimeoutAssumption DEF AgeOK
    <3>6. CASE CloseClient(d) \/ CloseRemote(d) \/ RemoveEntry(d) \/ FindClosed(d)
      <4>1. /\ loop[d] \notin {"writing", "accounting"}
            /\ loop'[d] \in {"closing remote", "removing", "ended"}
            /\ entry' = "tracked" => entry = "tracked"
            /\ age' = age
        BY <1>1, <3>6 DEF CloseClient, CloseRemote, RemoveEntry, FindClosed
      <4> QED
        BY <2>2, <4>1 DEF AgeOK
    <3> QED
      BY <1>6, <3>1, <3>2, <3>3, <3>4, <3>5, <3>6 DEF Copy
  <2> QED
    BY <2>1, <2>3 DEF AgeInv
<1>7. CASE Tick
  <2> SUFFICES ASSUME NEW d \in Dir PROVE AgeOK(d)'
    BY DEF AgeInv
  <2>1. AgeOK(d) /\ read_deadline[Src(d)] \in Limit(Longest)
    BY <1>1, Ends DEF AgeInv
  <2>2. /\ loop'[d] = loop[d] /\ entry' = entry
        /\ read_deadline'[Src(d)] = Later(read_deadline[Src(d)])
        /\ age' = Capped(age + 1, idle_timeout + 1)
    BY <1>7, Ends DEF Tick, relay
  <2>3. CASE entry # "tracked"
    BY <2>1, <2>2, <2>3, TimeoutAssumption DEF AgeOK, Later
  <2>4. CASE entry = "tracked"
    <3>1. stage \notin BeforeRelay
      BY <2>4 DEF StageInv
    <3>2. loop[d] = "writing" \/ (loop[d] = "reading" /\ read_deadline[Src(d)] # 0)
      BY <1>7, <3>1 DEF Tick, Blocked, ReadBlocked, WriteBlocked, ReadOver, BeforeRelay,
         HandshakeStages
    <3>3. CASE loop[d] = "writing"
      BY <2>1, <2>2, <3>3, TimeoutAssumption DEF AgeOK, Later
    <3>4. CASE loop[d] = "reading" /\ read_deadline[Src(d)] # 0
      <4>1. /\ read_deadline[Src(d)] \in 0 .. idle_timeout
            /\ age + read_deadline[Src(d)] <= idle_timeout
        BY <2>1, <2>4, <3>4 DEF AgeOK
      <4>2. /\ read_deadline'[Src(d)] = read_deadline[Src(d)] - 1
            /\ age' = age + 1
        BY <1>1, <2>2, <3>4, <4>1, TimeoutAssumption DEF Later, Capped
      <4>3. /\ read_deadline'[Src(d)] \in 0 .. idle_timeout
            /\ age' + read_deadline'[Src(d)] <= idle_timeout
            /\ age' <= idle_timeout
        BY <1>1, <3>4, <4>1, <4>2, TimeoutAssumption
      <4> QED
        BY <2>2, <3>4, <4>3 DEF AgeOK
    <3> QED
      BY <3>2, <3>3, <3>4
  <2> QED
    BY <2>3, <2>4
<1>8. CASE Cleanup
  BY <1>8 DEF Cleanup, deadlines, relay, AgeInv, AgeOK
<1>9. CASE \/ EndRelay
           \/ \E part \in {"part", "whole"} : ClientSends(part)
           \/ \E d \in Dir : SendData(d)
           \/ \E e \in End, how \in {"finished", "reset"} : PeerLeaves(e, how)
           \/ UNCHANGED vars
  BY <1>9 DEF EndRelay, ClientSends, SendData, PeerLeaves, vars, deadlines, tracking, relay, AgeInv, AgeOK
<1> QED
  BY <1>3, <1>4, <1>5, <1>6, <1>7, <1>8, <1>9 DEF Next, Dial, Peers, Over

-----------------------------------------------------------------------------
IInv ==
    /\ TypeOK /\ StageInv /\ LoopInv /\ DeadlineInv
    /\ ToldInv /\ ConnectedMeansTold /\ ClearedDeadlineOnly /\ AgeInv

\* The inductive invariant holds in every behaviour.
THEOREM SessionInvariant == Spec => []IInv
<1>1. Init => IInv
  <2>1. Init => ToldInv /\ ConnectedMeansTold /\ ClearedDeadlineOnly
    BY Ends, ModeAssumption DEF Init, ToldInv, ConnectedMeansTold, ClearedDeadlineOnly, HandshakeDeadlineOnly,
       HandshakeStages, GreetingStages, RequestStages
  <2>2. Init => AgeInv
    BY DEF Init, AgeInv, AgeOK
  <2> QED
    BY <2>1, <2>2, TypeInit, StageInit, DeadlineInit DEF IInv
<1>2. IInv /\ [Next]_vars => IInv'
  BY TypeStep, StageStep, LoopStep, DeadlineStep, ToldStep, CauseStep, AgeStep DEF IInv
<1> QED
  BY <1>1, <1>2, PTL DEF Spec

\* In every behaviour the variables keep their types.
THEOREM SessionTypes == Spec => []TypeOK
BY SessionInvariant, PTL DEF IInv

\* However its client spreads the messages, a handshake is over when
\* handshake_timeout has passed (socks.go:169).
THEOREM HandshakeIsBounded == Spec => []HandshakeBounded
<1>1. IInv => HandshakeBounded
  <2> SUFFICES ASSUME IInv, stage \in HandshakeStages PROVE elapsed <= handshake_timeout
    BY DEF HandshakeBounded
  <2>1. /\ elapsed \in Nat /\ read_deadline["client"] \in Int
        /\ read_deadline["client"] >= 0 /\ elapsed + read_deadline["client"] = handshake_timeout
    BY Groups, Ends DEF IInv, DeadlineInv, DeadlineType
  <2> QED
    BY <2>1, TimeoutAssumption
<1> QED
  BY <1>1, SessionInvariant, PTL

\* A SOCKS client for which a connection was made is told so, and nothing else
\* after the choice of the method (servers_response_linux.go:43).
THEOREM ConnectedClientsAreTold == Spec => []ConnectedMeansTold
BY SessionInvariant, PTL DEF IInv

\* Outside of tunnel mode the handshake's deadline (main.go:730) cuts no relay.
THEOREM DeadlineIsCleared == Spec => []ClearedDeadlineOnly
BY SessionInvariant, PTL DEF IInv

\* At most the chunk a loop was writing when the entry was removed (main.go:613)
\* stays out of the byte counters.
THEOREM OneChunkUncounted == Spec => []AtMostOneUncounted
<1>1. IInv => AtMostOneUncounted
  <2> SUFFICES ASSUME IInv, entry # "expired", NEW d \in Dir
               PROVE  /\ uncounted[d] <= 1
                      /\ uncounted[d] = 1 /\ entry = "tracked" => loop[d] = "accounting"
    BY DEF AtMostOneUncounted
  <2>1. LoopOK(d)
    BY DEF IInv, LoopInv
  <2>2. uncounted[d] \in 0 .. MaxUncounted /\ entry \in {"none", "tracked", "removed"}
    BY Groups DEF IInv, UncountedType, EntryType
  <2>3. uncounted[d] \in Nat
    BY <2>2
  <2>4. CASE entry = "none"
    <3>1. loop[d] = "none"
      BY <2>4 DEF IInv, StageInv
    <3> QED
      BY <2>1, <2>4, <3>1 DEF LoopOK
  <2>5. CASE entry = "tracked"
    <3>1. CASE uncounted[d] > 0
      <4>1. uncounted[d] = 1 /\ loop[d] = "accounting"
        BY <2>1, <2>5, <3>1 DEF LoopOK
      <4> QED
        BY <4>1
    <3>2. CASE ~(uncounted[d] > 0)
      BY <2>3, <3>2
    <3> QED
      BY <3>1, <3>2
  <2>6. CASE entry = "removed"
    BY <2>1, <2>6 DEF LoopOK
  <2> QED
    BY <2>2, <2>4, <2>5, <2>6
<1> QED
  BY <1>1, SessionInvariant, PTL

\* The cleanup (main.go:506) expires an entry only while both loops of its relay
\* are in writes that their peers held up, or have not accounted for those yet.
THEOREM OnlyStalledExpire == Spec => ExpiresOnlyStalled
<1>1. ASSUME IInv, [Next]_vars, entry = "tracked", entry' = "expired", NEW d \in Dir
      PROVE  loop[d] \in {"writing", "accounting"}
  <2>1. Cleanup
    <3>1. ~Handshake
      BY <1>1, HandshakeFrame DEF IInv
    <3>2. \A c \in Dir : ~(Copy(c) \/ Write(c))
      BY <1>1, CopyFrame DEF IInv
    <3> QED
      BY <1>1, <3>1, <3>2 DEF Next, Dial, DialSucceeds, DialFails, Recovered, StartRelay, EndRelay, Peers,
         ClientSends, SendData, PeerLeaves, Tick, Over, vars, tracking
  <2>2. age > idle_timeout /\ age \in Nat /\ AgeOK(d)
    <3>1. age \in 0 .. idle_timeout + 1
      BY <1>1, Groups DEF IInv, AgeType
    <3>2. AgeOK(d)
      BY <1>1 DEF IInv, AgeInv
    <3> QED
      BY <2>1, <3>1, <3>2 DEF Cleanup
  <2> QED
    BY <1>1, <2>2, TimeoutAssumption DEF AgeOK
<1>2. IInv /\ [Next]_vars =>
        [entry = "tracked" /\ entry' = "expired" => \A d \in Dir : loop[d] \in {"writing", "accounting"}]_vars
  BY <1>1
<1> QED
  BY <1>2, SessionInvariant, PTL DEF Spec, ExpiresOnlyStalled
=============================================================================
