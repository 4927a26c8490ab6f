# A verification of go-dispatch-proxy-enhanced in TLA+

The program is a SOCKS5 / tunnel / transparent proxy that spreads client
connections over several outgoing balancers. This directory holds
TLA+ models of its concurrent core, TLC configurations that check them on small
instances, and proofs checked by TLAPS that hold for every size.

Line numbers refer to `src/`. Go slices are 0-based and so are the indices in
the models; only the access to a sequence adds one (`At(i)`).

## 1. The system

| part | state | operations | talks to |
|---|---|---|---|
| balancer table (`main.go` 92-129, 262-370, 1059-1140; `web_server.go` 1627-1788) | `lb_list`, `lb_index`, `source_lb_indices`, under `mutex` | selection for a source; add/remove source rule, enable/disable, add/remove balancer | all modes select; the web API manages; the database stores |
| tunnel mode (659-702) | the handler's balancer, `_bitset`, `complete` | first selection, dial, mark, retry, give up | balancer table, tracking |
| admission (707-769) | `connection_semaphore`, `active_goroutines` | try to take a slot, handshake, deferred release | SOCKS, tunnel |
| tracking (384-553) | `active_connections`, `connection_history` under `connection_mutex` | add, account, remove, periodic cleanup, list | relay, dashboard, ticker |
| relay (559-654) | two copy loops per connection, a close-once, the read deadlines of both ends | copy, account, close both ends once | tracking, the peers |
| traffic (440-467, 1673-1784; `web_server.go` 150-235) | global, per-balancer and per-client counters, sampling windows | account, sample | relay, dashboard |
| gateway mode (1187-1376, 1585-1668; `web_server.go` 1132-1313, 1429-1563) | `gateway_cfg` (no mutex), the kernel's iptables rules, the backup file | initialize, clean up, back up, configure, restore; toggle, settings, restart | iptables, file system, database |
| transparent proxy (1356-1418) | none of its own | accept, look up the original destination, select, relay | balancer table, tracking |
| SOCKS handshake (`socks.go`) | one conversation and its deadlines | greeting, method, request, answer | admission, then dial and relay |
| persistence (`database.go`, 186-247; `web_server.go` 1402-1563) | SQLite tables, `currentSettings` (no mutex), the rules file | load at start-up, save on change, periodic sync | everything that is configured |
| web sessions (`web_server.go` 316-480) | `sessions` under `sessionMutex` | login, renewal, expiry, logout | every request |
| DNS server (1423-1580) | none | forward a query | gateway clients |

**What is hard.** All modes and the operator interleave on one table, with
turns kept as indices into a slice that changes. Handlers hold an index and a pointer
across dials. Three mutexes are nested (`connection_mutex`, then
`mutex` or `client_traffic_mutex`), and the dashboard takes the last under the second.
Slots of the semaphore are released by deferred calls whose time depends on the
mode. A session has two clocks, its read deadlines and `LastActivity`, and a third one, the
handshake's, which not every mode stops. The gateway's configuration and the settings have no
lock at all; the gateway shares the kernel's rules with an administrator, across restarts, and the
list of balancers must agree with its table through failing calls and crashes. `PROJECT.json` lists these
hazards at their lines, with the properties that cover them.

**What makes each part correct.** Table: no access out of range, quotas
neither lost nor exceeded, nobody starves. Tunnel: turn away only when nothing is
left, and decide at some time. Tracking: limits, archive once, ledgers that
agree, no circular wait. Session: a bounded handshake, an honest answer, and two loops
that end together. Management: what took effect is still there after a crash, list and table agree,
a logout holds. Gateway: leave the host as it was.

## 2. The modules

| module | models | check | proof |
|---|---|---|---|
| `LoadBalancer` | the table: selection (`Select`, `SelectFallback`, `SelectPanic`) and management | `LoadBalancer.cfg`, `RemoveBalancer.cfg` | `LoadBalancerProofs` |
| `FairDispatch` | abstract: what each source is promised | (refined) | |
| `DispatchFairness` | `LoadBalancer` with a history variable; refines `FairDispatch` | `DispatchFairness.cfg` | `DispatchFairnessProofs` |
| `TunnelFailover` | extends `LoadBalancer` by the handlers of tunnel mode | `TunnelFailover.cfg` | `TunnelFailoverProofs` |
| `ConnectionTracker` | admission, sessions, table, history, counters, mutexes, dashboard | `ConnectionTracker.cfg`, `TunnelSessions.cfg`, `TableFull.cfg` | `ConnectionTrackerProofs` |
| `ProxySession` | one session from its acceptance to its end, with clocks: handshake, dial, relay | `ProxySession.cfg`, `HandshakeDeadline.cfg` | `ProxySessionProofs` |
| `DurableBalancers` | abstract: what the operator of the balancers is promised | (refined) | |
| `Management` | the operator's requests and the database: web sessions, balancers, settings, crashes; refines `DurableBalancers` | `Management.cfg` | `ManagementProofs` |
| `Gateway` | gateway mode with the host around it | `Gateway.cfg`, `GatewayBackup.cfg` | `GatewayProofs` |

The modules meet where the code's parts do: `TunnelFailover` and `DispatchFairness` extend the table;
`ConnectionTracker` has many sessions and takes the choice of a balancer as a step under `mutex`;
`ProxySession` opens up what is one step there (`Handshake`, `Dial`, `Peers`, `Close`) for a single
session; `Management` is what happens to the table's balancers between the operator and the disk.

`MC*.tla` give the constants their values and the symmetry sets. In each component
module some operators differ from the next one by a plausible bug
(`GlobalQuotaUsedLate` beside `GlobalQuotaUsed`, and so on): nothing uses them;
put in the place of the original, each makes a property fail, as `PROJECT.json`
lists under `mutants`.

### LoadBalancer

Every operation runs under `mutex` from its first access to its last, so that each
is one action. `Select(s, tried, from, pick)` is a whole call of
`get_enhanced_load_balancer`: `from` is where the loop over the bitset (308-320) stops,
`pick` where the loop over disabled balancers (325-336) does. Both loops are
stated as "the first member of a set that a scan from here meets" (`First`).
`Charged` is 348-366, with both quotas; `TurnAfter` says which of the moves of
the turn are stored. `SelectFallback` is the return at 334, which counts nothing.
`SelectPanic` is an access out of range; SOCKS handlers recover from it, the others do
not (`main.go` 749-755). `RemoveLB` leaves turns alone, as the code does, and
occurs only for addresses in `Removable`, so that the models that build on the table
can do without it. `total_connections` is kept modulo `CountModulus`, a multiple of
every ratio, which is all `GlobalQuotaPhase` looks at.

### FairDispatch and DispatchFairness

The promise: while a balancer is enabled, no other balancer gets more than
`Quota` connections of a source before the first one has its turn, where `Quota` is the
largest ratio anybody configured. A turn is a connection, or being stepped over
because the present connection has already failed on it. The history variable `overtaken` counts,
for each source, how often each balancer was picked while each other one waited; it
restrains nothing.

### TunnelFailover

One handler per connection: first selection, the separate read of
`len(lb_list)` (663), dial, failure with its bookkeeping (669-684), retry. Other handlers and
the operator act between any two of these steps. `Alive` is the set of balancers
that answer. `arrived` and `failed` are history variables. Balancers are added
but not removed here: a removal shifts the array below a handler's pointer.

### ConnectionTracker

`handler[c]` is the goroutine of `handle_connection`, `session[c]` the work on the
connection, which for SOCKS is another goroutine and for a transparent
connection has no handler at all. A critical section that takes no other mutex
is one step; one that does (`add_active_connection` with the cleanup it calls,
`update_connection_traffic`) owns `connection_mutex` over several steps, and a step that
locks an owned mutex is not enabled. `"locking again"` is the state of a goroutine
that waits for a mutex it owns. `bytes` are the three ledgers a write is entered in:
global (451-453), balancer (455-462), client (465). The relay is
abstracted to writes, and to one loop closing the connection.
A connection holds the index its balancer had when it was selected (`lb_index`). `AddLB` and
`RemoveLB` change the length of `lb_list` meanwhile: line 455 compares the index with that length before `mutex` is
locked, so that a write may pass the balancer's ledger over (`Account`), or find the index out of range once the mutex is
owned (`Panic`), which ends the process, as no copy loop recovers. `stranded` is a history variable: a removal has
left an open connection with an index past the end.

### ProxySession

`stage` is where the goroutine that serves the connection is: each message of the handshake, the
dial, the tracking, the relay. `message` is how much of the next message has arrived: a
read takes what is there, and a part of a message is refused, as the code compares lengths and
does not read on. `loop[d]` is `monitored_copy` in one direction and its
deferred `closeOnce.Do`; every system call and every access to shared state is a step, so
that the loops interleave with each other, with the peers and with the cleanup. A
deadline is the number of ticks left (`Never` if none). `Tick` is enabled only when
all goroutines of the session are in system calls, as what they do in between takes no
seconds; the dial is one of those calls. Deadlines are per end and per direction of use, as `net.Conn` has them: an
expired one makes reads (or writes) fail at once. `elapsed` and `uncounted` are history variables; the latter
counts chunks written and not entered in the entry of the table. Bytes are chunks;
a short write fails.

### Management

`rows` and `table` are what a crash leaves, all else is lost. `request[r]` is a goroutine of the
HTTP server: where it is, the session of its cookie, what it asks for, and the copy of the
settings it is about to save. A step is what one critical section or one call of the database
does: `LockToAdd`, `InsertRow` or `InsertFails`, `AppendLB` are `handleAPIAddLB` (1667-1715) with `mutex` held from the
first to the last; `LookUp`, `Renew` and `Forget` are separate, as `sessionMutex` is released between them.
The settings are two parts, one per table (`main` for `settings`, `gateway` for `gateway_config`), each with a
value that may be the default, or the port the flag asks for. `Start` is `main` up to the server:
tables and defaults, the flag (or none, as after `handleAPIRestart`, which executes the program without arguments), the
settings, and the balancers, whose loading may fail or stop early. The name of the rules file is apart from the other settings
(`file_row` in the table, `config_file` in memory): no request asks about it, but each save replaces it in the table by
"deprecated" (1521). `main` stands for all other fields of its table; of these `debug_mode` is in truth set before the
gateway's. The
process has no handler of signals, so however it ends is `Crash`. A session that has grown old is told
apart by `"old"`; 24 hours pass only while no request uses it. `stored`, `gone`, `left`, `alone` and `synced` are
history variables: what took effect, which sessions are logged out, and which settings request had the settings to itself.
Enabling, disabling and source rules change no row, which is why `Toggle` changes nothing here.

`DurableBalancers` is the promise behind the table `load_balancers`: a set that only requests change, each at
most once between its arrival and its answer, by what it asked for, and that a crash leaves alone. A step of
`InsertRow` or `DeleteRow` is the request's effect; locking, listing and the synchronization
stutter. The list in memory does not occur in the promise: `ListedIsStored` ties it to the table.

### Gateway

`rules` is what the kernel holds: the version of the administrator's rules, and how many
copies of the program's own. `file` is `iptables_backup.rules`, `saved` what the database holds, and
`pc` the position of each request (and of `main`) in initialization or cleanup; as
`gateway_cfg` has no mutex, these interleave freely. `Refuse` is the initialization that returns an error
(no root privileges, no interface, 1191-1200), which a toggle reports and `main` ignores (963-967); `StartServers` may find
that it cannot listen (1358-1362). `BackupFails` and
`FlushChains` are the failures the code logs and ignores. The rules the program puts into
its own chain are not told apart from those it puts into the built-in ones,
which is where those remain that only a restore removes.
`excuse` records what is known to spoil the host's rules (a failed command,
overlapping toggles, the settings page, a restart with rules installed), so that the
invariants state what holds without it. `unserved` records, for the present process, that the gateway was left enabled
without servers by one of the three paths of the code that do so.

## 3. What the runs show

Passing runs:

* **load_balancer**: two addresses, both removable, two sources, ratios asked for as 0 (which becomes 1)
  and 2, rules of ratio 0 (which the code accepts). `TypeOK`, `DistinctAddresses`, and `GlobalQuotaPhase`: the
  position in the global quota is what the lifetime counter says, whatever is toggled,
  retried or removed in between. Deadlock is off because an empty
  table whose process has crashed really is at an end.
* **dispatch_fairness**: three addresses, of which the operator may add one, balancers of ratio 1 with and
  without a rule that makes it 2, one source (the promise is one to each source, and the proof is for any
  number). The refinement `FairlyDispatched`, its inductive
  invariant `FairInv`, and `TurnsInRange`.
* **tunnel_failover**: two clients of one source, two balancers that are dead, a third that answers and
  that the operator may add, at any time or never; toggles. `GivesUpHonestly`: a client is turned away only when everything listed at its
  arrival has been dialled for it, though other clients move the shared turn and the table
  grows. `EventuallySettled`: with fair handlers every client is served or turned away, if in the
  end an enabled balancer answers or all are enabled. Without that
  hope it is not so, see section 6. `RetriesDifferent`: as long as no untried balancer is disabled, a
  retry is given one that has not failed for this client, wherever other clients have left the turn.
* **connection_tracker**: three connections of every mix of modes, limits of two
  slots and two entries, two balancers of which one comes and goes. `ArchivedOnce`. `LedgersAgree`: whenever
  `connection_mutex` is free, as much is counted by client as in all, and by balancer never more, and the same as long as no
  removal left an open connection with an index past the end. `OnlyUnlimitedModesFill`: tunnels hold their slot until they
  have left the table, so that they alone never fill it. The dashboard can always act, so that TLC's own
  deadlock check says little here; the next run is about waiting.
* **tunnel_sessions**: two tunnels, with the same balancers and with fairness. `TunnelsComeAndGo`: sessions,
  cleanup and dashboard never wait in a circle; what may end them all is the panic of the accounting, after
  which the process is gone (`Over`).
* **gateway**: two requests at a time, up to two copies of the rules, one edit by the administrator.
  `CleanWhenDisabled`, `BackupUnspoiled`. `EnabledMeansServing`: when the gateway is enabled and no request is under way, its
  servers run, unless in this process `main` ignored a refusal, a server could not listen, or the settings page
  enabled the gateway. Toggles that are refused, fail half-way or overlap never bring it about.
* **proxy_session**: one session of each mode, two ticks for both limits, one chunk in flight for each
  direction. `HandshakeBounded`: no way of spreading the messages makes a handshake
  longer than its limit. `ConnectedMeansTold`: a SOCKS client that was connected has received exactly the choice
  and the success, however long the dial took. `ClearedDeadlineOnly`: outside of tunnel mode no relay
  is cut by the handshake's deadline. `AtMostOneUncounted`: the byte counters miss at most the chunk in
  flight when the other loop removed the entry. `ExpiresOnlyStalled`: the two clocks agree, in that the periodic cleanup takes
  an entry away only while both loops are in writes that their peers held up, or have not yet accounted for them; a
  silent source or a loop that is about to end is not enough. `BothLoopsEnd` and
  `SilenceEndsIt`: when one loop ends, so does the session, and silence in one direction is enough. Nothing deadlocks.
* **management**: two requests at a time of the kinds that share state (additions and
  removals; settings; the life of a session), two addresses, one session id, any call of the database failing,
  a crash and a restart between any two steps. `ListedIsStored`: whenever `mutex` is free the table holds exactly the listed balancers,
  unless loading failed. `BalancersDurable`: what was added survives, what was removed stays away, though the
  synchronization inserts what is listed. `KeepsBalancers`: the table implements `DurableBalancers`. `SettingsSaved`: a request that had the settings to itself leaves tables
  and memory equal, and so does a start, but for the name of the rules file, which the table may then have as "deprecated". `LogoutHolds`: a session logged out while no other
  request was renewing it never comes back. `EveryRequestAnswered`: no path of a handler keeps `mutex`.

Runs that show a disagreement between the code and what it or its documentation says:

* **remove_balancer** (`NoCrash`): select, remove the last balancer, select again: the source's turn
  is past the end of the slice and the access panics.
* **table_full** (`NoSelfDeadlock`): at 500 tracked connections the goroutine
  that adds the next one locks `connection_mutex` twice, and everything stops.
* **gateway_backup** (`OriginalPreserved`): restart while enabled, and the backup is overwritten
  by rules that contain the program's own.
* **handshake_deadline** (`HandshakeDeadlineOnly`): in tunnel mode nobody lifts the write deadline of
  the handshake, so that the relay fails when it writes to a client that connected 10 s ago.

**Bounds.** Every one is a constant: `CountModulus`, `MaxWrites`, `MaxBalancers`, `MaxRules`,
`MaxEdits`, `MaxPending`, `MaxUncounted`, `Mixes`, and the sizes of the sets. Two balancers suffice for every relation between a picked and a
waiting one, three for a disabled one between two tried ones; two sources tell their turns
apart; two clients of one source are what a shared turn needs; three
connections exceed two slots and a table of two, and two are what a circle of waiting tunnels needs; one balancer that stays and
one that is removed and comes back put a held index past the end and in range again. Two copies of the rules tell a clean, a spoiled and a
doubly configured host apart. Two ticks are the least that let a time-out be renewed half-way, which is what
tells a deadline that is renewed from one that is not; one chunk per direction makes every
loop block and go on. `Mixes` keeps requests apart that share neither a variable nor a mutex. Two values and two tables suffice
for a save that is overtaken, stale or lost.

**Fairness.** Tunnel handlers: weak fairness of each handler, as goroutines are scheduled, a dial ends by
the system's time-out, and Go's `sync.Mutex` hands itself over to a waiter after 1 ms.
Tracker: strong fairness of each session's own steps for the same reason (the mutex is free again and
again, not forever), weak fairness of the dashboard's release. Session: weak fairness of the handshake, the dial and each loop; strong fairness of `Tick`, as time
passes between the steps of busy loops. `Write` is not fair: it waits for the peer to take the data.
Requests: strong fairness of each, for the mutex again. Nothing is assumed of peers (data, hanging
up), of the ticker or of the operator.

## 4. What is proved

Every safety invariant and every action property of the passing runs is a theorem as well: what TLC checks on the
instances of section 3 holds for any number of balancers, sources, connections, clients and requests, and
any ratios, limits and time-outs that satisfy the named assumptions of the modules. Those assumptions say of the
constants what the code says (a ratio is positive, the semaphore is half of the limit of goroutines and no larger than
the table, a time-out is not zero) or keep names apart (`Nobody` is not a connection,
`NoFile` is not a version of the rules). Every proof has the same shape: an inductive invariant, which holds initially and which each
action keeps, one lemma per action or group of actions; and what it implies. Each of these
invariants was checked by TLC before it was proved.

**Table** (`LoadBalancerProofs`). `TypeCorrect` is inductive by itself, removals included. `TurnsAlwaysInRange`, `NeverCrashes`:
with a balancer configured and none removed, turns are in range and no selection panics; the run
`remove_balancer` shows that the second proviso is needed. `AddressesDistinct` and `QuotaInPhase` rest on `TableInv`, which states
both over positions instead of indices (`Phased`: the position in the quota is the lifetime counter modulo the
ratio). The modulo makes this more than a copy: a wrap of the counter at `CountModulus` keeps the phase only as this is
a multiple of every ratio, which is what `CountModulusAssumption` says of it.

**Fairness** (`DispatchFairnessProofs`). `FairInvariant`, `KeepsThePromise`: the selection implements `FairDispatch`, by initial
state and step simulation under `FairInv`. Its heart is `OvertakenByCounter`: between a source's turn and a waiting
balancer, the picks that overtook the waiting one are the ones the per-source
counters hold; behind the turn they are at most `Quota`. The lemmas about `Dist`
(`RingOrder`, `RingAfter`, `RingGrows`, `RingSucc`) are the arithmetic of the ring.

**Tunnel mode** (`TunnelFailoverProofs`, on top of the table's proofs). `HandlersInvariant`: at each place of
`handle_tunnel_connection`, what the bits say of what was dialled (`Progress`); the other handlers and the
operator only ever let the table grow, which disturbs none of it (`Undisturbed`). It gives
`HandlersTypes`, `TurnedAwayHonestly`, `RetriesAreNew` and `BitsetLoopEnds`: no handler asks with every bit set, on which the
loop at 308-320 would not end. `TunnelsUseTheTable` is a refinement: every step of `TunnelFailover` is a step that
`LoadBalancer` allows, or leaves the table alone. So what was proved of the table
carries over (`TunnelsKeepTheTable`).

**Tracker** (`ConnectionTrackerProofs`). `TrackerInv` has one part per idea: `OwnerInv` (who is inside the critical section
owns the mutex), `SlotInv` (the semaphore counts the handlers that have a slot, `active_goroutines` those between its increment
and its decrement, and a tunnel that has been admitted and has not ended has a slot), `ListedInv`, `BalancerInv` (until a removal
strands one, every held index is in `lb_list`), `LedgerInv` (how far the owner has got with the three ledgers) and `HistoryInv`.
`TrackerTypes` says that semaphore, table and history keep to their limits; `TunnelsNeverFill` counts with cardinalities; `LedgersAlwaysAgree` reads
`LedgerInv` where nobody owns the mutex: by `BalancerInv` the balancer's entry is passed over only after such a removal. `ArchivedOnce` is not inductive: what makes it so is
that an archived connection is past its addition (`HistoryInv`'s last part), so that it is never listed again. The cleanup
archives a set of entries in any order; `Appended` and `LastElements` say what trimming leaves of that.

**Session** (`ProxySessionProofs`). `SessionInvariant` combines the stages with what exists there (`StageInv`), the chunks that are
on their way through a loop (`LoopInv`), the deadlines, what the client was told, and the clocks. `HandshakeIsBounded`
follows from an equation, `elapsed` plus what is left of the deadline being the limit (`DeadlineInv`), which
is what a renewal inside the handshake would break. `DeadlineIsCleared` needs that no write deadline is left where
the dial begins; `ConnectedClientsAreTold` that a dialling client was told exactly its choice, and that no
deadline is left for its answers to fail on. `OneChunkUncounted` is `LoopOK` read at the stages after
the removal. `OnlyStalledExpire` relates the two clocks (`AgeInv`): while a loop waits in a read,
the age of the entry and what is left of the read's deadline add up to at most `idle_timeout`, as accounting makes the
entry young when the loop returns to its read, and from then on the one grows as the other shrinks. Proving it showed
that the property holds in the stronger form it has now.

**Gateway** (`GatewayProofs`). `GatewayInvariant` is `TypeOK` with `ServingInv`, `BackupInv` and `CleanInv`. The last one says, while
nothing has gone wrong (`excuse` is empty): one handler at a time is busy, each of its stages knows
whether the program's rules are installed (`HandlerInv`), and wherever they are there is a backup, and
someone who will restore it (`Restorable`). Then `DisabledIsClean` and `BackupIsOriginal`.
`ServingInv` is about every stage and every interleaving: while the process is up and the gateway enabled, its servers were
started, or one of the three paths that `unserved` records was taken; `EnabledServes` is that at rest.

**Management** (`ManagementProofs`), with at least one
address: `TypeCorrect`; `ListAgrees` and `EffectsStay` (`ListedIsStored`, `BalancersDurable`);
`KeepsTheBalancers`, the refinement of `DurableBalancers`; `LogoutsHold`; `SettingsKept`. None of these invariants is
inductive alone. `StageInv` says which kind of request is at which stage, and that nothing is served while the
process is down. `ListInv` says by how much list and table differ at each stage of the critical section
(`"append"`: the row is there, the list lacks it), so that every way out of it, and a crash in
between, leaves them in agreement. `LeftInv` adds that no request is about to renew a session that is logged
out, and `SettingsInv` how far a request that has the settings to itself has got
(`Progress`), which a request that joins it ends by emptying `alone`; `NameInv` is the part of `SettingsSaved` about the
name of the rules file.

Only model-checked: liveness (`EventuallySettled`, `TunnelsComeAndGo`, `BothLoopsEnd`, `SilenceEndsIt`,
`EveryRequestAnswered`), as it rests on fairness and so on `ENABLED`, which the prover does not handle. The properties of the
four runs that end in a violation are false of the code, so there is nothing to prove; the theorems say where the
line is: `NeverCrashes` for `NoCrash` (no removal), `TunnelsNeverFill` for `NoSelfDeadlock` (tunnels only),
`DeadlineIsCleared` for `HandshakeDeadlineOnly` (not in tunnel mode), `BackupIsOriginal` for `OriginalPreserved` (no
restart with rules installed).

## 5. Plan

1. done: table, fairness, tunnel mode, tracker, gateway; first proofs.
2. done: `ProxySession` and `Management`; what the plan called `Relay` and `SocksHandshake` is one module,
   as the same deadlines run through both, and so are persistence and web sessions, which the same requests use.
3. done: the proofs of `Management`, `ProxySession`, `Gateway`, tunnel mode, the rest of the table and of the tracker.
4. An abstract specification of the tracker (a bounded table whose entries come and go once), with the
   refinement; the table with removals: which turns stay in range after one; the fairness of the selection carried over to
   tunnel mode as the table's invariants were.

Not modelled: web pages and scripts; the sampling of traffic speeds, which
computes figures for the dashboard that nothing decides on; the DNS forwarder, whose goroutines share nothing; statistics
snapshots and the file of source rules, which are written and never read; variants for other
operating systems; the obsolete `web_server.go.backup`; text of rules and log lines, and system
calls of `gateway_linux.go`.

## 6. Observations made while modelling, without a run

* In tunnel mode the second loop of the selection (`main.go` 325-336) ignores the bitset: while all balancers not
  yet tried are disabled, a client retries failed ones for ever and keeps its slot. `EventuallySettled` and
  `RetriesDifferent` state what holds without that.
* A handshake message in two segments is refused (`socks.go` 19, 28, 54, ...), as the reads are not repeated. The
  failure answer after a time-out is never delivered, as the deadline that expired covers the write too.
* The end of one direction closes both (`main.go` 633): what the other one still had to deliver is lost, and
  five minutes of silence in one direction cut a transfer in the other.
* The read deadline is renewed before the write (573): after a write that blocked longer than
  `idle_timeout` the next read fails at once, whatever has arrived.
* A request that looked its session up before a logout stores it again after it
  (`web_server.go` 323-329): the session lives on. `LogoutHolds` states what holds otherwise.
* Overlapping settings requests may save a copy that neither asked for (1440-1540), and a save that fails is reported as
  "Settings updated successfully".
* The flag `-webgui` replaces a stored port that equals the default, also one the operator chose (`database.go` 266).
* A settings request saves "deprecated" as the name of the rules file (1521), which the next start takes (`main.go` 928);
  until then table and memory disagree about it. `SettingsSaved` names this exception.
* After a removal an open connection's index may designate another balancer, whose counters then get its bytes, or none:
  line 455 then skips them. The length is read there without `mutex`, so that a removal between 455 and 457 makes
  457 read past the end; the panic is not recovered and ends the process.
* At start-up, an initialization of the gateway that fails is logged only (`main.go` 963-967): `enabled` stays set, so that
  the dashboard shows a gateway that serves nobody, and enabling it by the toggle does nothing, as it is enabled
  (`web_server.go` 1152). A port that cannot be listened on (1358-1362) has the same effect.
* Enabling and disabling a balancer is not stored: a restart enables it again.
* Answers of the DNS server's upstream are awaited without a deadline (`main.go` 1499).
* `configure_iptables_rules` passes `2>/dev/null || true` as arguments to iptables (1307-1308), as
  no shell runs these commands: the chains are not created, and the redirection that jumps to them is
  refused.
* `README_Gateway.md:439` says that gateway mode goes on without rules when the
  backup fails; the rules are configured all the same (1208-1218).
* The toggle of the gateway is not saved, and the settings page saves without starting or stopping
  anything.
* `load_source_ip_rules` (186) is never called, so source rules do not survive a restart.
* `syncLoadBalancersToDatabase` (622) inserts rows that exist, which the unique address refuses.
* `handleAPIGatewayConfig` decodes into a struct without exported fields and so refuses every request.
* The check of `active_goroutines` (709) never rejects anybody: the semaphore keeps it at half the limit.
