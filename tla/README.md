# A verification development of proxy-center

proxy-center is a proxy for home gateways: SOCKS5 and HTTP listeners with
per-account login, expiry dates, traffic quotas and connection limits, a policy
enforcer that cuts the sessions of accounts that are refused, an admin console,
and a choice of egress (direct, one upstream proxy, or a weighted pool).

This directory holds TLA+ modules that model the program's control, TLC
configurations that check them on small instances, and theorems about them with
proofs for every value of the constants. Paths below are relative to `src/`.

## 1. Inventory

| Component | Source | State it keeps | Operations | Modelled in |
|---|---|---|---|---|
| session manager | `internal/session/manager.go` | `nextID`, `active`, `entries`, `byUser` under one mutex | Acquire, SetCloser, Release, KickUser, ActiveUsernames, Snapshot | `SessionManager`, `ConnSlots` |
| policy enforcer | `internal/policy/enforcer.go` | the round it is in; log times | Start, runOnce | `ProxyCenter` |
| authentication, authorization | `internal/auth/service.go` | none | AuthenticateAndAuthorize, Authorize | `ProxyCenter` |
| HTTP proxy | `internal/proxy/http_proxy.go` | per request: row, slot, sockets, session row | ServeHTTP, handleConnect, handlePlainHTTP, Start | `ProxyCenter`, `Tunnel`, `Process` |
| SOCKS5 proxy | `internal/proxy/socks5_proxy.go` | per connection: row, slot, sockets, session row | handleConn and its parsing, Start | `ProxyCenter`, `Tunnel`, `Process` |
| relay | `internal/proxy/relay.go` | two directions, byte counts | relayBidirectional, copyMetered | `Tunnel`; metering in `ProxyCenter` |
| usage counters | `internal/store/store.go`, `internal/traffic/recorder.go` | table `usage_counters` | RecordUsage, AddUsage, GetUsage, ResetUsageByUsername | `UsageCounters` |
| account store | `internal/store/store.go` | table `users` | GetUserByUsername, CreateUser, UpdateUserByUsername, DeleteUserByUsername, EnsureAdmin | `AdminConsole`, `AccountTable`; single statements in `ProxyCenter`, `UsageCounters` |
| session rows | `internal/store/store.go` | table `sessions` | InsertSessionStart, EndSession | `ProxyCenter` |
| admin console, CSV import | `internal/web/server.go` | none of its own | adminAuth, create, update, kick, reset, delete, import | `AdminConsole` (requests at once), `ProxyCenter` (what they do to sessions) |
| router and pool | `internal/upstream/router.go` | health flags, round-robin counter | parsePool, checkAll, pickNode, DialContext | `UpstreamPool`; the handshakes in `Tunnel` |
| configuration | `internal/config/config.go` | none after the start | Load | `UpstreamPool`, the egress settings |
| domain recorder | `internal/traffic/recorder.go` | a bounded channel, one goroutine | RecordDomain, loop, Close | `Process` |
| lifecycle | `cmd/proxyd/main.go` | which goroutines run | start, signal, shutdown | `Process`; restarts also in `UsageCounters`, `AdminConsole` |
| dashboard, scripts, images | `internal/web`, `scripts`, `deploy` | none that changes | | not modelled: no control worth a model |

**How they interact.** A connection is one goroutine. It loads the account row
(a copy, which it uses to its end), compares the usage counters with the quotas,
acquires a slot from the session manager, dials through the router, registers a
closer, relays while it meters each chunk through the store, and releases the
slot. The enforcer wakes every 2 s, asks the manager for the active usernames,
reads row and counters of each, and kicks the refused ones: the manager collects
their closers under its mutex and calls them after it. The admin handlers change
the tables and kick in the same way. All tables share one SQLite connection.

**What is hard.** Everything above happens concurrently, and the copies grow
old: the row a connection authenticated on, the closer a kick collected, the
list of users of a round, the counters a transaction loaded, the time a chunk
was given before it waited for the connection. Database calls fail, and each
caller treats that in its own way. The list of hazards, with the line of each
and the properties that watch it, is in `PROJECT.json`.

**What makes each component correct.**

* session manager: counts and maps agree; limits hold; ids are not reused; a
  kick stays with its user and returns.
* connection handlers: every path returns the slot once, and only when nothing
  of the session is open any more; a relaying tunnel can be kicked.
* enforcer: a user who stays refused ends up without tunnels.
* usage counters: exact, nested, never of another period; the connection comes back.
* account table and console: an update stays with its account; administrators
  are not deleted, and do not lock themselves out unawares; every request ends.
* router: a process that was accepted by Load and parsePool finds a route, and
  shares follow weights, as long as the weights fit an int; a node that is down
  is left alone and comes back.
* tunnel: each direction arrives whole and in order, its end independent of the
  other's; no error return and no handler leaves a socket or a deadline behind.
* lifecycle, recorder: servers run only inside the life of the store; a shutdown
  never hangs; what is enqueued reaches the domain log in order, and completely
  unless something was dropped.

## 2. The modules

### `SessionManager` and `ConnSlots`

`SessionManager` has the manager's four fields as variables. Every method holds
the mutex throughout, so it is one action; `KickUser` is the exception, and is
`KickCollect` (under the mutex), one `KickRun` per collected closer in any
order, and `KickReturn`. A refused Acquire changes nothing, so it is the absence
of a step. `issued` is a history variable: which user and limit each id was
granted for. `kicking` is the local state of the goroutines that run KickUser.

`ConnSlots` is the abstract specification: sets of slots, granted at most once
each, only below the limit the caller states, given back once. The property
`ImplementsSlots` is the refinement: `held` is mapped to the live entries of the
user, `term` to the limit in `issued`. It is not trivial because the manager
never looks at a set: it compares the integer `active`.

### `ProxyCenter`

The composition. It instantiates `SessionManager` (as `SM`), so that every step
of a handler on the manager is the manager's own action. Its parts:

| Actions | Code |
|---|---|
| `Authenticate`, `RejectLogin`, `Authorize`, `HandshakeFails` | login and request of both proxies, with `Authorize` split where it reads the usage |
| `AcquireSlot`, `RefuseSlot` | Acquire and InsertSessionStart |
| `Dial`, `RegisterCloser`, `WriteReply` | `DialContext`; SetCloser comes before the reply in SOCKS5 and after it in CONNECT, as in the code; plain HTTP has neither |
| `Chunk`, `EndHalf`, `BodyDone` | relay and metering |
| `Finish`, `ReleaseSlot` | EndSession and the deferred calls, in their order |
| `RunCloser` | the closers a kick calls: the sockets of the connection they belong to |
| `EnfTick` ... `EnfRoundEnd` | `Start` and `runOnce`, a step per database read and per closer |
| `AdmCreate` ... `AdmDeleteRow` | the handlers of the console |

Database calls fail at any time, within a budget, and each caller reacts as the
code does: Authorize refuses, the enforcer skips or kicks, session rows are
missing or stay open. The three counters and quotas of an account are one here.

### `UsageCounters`

The table `usage_counters` with all three counters and both keys. A chunk takes
its time (`Record`), waits for the connection (`Begin`: BeginTx, the INSERT and
the SELECT; `BeginFails` on the foreign key), and is written and committed
(`Commit`), or is given up at any point (`GiveUp`). Admin statements, midnights
and restarts come in between. `Effective` is what `GetUsage` returns. The
history variable `credit` has what was committed, per day, per month and in all.

### `AdminConsole` and `AccountTable`

Several requests at once, a step per statement, because the one connection goes
back to the pool between two statements. `Accept` is `adminAuth`; `Patch`,
`Delete`, `Create` and `Import` add the checks a handler makes without the
database, `SelfHarm` being what an administrator may not do to himself.
`UpRead`, `UpWrite` and `UpReread` are `UpdateUserByUsername`; `InsertRow` is
`CreateUser`; `DelRead` and `DelRow` are `handleDeleteUser`; `ImportLine` looks a
CSV line up and goes on as an update or a creation, which `Return` brings back
to the next line. `Restart` ends all requests and runs `EnsureAdmin`. `past` has
every row there ever was, `imported` whether a CSV was accepted.

`AccountTable` is what the table promises: a name gets a new row under a new id,
loses it, or has it rewritten *from one earlier version of the same account*
with the fields of one payload replaced. That is exactly as weak as the code: an
update may bring old values back, but never mixes two accounts and never writes
to one that was deleted and created again. `ImplementsTable` is the refinement.

### `UpstreamPool`

`Boot` is `config.Load` and `NewRouter` (`LoadFails`, `ParseFails`, `ParsePool`).
The mode is looked at in three places that do not compare alike: Load stores it
in lower case (`LoadedMode`) and checks that, NewRouter folds the case of what
was stored (`EqualFold`), and DialContext compares `mode` exactly (`DialStarts`).
parsePool asks of a host only that it is there, so some hosts cannot be dialled
at all (`Portless`), and of a weight that it is a positive int. Weights are added
as ints of `MaxInt` (`Total` is the number, `Sum` the int that the additions
leave): where they overflow, pickNode refuses (`PickFails`) or picks by a sum
that means nothing.
One goroutine probes node after node (`CheckStarts`, `ProbeNode`, `StoreHealth`:
the flag is stored some time after the answer), and each handler reads the flags
one by one (`LoadFlag`), takes the next value of the shared counter and picks
(`Pick`, with `Candidates` and `NodeAt`), and connects once (`Connect`). `turn`
is a history variable: the picks since the candidates last changed. An item of
the pool has the parts parsePool looks at; its text is not modelled.

### `Tunnel`

One tunnel and its peers. The client enters by SOCKS5 or CONNECT, the proxy
connects directly or through an upstream with its exchanges and deadline, and
two goroutines copy. A direction is a record: chunks waiting (`in`), in
copyMetered's buffer (`buf`), written and unread (`out`), read (`got`). `Admit`
and `Established` drop what a `bufio.Reader` had read ahead (`Hijack` in
handleConnect, `ReadResponse` in dialViaHTTPUpstream); `StreamsIntact` allows
for exactly that loss. The upstream dials own the remote socket until they return
it: each of their error returns has to close it first (`UpstreamRefuses`,
`UpstreamLost`, `HandshakeTimeout`, `CannotAsk`), because the handler that gets
the error (`Refuse`) has only deferred the Close of the client's. `End` is any
return of a handler and closes what is in `Deferred` and nothing else. `Stop` is
the end of a copy loop with its CloseWrite, `Kick` a closer.

### `Process`

`main()` step by step: start (`BootStep`, `BootFails` with log.Fatalf, which runs
no deferred call), three servers (`Listens`, `Fails`, `Closes`, `Reports` into
`errCh`), the select (`Wakes`), `Waits`, and the deferred calls (`Unwind`).
Signals act on the context or end the process, according to when they come; the
process may be killed at any point (`Die`) and is launched again on the same
database. Handlers live on after their server has returned. They record domains
into the bounded queue, and the recorder's loop takes, writes or loses them.
`log` is what LogDomain has written; rows stay in it for ever. In the program
they go with their account (`internal/store/schema.go:32` cascades), and with
nothing else: a retention of 30 days with an automatic clean-up is documented
(`README.md:32`, `DELIVERY_LOG.md:74`, `deploy/ISTOREIOS_DEPLOYMENT.md:286`), but
no code deletes a row of `domain_logs` for its age. So `DomainLogInOrder` calls
the log complete from the enqueue to the INSERT, not for how long it is kept.

### MC modules

`MCSessionManager`, `MCProxyCenter`, `MCUsageCounters`, `MCAdminConsole` and
`MCUpstreamPool` (`MCTunnel` and `MCProcess` need none) define the values of
the constants that a `.cfg` cannot write. Definitions marked `Mutant:` in the
modules are plausible bugs, used by nothing in the specification: each property
is known to fail when one of them replaces the definition it follows.

## 3. The runs

| Run | Instance | What it shows |
|---|---|---|
| `session_manager` | 2 users, limits -1 and 2, 2 closers and nil, 1 kicker, 3 ids | maps agree; `WithinGrantedLimit`; kicks stay with their user and end; ids are not reused; refinement of `ConnSlots` |
| `core_safety` | 1 user, 2 connections of all three protocols, 2 profiles, 1 admin request; about 800,000 states | `SlotsMatchHandlers`, `RelayedTunnelKickable`, `ResourcesHeldUnderSlot` |
| `core_liveness` | 1 user, 1 connection of any protocol, metered, dated and disabled profiles, 1 tick, 1 admin request, 1 failing database call | `PolicyCutsTunnels`, `KickEndsTunnel`, and the slot invariants when calls fail |
| `usage` | 2 writers, 3 days in 2 months, 2 accounts, chunks of 1 | `CountersNested`, `TotalExact`, `NeverOverCharged`, `TxOwnsRow`, `ConnectionReturned` |
| `policy_every_session` | 1 connection of any protocol | violated: plain HTTP is never kicked |
| `settled_limit` | 2 CONNECT connections, 1 admin request | violated: a lowered limit misses sessions without closer |
| `admin_console` | 2 requests at once, 3 in all, 2 names, 6 payloads, 2 CSV files, 1 restart; about 310,000 states | `SoleAdminStays`, `FoundingAdminsStay`, `BootRestoresAdmin`, refinement of `AccountTable`, `RequestsEnd` |
| `upstream_pool` | 13 environments with pools of 2 nodes that flip: weights 2 and 1, one without a port, 3 and 1 with `MaxInt` 3; 2 handlers, a counter modulo 5; about 580,000 states | `RouteAlwaysFound`, `SharesFollowWeights`, `FailoverSettles`, `EveryNodeServes` |
| `tunnel` | both protocols over 3 ways out, 2 chunks each way, a window of 1; about 280,000 states | `StreamsIntact`, `SocketsInOrder`, `HandlerEnds` |
| `process` | 2 processes, 3 servers, 2 handlers, 3 events, a queue of 2; about 270,000 states | `ServersRunInsideStore`, `ShutdownCompletes`, `DomainLogInOrder` |
| `lost_update` | as `admin_console`, 2 requests, no restart | violated: a CSV line undoes a PATCH in the fields it leaves blank |
| `day_quota` | as `usage` | violated: an older chunk that commits later forgets today's bytes |

**Why these bounds are enough to be interesting.** Limit -1 takes the branch
that replaces it by 1, limit 2 lets a user have two sessions, and three ids let
one be released and another acquired. Two connections are what it takes for a
count to be wrong in either direction, and two concurrent kickers (enforcer and
admin) are in every core run. One admin request is one PATCH, DELETE, POST, kick
or reset at any moment of a session. A failing database call matters to one
handler at a time, so it is in the runs with one connection. Three days in months of two days have a
midnight with and one without a change of month. Every bound is a named
constant: `MaxID`, `MaxTime`, `MaxUsage`, `MaxUid`, `MaxDbErrors`,
`MaxAdminOps`, `MaxDay`, `MaxBytes`, `MaxOps`, `MaxRestarts`, `CounterRange`,
`MaxInt`, `MaxChunks`, `Window`, `MaxEvents`, `MaxBoots`. Two requests interleave in every
way a table row allows, and a third can delete and create the account again
under a slow update. Weights 2 and 1 with a counter modulo 5 make the counter
wrap in the middle of a turn; weights 3 and 1 overflow a `MaxInt` of 3 when both
nodes are candidates, and fit when one is. Two chunks and a window of one let a direction
block on a peer that does not read while another chunk waits behind. Three
servers are what `errCh` has room for, and three events are one more than the
queue holds. `core_safety` uses the symmetry of the
connections; it checks invariants only, for which that is sound.

**The disagreements with the documentation.** The README promises that users who
are expired, disabled or over quota are kicked, that connections are limited
per account, that quotas count per day, and that a CSV line leaves blank fields
alone. The four runs that end in a violation show a plain HTTP exchange that no kick can end (its closer is nil
for ever), two tunnels that go on under a limit of one (one had no closer yet
when the PATCH kicked), a day counter that is set back to yesterday, and
a CSV line that gives an account the role back from which a PATCH had just moved
it, though its own role cell is blank.

**What the properties do not promise.** `SoleAdminStays` needs that the
administrator has not let his own account expire: handleUpdateUser forbids him
to disable or demote himself, and lets him set an `expires_at` that has passed.
`BootRestoresAdmin` has the same exception, because `EnsureAdmin` looks at role
and switch only; nor does it change a password, so a changed
`PROXY_ADMIN_PASS` has no effect on an account that exists. A CSV import may
disable whom it likes, the importer included. The health check is a TCP dial:
an upstream that accepts connections and refuses every handshake stays a
candidate, and `FailoverSettles` speaks of connecting only. No weight is too
large for parsePool, and two huge ones overflow the sum of pickNode, which then
refuses every connection: `RouteAlwaysFound` and the other properties of the pick
say nothing of such a pool. A relay has no idle timeout, so a silent peer keeps
its slot until a kick; `HandlerEnds` promises only that a kick ends it. An
administrator can be deleted by a DELETE whose test of the role came before his
promotion; `FoundingAdminsStay` is about those who were administrators all along.
At a shutdown the
rows of sessions that still run stay open: nothing waits for their handlers, and
no start of the process closes them.

**Fairness.** `SessionManager`: a goroutine inside KickUser runs on, because
closing a socket does not block. `ProxyCenter`: each handler, the enforcer and
the admin handler run on when they can, which is what the Go scheduler gives;
dials and handshakes have deadlines in the code, so they end. A relay direction
is only sure to end when both sockets were closed on this side, since with one
of them open its goroutine may be blocked there. Nothing is assumed of clients,
servers and administrators: they need not send, read, close or ask. Plain HTTP
exchanges, which wait for the server without limit, have no fairness.
`UsageCounters`: a transaction runs on and a call ends after its 5 s.
`AdminConsole`: the goroutine of a request runs on. `UpstreamPool`: the process
starts, the ticker ticks, and a dial ends; when nodes flip is free, and the
liveness properties say "once they stop". `Tunnel`: the two copy goroutines and
the handler run on and deadlines expire; peers may stay silent for ever, and a
client need not send its request. `Process`: main, the servers' goroutines and
the recorder run on; signals, failures and launches are free.

## 4. The proofs

Each component has a module of proofs beside it: `SessionManagerProofs`,
`ProxyCenterProofs`, `UsageCountersProofs`, `AdminConsoleProofs`,
`UpstreamPoolProofs`, `TunnelProofs`, `ProcessProofs`. The theorems hold for all
values of the constants that satisfy the named assumptions of the components
(`SessionAssumption`, `CoreAssumption`, `UsageAssumption`, `ConsoleAssumption`,
`PoolAssumption`, `TunnelAssumption`, `ProcessAssumption`): any users, handlers,
payloads, pools, sizes and bounds. What they assume is that users, addresses and
connections are finitely many where they are counted, that the values which
stand for "none" are not among the others, and the types of requests, profiles
and settings as the parsers deliver them.

All are laid out alike. `IndInv` is the inductive invariant; TLC was run on it
before it was proved. `InitEstablishesInv`, `NextPreservesInv` and
`InvariantHolds` are its three steps, with a lemma per action or group of
actions, and every invariant a run checks follows: each theorem's comment
says what it means for the program. No safety property of a passing run is left
without a theorem.

* **Session manager.** `IndInv` is the type invariant, `MapsAgree`,
  `WithinGrantedLimit`, `KickTargetsItsUser`, and `HistoryAgrees`: the ids up to
  `nextID` are the issued ones and entries name the users they were issued to.
  That last part is what makes the rest inductive: Acquire writes to an id that
  no set contains, so the count grows by exactly one, and the new session is the
  youngest, so its rank among its user's sessions is the count Acquire tested.
  Release takes an id away from a finite set and can only lower ranks. From it
  follow the invariants, `TokensAreFresh`, and the refinement
  `ManagerImplementsSlots`, in which the guard on `active` becomes the guard on
  the cardinality of the abstract set.
* **The whole program.** `ProxyCenterProofs` instantiates the proofs of the
  manager. Every step of the program is a step of the manager or leaves it alone
  (`StepOfManager`), so the manager's invariant is kept for the reason it is kept
  there, `ProgramDrivesManager` is `Spec => SMP!Spec`, and all that was proved of
  the manager alone holds here (`ConnectionsWithinLimit`). What is new says who
  owns an entry. `HandlersOwn`: a handler between Acquire and Release has an
  entry in its own user's name, with the closer of both sockets once it relays,
  and a handler outside has no socket and no session row open. `OneOwnerEach`:
  no two handlers have the same entry, and no entry is without a handler. That
  makes the entries of a user and his handlers two sets with a bijection between
  them, which is `SlotsMatchHandlers`. It is the invariant that a kick does not
  disturb: it closes sockets, and only a handler's own Release removes an entry.
* **Usage counters.** `IndInv` joins the type invariant, `TxOwnsRow` (an open
  transaction has the connection, its account exists, and what it loaded is
  still the row), `NotLiveNoRow`, `CountersNested`, `TotalExact` and
  `RowsCovered` (a row's day and month counters are at most the credit of the
  row's own day and month). `TxOwnsRow` is where the single connection is used:
  any statement that changes a row needs the connection, hence finds no open
  transaction. `NeverOverCharged` follows from `RowsCovered` because `GetUsage`
  zeroes what has another key.
* **Admin console.** `HandlerKnows` says what a request may still believe of a
  row it read before other requests ran: it is a version that was in the table,
  and if the name has a row of another id by now, that id is younger than all
  the rows the process found. With `PastKnown` (ids are given out in order, each
  to one name) this is what keeps a `DELETE` by name from taking a founder, and
  an update from mixing accounts: `FoundersSurvive`, and the refinement
  `ConsoleImplementsTable`. `AdminKept` is about the configured administrator.
  As long as nobody else ever was one, every request in progress is `Harmless`:
  it was sent by him, hence neither disables, demotes nor deletes his row. From
  it follows `SoleAdminSurvives`.
* **Upstream pool.** `Total` adds weights by recursion over a set. `SumIsPlaces`
  shows that such a sum is the size of a set of places, as many for an index as
  it weighs: the number of places solves the recursion, and a smallest set where
  another solution differed cannot exist. Sums then inherit what is known of
  cardinalities (`SumWithout`, `SumPlusOne`, `SumTight`). `OwnerOwns` says that
  the loop of pickNode stops at the node whose own places contain `pos`;
  `ShareOfTurn`, that counter values less than a turn apart have different
  remainders, so a node cannot be picked more often than it has places. The
  invariant's part about the history is `Counts`: the picks of a turn are those
  of the last values of the counter. `PickWords` is the step from numbers to
  ints: the picked node is a candidate whenever the sum is positive, and where
  the candidates fit an int so does every running sum (`SumOfPart`), so the int
  computation is the one of `OwnerOwns`. That is also why `RoutesAlwaysFound`
  needs only the weights of the whole pool to fit. `ItemsType` treats the loop of parsePool in
  the same way. `FullTurnsAreExact` goes beyond the run: at the end of a turn
  each candidate has had exactly its weight.
* **Tunnel.** In `Streams`, the chunks of a direction (read, written, in the
  buffer, waiting) are one run of consecutive numbers that ends with the last
  chunk sent, but for a part `lost` at its start that a dropped reader may have
  taken and, once copying was cut off, a part at its end. `Deadlines` and
  `Sockets` tie what is armed and open to the place of the handler: there is no
  remote socket before the dial, nor after a dial that returned an error, which
  is what lets the deferred calls be enough. The results
  are `StreamsStayIntact` and `SocketsOrdered` for any number of chunks and any
  window, and `HandshakesAreTimed`: no exchange with an upstream runs without a
  deadline.
* **Process.** `Phases` says what is open at each place of main, `Serving` which
  servers may run there, `ErrorsCounted` that `errCh` holds at most one
  error for each server that has returned. `EventsKept` says that log, hand and queue are increasing when
  put together, which a crash and a restart keep since they only take pieces
  out. `ReportsNeverBlock` follows from the counting: a server that fails finds
  room in `errCh`, so `wg.Wait` does not wait for a blocked send.

**Only model-checked.** Liveness under fairness is out of the prover's reach:
`KickTerminates`, `PolicyCutsTunnels`, `KickEndsTunnel`, `ConnectionReturned`,
`RequestsEnd`, `FailoverSettles`, `EveryNodeServes`, `HandlerEnds`,
`ShutdownCompletes`. So are the four properties that the code violates.

## 5. What is not modelled

The bytes of the protocols (a handshake is good or bad, a CSV line parses or
not), passwords, HTTP headers, JSON, HTML and logging; the arithmetic of
megabytes; the read-only listings; files, scripts and images. SQLite and its
driver are taken at their word: statements are atomic, the foreign keys are on,
ids are not reused. (`PRAGMA foreign_keys` is set once, on the connection open at
the start; should database/sql ever replace that connection, cascades and the
refusal of bytes for a deleted account would be off.) The exchange of a plain HTTP request with its server is one
step in `ProxyCenter`: what is metered when it fails halfway is read, not
checked. The documentation shows pools separated by `;` and spaces
(`QUICK_REFERENCE.md`, `deploy/ISTOREIOS_DEPLOYMENT.md`) where parsePool splits
at commas; that is text, which the model leaves out. Each module abstracts what
another one follows: `Tunnel` has no accounts and slots, `Process` no tunnels,
`AdminConsole` no sessions.

## 6. Plan

Done: the modules in the order of section 2, and the proofs of all their
invariants, action properties and refinements. Next:

1. The quota arithmetic of `overLimit` on integers of a bounded width
   (`limitMB * 1024 * 1024` wraps for large quotas).
2. A finer body of plain HTTP in `ProxyCenter`: what is metered and written to
   the session row when the exchange fails halfway.
3. Safety that liveness rests on, proved: a round of the enforcer that is not
   over has a user left to look at, and none is dropped from its list unseen.
