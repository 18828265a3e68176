# Orange FRP: a TLA+ development

Orange FRP is a self-service wrapper around FRPS. Its server (Rust, two crates under
`src/server-package/crates`) keeps users and their tunnels in SQLite, answers an encrypted
HTTP API, listens on the public TCP and UDP ports itself, forwards traffic to FRPS's back-end
ports on the loopback interface, and enforces a traffic quota and a speed limit per user.
This directory specifies the parts of it whose correctness depends on interleavings, failures and
the order of steps, checks them with TLC on small instances and proves the most important
properties with TLAPS for all instances.

Run a check with `tlc -config X.cfg M`, a proof with `tlapm M.tla`; `PROJECT.json` lists the runs,
the mutants, the theorems and the source lines behind every definition. Below, `controller.rs`,
`app.rs`, `storage.rs` are in `crates/frp-game-server/src`, `model.rs` and `crypto.rs` in
`crates/frp-game-common/src`.

## 1. Inventory

| component | state it keeps | operations | what makes it correct |
|---|---|---|---|
| Per-user gate (`controller.rs` 57-153) | limit, usage, rate, tokens, last refill, behind a mutex | `reserve_stream`, `reserve_datagram`, `update_limits` | the aggregate of all connections keeps quota and rate; no reservation is charged without being forwardable; nobody waits for ever for nothing |
| Accounting (`controller.rs` 418-457, 594-698) | event queue (4096), pending events, usage in memory and in SQLite | copy loops send, task receives, flushes every 500 ms and at shutdown | every byte is billed once, after it was forwarded, not after a reset, and forgotten only in named cases |
| Configuration store (`storage.rs` 133-293, 586-867) | settings and users in SQLite with a revision | `read`, `save`, `create` | all writers together behave like one writer at a time |
| Administrator's commands (`app.rs` 939-1351) | a copy of the configuration between read and save | add, delete and change users | the same, and what is deleted stays deleted |
| Tunnel plans (`model.rs` 230-286, `app.rs` 1493-1581, `storage.rs` 670-746, 756-867, 975-982) | tunnels per user, rows in the table | validate, give back-end ports, write | both validations agree, the table is the configuration, back-end ports are stable |
| Listener controller (`controller.rs` 155-339) | registered listeners, gates | `reconcile`, `start_task`, `shutdown` | listeners and configuration stay together through failures |
| TCP connections (`controller.rs` 341-457) | permits per tunnel and overall | accept, forward, cut | permits return; nothing is forwarded after the cut |
| UDP sessions (`controller.rs` 459-592) | session table, permits, idle timers | hand over, replace, expire | one live session per peer, table and permits in step |
| API guard (`app.rs` 190-267, 1606-1664, `crypto.rs` 107-142) | nonces seen, token buckets per address | authenticate, refuse repetitions, limit | a repeated request is refused as long as it is remembered, and forgotten only for a reason; no address gains from the limiter's cleanup |
| API handlers (`app.rs` 1666-1917) | none of their own | hello, login, tunnels, usage | the tunnels handler is where most of the above meet |
| FRPS plugin (`app.rs` 1919-2031) | none; FRPS keeps sessions and proxies | Login, NewProxy | FRPS opens registered back-end ports of entitled users only |
| Traffic records (`storage.rs` 228-248, 702-728, `app.rs` 1817-1834) | bytes per proxy name, in memory per user and in a table | save, add, flush, load | what is shown per port adds up to the bill |
| Service life (`app.rs` 2050-2203) | process, ports, child process | start, run, shut down; systemd restarts | all ports or none; it comes to serve and can be stopped wherever it is |
| Initialisation and migration (`storage.rs` 89-123, 484-584, 869-973) | `config.json`, its backups, the database | migrate once, recover passwords | the configuration is always where it is looked for; nothing newer is overwritten |
| Installer, update, uninstall (`install.sh`, `install-server.sh`, `app.rs` 269-800, 2205-2414) | files, the mark of ownership, the service unit | install, replace, restore, remove | what is reported as restored or installed is; FRPS of someone else stays |

How they interact. The server process holds one `Arc<RwLock<ServerConfig>>`. The **tunnels
handler** takes it for writing, validates, saves a candidate through the **store**, and *while it
still holds the lock* awaits the **controller**'s `reconcile`; on failure it saves the original
again under the candidate's revision. The **accounting task** takes the same lock to save usage.
**Commands** are other processes: they share only the database with the server and restart the
service after their save. **Copy loops and sessions** call the gate (shared per user) and send to
the accounting queue, which blocks when it is full. The client of a request can hang up, and then
the handler's future is dropped at an `await`. **FRPS** is a child of the service and asks the plugin
whenever a client logs in or opens a proxy, never afterwards. Whoever opens the **storage** first
migrates what an old version has left, and several processes may do so at once.

Hard behaviours: saves from several processes against one revision; errors reported after a commit
(`secure_file`); the lock held over an `await`; partial failure of `reconcile` and of the rollback;
cancellation of a handler half-way; a bounded queue whose reader needs that lock; crash and restart
with traffic not yet recorded; sleepers that race for tokens; the row-by-row write under UNIQUE
constraints; a table that is looked at and changed under separate locks; requests that arrive again
while they are handled; decisions FRPS keeps although what they rest on has changed; processes that
are killed between a commit and a rename. `PROJECT.json` "hazards" lists them one by one with the line and the property.

## 2. Modules

| module | models | composed with |
|---|---|---|
| `UserGate` | one user's gate and its callers | - |
| `Metering` | bytes from the gate to the bill, with everything that moves the revision | stands on the gate's promise (a charge within the limit) and on the store's save |
| `SerialConfig` | abstract: one configuration, one writer at a time | - |
| `ConfigStore` | database, the server's memory, the handler's candidate, the commands' copies | implements `SerialConfig` (`INSTANCE` with a refinement mapping) |
| `TunnelPlan` | plans, validations, back-end ports, the table | sequential; its verdict "writable in some order" is used by `Controller` |
| `Controller` | listeners, sockets, the handler from save to answer, service life | abstracts `ConfigStore`'s revision test to `stale` |
| `UdpSessions` | UDP listeners, session tables, sessions, permits | when a session waits is `UserGate`'s and `Metering`'s |
| `TcpConnections` | TCP listeners, both semaphores, connections and their copy loops | the same |
| `ReplayGuard` | freshness test and the memory of requests | - |
| `AddressBudget` | abstract: a budget per address that is never forgotten | - |
| `RateLimiter` | buckets, their cleanup and their limit | implements `AddressBudget` |
| `FrpsPlugin` | memory, database, clients, FRPS and its plugin | abstracts `ConfigStore`'s revision test to equality of the two copies |
| `TrafficRecords` | records per proxy name in memory and in the table | saves succeed; those that do not are `Metering`'s |
| `Migration` | `config.json`, its backup, the database and the processes that initialise | the revision test of `ConfigStore`, on one user's password and key |
| `Installation` | installer, setup, uninstallation | - |
| `ServiceLife` | `command_serve` under systemd | what happens while it serves is `Controller`'s |
| `MC*` | instances for TLC | |
| `*Proofs` | theorems: `UserGateProofs`, `MeteringProofs` and `ControllerProofs` about the module of their name; `StorageProofs` about `ConfigStore` and `TunnelPlan` (as `MCTunnelPlan` instantiates it); `ConnectionsProofs`, `RequestLimitsProofs`, `BackendPortsProofs` and `MachineProofs` about the `MC` module of their name and all it puts side by side | |

Four of the `MC` modules put modules side by side that have no variable in common:
`MCConnections` (`UdpSessions`, `TcpConnections`), `MCRequestLimits` (`RateLimiter`, `ReplayGuard`),
`MCBackendPorts` (`FrpsPlugin`, `TrafficRecords`) and `MCMachine` (`Migration`, `Installation`,
`ServiceLife`). In each behaviour only one of them is at work, the others rest in one of their
initial states. As none of them reads what another writes, a property of one of them that is
violated by some interleaving is violated by a behaviour in which it works alone, so nothing is lost;
a liveness property is stated for the part it is about.

Correspondence of state and actions:

- **UserGate.** `limit, used, rate, tokens, elapsed` are `GateState` (`elapsed` is the time since
  `last_refill`); `call[c]` is a caller inside `reserve`. One pass through the critical section is
  one action: `Refuse`, `GrantUnmetered`, `GrantMetered` or `Sleep`. Time is a tick and tokens are
  whole bytes, so a sleep's length is not modelled: a sleeper may try again at any time, which
  includes when the code does. `UpdateLimits` is what `reconcile_gates` does on every tunnel save;
  within one server process the configured limit and rate never change (commands restart the
  service), so it is called with the settings the process started with. `allowed` and `window` are
  observers.
- **Metering.** `where[c]` is how far a chunk got: charged to the gate, written, queued, pending,
  gone. `StartFlush` is `drain_events` and the wait for the lock; `FlushCommit`,
  `FlushCommitUnsecured` and `FlushFail` are the three outcomes of the save. `saving` is the time in
  which the tunnels handler holds the lock over `reconcile`. `bill` counts how often a chunk went
into `used`. `SetUsage` and `SetLimit` are the commands that set usage and limit, each to anything, so
  the usage may be above the limit; `SaveCommand` is any other. A gate keeps the limit its process
  started with. `delivered`, `excused`, `forgiven` and `granted`, the usage as the administrator last
  left it, are observers. One user and one counter; the bytes
  per proxy and direction take the same way in the same transaction.
- **ConfigStore.** `cli[a]` is a command between its read and its save (prompts included),
  `handler` the tunnels handler between its save and its last assignment. A user is an account, a
  tunnel limit, a usage and a number of tunnels; these are the fields on which decisions are taken
  (`account_exists`, `normalize_user_tunnels`, the quota). Commands that set another field (speed,
  traffic limit, password, key) have the shape of `SetTunnelLimit`. `ReadConfig` is one step; the code
  issues several SELECTs, the revision first, so a copy that is torn by a save in between has the older
  revision and is refused at its own save. A flush that charges several
  users in one commit is modelled for one user. The restart at the end of a
  command is the action `Restart`, which may come at any time or, when the service is not running or
  `systemctl` fails, not at all.
- **TunnelPlan.** `MCTunnelPlan` instantiates it under other names of its constants (`MaxPlan`,
  `FirstLimit`, `NoUser`), so that its proofs can stand beside those of `ConfigStore`. A tunnel is
  id, protocol, public port and back-end port; `ProxyOf` is not injective because `proxy_name_for`
  trims dashes. Names, remarks and local addresses, and the plans they make invalid, are left out.
  So are ids of dashes only, whose proxy name `proxy_name_for` draws anew at every normalisation;
  what that does to the listeners is in `Controller`. `WriteSnapshot`
  writes row by row like the code; SQLite checks UNIQUE constraints at each statement.
- **Controller.** `tasks` is the hash map of registered listeners, `socket` who really holds each
  port. `handler` is the holder of the lock while it reconciles, at boot too; the order in which
  listeners are started is that of a hash map, hence any. `Dashed` are the
  tunnels with an id of dashes only: every save, anybody's, names them anew, and `reconcile`, which
  compares by name, stops and starts their listeners (`Obsolete`). `HangUp` drops the handler at an await,
  `HangUpBound` does so between a bind and the insertion of its task. `stale` says that the
  database has moved beyond memory, so that no save of the server is accepted; `Writable` is
  `TunnelPlan`'s condition for a plan that can be written in some order of its tunnels, which for the
  rollback is an abstraction: the original's own order is not represented, and a rollback the table
  refuses is `RollbackFails`, which is always possible.
- **UdpSessions.** `step[t]` is where `run_udp_listener` is between two accesses to the table, which is
  under a mutex that is taken anew for each: `Receive` looks the sender up, `HandOver` and `FindClosed`
  are the outcomes of `try_send`, `Remove`, `Limit`, `Acquire` and `Insert` what follows for a packet
  without a session. `phase[s]` is the session's task: made, spawned, in its loop, waiting for gate or
  queue, its receiver dropped (`"closed"`), its entry removed (`"tidied"`), its permit returned.
  `Restart` is a new listener on the port: it waits until no session has the socket.
- **TcpConnections.** `own` and `shared` are the two semaphores; a started listener has a new one of its
  own, and `old` tells the connections of its predecessor apart. A copy loop has a chunk in hand or
  not. `LoopEnds` ends both loops: `select!` drops the other one, with what it has in hand.
- **ReplayGuard.** `Receive` is the freshness test in whole seconds, `Refuse` and `Accept` are
  `ReplayGuard::accept`; `handling` is a handler between the two. `seen` and `order` are the set and
  the queue. Clocks of clients may differ from the server's by anything; the server's wall clock is
  taken not to be set.
- **RateLimiter.** One call is one action, with its refill and its cleanup, as the code holds one lock.
  Tokens are whole numbers, in the code they are `f64`.
- **FrpsPlugin.** `memory` and `stored` are the two copies of the configuration; a command changes
  `stored`, `Restart` makes them one, and until then no save of the service is accepted. `told` is
  what a client knows, which may be out of date. `LoginRead` and `LoginAnswer` are the two halves of the
  login handler, which gives the lock back in between. FRPS and the clients are external. Users may
  ask for the same names: a name is refused while another user's plan has it, and free again
  afterwards. `left` is an observer: the proxies that were open, and right (`Right`), when their tunnel
  left the plan. Ids of dashes only are left out: the plugin refuses their proxies once the name has
  changed.
- **TrafficRecords.** `records` is `traffic_by_proxy`, `table` the rows: the primary key is the proxy
  name, so one user's write can take another's row. `Restart` loads what the rows say. `SetUsed` is
  `set-traffic-used` with the restart it ends with: it sets the bill and leaves the records alone.
  `usedThen` and `shownThen` are observers: bill and records when the usage was last set.
  `delete-user` and ids of dashes only, whose records begin anew at every save, are left out.
- **Migration.** `proc[p].at` is the place of a process between two transactions, looks at the
  directory or renames. One user, whose password is one of two; the digest stands for the password.
  Every read and every save initialises first (`Return` tells where it came from). `early` is an
  observer: who began a migration before there was a database. `Kill` ends a process anywhere.
- **Installation.** A job is a sequence of steps (`Then`), each of which may fail or be the last before a
  kill. The jobs are the installer, `setup` and `install-frps`, each with and without its `--force`, and
  `uninstall`. Downloads and digests are the choice between success and failure.
- **ServiceLife.** `at` is where `command_serve` is, `held` the ports it has. `Gone` is what systemd does
  when the process ends: `KillMode=mixed`, `Restart=always`. Its limit on the number of starts
  (`StartLimitBurst`) is not modelled: with `RestartSec=3` the limit of 5 in 10 seconds is not reached.

## 3. Runs

All runs check deadlock but `request_limits`, whose clock ends at its bound. Sizes are distinct states.

| run | instance | checks | states |
|---|---|---|---|
| `user_gate` | 2 callers, limits 0 and 3, rates 0, 1, 5, buffer 1, datagram up to 3, smallest bucket 4 | `QuotaHolds` `ChargedIsForwarded` `RateHolds` `StarvedOnlyByOthers` | 91 485 |
| `metering` | 3 chunks, limits 0-2, usage set to 0 or 2, 2 loops, queue of 1, 3 revisions | `NoDoubleBilling` `OnlyDeliveredBilled` `ResetSticks` `NothingForgotten` `QuotaEndToEnd` `QueuedIsBilled` | 792 064 |
| `config_store` | 2 users, 2 accounts, 2 commands at a time, 5 revisions | `RevisionMeansContent` `Serializable` `DeletedStaysDeleted` | 183 480 |
| `tunnel_plan` | 2 users, plans of up to 2 tunnels, 4 ids of which 2 share a proxy name, ports 1-4, 1 reserved, pool 4-6 | `RowsAreConfig` `ValidationsAgree` `RefusedOnlyForReuse` `BackendKept` | 7 384 |
| `controller` | 3 tunnels of 2 users, one of them dashed, on one TCP and one UDP port | `RegisteredListens` `ServesOnlyConfigured` `OkMeansServed` `OthersUndisturbed` `SaveAnswered` `ShutdownEnds` | 232 696 |
| `connections` | 2 listeners; UDP: 2 peers, 2 sessions, 1 per listener, queue of 1; TCP: 2 connections, 2 per listener, 2 in all | `SessionTable` `PermitsReturn` `QuietEmpties` `CancelledEnds` | 162 319 |
| `request_limits` | limiter: 3 addresses, room for 2, budget 4, costs 1 and 3, idle 3, cleanup 2, 8 ticks; guard: 3 requests, room for 2, 2 handlers, skew and memory of 1 second of 2 ticks, 3 seconds | `GuardInStep` `RepeatsAreRefused` `ImplementsBudget` `NoRoomForTheIdle` | 606 639 |
| `backend_ports` | plugin: 2 users with a client each who may use the same name, one of them a second one, 2 ports, one quota, one rotation; records: 2 users, 2 names, 2 bytes | `SessionsHaveTheKey` `RoutedToOwnerOrLeft` `RecordsAddUp` | 1 732 748 |
| `machine` | 2 processes, 3 revisions, 1 kill; installation from nothing or from an old version, all six jobs; service with 2 tunnels, 3 faults | `StoredAndReadable` `NothingTakenBack` `InstalledOrRestored` `ForeignFrpsStays` `ServesEverything` `SettlesAsWanted` | 285 070 |
| `tunnel_limit_zero` | as `tunnel_plan` | `LimitZeroForbidsCreating`, violated | - |
| `migration_killed` | 1 process, 2 revisions, 1 kill, with fairness | `LegacyBecomesBackup`, violated | - |
| `uninstall_twice` | `Installation` | `OwnedFrpsGoes`, violated | - |

Each module of the system also has one type invariant, `TypeOK`: a theorem where the module has proofs
(section 4), and a conjunct of one of the run's invariants for the modules that are put side by side.
Every property has a mutant in `PROJECT.json`: a plausible bug ("Fault:" in the modules) under which
the run finds it violated.

Why the bounds are enough.
*Gate*: two callers are what a race needs; the datagram is larger than the stream chunk and smaller
than the smallest bucket, as 65535 < 4 x 16384, and one rate is below that bucket and one above it,
so both arms of `burst_capacity` occur; a start usage above the limit is included; `MaxCount` is
small so that the counter does saturate.
*Metering*: three chunks let one be on the bill, one pending and one in a connection at the same
time; a queue of one is full at once; the limits and usages let the usage be below, at and above
the limit, and there be none; saves and commands begin below the third revision, which allows a save with
its rollback or two commands and more flushes in one behaviour (`RevisionBound` stops handler and
commands, never the flush).
*Store*: each of the server, its rollback and two commands can hold a different copy; five revisions
are needed for a plan, a command, a refused rollback, a flush and a further command.
*Plans*: two tunnels of one user can take over, swap and go around in a circle; pool and public
ports overlap in one port and the pool can be exhausted.
*Controller*: two endpoints and three tunnels let two tunnels of one user swap ports while another
user's tunnel stands by; one endpoint is UDP, where sessions keep the socket.
*Connections*: a second session is what replaces a closed one while that one still tidies up; two
listeners compete for the shared permits, which for TCP are fewer than both may have of their own, and a
task that is gone is used again, so that nothing lost stays unnoticed.
*Request limits*: a third address finds the table full, a third request makes the guard evict; seconds
of two ticks make the freshness test coarser than the guard's clock, as in the code. The bounds on time
are longer than a memory and a freshness together, or an idle time and a cleanup interval.
*Back-end ports*: one port can pass from one user to the other and a plan can change and come back
while a proxy waits; with one rotation there are an old and a new key, with one quota a client that
has spent it and one that has not. Two names and two users let a record change hands.
*Machine*: two processes are what a race needs, and one of them may be killed; three revisions let a
copy be stale by one save and by a save and a migration. Every step of an installation can fail or be
the last; three faults let a start fail, its repetition fail and its shutdown be disturbed.

Fairness. `UserGate`: the timer wakes sleepers and time passes (`WF` of the tick and of each
caller's attempt), nothing about who is first. `Metering`: the tick comes again (`WF(FlushTick)`),
a flush that has the lock ends (`WF(Flush)`), the handler ends (`Controller` shows that), and a
save that is tried again and again without a conflict commits in the end (`SF(FlushCommit)`: SQLite
errors are not for ever). `Controller`: tasks that can run are run (Tokio), and `tokio::sync::RwLock`
is fair, so the last flush gets the lock although saves keep coming (`SF(Flushed)`). `UdpSessions`:
tasks that can run are run and idle timers run out; only when nobody sends any more is a session
taken to get its tokens. `TcpConnections`: a connect is answered and the cancellation is seen; nothing is
assumed of the copy loops. `ServiceLife`: process, FRPS and systemd go on (`WF(Progress)`,
`WF(FrpsStep)`), the number of crashes, kills and stray signals is bounded. `Migration`: a process
that was begun goes on, and there is always another one. Nothing is assumed of clients,
administrators, other programs or kills.

What the runs show beyond the properties' names:

- The revision test is enough, even for a rollback that borrows its candidate's revision, because no
  two contents ever bear the same one; a save that reports an error after its commit makes memory
  stale for good: nothing is billed twice, but nothing more is billed either until the restart.
- A client that hangs up during `reconcile` leaves the service in that state too. It keeps
  forwarding; `ServesOnlyConfigured` holds only while saves are accepted.
- `OkMeansServed` holds although the error of the reconcile after a rollback is dropped: the next
  accepted save binds what is missing, or fails.
- The table refuses accepted plans only when they take over a port or proxy name of another tunnel of
  the same user; some of these succeed in another order, some (a swap) in none. The answer then is an
  internal error and nothing has changed.
- The lock is held over awaits and the queue behind it is bounded, yet there is no deadlock: listeners
  and the bind never wait for the queue, and sessions are not awaited.

- A port that another program took during an earlier rollback lets the next save fail, also another
  user's, because `reconcile` starts whatever is missing.
- The table of UDP sessions is right because of `same_channel`: a session removes its entry only if it
  is still its own. The permits of replaced sessions return later than their places in the table.
- A connection over TCP ends when one direction ends: a client that closes its sending half loses the
  answer (`LoopEnds`). Cancellation reaches a connection whatever its loops wait for.
- A request is processed twice in two cases only: evicted by as many younger ones as the guard has
  room for, or repeated after its memory by a client whose clock was ahead of the server's, or by a
  handler that had passed the freshness test before. With the code's numbers the second needs a
  duplicate that comes more than the memory's length after the first.
- The limiter's cleanup is invisible only because the idle time refills more than a bucket holds
  (`LimiterConstants`: 300 s x 2 >= 60).
- FRPS asks once. A proxy of a tunnel that has left the plan keeps its back-end port until its client
  closes it, and the port may be given to a new tunnel of another user, whose traffic then arrives there
  (`RoutedToOwnerOrLeft` says that nothing else ever does: the proxy was open, and rightly so, when its
  tunnel left). Sessions with a rotated key do
  end, because FRPS ends with the service.
- The administrator may leave a usage above the limit: then nothing is let through, and the excess never
  grows (`QuotaEndToEnd`).
- A save stops and starts the listener of every tunnel whose id is dashes only, also other users';
  `OthersUndisturbed` is about the tunnels with other ids.
- What is shown per port and the bill part when the usage is set, and go side by side from then on
  (`RecordsAddUp`). A record of traffic is lost only when another user takes over its proxy name and the service then
  starts anew; the bill itself is not touched.
- Two processes that migrate at once both succeed in storing: the second sets the revision back to 1, and
  what was saved in between is lost. This is the exception `NothingTakenBack` names. The recovery of a
  password, which leaves the revision as it is, is never saved over, because whoever reads recovers
  first.
- An installer that fails or is killed after it has replaced the program leaves the new program in place;
  only a failing `setup` brings the old one back.

The findings.

1. The prompt (`app.rs` 1226), the user's details (`app.rs` 881) and `server-package/README.md` line
   78 say that a tunnel limit of 0 forbids creating tunnels. The code compares numbers of tunnels only
   (`app.rs` 1500): a user with one tunnel whose limit is lowered to 0 can save a plan that replaces it
   by a new one (`tunnel_limit_zero`).
2. `server-package/README.md` line 63 says that `config.json` is migrated and kept as a backup with a
   timestamp. A process killed between the commit and the rename (`storage.rs` 108) leaves it as
   `config.json` for good, since only an empty database makes `initialize` look at it
   (`migration_killed`).
3. `README.md` line 23 and `server-package/README.md` lines 49 and 90 promise a complete
   uninstallation, with FRPS if the mark says that it is ours. The mark is removed before FRPS
   (`app.rs` 2402, 2404): an uninstallation that fails in between and is repeated keeps it
   (`uninstall_twice`).

## 4. Proofs

All with TLAPS, for every value of the constants under the named assumptions of the modules
(`GateConstants`, `RequestsFitBurst`, `MeteringConstants`, `StoreConstants`, `StartUnique`, `ControllerConstants`,
`SessionConstants`, `ConnectionConstants`, `LimiterConstants`, `GuardConstants`, `PluginConstants`,
`RecordConstants`, `MigrationConstants`, `LifeConstants`, `PlanConstants`), which TLC evaluates in the
runs. Every safety property of a passing run is a theorem, each from one inductive invariant. One
theorem has a hypothesis of its own: `RefusedOnlyForReuseTheorem` assumes that `Failed`, the model's
word for an error, is not a set of rows; TLC, where it is a model value, cannot evaluate that.

Where modules are put side by side, a lemma (`PartsOfBoth`, `PartsOfMachine`) shows that the behaviours
of the whole are behaviours of each part; the theorems about a part then hold of the whole. An
operator that an instance brings along, like `Guard!Cardinality`, is shown to be the library's first.

- **UserGateProofs**: `GateTypeCorrect`, `QuotaTheorem`, `ChargeTheorem`, `RateTheorem`. The rate is
  not inductive by itself: `Budgeted` says that what the window was granted *plus what the bucket could
  grant now* is within one burst and the time passed, `BucketFits` that the bucket is within its burst,
  `Configured` that an update by `reconcile_gates` never finds another rate. `RefillStep` is the
  arithmetic of one tick.
- **MeteringProofs**: `MeteringTypeCorrect`, `NoDoubleBillingTheorem`, `OnlyDeliveredTheorem`,
  `ResetSticksTheorem`, `NothingForgottenTheorem`, `QuotaEndToEndTheorem`. The invariant `MeteringInv` ties three things
  together: `Coherent`, a copy with the database's revision records the same usage; `Books`, what may
  be on either bill given how far a chunk got; `Empty`, a stopped process holds nothing. A commit that
  reports an error, like a reset, puts the chunks' copy *behind* the database, which is why they
  cannot be written a second time. `QuotaInv` adds the quota: what the gate has charged since the start
  covers what memory records and what is still in the process, and everything a restart may load
  is within its own limit or no more than the administrator left.
- **StorageProofs**: `StoreTypeCorrect`, `RevisionTheorem`, `SerializableTheorem`,
  `DeletedStaysDeletedTheorem`. The invariant: every copy is no newer than the database and equal to
  it if its revision is the same. `SerializableTheorem` is the refinement `Spec => Serial!Spec`: each
  accepted save is the abstract step on the database's present content, everything else stutters or
  settles; `undo` is mapped to memory while the handler's candidate is the database's content.
  `RowsAreConfigTheorem`, `ValidationsAgreeTheorem`, `BackendKeptTheorem`: the invariant `PlanInv` says that
  the configuration is sound and that the table is just its tunnels. `PlanSound` puts what
  `normalize_loaded_config` asks of one long list of tunnels as a statement about each two of them, and
  `SoundIsAccepted` shows that the two are the same; for that, every tunnel has a place of its own in the
  list (`PlacesOfTunnels`). `SnapshotIs`: rows of distinct ids that can be upserted one after the other
  into any table are what is left of it. `PlanIsGiven`: what the loop over a plan gives each tunnel is
  its old back-end port or one that no port in use and no earlier tunnel of the plan has;
  `PlanLeavesSound`: with these ports the new configuration is sound, against the plan itself and against
  everybody else's tunnels.
  `RefusedOnlyForReuseTheorem` follows from the same invariant in three steps. `StoredIfGood`: in a table
  that is the configuration the upserts of a plan clash just where a tunnel takes a port or a proxy
  name that is not yet given up (`WritesIfClear`, `HitsIs`), so the table takes the plan if and only if its
  order is good. `EnoughInAnyOrder`: ports that are enough for the new tunnels of a plan are enough
  in any other order of it, as fewer than all of them cannot use up what has room for all
  (`NotUsedUp`). `GoodHasNoCircle` and `GoodOrderExists`: the first member of a circle would come before the
  one it takes over from; and where there is no circle the longest start of a good order is a whole one.

- **ControllerProofs**: `ControllerTypeCorrect`, `RegisteredTheorem`, `OnlyConfiguredTheorem`, `OkTheorem`,
  `UndisturbedTheorem`. `ControllerInv` follows the holder of the lock: while it stops listeners, what it
  still waits for is what it has cancelled; while it starts them, what is registered is part of the
  target; and what is stored is the target unless memory is stale. `UnderControl` says that a listener
  is registered under its own port or is cancelled and awaited.
- **RequestLimitsProofs**: `LimiterTypeCorrect`, `IdleTheorem`, `BudgetTheorem`; `GuardInStepTheorem`,
  `RepeatsTheorem`. The limiter: the refinement `Spec => Promise!Spec`; a bucket that a cleanup drops had
  been full for the arithmetic of `LimiterConstants`, so forgetting it is a stutter of the budget. The
  lemma behind it: refilling twice is refilling once for the sum of the times. The guard: `InStep`, the
  queue lists the set without repetition in the order of acceptance, so what an outdated front hides
  is younger; and `Forgotten`, a request that was accepted and is not in the set was evicted or is past
  its memory, which time does not undo. `LateIsAhead` is the arithmetic that turns "past its memory and
  fresh again" into a clock ahead or a handler that was slow.
- **ConnectionsProofs**: `SessionTableTheorem`, `PermitsReturnTheorem`. Only the listener of a table puts
  entries into it, so what it found for its packet's peer is there or gone when it comes back for the
  lock, and what it found missing is missing still (`UdpListener`); a session in its loop has the entry
  of its peer (`UdpSession`). The permits are counted: those free and the sessions that hold one are all
  there are, and a step moves at most one session from one side to the other. For TCP the same with two
  semaphores, where a listener that starts again leaves the old one to its connections (`Balanced`).
- **BackendPortsProofs**: `PluginTypeCorrect`, `SessionsTheorem`, `RoutedTheorem`; `RecordsAddUpTheorem`.
  The plugin: in both copies no port is in two places (`Sound`), which `PortsUsed` and `Lowest` keep;
  every session is one that the configuration of this process has allowed, and every proxy is right now
  or was when its tunnel left. The records: `RowsRight`, every row is of a user who has its record with
  the same bytes, and `Billed`, a user's records and her bill have grown by the same since her usage was
  last set, until a start gives a record to another; a start takes part of each user's records, all of
  them if she keeps their names (`SumOfPart`).
- **MachineProofs**: `StoredTheorem`, `NothingTakenBackTheorem` (and `MachineKeepsItsSettings` for the
  whole), `InstalledOrRestoredTheorem`, `ForeignFrpsTheorem`, `ServesEverythingTheorem`. Migration: a
  machine is in one of three eras it does not leave: it had a `config.json`, and then every password is
  encrypted from the first commit on; or it had a database beside a backup, and then a copy that could
  still be saved either holds what was recovered or nothing there can be recovered; or it had nothing,
  and then the user has no password. Without the second the recovery, which leaves the revision as it
  is, would be lost to a later save. Installation: what each step of a job may rely on, whose program
  the copy is, which program the service runs, and that the mark was compared with the file. Service:
  `HeldSoFar`, the ports that each step of a start has behind it.

Sums. `TrafficRecords` adds up with `FoldFunction`, a recursive function on sets, and induction over
data is beyond the prover used. Instead of induction the proofs take a least counterexample:
`LeastNatural` (a set of naturals has a least member) and `SmallestSubset` (a family of subsets of a
finite set has one that is smallest in it) follow from the library's theorem on well-founded relations,
which has no operator parameter. From them follow that the recursive function exists (`SumsExist`),
that the order does not matter (`SumsAnyOrder`) and that sums add up name by name (`SumsAddUp`), for any
number of names.

Folds. The plans of `TunnelPlan` are sequences, given their ports and written to the table by folds.
They are treated in the same way: a fold is a recursive function on the places of the sequence
(`WritesStep`, `GivesStep`, `JoinsStep`: that the function exists, and what it is place by place), and what
it yields follows from the first place at which it would yield something else.

Only model-checked: the liveness properties (`StarvedOnlyByOthers`, `QueuedIsBilled`, `SaveAnswered`,
`ShutdownEnds`, `QuietEmpties`, `CancelledEnds`, `SettlesAsWanted`): temporal reasoning under fairness and
`ENABLED` are beyond the prover used.

## 5. Not modelled

- **Encryption and password hashing**: library code without state of the program. That a password is
  encrypted under its user's key is in `Migration`, the time stamp's test in `ReplayGuard`.
- **Server names and version texts** (`normalize_server`, `client_server_target`,
  `parse_frp_version_text`): string handling without state.
- **Command line and menu**: parsing, prompts and printing. The commands behind them are actions of
  `ConfigStore`, `Metering`, `FrpsPlugin`, `Migration` and `TunnelPlan`; `set-speed-limit` changes a field
  that no property looks at and is `SetTunnelLimit` in its shape. `delete-user` is in `ConfigStore`, not in
  `TrafficRecords`, whose users stay.
- **Tunnel ids of dashes only**, whose proxy name is drawn anew by every save: in `Controller` (`Dashed`), but
  not in `TunnelPlan`, `FrpsPlugin` and `TrafficRecords`, whose properties are about names that last.
- **check-update** runs the installer and adds no state; the **API-only mode** is `ServiceLife` without
  tunnels and FRPS.
- **Schema versions** of the database, and more than one user or backup in `Migration`.
- **Overflow of `sql_i64`** (`storage.rs` 985): a usage beyond `i64::MAX` bytes makes every save fail;
  it is eight exabytes, and only a usage that the administrator sets near it gets there.
- Names, remarks and local addresses of tunnels, the `active` flag of a record, `public_bind` and the other
  settings, which never change while the service runs.
- FRPS itself, SQLite and systemd are modelled as far as the code relies on them.

## 6. Plan

Done, in this order: the gate, the bill, the store, the plans and the listeners with their proofs; then
connections, request limits, plugin and records, migration, installation and the service's life, and the
proofs of the controller, the limiter, the plugin, the installation and the migration; then those of the
replay guard, the sessions and connections, the records and the service's life, and those of the plans
and the table.

What would come next: `Metering` shown to implement an abstract meter; `Migration` with two users, one of
whom has a password that the backup does not fit.
