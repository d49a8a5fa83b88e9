# Verification of Quorum Quest

TLA+ models of the Quorum Quest lock and leader-election service, the TLC
configurations that check them on small instances, and TLAPS proofs of their
main invariants for all instances.  Paths below are relative to the repository.

    tlc -workers 2 -config MCRedisStore.cfg MCRedisStore     # model-check one run
    tlapm RedisStoreProofs.tla                               # check the proofs of one module

`PROJECT.json` lists every run, theorem and hazard, and the source lines of every
definition.

## 1. The system

A service process (`cmd/quorum-quest-service`) exposes three RPCs --
`TryAcquireLock`, `ReleaseLock`, `KeepAlive` -- on a lock named by a *service* and
a *domain*.  The process keeps no lock state.  Each RPC handler calls the
configured *store*, which keeps the lock in Redis, DynamoDB or ScyllaDB; any number
of processes may share the same database.  Client libraries in Go, Python and Rust
call the RPCs, keep the lock alive in the background, and run callbacks when
leadership changes.

    application -- client library -- gRPC -- handler -- store -- Redis | DynamoDB | ScyllaDB
                   (keep-alive loop)          (one per RPC,        (shared by all processes)
                                               no common lock)

| Component | State | Operations | What is hard |
|---|---|---|---|
| Lock store contract `internal/store/lock_store.go` | who holds the lock, who was told so | TryAcquireLock, ReleaseLock, KeepAlive | what an answer is worth later |
| Redis store `internal/store/redis` | one key per lock: owner, TTL | SET NX; GET + EXPIRE; GET + DEL | two commands per operation, lost replies, resends, expiry between commands |
| DynamoDB store `internal/store/dynamodb` | one item per lock: ClientID, ExpiresAt | conditional PutItem, UpdateItem; GetItem + DeleteItem; table creation | clocks of several servers, truncation to seconds, delayed requests, stale reads |
| ScyllaDB store `internal/store/scylladb` | one row per lock, with TTL | INSERT IF NOT EXISTS; SELECT; DELETE; schema creation | the INSERT's outcome is not looked at; consistency levels |
| gRPC server and main `internal/server`, `cmd` | fields server, store, listener; goroutines of Start, main and handlers | Start, serve, Stop, the three handlers | fields shared without a lock; a signal at any time |
| Go client `client/go` | isLeader, remainingLease, notifyStop, mutex | TryAcquireLock, ReleaseLock, StartKeepAlive, StopKeepAlive, Close, keep-alive goroutine | races of answers; waiting under a mutex; callbacks in goroutines |
| Python client `client/python` | the same, with a re-entrant lock, a thread and an event | the same | callbacks and `join(timeout=5)` under the lock; one event for all workers |
| Rust client `client/rust` | the same, with a state flag, a channel and a handle | the same | the flag is set by the spawned task, not by the caller; replaced tasks nobody awaits |
| Applications `client/go/.../example` | nothing but its client's | acquire at every status tick, keep alive while leading, release on a signal | leases, refresh intervals and timeouts against each other |
| Configuration `internal/config` | current configuration, last error, watchers | detection, LoadConfig, reload on file change, Close | files that change meanwhile; environment overrides after validation; a reload nobody applies |
| Start-up: `cmd`, registry `internal/lockservice/lockservice.go`, the stores' constructors | the DynamoDB table; the ScyllaDB keyspace and table | NewStore, `ensureTableExists`, `initSession` | several servers create the same table; errors that are ignored, and requests sent twice |
| Observability, generated stubs, mocks | none that locks depend on | -- | -- |

What makes each part correct:

* **Stores.** A client that was told it holds the lock is the only one that holds
  it until its lease ends, counted from its call, or until it asks for the release
  (*lease safety*); a lock is dropped and handed over only when no promise is
  outstanding (*the contract*); a dead holder's lock becomes free (*liveness*).  The code
  does not keep all of this; what it does instead is named, and shown to be all it does.
* **Client.** What the application is told adds up to what the client knows;
  at most one keep-alive loop; stop returns and stops.
* **Election.** An application that believes it leads, and whose keep-alive runs, holds the lock, or goes on
  without it for a time its TTL and the timeouts bound; one that is cut off finds out.
* **Configuration.** What is detected is what is served; the last save wins; the TTL in force is the
  environment's or one that validation accepts; shutdown ends the watcher's goroutine.
* **Start-up.** A server that takes requests has its table; of servers that race for its creation one
  serves; failures and restarts leave nothing that keeps servers from starting.
* **Server.** No handler meets a store that is closed, cleared or not yet there;
  a signal ends the process, and cleanly.

## 2. Modules

| Module | What it is |
|---|---|
| `LockService` | abstract specification of a store: one lock, its holder, and for how much longer each client was told it holds it; the contract, and the deviations from it |
| `RedisStore`, `DynamoDBStore`, `ScyllaDBStore` | the stores, one step per command sent to the database |
| `GoClient` | one client object: application goroutines, keep-alive goroutines, callback goroutines |
| `PythonClient` | one Python client object: application threads, workers, the lock, joins |
| `RustClient` | one Rust client object: the application, keep-alive tasks, callback tasks |
| `LeaderElection` | several applications with their clients' keep-alive over `LockService`, in time units |
| `ConfigLoader` | one process's configuration, and an operator who changes the files |
| `Startup` | several servers that start on shared databases |
| `Server` | one server process: the goroutine of `Start`, `main`, the handlers |
| `MC...` | instances for TLC: constants, symmetry |
| `...Proofs` | theorems and proofs about the module they extend; `ServerProofs` extends `Server`, `Startup` and `ConfigLoader`, `LeaderElectionProofs` also proves about `LockService` |

### 2.1 LockService

`holder` and `promised[c]`.  `TryAcquireLock` and `KeepAlive` renew a client's
promise only while it holds the lock or takes a free one; `Pass` lets one time unit
go by and may drop a lock nobody is promised; `ReleaseLock` and `GiveUp` end a
promise.  An answer that is lost leaves the old promise.  That is `Next`, the contract.

What the code does beyond it is in actions apart, the *deviations*: `LateAnswer` (a command decided on by an
earlier look at the lock answers a client that holds it no more), `LateDrop` (a delete decided on so removes a
lock that was granted since), `FallBack` (the holder's own request shortens its hold), `Mislead` (a client is told that
it holds the lock, and may not).  A promise that a deviation leaves without the lock is in `unbacked` until it is renewed
or runs out; `acting` are the clients for which a command is under way that was decided on by a look
(`Look`), so that `LateAnswer` and `LateDrop` are not open to others.  Nothing else may break a promise, and nothing hides
one: every answer the code gives is a promise.

Each store module has an `INSTANCE LockService WITH ...` and a property
`ImplementsLockService` that says: every step is one of `Next`, or of the deviations listed there.

| Store | Deviations | Where they come from |
|---|---|---|
| Redis | `LateAnswer`, `LateDrop` | EXPIRE and DEL after a GET, without a condition (redis_store.go:141, 165, 190) |
| DynamoDB | `LateDrop`, `FallBack` | DeleteItem without a condition (dynamodb_store.go:250); ExpiresAt computed before the request is sent (:209, :301) |
| ScyllaDB | `LateDrop`, `Mislead` | DELETE without a condition (scylladb_store.go:215); KeepAlive's answer (:242), and the read-back (:203) of an older or a stale row |

`PromiseKept` is the mutual exclusion callers rely on: a promised lock is held by the client it is promised to,
except for unbacked promises.  `LeaderElection` uses the contract without deviations, so what it shows holds over each
backend as long as the backend does not deviate.

### 2.2 The stores

All three have the same shape.  `Requests` are slots for handlers in progress, of
any server; a slot's record holds the next command to send (`step`), the client,
and what the lease it would grant is still worth (`credit`, counted from the call; in
DynamoDB the call's time).  `TryAcquireLock(r, c)`, `ReleaseLock(r, c)` and `KeepAlive(r, c)`
start a handler; one action per command follows.  Every command may fail without effect
(`CommandFails`, `RequestFails`, `QueryFails`; the handler returns), or take effect
and lose its reply.  In Redis and DynamoDB the client library may then send it
again (`reply = "resent"`: the step stays); gocql does not retry.  A process that
crashes between two commands is the same as `CommandFails` to the database and the client.

`promised[c]` is a history variable: what the last positive answer to `c` promised,
running down with time, and 0 once `c` asks for a release.  `Unbacked` are the clients whose promise the lock in the
database does not cover to its end.  A lock is one key: no operation touches two, so one lock is enough.

* **RedisStore.** `key` is the value and remaining TTL.  `left = 0` with an owner is a
  key without expiry (SET with expiration 0), which `resolveTTL` and `Validate` must
  prevent.  `SetNXWrites`/`SetNXFindsKey`, `AcquireGet`, `AcquireExpire`
  (`refreshLockIfOwned`, whose EXPIRE result is not looked at), `ReleaseGet`,
  `ReleaseDel`, `KeepAliveGet`, `KeepAliveExpire`.
* **DynamoDBStore.** The item does not expire by itself, so time is absolute: `clock` counts
  ticks, `TicksPerSecond` to a second; server `s` reads `clock + Skew[s]`; `Unix` cuts to
  seconds.  A handler's record keeps the clock reading it took before sending.
  Clocks run at the same speed, any number of ticks apart (`MaxSkew`; the slowest counts as the true time), and a tick may be
  as short as one likes.  The code compensates nothing for the difference, so a promise is worth its lease less the
  difference (`promised`), and to the contract the lock is free as soon as some server may take it as expired (`holder`);
  that the cutting to seconds costs nothing on top is what the properties show.
  `mayAcquire` is the condition expression of PutItem.  `readable` is the set of owners an
  eventually consistent GetItem may show; `Converge` lets the replicas catch up.
* **ScyllaDBStore.** `row` has a TTL that `Tick` runs down.  `Insert` is INSERT ... IF NOT
  EXISTS USING TTL; `verifyLockOwnership` the SELECT, over `ReadOwners`, which depends on the
  consistency level; `verifyLockOwnership` and `KeepAliveInsert` answer as
  the code does.  `applied` is a history field, whether the handler's own INSERT was applied: it guards no step and changes no
  answer, and only the property `LeaseSafety` looks at it, to tell the answers that an INSERT stands behind from those
  that none does (`AnswersOnNothing`).

**Commands that come too late.**  GET and DEL (EXPIRE, DELETE, DeleteItem) are separate, unconditional
commands, so a handler can act on a lock that expired, or changed hands, since it looked.  That is a
real defect of all three stores (`MCRedisClaims.cfg`).  No execution is left out because of it:
`LeaseSafety` is an action property, that a promise that was covered becomes uncovered only in the steps it lists --
in Redis by an EXPIRE on a key that is not its client's (expired, and then answered true by `TryAcquireLock`, or
another's) or by the DEL of a release that was asked for before the promise -- and it judges every execution to its end, after such a
step as before it.

### 2.3 GoClient

Fields `isLeader`, `leased` (`remainingLease` is not -1), `notifyStop`, and `mu`, which is
modelled as held only while somebody waits under it, that is by
`StopKeepAlive`; every other critical section is one step guarded by
`Locked` (`mu` free).  `TypeOK` ties the three together: whoever waits has the mutex, and the channel is closed
exactly then, so that nobody closes it twice.  `pc[t]` is where an application goroutine is; `loop[g]` where a
keep-alive goroutine is; `pending[k]` counts callback goroutines spawned and not yet run.
The server's answers are arbitrary.  `told`, `lastTold` and `silent` are history.
`LoopTicks` stays possible when the channel is closed: Go's `select` picks either ready case.
`MaxUntold` bounds the model: an application goroutine starts a call only while fewer
than `MaxUntold` callbacks are pending or lost.

### 2.4 PythonClient

The same client with other means.  `pc[c]` is where a thread or a worker is, both of which may be in
`keep_alive`; callbacks run in the caller (`OnLeaderElected`, `OnLeaderLost`), and `lock` is the
holder of `_lock` while it waits: in `on_leader_lost` called by `keep_alive`, and in a join.
`JoinEnds` is a join that returned or timed out; in the second case the worker is in `forgotten`.
`stopEvent` is the one event for all workers, ever.  `closed` is the channel: later calls raise `ValueError`,
which ends a worker without clearing `is_leader`.  `MaxSilent` bounds the
failed calls of `release_lock`.

### 2.5 RustClient

The methods take `&mut self`, so there is one call at a time (`app`), and no critical section reaches
over an await, so each is a step.  `running` is `keep_alive_state`; `task` the task whose channel and
handle the client keeps; `tc[t]` where a task is.  `StartKeepAlive(t)` spawns and keeps `t`; `TaskStarts(t)`,
the task's first step, sets `running`, so that a second start in between replaces the first
task's channel and handle.  `Told(t)` is when `rx.recv()` is ready: a stop was sent, or the sender is gone.
`StopReturns` is `handle.await`.  Callbacks are spawned (`electing`, `losing`) and run when they like.
`MaxPending` and `MaxSilent` bound the callbacks not yet run and the losses not announced.

### 2.6 LeaderElection

Each `Clients` is a process of `example/main.go` with a `client.go` client: `TryAcquireLock` at the start and at
every status tick while it does not lead, `StartKeepAlive` when it is elected (refused when `started`: the
channel is never reset), the ticker of `max(TTL/3, 3 s)` with its channel of one (`since`, `due`), the RPC with its
5 s timeout (`age`), the signal handler's release.  An RPC reaches the server at any moment of its call
and its reply may be lost (`AcquireAtServer`, `KeepAliveAtServer` take a step of `LockService`, or answer
no); one that its caller gave up may still arrive (`LateKeepAlive`).  `Tick` passes a time unit; it waits for
a keep-alive that is due and for one that has timed out.  An acquisition has no deadline (client.go:132): its answer may
come when the lease is long over.  Each client has its own TTL, any positive number, as `NewQuorumQuestClient` asks for no more.

`unheld`, `lease` and `renewed` are history: for how long a client whose keep-alive goroutine runs has led without
the lock, and what was left of its lease when the goroutine was started.

### 2.7 ConfigLoader

(`Startup` and this module name their `Init`, `Next`, `Spec` and `TypeOK` with a prefix, so that `ServerProofs` can
extend both and `Server`; `mainAt` is where `main` is.)  `main` detects (`DetectBackendType`), finds and reads the file in two steps (`FindFile`, `ReadFile`), sets up the
watcher, and serves with what it has then (`served`).  `loop` is `watchConfig`: `TakeEvent`, `handleFileModification`,
`notifyWatchers`.  The operator saves in place -- truncate, then write: `BeginSave`, `EndSave` -- or replaces
and removes files (`Replace`); `events` is the watcher's queue, in which the kernel merges equal neighbours.
A file is `none`, `empty`, `garbled`, a `directory`, or YAML with a backend type and a TTL, the field that defaults, validation and
overrides treat differently.  `Cut` is reflect's `SetInt`, in `w` bits.  fsnotify and the file system are external.

### 2.8 Startup

`pc[s]` walks through `main`'s switch and the constructor of the configured backend: `NewStore`; `Ping`;
`DescribeTable`, `CreateTable`, `waitForTableActive`; `createSession`, `ensureKeyspaceExists`, `ensureTableExists`.
`table`, `keyspaces` and `tables` are shared.  Requests fail (`RequestFails`, `DescribeTableFails`) or are sent
again after their effect (`CreateTableResent`), processes are killed and started again, until it is `calm`.
`Hyphenated` and `Folded` are what an unquoted name becomes in CQL.  `unlucky` holds the servers
whose current start met a failure, or a table in creation.

### 2.9 Server

`starter` walks through `Start` and `serve`, `main` through signal handling and `Stop`.  The
fields `server` and `store` are written and read without a lock, and each access is a
step of its own.  After `Stop`, `main` runs what it has deferred: the last export of traces and metrics (`Cleanup`), the loader's `Close`
(`CloseLoader`), `cancel`.  `Exit` is `log.Fatalf`, a panic, or the return of `main`.  The three backend branches
of `main` do the same and are one.  `StartFails` covers errors of the environment (port
taken, database unreachable) and the error `Serve` returns when the gRPC server was stopped first.

## 3. Runs

Passing runs:

| Run (cfg) | Checks | Bounds and what they include |
|---|---|---|
| `redis_store` (`MCRedisStore`) | `TypeOK`, `LeaseSafety`, `ImplementsLockService`, `DeadHolderFrees` | 2 clients with TTLs 2 and (server default) 3, 2 handlers in progress, unbounded executions |
| `dynamodb_store` (`MCDynamoDBStore`) | `TypeOK`, `LeaseSafety`, `ImplementsLockService` | 2 clients with TTLs 1 s and 2 s, 2 ticks a second, 2 servers a second apart, 2 handlers, clock up to 4 |
| `scylladb_store` (`MCScyllaDBStore`) | `TypeOK`, `LeaseSafety`, `ImplementsLockService`, `DeadHolderFrees` | 2 clients with TTLs 2 and 3, 2 handlers, CONSISTENCY_ONE, unbounded executions |
| `go_client` (`MCGoClient`) | `TypeOK`, `CallbacksBalance`, `LoopsMatchStop` | 2 application goroutines, 2 keep-alive goroutines, 3 untold callbacks |
| `python_client` (`MCPythonClient`) | `TypeOK`, `CallbacksBalance`, `WorkersAccounted`, `StopKeepAliveReturns`, `StoppedWorkersEnd` | 2 application threads, 2 workers, 1 unannounced loss |
| `rust_client` (`MCRustClient`) | `TypeOK`, `CallbacksBalance`, `RefusedOnlyWhileRunning`, `DetachedTaskEnds`, `StopKeepAliveReturns` | 3 tasks, 2 callbacks pending, 1 unannounced loss |
| `leader_election` (`MCLeaderElection`) | `TypeOK`, `KeptLeaderHolds`, `CutOffLeaderResigns` | 2 applications with TTLs of 12 s and 4 s, least interval 3 s, keep-alive timeout 5 s, acquisitions of any length |
| `config_loader` (`MCConfigLoader`) | `LoaderTypeOK`, `LastSaveWins`, `DetectedFileServed`, `TTLInForce`, `ShutdownEndsLoop` | 2 candidates and another file, 3 values of `-config`, 3 environments, TTL field of 4 bits, 2 changes of the files |
| `startup` (`MCStartup`) | `StartupTypeOK`, `ServesOnTable`, `RaceLeavesOne`, `AllServeInTheEnd` | 2 servers, each with any of 9 configurations; any number of failures and restarts |
| `server_life` (`MCServer`) | `TypeOK`, `HandlersHaveStore`, `SignalEnds` | 3 RPCs in progress |

Time is relative in Redis and ScyllaDB (all durations run down), so these state spaces are
finite without a bound on time.  Two clients are the smallest number with a
competitor; two handlers allow every order of two requests of one client or of two.
`MCRedisStoreThree.cfg` and `MCScyllaDBStoreThree.cfg` (at QUORUM) check the same safety properties with three handlers
(721,481 and 1,419,102 states); the proofs need no bound.
Different TTLs let a request renew with a shorter lease than one in progress.  In
DynamoDB, 4 ticks cover a lease of each client, its expiry and a take-over by the fast server, and one by the slow
server; the slowest clock counts as true time and the other is two ticks, a second, ahead.  Two ticks a second make truncation
visible.  DynamoDB's clock bound does not stop the model: handlers continue.  Two identities
for keep-alive goroutines let one outlive the other if the code allowed it; in Rust it does, and three tasks let
two be detached.  The election has the durations of the code, in seconds: 12 s outlast two slow keep-alives, 4 s not
even one.  Two changes of the configuration files allow a save during a reload, or after a removal; in 4 bits the environment's 16 is the 0 that 2^32 is in 32.
Two servers race for a table; each is any of the three backends, with good and bad TTLs and names.
Deadlock checking is off where the system does stop: `Server` ends, `ConfigLoader` shuts down, servers of `Startup` fail or
serve, and the Go client really does deadlock (below).  `SYMMETRY` on handlers' slots and goroutines is used only in
runs whose properties need no fairness.

What they show.  *LeaseSafety*: promises count from the call, so they expire no later than
the key does, whichever reply arrives; a failed, lost or resent command never leaves a client
promised what it does not have; KeepAlive's check of EXPIRE's result (which the acquire path
lacks) is needed.  In DynamoDB `ExpiresAt < :now`, a strict comparison of seconds cut from
different clocks, costs a promise no more than the clocks differ by, and `<=` does.  In ScyllaDB an answer
the handler's own INSERT stands behind is kept even if reads ask one replica; the others are not.
*ImplementsLockService*: the deviations of section 2.1 are all there are.
*DeadHolderFrees*: no key and no row is ever written without a TTL, so a client that sends nothing more loses its lock.
*CallbacksBalance*: whatever the races of
TryAcquireLock, ReleaseLock and the keep-alive goroutine, a loss is announced at most once and
missed only by a failed ReleaseLock; the same in the Python and Rust clients.
*LoopsMatchStop*: at most one keep-alive goroutine, none after a stop.
*WorkersAccounted*: in Python a second worker runs
only after a join has timed out; *StopKeepAliveReturns* and *StoppedWorkersEnd*: the timeout is what keeps
`stop_keep_alive`, which waits under the lock the worker may need, from the deadlock of the Go client, and a
forgotten worker still ends unless `start_keep_alive` clears its event first.
In Rust *DetachedTaskEnds* and *RefusedOnlyWhileRunning*: a replaced task ends by its closed channel, and the state flag,
written by tasks in any order, never refuses a client without a task.
*KeptLeaderHolds*: a leader whose keep-alive goroutine runs holds the lock, or has gone on without it for no longer than
`Overstay`: the longer of refresh interval and keep-alive timeout, plus a keep-alive timeout, less the TTL, once
its lease was renewed; interval plus timeout, less what was left of the lease when it was answered, before that.  With a
TTL of 15 s that is never, if the acquisition took less than 5 s; with a TTL of 4 s, up to 6 s after a renewal, and 8 s
after a slow acquisition.  The bound is exact: with
one second less TLC finds a violation.
*LastSaveWins*: events merged, events of a truncated file, and saves during a reload do not lose the last save.
*TTLInForce*: what the environment says is in force, whatever validation thinks of it.
*ServesOnTable*, *RaceLeavesOne*, *AllServeInTheEnd*: losing the race for the table ends a start-up with an error, but not
all of them, and started again they all come to serve.  (A server that met a failed request or a table in creation is
left out of the first: `MCStartupClaims.cfg`.)
*HandlersHaveStore*: GracefulStop before Close and the order of `Start` suffice although the fields have no lock.

Runs that show where the code does not do what its comments and documents say, each with a
finding in `PROJECT.json`:

| Run (cfg) | What happens |
|---|---|
| `scylladb_keepalive_answers_owner` (`MCScyllaDBKeepAliveAnswersOwner`) | KeepAlive answers anybody with a full lease (scylladb_store.go:232) |
| `go_stop_keepalive_returns` (`MCGoStopKeepAliveReturns`) | StopKeepAlive waits under the mutex for a goroutine that needs it (client.go:317) |

Further disagreements.  TLC shows each with the cfg and property named; where a cfg holds several, one at a
time, by moving the comment signs in it:

| cfg | Property | What happens |
|---|---|---|
| `MCRedisClaims` | `ReleaseDeletesOwn` | DEL removes another client's key acquired after the GET (redis_store.go:165); DynamoDB's DeleteItem (dynamodb_store.go:250) and ScyllaDB's DELETE (scylladb_store.go:215) have no condition either |
| | `KeepAliveRefreshesOwn` | EXPIRE extends another client's key, and the old holder is told it holds the lock (redis_store.go:190) |
| | `TrueMeansAcquired` | EXPIRE finds no key; TryAcquireLock answers true (:141) |
| `MCDynamoDBClaims` | `ReleaseFindsOwn` | GetItem without ConsistentRead: the owner's release does nothing (dynamodb_store.go:264) |
| | `KeepAliveExtends` | a delayed UpdateItem moves ExpiresAt back (:301) |
| | `LeaseInFull` | a server whose clock is ahead takes the lock over before the lease its owner was told of is over (:209, :225) |
| `MCScyllaDBKeepAliveResetsTTL` | | KeepAlive does not reset the owner's TTL (scylladb_store.go:232) |
| `MCScyllaDBTrueMeansAcquired` | | CONSISTENCY_ONE: the read-back is stale (:194) |
| `MCGoClaims` | `RefusedWhileRunning` | after the goroutine gave up, StartKeepAlive is refused (client.go:246) |
| | `LossIsAnnounced` | a ReleaseLock that fails loses the announcement (:179) |
| | `LastCallbackTells` | callbacks overtake each other (:151) |
| | `LeaseOfLeader` | a late keep-alive answer sets a lease without leadership (:220) |
| `MCPythonClaims` | `OneWorker` | `start_keep_alive` after a join timed out calls off the stop of the forgotten worker: two workers run (client.py:268) |
| | `LeaseOfLeader` | the same as in Go (:211) |
| `MCRustOneTask` | `OneTask` | a second `start_keep_alive` before the task ran is accepted: two tasks run (lib.rs:238) |
| `MCElectionOneLeader` | `AtMostOneLeader` | an application leads after its lease is over, because its TTL is short, its acquisition took long (client.go:132), or, elected again after its goroutine gave up, it leads without keep-alive (example/main.go:170, client.go:246); another one is elected too |
| `MCConfigClaims` | `HotReload` | the server and the store keep the configuration of the start (watcher.go:58; README.md:28 promises hot-reload) |
| | `RenameIsCaught` | a file renamed into place is not loaded: only writes are looked at (config.go:21 promises it) |
| | `ReloadsWhatWasSaved` | a reload comes upon a truncated file and puts the defaults in force (watcher.go:61) |
| `MCStartupClaims` | `SessionInitialized` | a keyspace name with a hyphen, as the default one, cannot be created, and the error is ignored (scylladb_store.go:117) |
| | `TTLsAreValid` | a TTL of 0 from the environment reaches the ScyllaDB store, whose `New` does not validate (scylladbconfig.go:44) |
| | `TableEnsured` | a table that another server is creating counts as there (dynamodb_store.go:138) |
| `MCServerGracefulShutdown` | `GracefulShutdown` | a signal during start-up: nil pointer, or exit with an error (server.go:116) |

`OnLeaderElected(false)`, which the clients' documentation promises on a failed election, is in a
branch of `TryAcquireLock` that is never taken (client.go:155, and in the Rust client).

## 4. Fairness

* Redis: `WF(Tick)` (time passes) and weak fairness of each handler's progress: a
  command is answered or fails, and go-redis gives up after `MaxRetries`, so it is not resent forever.
* ScyllaDB: `WF(Tick)` only; a row ends by its TTL, whatever clients and servers do.
* Go client: every RPC is answered or fails (keep-alive calls have a 5 s timeout, calls of the
  application its context), a goroutine that can run does, and one
  that keeps finding its channel closed takes that case in the end (strong fairness of
  `LoopStops`: Go's `select` chooses uniformly among ready cases).  The application need not call anything.
* Python client: as for Go, with weak fairness of the application's threads; a callback returns, a join ends after 5 s,
  and a worker for which the lock is free again and again gets it (strong fairness).  The stub's calls have no deadline;
  they end because the channel's keepalive pings or the server's `MaxConnectionAge` break the connection.
* Rust client: every RPC is answered or fails, spawned tasks run, and a task that is told to stop again and
  again stops (strong fairness of `TaskStopped`: `select!` starts at a random branch).  The application calls when it likes.
* Election: time passes, and a keep-alive ends, by its timeout at the latest, before time passes that deadline.  Nothing
  is assumed of acquisitions, and nothing of status ticks or releases.
* Configuration: the process's goroutines run, a save that was begun is finished, and the process is shut down some day.
* Start-up: starts go on, an ended process is started again, as a supervisor does, and DynamoDB's table gets
  ready.  The supervisor is an assumption about the deployment: the repository has none for the service.  `calm` is
  not forced: *AllServeInTheEnd* speaks of executions in which trouble stops.
* Server: `main` runs, and handlers end: `MaxConnectionAge` and its grace close a connection
  after 40 s, which cancels the contexts handed to the store.  The last export of traces and metrics ends, if only by
  its timeout.

## 5. Proofs

All theorems hold for every value of the constants that meets the module's `ASSUME`:
any set of clients, handlers, servers, goroutines, any TTLs.  The assumptions are that `NoClient`
(`NoOne`) is no client, that a configured TTL is not negative (Redis) or is positive, as `Validate` wants
(DynamoDB, ScyllaDB), that servers' clocks run at one speed, any number of ticks apart (`MaxSkew`), and that the election's
TTLs and refresh interval are positive.  `Startup` assumes that the TTLs it is configured with are
integers, good or bad, and that Redis' default TTL is positive; `ConfigLoader` that the candidates are a
sequence of file names, a TTL of the environment is an integer (of any size), the TTLs in
files fit the field, whose width is any positive number, and the default TTL is a positive one of them.

| Theorem | Statement | Argument |
|---|---|---|
| `RedisStoreProofs!TypeCorrect` | `Spec => []TypeOK` | `TypeOK` is inductive; it bounds each promise and each handler's credit by its client's TTL |
| `RedisStoreProofs!LeaseSafe` | `Spec => LeaseSafety` | one lemma per kind of step, under `TypeOK`: SET NX and an EXPIRE on the client's own key leave it with the full TTL, which by `TypeOK` covers the new promise and every older one (`SetBacked`, `ExpireOwn`); key and promises run down together (`TickUnbacks`); so only the listed steps are left |
| `RedisStoreProofs!StoreImplements` | `Spec => ImplementsLockService` | step simulation over every step: writes map to TryAcquireLock, EXPIRE to TryAcquireLock, KeepAlive or LateAnswer, DEL to ReleaseLock or LateDrop, expiry to Pass -- which may drop the lock because every promise it would break is in `Unbacked` already; `HandlerActs` for who may act late |
| `RedisStoreProofs!NoKeyIsForever` | `Spec => []KeysExpire` | inductive with `TypeOK`: the key is never without a TTL, even when an EXPIRE hits another client's, and never has more than the longest of the clients' TTLs |
| `DynamoDBStoreProofs!TypeCorrect` | `Spec => []TypeOK` | inductive; records that a handler's clock reading is its call time plus some server's skew |
| `DynamoDBStoreProofs!LeaseSafe` | `Spec => LeaseSafety` | rounding down to seconds is monotone, so a clock reading that finds the item expired, read at any earlier time on any server, is past every promise less `MaxSkew` (`ExpiredIsDead`, `RenewOthers`); a client's own write covers its newest promise unless it shortens (`RenewOwn`) |
| `DynamoDBStoreProofs!StoreImplements` | `Spec => ImplementsLockService` | to the contract nobody holds an item that some server may take as expired. `BackedIsHeld`: a backed promise keeps the item from that, so it expires, or is taken over, only when no backed promise is left; `Bounded`: nobody is promised more than its lease from now; `RenewServes`: a write is a grant, or a FallBack if it shortens the holder's own hold, or nothing if what it writes is expired already; `DeleteServes` |
| `DynamoDBStoreProofs!NoItemIsForever` | `Spec => []ItemsExpire` | inductive with `TypeOK`: a handler's reading is at most `MaxSkew` ahead of the clock, and only gets older |
| `ScyllaDBStoreProofs!TypeCorrect` | `Spec => []TypeOK` | inductive |
| `ScyllaDBStoreProofs!LeaseSafe` | `Spec => LeaseSafety` | between its INSERT and its SELECT a handler carries the promise it will make. `CreditCovered` -- whenever the client of an applied INSERT owns the row, the row's TTL covers the handler's credit, whichever of the client's INSERTs wrote it -- is inductive, at every consistency level, and covers the answer when it is given |
| `ScyllaDBStoreProofs!StoreImplements` | `Spec => ImplementsLockService` | step simulation over every step, at every consistency level: applied INSERTs map to TryAcquireLock, the answers of KeepAlive to it or to Mislead, read-backs that show the client to Mislead, DELETE to ReleaseLock or LateDrop, the end of a row to Pass |
| `ScyllaDBStoreProofs!NoRowIsForever` | `Spec => []RowsExpire` | inductive with `TypeOK`, at every consistency level |
| `ScyllaDBStoreProofs!NoLeaseIsExtended` | `Spec => NothingExtends` | `RowOnlyAges`: each step leaves the row, removes it, writes a free one, or lets it age; that is against what the comments at scylladb_store.go:224 and :231 say of KeepAlive |
| `GoClientProofs!TypeCorrect` | `Spec => []TypeOK` | inductive, the relation of mutex, channel and waiting goroutine included |
| `GoClientProofs!OneLoop` | `Spec => []LoopsMatchStop` | inductive with `TypeOK` |
| `GoClientProofs!CallbacksAddUp` | `Spec => []CallbacksBalance` | inductive with `TypeOK`; lemmas on how moving one goroutine changes the cardinality of a set of goroutines |
| `PythonClientProofs!TypeCorrect` | `Spec => []TypeOK` | inductive |
| `PythonClientProofs!WorkersKnown` | `Spec => []WorkersAccounted` | inductive with `TypeOK`; a step of a thread changes no worker, a worker's step only takes it out of both sides |
| `PythonClientProofs!CallbacksAddUp` | `Spec => []CallbacksBalance` | inductive with `TypeOK`; a quiet step changes neither count, a loss moves the leadership into the second |
| `RustClientProofs!TypeCorrect` | `Spec => []TypeOK` | inductive; a leader has a lease |
| `RustClientProofs!CallbacksAddUp` | `Spec => []CallbacksBalance` | inductive with `TypeOK`; each action moves as much on one side as on the other |
| `RustClientProofs!NeverStuckRunning` | `Spec => []RefusedOnlyWhileRunning` | inductive with `TypeOK`: whichever task ends clears the flag, and whichever starts is alive when it sets it |
| `LeaderElectionProofs!TypeCorrect` | `Spec => []TypeOK` | inductive |
| `LeaderElectionProofs!LeaderHoldsLock` | `Spec => []KeptLeaderHolds` | `KeptLeaderHolds` says nothing of what is to come.  The inductive invariant (`IInv`) bounds, for each state of a leader's keep-alive goroutine, how long it has to go if no keep-alive renews the lease any more (`ToGo`): between RPCs the time to the next tick and an RPC, in an RPC the rest of its timeout, in one answered yes another wait and another RPC.  `InTime`: with the lock, that is within what is left of the lease and `Overstay`; without it, what the leader has gone on and has to go is within `Overstay` |
| `LeaderElectionProofs!ContractKeepsPromises` | `AnyService!LooseSpec => []AnyService!PromiseKept` | `AnyService` is `LockService` with leases of any length; `LooseSpec` has every deviation.  Inductive: a deviation that takes the lock from a promise puts its client into `unbacked` (`DeviationKeepsPromises`) |
| `ServerProofs!TypeCorrect` | `Spec => []TypeOK` | inductive |
| `ServerProofs!HandlersFindStore` | `Spec => []HandlersHaveStore` | strengthened by: while the gRPC server serves or drains, the store is open; and main has not reached `closeStore` while a handler runs |
| `ServerProofs!StartupTypeCorrect` | `StartupSpec => []StartupTypeOK` | inductive with the other conjuncts of `StartupIInv` |
| `ServerProofs!ServersServeOnTable` | `StartupSpec => []ServesOnTable` | nothing removes a table or keyspace, and `KeyspaceReady`: a ScyllaDB server none of whose statements failed has its keyspace when it creates its table |
| `ServerProofs!RaceLeavesAServer` | `StartupSpec => []RaceLeavesOne` | `RaceDecided`: while there is no table nobody has lost, and whoever creates it goes on to wait and serve |
| `ServerProofs!LoaderTypeCorrect` | `LoaderSpec => []LoaderTypeOK` | inductive with `InStep`, which relates `main`, the watcher and the operator; `Cut` stays within the field for every integer |
| `ServerProofs!TTLsInForce` | `LoaderSpec => []TTLInForce` | inductive with the types: every path to a configuration goes through the same overrides after validation |
| `ServerProofs!DetectionAndLoadingAgree` | `LoaderSpec => []DetectedFileServed` | `Untouched`: as long as nobody has changed a file, the file found is the one detected; lemmas on what the first matching candidate of a sequence is |
| `ServerProofs!LastSaveInForce` | `LoaderSpec => []LastSaveWins` | `SaveOnItsWay`: the event of the last save is last in the queue, or being handled with the file as it now is, or handled -- merging equal neighbours keeps the last event; `WatcherTold` for what the watchers were told |

Only model-checked is liveness: `DeadHolderFrees`, `StopKeepAliveReturns`, `StoppedWorkersEnd`, `DetachedTaskEnds`,
`CutOffLeaderResigns`, `ShutdownEndsLoop`, `AllServeInTheEnd`, `SignalEnds`.  TLAPS does
not reason about fairness and ENABLED.  `NoKeyIsForever`, `NoRowIsForever`, `NoLeaseIsExtended` and `NoItemIsForever` are
the safety half of a dead holder's release: they bound from above when its lock ends.  Every safety property of
the passing runs is proved.

## 6. Not modelled

Names and formats of keys (two service/domain pairs may collide in Redis and DynamoDB),
real durations of tickers and timeouts outside `LeaderElection`, logging and metrics, authentication, the
replicas behind a lightweight transaction (gocql's and Paxos' guarantees are assumed), clocks that drift or jump, callbacks that call
the client again (in Python a worker that joins itself, in Go a goroutine that waits for itself).
Of the configuration: the fields other than backend type and TTL (`RedisConfig` has JSON tags only, so that the YAML key
`key_prefix` is ignored, whatever the interleaving); `NewConfigLoader`, `RedisConfigLoader` and `resolveConfigFilePath`,
which only tests call; watchers that call the loader (none is registered outside tests).  Of the registry: the map
and its lock, written by `init` functions before anything else runs.  The Python and Rust examples do what the Go
example does with fewer steps.  Generated code and mocks hold no state of the service.  A negative configured TTL (Redis) and a
zero TTL from an environment override (ScyllaDB) are outside the stores' assumptions; `ConfigLoader` and
`Startup` show which of them arrive.

## 7. Plan

Done: the contract, the three stores and their refinements, the three clients, the election, configuration,
start-up, the server, and the proofs of section 5.  What is left:

1. Callbacks that call the client, as a caller of their own in `GoClient` and `PythonClient`.
2. `LeaderElection` over a store with its deviations: for how long two applications lead when a release deletes
   another client's lock.
3. Clocks that drift: `Skew` as a variable of `DynamoDBStore` that stays within `MaxSkew`.
