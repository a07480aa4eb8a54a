# A TLA+ verification of gin-core

gin-core is a Go web service skeleton (Gin, GORM over PostgreSQL with read
replicas, Redis, RabbitMQ, Asynq). Most of its code is request handling; what
is hard about it sits in a few packages in which goroutines, instances, Redis,
the database and the broker interleave. This directory holds TLA+ models of
those packages, configurations that check them with TLC, and proofs checked by
TLAPS. All paths below are relative to `src/`.

- [Inventory](#inventory)
- [Modules](#modules)
- [Runs](#runs)
- [Fairness](#fairness)
- [Proofs](#proofs)
- [Findings](#findings)
- [Plan](#plan)
- [What is not modelled](#what-is-not-modelled)

## Inventory

An HTTP request goes through the middleware (`internal/middleware`) to a handler
(`internal/handler`), which calls one service method. `UserService.UpdateProfile`
is where most parts meet: one database transaction updates the row and inserts
an outbox event; after the commit the profile's cache entry is deleted and the
event is published on the in-process bus, whose handlers run in the worker
pool and write the audit log. In the background, each instance polls the outbox
or has the scheduler do so under a distributed lock, and publishes to RabbitMQ.

| part | state | operations | correct when |
|---|---|---|---|
| Transactional outbox (`internal/event/outbox_dispatcher.go`, `internal/repository/outbox_repository.go`, `internal/model/outbox_event.go`) | table `outbox_events` (status, attempts, next_attempt_at, locked_at); per instance a loop, a batch in memory, a context | `Create`, `AcquirePending`, `MarkPublished`, `MarkFailed`, `DispatchOnce`, `Start`, `Shutdown` | every recorded event is settled; "published" means it was sent, "dead" that max_attempts publishes failed; one dispatcher at a time; what is settled stays so |
| Message queue publisher (`pkg/mq`) | one connection, one channel, a mutex | `Publish`, `Close` | nil means delivered; errors are reported |
| Distributed lock (`pkg/cache/distributed_lock.go`) | a Redis key with ttl, a token, a watchdog goroutine | `Acquire`, `Release`, `WithLock`, `WithLockAndWatchdog` | one holder; nobody deletes another's key; no key for ever |
| Scheduler (`internal/scheduler`) | asynq server and scheduler | enqueue every N seconds, `handleOutboxDispatch` | one task at a time over all instances |
| Read-through cache (`pkg/cache/read_through.go`) | a Redis entry per key with ttl, a singleflight group per process | `GetOrLoadJSON`, `Delete`, `DeleteWithDoubleDelete` | one load per miss and instance; bounded staleness; nobody waits for ever |
| User service (`internal/service/user_service.go`) | row, cache entry, outbox | `GetProfile`, `UpdateProfile`, ... | cache, row, event and audit agree |
| Worker pool (`internal/worker/pool.go`) | channel, `closed`, RWMutex, WaitGroup | `Submit`, `Shutdown` | accepted jobs run once; no send on a closed channel; no deadlock |
| Event bus (`internal/event/bus.go`) | handlers per topic, RWMutex | `Subscribe`, `Publish` | nil means all handlers have the message |
| Application lifecycle (`cmd/server/main.go`, `internal/app`, `internal/wire_gen.go`) | what is running, what is open | start, signal, staged shutdown, cleanups in reverse order | nothing is used after it is closed; every stage gets its time |
| JWT manager and token store (`pkg/jwt`, `internal/middleware/auth.go`) | keys by kid on each instance; in Redis a blacklist entry per access token and two entries per refresh token, all with a ttl | generate, authenticate, validate, blacklist, revoke; rotation by restarts | a token that was handed out is accepted by every instance; a revoked one stays refused |
| Rate limiter (`pkg/cache/sliding_window.go`, `internal/middleware/ratelimit.go`) | a sorted set per client, scored by the instances' clocks | `Check` | at most `limit` calls per window over all instances; nobody is turned away without cause |
| Database access (`internal/repository`) | primary and replicas | transactions, reads | a read that needs the last commit goes to the primary |
| File storage (`pkg/storage`) | files, objects | `Upload`, `Download`, `Delete`, `SignedURL` | a file is one upload's, and all of it |
| Migrations (`internal/migration`, `cmd/migrate`, start of `cmd/server`) | version table, advisory lock, the schema itself | `Up`, `Down`, `Steps`, `Version` | a clean version is the schema; nobody serves on an older one; all servers come up |
| Configuration (`pkg/config`) | none after loading | `Load`, `LoadForMigration`, the validators | what the rest assumes is validated |
| HTTP layer, authorisation, observability, audit, i18n | none of their own | | |

The hard behaviours: two dispatchers and the database's row locks; an update
that is not fenced by its lease; a process that dies between publishing and
recording it; a lease outrun by its holder; Redis requests that arrive late; a
cache filled with a value older than the delete it races; a lock held while
waiting for room in a channel; the shutdown; clocks that differ between
instances; secrets rotated one instance at a time; a roll-out whose servers all
migrate the same database. `PROJECT.json` lists them as
hazards, each with its line and the properties that watch it.

## Modules

### Outbox.tla

The table, `Dispatchers` (one `DispatchOnce` at a time each) and the channel
each of them publishes on. `EventDelivery.tla` is what the outbox promises, with
no table and no dispatcher in it; `Outbox` implements it under the mapping at
its end.

| code | model |
|---|---|
| row columns | `status`, `attempts`, `waiting` (next_attempt_at in the future), `leased` (locked_at not stale) |
| where `DispatchOnce` is | `pc`; `rowLocks` is the open transaction, `batch` and `seen` the events read with their attempts |
| `AcquirePending` | `Select`, then `AcquireCommit`, `AcquireRollback` or `AcquireUnseen` (committed, answer lost) |
| `dispatchEvent` | `PublishOk` / `PublishErr`, then `MarkPublished` / `MarkFailed` / `MarkLost` |
| `Shutdown`, `run`'s end, the scheduler's next task, a new process | `Stop`, `Exit`, `NextTask`, `Restart`; `Crash` |
| the AMQP channel | `open`, `ChannelClose`; a nil `Publish` may be lost (`Spend("loss")`) as there are no confirms |
| backoff and lease | `Elapse`, `LeaseExpire` |

The updates by id wait for row locks and for nothing else (`CanUpdate`), as in
the code: no `locked_by` and no status in their WHERE clause. `calls`, `failures`,
`losses`, `sent`, `delivered` are history, for the properties: the calls of Publish for
an event and those that failed, and the outcomes that may not have got into a row
(an update that failed, a dispatcher that was cancelled or died). Time is qualitative: a lease that
runs out in its holder's hands is the fault `"slow"`. Shipped values make that
possible: 50 events of up to 4 s (publish plus update) against 30 s.

### DistributedLock.tla

One Redis key with a ttl, `Clients`, their calls and the watchdog, in discrete
time. `Tick` is the only action that advances the clock, and it waits for every
bound the code sets: the task's timeout, the second granted to a renewal or a
release, the watchdog's ticker. A call is sent, served and answered in steps of
their own; one that was given up leaves its request in `late`, to be served at
any later time or never. `Watchdog` chooses `WithLockAndWatchdog`, which the
package offers, over `WithLock`, which the scheduler calls. `Linger` is how long
`DispatchOnce` goes on after its context is done. Tokens are uuids: `Fresh` picks
one that nobody has, which the finite set recycles.

`Mutex.tla` is what a lock promises, with no Redis, ttl or clock in it: it is taken by
one client when nobody has it, and given back. Under the mapping at the end of the
module, a client has the lock from the moment Redis granted it, before it knows, until
its fn returned or it died. This says more than `MutualExclusion`, which speaks of fn
alone: no second SETNX succeeds meanwhile.

### ProfileCache.tla

One profile: its row, a lagging replica, the Redis entry, one singleflight group
per instance, `Readers` in `GetOrLoadJSON` and `Writers` in `UpdateProfile`. Values
are row versions; version 0 is a user who does not exist and is cached as the
null envelope. A hit changes nothing, so it has no action; `Lookup` is a miss or
a Redis error, which the code treats alike. `deletes` says which delete the write
path uses: `Delete`, which `UpdateProfile` calls, or `DeleteWithDoubleDelete`, which
nothing in the program calls.
`Load` may read any version between the replica's and the primary's. `loads`
and `staleBy` are history.

### WorkerPool.tla

The channel, the goroutines, `Submit` and `Shutdown`, with Go's RWMutex: a writer
that waits keeps new readers out. `Callers` are clients outside the pool and the
workers themselves, as a task may submit. `Shutdown` is `CallShutdown`, `Lock`
(announced), `Close` (readers gone), `Drained` or `GiveUp`. `Executor.tla` is what
the pool promises; the pool implements it.

### EventBus.tla

Extends `WorkerPool`: `Publish` copies the handlers and submits one job for each,
in order, until one is refused. Its steps are the pool's steps, with the loop's
own state beside them. A job is the pair of the publisher and the handler. A
publisher is a client, such as `UpdateProfile`, or a worker: a handler may publish in
turn. The pool has no run of its own; the bus's run checks both.

### Startup.tla

Servers from the start of `main` to `ListenAndServe`, with or without
`migration.auto_run`, and runs of `cmd/migrate`, on one database. Each release embeds
its migrations, so it knows versions up to its own (`release`).

| code | model |
|---|---|
| `Migrator.open` | `EnsureVersionTable`, under the advisory lock for as long as that takes; failures are `Fault` |
| `Up`, `Down`, `Steps` | `Lock` or `LockTimesOut`; then, per migration, `Mark` (version, dirty), `Apply`, `Clear`; `Return` when there are no more (`ErrNoChange` is none), `Refuse` on a dirty schema or a version the release does not know |
| `main`'s panic, `log.Fatal` | `Exit`: a server will be started again, a run of the tool is over |
| a crash, a statement that times out | `Kill`: the lock goes with the session, the migration under way took effect or not |
| the roll-out | `Replace` stops a server wherever it is and gives it the newer release |

The steps of a migration are golang-migrate's and external; the order and the errors
are read off its use in `internal/migration/migrator.go`.

### Clocks.tla, Sessions.tla, RateLimiter.tla

`Clocks` is real time, which Redis keeps, and instances that are ahead of it by up
to `MaxSkew`. `Sessions` and `RateLimiter` extend it.

`Sessions` is one token pair: `Generate` signs it with the instance's first key,
`StoreNew` and `StoreLegacy` write the two Redis entries (each may fail, executed or
not), and only then is it handed out. A call of the manager is `Begin` (the token is
parsed, by this instance's clock and keys) and then its Redis command: `Check` for
`AuthenticateAccessToken` and `HasRefreshToken`, with its second look under the legacy
key, `Block` for `BlacklistToken`, `Revoke` for `DeleteRefreshToken`. `Plan` is the
sequence of configurations an operator deploys; `Rotate` restarts one instance with
the next one, none two configurations ahead of another. `PlanAssumption` asks for no
more than the repository's own test does (`pkg/jwt/jwt_test.go:142-193`): the secret
that was signed with so far goes into the next configuration as the previous one; and
`Rotate` does not drop a key before the tokens it signed have run out. From that
follows `AcceptedAfterRotation`: whoever has come as far in the rotation as the issuer
accepts its tokens. Whoever has not, refuses them, which `rotation` shows.
`AcceptedEverywhere` needs a plan with `KeysOverlap`: one configuration more, in which
the new secret is only a previous one. Nothing in the repository asks for that.

`RateLimiter` is one client's sorted set. `Ask` reads the clock, `RunScript` is the
script some time later, whose answer may be lost, in which case the Redis client
sends the same call again or the request passes (`DegradeOpen`).

### LocalStorage.tla

One key of the local driver. `Create` empties the file the path leads to, `Write`
appends at the writer's own offset, `Stored` ends an upload whose size is right, and
`Fail` and `Remove` one that is not: the deferred function removes whatever the path
leads to by then. A file outlives its path while it is open, so downloads go on.
`met` and `settled` are history. `met` has the uploads that overlapped and the
downloads that had an upload write under them: an upload that finds the path empties
the very file a download is reading, one that comes after a deletion makes a new file
and does not disturb it.

### Config.tla

`load` over viper's layers (defaults, file, environment), the secrets that may come
from the environment only, and every validator, as operators on a record of the
sections. The environment's secrets, the previous ones included, are set last
(`WithSecrets`), and are refused in a file (`RuntimeOnly`); viper does not hear an
environment variable that is empty (`Heard`). Of an address it is given whether
`net.SplitHostPort` takes it (`Addresses`). The second half says, constructor by constructor, what each part of the
program needs of the values it is given (a ticker's period is positive, a lock's ttl
is not zero, ...), and `LoadedIsUsable` relates the two.

### MCPackages.tla

Puts `Sessions`, `RateLimiter`, `LocalStorage` and `Config` into one run. They share
nothing but the clocks, so the module does not interleave them: `part` says which of
them moves, and the others stay in their initial state. It is a way to check four
small modules and not a model of their interaction, of which there is none.

### AppLifecycle.tla

One process from start to exit. It is the module that puts the parts together:
requests are accepted while main serves and may submit a job each to the pool,
which is taken as what it promises (`Pool == INSTANCE Executor`); the scheduler or
the outbox loop dispatches; the RBAC policy is reloaded. Then main leaves its
`select`, by a signal or by a panic, and the clock starts.

| code | model |
|---|---|
| `App.Start`, the `select` in `cmd/server/main.go` | `Serve`, `StartFails`, `Signal`, `ServerFails` |
| `App.Shutdown`: server, scheduler, outbox, pool | `HTTPReturns`, `SchedulerReturns`, `OutboxReturns`, `ClosePool`, `PoolReturns`; `ctxEnd` is the deadline of the context in force, `late` the stages that returned an error |
| `Pool.Shutdown`'s `mu.Lock` | `AskForLock` and `ClosePool`: main waits for the Submits that hold the lock, until `lockBy` at the latest, and looks at its context only afterwards |
| the cleanups `wire` chains in reverse (`internal/wire_gen.go`) | `CleanupOrder`, and one action per cleanup: `Close`, `StopReload`, `PoolAlreadyClosed` or `StopPool` with `DrainReturns`, `StopTracing` |
| `os.Exit(1)` after a shutdown that ran out of its whole budget | `AfterShutdown` |
| `Scheduler.Shutdown`'s goroutine | beside main: `asynq` is asked to stop, `StopServer` when its periodic scheduler has, then `Halted`, at the latest when asynq's eight seconds are over (`OutOfPatience`); external |

A panic in main runs the deferred cleanup and nothing else: the pool's cleanup is
then its first `Shutdown`, and it comes after the database was closed, so jobs
that were accepted run without it. `ReloadHasDatabase` is the one use of a closed
connection that the order of the cleanups excludes on every path. RBAC and its reloading
are enabled, as in all shipped configurations.

What main waits for, and what ends the wait:

| wait | ends |
|---|---|
| the stages, the drain of the pool's cleanup, the flush of the spans | when what they wait for has happened or their context is done |
| the pool's lock (`internal/worker/pool.go:81`) | when the Submits in progress are over, each within `submit_timeout_ms`; no context |
| `channel.Close` and `conn.Close` of the broker (`pkg/mq/rabbitmq.go:84-87`), and the `Close` of Redis and of the database | when the other side lets it; no context and no timeout |
| `StopAutoLoadPolicy` (`internal/dependency/authz.go:46-55`) while a policy is loaded | when the query returns; no timeout |

The last two rows are `Blocked`. A tick passes in them as in any other wait, and is
counted in `waited`, up to `MaxWait`; nothing makes them end. `ExitInTime` is a bound
plus `waited`, and `MainEnds` says that a process that is to end does, or is `Blocked` for
good. So a grace period has to allow for the budgets, one Submit's timeout, the spans'
timeout, and for what the code does not bound.

`MCAppLifecycle.tla` checks `Startup` and `AppLifecycle` in one run; as in `MCPackages`,
the initial state says which of the two moves.

## Runs

`tlc -config X.cfg M`. "Violation" runs check what a document or a comment says
against what the code does; see [Findings](#findings).

| run | cfg | bounds | shows |
|---|---|---|---|
| outbox_lease | Outbox_lease | 2 events, 2 dispatchers, 2 attempts, batch 2, 4 faults of 7 kinds | exclusive holding, the calls of Publish are bounded, attempts count by one, implements `EventDelivery` |
| outbox_slow | Outbox_slow | 2 events, 2 dispatchers, 2 attempts, batch 2, 3 faults of 8 kinds, outrun leases among them | what still holds then: published was sent, dead was exhausted, and every committed event is settled for good |
| outbox_channel | Outbox_channel | 1 event, 1 dispatcher, 1 fault | violation: one closed channel, and the event ends dead |
| lock_task | DistributedLock_task | 3 clients, 4 tokens, ttl 6, task 3+2 | `WithLock` implements `Mutex`; keys are lost to expiry only |
| lock_watchdog | DistributedLock_watchdog | 2 clients, 3 tokens, ttl 4, fn 6 | the watchdog excludes and protects over more than one lease; no key is held for ever |
| lock_default | DistributedLock_default | 2 clients, ttl = task timeout | violation: two tasks at a time |
| cache | ProfileCache | 2 readers, 2 writers, 2 instances, 3 versions, 1 fault of 3 kinds, both deletes | one load per miss, a stale entry has one of two causes, the double delete leaves none, the ttl bounds staleness, reads return |
| cache_readme | ProfileCache_readme | 2 readers, 1 writer, no faults | violation: stale at rest |
| bus | EventBus | 1 client and 2 workers, of which the client and one worker publish; 2 handlers, 2 Shutdowns, queue 1 | no send on a closed channel, implements `Executor`, Submit and Shutdown return although handlers hang; what Publish has reached when it returns, and that this is handled |
| packages | Packages | tokens: 2 instances, 2 requests, skew 1, time 5, ttls 3 and 4, 3 configurations; limiter: 3 calls, limit 1, window 3, delay 1; files: 2 uploads of 2 pieces, 1 download; configuration: 3 files, each with one more setting in it and one in the environment | accepted once rotated, usable, blocked, revoked; the rate's bound from both sides; torn files have a cause, uploads stay, downloads read whole files; what loads is usable |
| rotation | Rotation | the tokens of packages, alone | violation: an instance that was not yet restarted refuses a token that was handed out |
| lifecycle | AppLifecycle | exit: 2 requests, stages of 3 and 2 ticks in a budget of 4, a Submit's timeout and the cleanups of 1, one tick of unbounded waits; start: 3 servers, two of them migrating, 1 run of the tool, releases with migrations 1 and 3, 2 faults | whoever is cut off was reported, the policy is not loaded over a closed database, main exits in time and ends unless it is `Blocked`; a clean version is the schema, a migrating server never serves an older one, all come up with the newer release |

Type invariants, and the invariants the proofs are built on, are theorems and not
listed in the runs: what is proved for all values need not be checked for a few.

Why the bounds are enough. Two dispatchers are what every race of the outbox
needs; two events make a batch whose second event waits while the first is
handled; two attempts give a first failure, a retry and a last one; four faults
allow a crash, a lost update, a failure and a stop in one behaviour. The lock
needs two clients and a third that may take what the second lost; one token more
than clients keeps a late request of an earlier acquisition alive while all
clients have newer ones; a ttl of four is the least in which a renewal and its
retry fit. For the cache, two readers meet in one instance's flight or fill from two
instances, and two writers overlap a delete with the next commit, or both their
deletes; three versions let an entry be older than what the last writer replaced. A
queue of one with four jobs is full, empty, and has a waiting submitter; of two
workers, one may publish while the other has left. At the start, two migrating servers
race each other and the tool for the lock while a third does not care; two faults kill
a process in a migration and the one that takes over. Releases that are two
migrations apart let one die between them. Tokens need two instances, whose
clocks and configurations differ; a skew of one and ttls of three and four make
every order of issue, block and expiry on two clocks; three configurations are a whole
rotation, with the old secret alone, as the previous one, and gone. A limit of one needs a call that is let through, one that is turned away
and one that comes back. Two uploads overlap, or one follows the other's failure.
A configuration fails by a pair of settings of one section or by one section's switch
and another's value; three files switch on nothing, the queue, or the scheduler as well. In the lifecycle, each budget is at least
one tick, so that a stage can end in time and late, and the total is below the sum
of the stages, so that both sides of the minimum are taken; two requests let one
finish and one hang. `MaxFaults`, `MaxVersion` and `MaxWait` are the only counters capped, and `MaxTime` the only
clock; those of the lock and of the lifecycle are bounded by the code's own timeouts.

`CHECK_DEADLOCK FALSE` is set where the system really stops: all events settled
and no fault left, the profile written `MaxVersion` times, the pool shut down, the
process gone, all servers up, time or uploads used up, a configuration loaded. The lock's runs check deadlock: its clock must always be able to
advance, which shows that the bounds on waiting never contradict each other.

Symmetry is used in runs without liveness only.

## Fairness

- Outbox: `run` polls on a ticker until it is cancelled, and all its calls have
  timeouts, so `Work` of a dispatcher is weakly fair; a cancelled dispatcher exits,
  or is the scheduler's and gets a next task; a process that went down is started
  again, which is the deployment's promise and not the code's; clocks advance. No
  fault is fair.
- Lock: calls and fn return (`Progress`), the clock does not stop (strong, as a
  tick is disabled again and again by waits that end), and the goroutine's
  `select` does not for ever prefer the ticker to the stop channel (strong).
- Cache: a request that was begun is carried on, replication catches up, the ttl
  runs out. Nobody has to read or write.
- Bus and pool: goroutines are scheduled and timers fire. Handlers may hang, and
  Submit and Shutdown return nevertheless; `PublishedIsHandled` has that tasks end
  (`TasksEnd`) as its hypothesis.
- Startup: the library, the database and the rest of the start make progress. That a
  server which panicked is started again, and that the roll-out reaches all of
  them, is the orchestrator's promise and not the code's. Nobody has to run the tool.
- Lifecycle: main's own steps and the timers go on, and asynq's server stops once its
  patience is over. The cleanups are strongly fair: the one that stops the reloading
  hands its request over an unbuffered channel, between two loads, and the
  goroutine's `select` does not for ever prefer its ticker. Requests, jobs, tasks
  and dispatches may hang, and main ends nevertheless. The closing of a connection and
  a load of the policy may hang too, as no timeout ends them, and then main does not.

## Proofs

| module | theorem | for all values of the constants, if |
|---|---|---|
| Outbox_proofs | TypeCorrect, EvidenceHolds, PublishedWasSentHolds, DeadOnlyWhenExhaustedHolds | nothing more: all faults allowed |
| | PublishesBoundedHolds, ExclusiveHolderHolds, SettledIsFinalHolds, AttemptsCountUpHolds, OutboxImplementsDelivery | `"slow" \notin Faults`: no lease is outrun |
| | SentOnceHolds | `Steady`: none of `"mark"`, `"stop"`, `"crash"`, `"slow"` in `Faults` |
| DistributedLock_proofs | TypeCorrect, TokensUniqueHolds, LostToExpiryOnlyHolds | nothing more |
| | TaskLeaseHolds, TaskMutualExclusion, TaskImplementsMutex | `TaskFitsLease`: TaskTimeout + Linger < TTL, no watchdog |
| | WatchdogLeaseHolds, WatchdogMutualExclusion, WatchdogProtects, WatchdogImplementsMutex | `WatchdogInTime`: Latency + max(Interval, CallTimeout) + CallTimeout + Linger < TTL |
| EventBus_proofs | TypeCorrect, NoSendOnClosedHolds, DrainedMeansDoneHolds, PoolImplementsExecutor (of `WorkerPool`); BusInvariant, BusUsesPool, ReachedIsPrefixHolds | nothing more |
| AppLifecycle_proofs | TypeCorrect, CutOffIsReportedHolds, StagesAllRunHolds, ExitInTimeHolds, ReloadHasDatabaseHolds | nothing more: any budgets, zero included except for the total |
| Startup_proofs | StartupInvariant, CleanIsWholeHolds, ServesMigratedHolds | nothing more: any servers, tools and faults, two releases |
| | ConfigInvariant, LoadedIsUsableHolds (of `Config`) | `SettingsAssumption`: settings have keys that exist and one value each; `AmountsAssumption`: the numbers something is computed of fit 32 bits |
| ProfileCache_proofs | CacheInvariant, OneLoadPerMissHolds, StaleHasCauseHolds, DoubleDeleteConsistentHolds | nothing more |
| LocalStorage_proofs | StorageInvariant, TornHasCauseHolds, UploadStaysHolds, ReadsWholeHolds | nothing more: any callers, any number of pieces |
| Clocks_proofs | LimiterInvariant, BoundedRateHolds, RejectedWhenFullHolds (of `RateLimiter`) | `Calls` is finite |
| | SessionsInvariant, AcceptedAfterRotationHolds, RefreshUsableHolds, BlockedUntilExpiryHolds, RevokedForGoodHolds (of `Sessions`) | `PlanAssumption`: a secret that was signed with is kept in the next configuration |
| | AcceptedEverywhereHolds | `KeysOverlap`: also, each secret is known to all instances before one signs with it |

The arguments.

*Outbox.* `PublishedWasSent` and `DeadOnlyWhenExhausted` are not
inductive: nothing in them says where the number that `MarkFailed` writes comes
from. `Evidence` adds it. A row's `attempts` never exceeds the failed publishes, a
snapshot in a batch is backed by failures in the same way and below the limit,
a dispatcher about to mark a failure has one failure more than its snapshot
says, and one about to mark a success has sent the event. It survives a second
dispatcher with an older snapshot: overwriting with an older count only lowers
`attempts`. `Ownership` is the stronger invariant without outrun leases: rows in
a batch are publishing, leased, and unchanged since they were read. It gives
exclusivity, finality and, with `Evidence`, the refinement. `CallsCounted` adds, for
`PublishesBounded`, where each call of Publish has gone: into the row, on its way there,
or into `losses`. With outrun leases there is no such bound, as a dispatcher with an
older snapshot forgets what others counted since. `SentOnce`, that no event
is published again after a Publish of it returned nil, is not promised, and nothing
fences it: an update that fails, a stop between the Publish and the update, a crash
and an outrun lease each lead to a second Publish, as TLC finds with each of
them as the only fault. `SentOnceHolds` says that these are all: `SentIsMarked`, on top of
`Ownership`, has every event that was sent either published or with the one dispatcher
that is about to mark it so. Rollbacks, errors of Publish, closed channels and lost
messages repeat nothing.

*Lock.* `TokensUnique` makes the scripts safe against late requests: no
abandoned SETNX or release carries a token that a client has. (A late renewal may,
and does no harm.) `TaskLease` says that the key's remaining time plus the task's
age is at least the ttl; with `AgeBounds`, fn is over before the key is.
`WatchdogLease` does the same along the goroutine's states: each state bounds how
long ago the last served renewal was. The assumptions are conditions on the
configuration, and neither is what `validateScheduler` checks; `lock_default`
shows what happens when they fail. The refinement of `Mutex` is a step over the same
invariants: they give every holder the key under its own token, tokens are unique, so
there is one holder at most, and a SETNX that is granted found no key and so no holder.

*Pool.* `PoolInv` says that a job the pool took is in exactly one place (channel, a
worker's hands, finished), that a job in a submitter's hands is in none, and that
a worker leaves only a closed and empty channel. `DrainedMeansDone` and the
refinement follow. `Executor`'s `finished` is a set, so a job that ran twice would be a
stutter there: that it does not is the invariant's `OnePlace`.

*Lifecycle.* The properties speak of the time after the shutdown, so none of them is
inductive: `LifeInv` says what each stage leaves behind when main goes on to the
next (`HTTPLeft`, `SchedulerLeft`, `OutboxLeft`, `PoolLeft`, `ReloadLeft`), and
`InTime` gives, for each place of main, a bound on the context it waits on. The
scheduler's, the outbox's and the pool's stage share one context, whose end is
within both the total and the sum of the stage budgets, and no tick passes the end
of a context that main waits on. Type correctness needs `InTime` too: the rest of
the budget is never negative. With the shipped values the bound of `ExitInTime` is
min(30, 15 + 10) seconds, a Submit's timeout and the spans' 5 seconds, and then `waited`,
for which there is no bound: what the broker, Redis, the database and a load of the
policy took.

*Bus.* `BusUsesPool` shows that whatever the bus does to the pool is a call the pool's
model has, so `Spec` and with it `Executor` hold under `BusSpec`. `AtIndex` says that
whoever is in a `Submit` is a publisher with the job its loop is at, `NotBegun` that
a Publish that has not begun has nothing accepted, and `NoHandlerTwice` that the
jobs of one Publish differ; `ReachedIsPrefix` is inductive together with them.

*Startup.* `LockHeld` makes one process at a time the only one that touches the
schema. `InStep` says by its place in a migration how the schema differs from the
version: one migration to go while it runs, none once it ran, and dirty for both. So a
death in between leaves the version dirty. `ServersGoUp` bounds what a server still
has to do, so that the one that finds no more migrations has all of its release's, and
`NeverLowered` carries that to the time it serves.

*Cache.* `FlightIsLed` gives each instance one flight, and `LoadsInHand` says where the
load that counts is: with the reader that fills, or in the entry. `NothingNewer` and
`StaleHasCause` are inductive. For the double delete, `LastWriterPending`: as long as
anything older than the row is left, in the entry, in a reader's hands or on a replica,
the writer of the row's version has a delete to come. Its second delete waits until
what it overwrote is in nobody's hands, so it leaves nothing older behind.

*Limiter.* A reading differs from the time its script ran by the skew and the delay
(`AskedInTime`, `RanInTime`). So a call within the shortened window is still a member
(`CountedStay`), and there are no more than `Limit` members; and every member counted
against a call ran within the lengthened window.

*Sessions.* `KeysKept` says that instances run neighbouring configurations and that those
which run the issuer's or a later one know the token's key until it has run out; with
`KeysOverlap`, all do (`KeysShared`). `TimesKept` says that the token's own time is that
of its issue up to the skew. `StoredLongEnough` and `Blocked` compare the entries' ends
with the token's; `Gone` says that a revocation leaves neither entry and that
nothing writes them again, as only a pair nobody has seen is ever stored.

*Files.* None of the three properties is inductive: they speak of what is left when
everybody is through. `CopiesAlone` says what is true while they are not: an upload that
met nobody is the only one that runs, the path leads to its file or nowhere, and the
file is exactly the pieces up to its offset. So if it completes the file is whole, and
if it fails what it removes is its own. `TornOrWritten` is `TornHasCause` for a file
that may still be written. `SettledInPeace` and `ReadsInPeace` say that nobody writes while
a settled upload is the key's content or an undisturbed download reads; a deletion
takes the path and leaves the file to who has it open, and what is uploaded after it is
another file. Overlapping uploads are the exception in all three: nothing in the code
keeps them apart.

*Configuration.* `FromSources` says that what was loaded is the layers' result with the
secrets of the environment, and passed the validators. What each part needs then follows
from them one by one, for any values, and not only for the few per setting that TLC
tries. The products (`rps * window_sec`, ttls in nanoseconds) are positive because their
factors are, which is true of numbers that do not overflow: hence `AmountsAssumption`.

Only model-checked, as out of the prover's reach: liveness (every property with `~>`
or `<>[]`), which rests on fairness and ENABLED. Every other property of the passing
runs is a theorem.

## Findings

1. `outbox_channel`: README.md:95 says the outbox guarantees reliable publication. A
   channel that the broker closed is never reopened; events end dead after
   `max_attempts`, until the process is restarted. Nor is the channel in confirm
   mode (`pkg/mq/rabbitmq.go:100`), so a message lost between the socket and the
   broker is marked published: the fault `"loss"` in the other runs, in which
   "published" only ever means "was sent".
2. `lock_default`: `lock_ttl_sec` equals `task_timeout_sec` in the shipped
   configuration, and a dispatch whose context is done still finishes the call it is
   in, such as a `PublishWithContext` that writes to a socket, so two tasks may
   overlap. The outbox's own leases still keep events apart.
3. `cache_readme`: README.md:76 advertises delayed double delete for the write path;
   `UpdateProfile` deletes once.
4. `rotation`: README.md:68 says that secrets are rotated without downtime by the kid
   header. An instance signs with a new secret as soon as it is restarted with it, and
   the others, which know the old secret only, refuse the new tokens until they are
   restarted too; `pkg/jwt/jwt_test.go:190-192` asserts that refusal.
   `AcceptedEverywhereHolds` says what it takes: deploy the new secret as the previous one
   first (`KeysOverlap`).

Remarks. `ProtectedWhileLive` needs a ttl in which a renewal that times out, and its
retry, fit; nothing validates that, and with a ttl near one second the renewal's own
timeout is as long as the lease. An event order is neither promised nor kept: a
failed event is retried after later ones were sent. After a signal, the one thing
that may be cut off without an error is a scheduler task that asynq gave up on.

What came up in the other models, and contradicts no document:

- A server that fails panics past `App.Shutdown`; jobs that were accepted then run
  without the database.
- Two concurrent `UpdateProfile`s of one user read the row without a lock: the before
  image one of them records may never have been current when it committed.
- Migration: there is no way to force a version, so a schema left dirty by a crash
  keeps every migrating server down until somebody edits the version table.
  `migration.timeout_sec` bounds the ping only, and the wait for the lock under which the
  version table is created has no bound. A server of the older release cannot restart
  once a newer one has migrated. Servers without `auto_run` serve on any schema.
- Tokens: an instance whose clock is behind the issuer's refuses a token right after it
  was issued (`nbf`), which is why `AcceptedAfterRotation` begins `MaxSkew` later.
  A secret that is dropped before the tokens it signed have run out ends them; `Rotate`
  waits for that, nothing in the code does.
- Limiter: a call whose answer is lost is sent again and may count against itself.
- Files: an upload that fails removes the path whoever wrote there since, and one that
  overlaps another may mix with it. `TornHasCause` says that nothing else tears a file.
- Configuration: of the numbers only ports and the sample ratio have an upper bound
  (`pkg/config/config.go:341`).
  A setting beyond 32 bits loads, and the durations and products formed of it may
  wrap to what the validators meant to exclude.
- Configuration: a key without a default is not heard from the environment alone, so
  `APP_STORAGE_S3_BUCKET` and `APP_STORAGE_S3_REGION` do nothing unless the file has
  the keys.
- Exit: closing the broker's channel and connection, and waiting for a load of the policy,
  have no timeout; either may keep a process that was told to stop for as long as it
  lasts.
- Scheduler: an instance with the scheduler enabled and the queue disabled enqueues no
  task and yet serves those that other instances enqueue. Its publisher does nothing and
  returns nil, so it marks their events published.

## Plan

Done, in this order: Outbox with EventDelivery, DistributedLock, ProfileCache,
WorkerPool with Executor, EventBus, AppLifecycle over Executor, Startup, Sessions and
RateLimiter over Clocks, LocalStorage, Config, Mutex, and the proofs of all of them.

Left:

1. `RetryBackoff`: the arithmetic with its 64-bit width. A shift by 34 and nanoseconds
   are beyond the integers of TLC, so it needs a representation of its own.
2. Two `UpdateProfile`s of one user and the before images they record.
3. A timed lease for the outbox: exclusivity from durations instead of the
   qualitative fault.
4. Abstract specifications for the rate limiter (a log of admitted calls) and for the
   file store (a register per key), and the proof that they are implemented under the
   conditions found above.

## What is not modelled

- Wording, logs, metrics, traces, HTTP binding and formatting: nothing reads them back.
- Authorisation is Casbin's, but for the reloading of the policy, which is in
  `AppLifecycle`. i18n looks up a table loaded once.
- Of the configuration: the DSNs, the replicas' own settings, trimming and letter case.
  A value is missing, wrong or right.
- Of tokens: malformed ones and those of the wrong kind, which are refused before any
  state is read; a refresh token stored later than its ttl lasts. Of Redis: the loss of
  its data, and a SET that its client repeats after a newer one.
- Of the limiter: two calls of one nanosecond, which share a member.
- S3: every call is handed to the SDK. `SignedURL` changes no state.
- What golang-migrate does inside one step beyond version, dirty flag and lock.
- A task or handler that panics in a worker ends the process; the pool's model has
  tasks that end or hang.
- `InitializeApp` is one step; the partial cleanups of a start that fails are not there.
- PostgreSQL, Redis and RabbitMQ are modelled as far as the code uses them; replica
  lag, key expiry, row locks and rollback are, their own failover is not.
- `mq`'s disabled driver, the initial dial, `GetJSON`/`SetJSON` (used by tests only).
- The before image that concurrent `UpdateProfile`s record in the audit log, and the
  width of `retryBackoff`'s arithmetic.
