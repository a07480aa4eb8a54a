------------------------------- MODULE Config -------------------------------
(***************************************************************************)
(* What a process may be configured with (pkg/config/config.go): defaults, *)
(* overlaid by the file and by the environment, secrets from the           *)
(* environment alone, and the validation that the server and the migration *)
(* tool do; and what those who read the configuration rely on, which is    *)
(* spread over the code and nowhere written down.                          *)
(*                                                                         *)
(* Texts are blank or some word; trimming and letter case are left out.    *)
(***************************************************************************)
EXTENDS Integers

CONSTANTS Inputs,     (* what files and environment may say: sets of settings *)
          Addresses,  (* texts that net.SplitHostPort takes apart          *)
          NoConfig    (* no configuration                                  *)

VARIABLES
  inFile,   \* the settings in config.yaml and config.<env>.yaml, merged
  inEnv,    \* those in APP_* variables
  secrets,  \* the APP_JWT_* secrets and APP_STORAGE_SIGNED_URL_SECRET
  result    \* what the last program loaded: who it was, and cfg or NoConfig

configVars == <<inFile, inEnv, secrets, result>>

Blank == ""
MaxPort == 65535

(* setDefaults, of what anything depends on, and the zero values of what   *)
(* has no default.                                                         *)
Defaults ==
  [app       |-> [name |-> "gin-core", port |-> 8080, read_timeout_sec |-> 10,
                  write_timeout_sec |-> 10, request_timeout_sec |-> 30, shutdown_timeout_sec |-> 25],
   db        |-> [host |-> "127.0.0.1", port |-> 5432, user |-> "postgres", name |-> "gin_core",
                  ssl_mode |-> "disable", dial_timeout_sec |-> 2, max_open_conns |-> 25,
                  max_idle_conns |-> 12, conn_max_lifetime_sec |-> 300, conn_max_idle_time_sec |-> 180],
   migration |-> [auto_run |-> FALSE, table |-> "schema_migrations", timeout_sec |-> 30,
                  statement_timeout_sec |-> 5],
   redis     |-> [addr |-> "127.0.0.1:6379", dial_timeout_sec |-> 2, read_timeout_sec |-> 2,
                  write_timeout_sec |-> 2],
   cache     |-> [null_ttl_sec |-> 30, ttl_jitter_sec |-> 60],
   jwt       |-> [issuer |-> "gin-core", access_ttl_sec |-> 7200, refresh_ttl_sec |-> 604800,
                  access_secret |-> Blank, refresh_secret |-> Blank,
                  previous_access_secret |-> Blank, previous_refresh_secret |-> Blank],
   log       |-> [level |-> "info", encoding |-> "json"],
   tracing   |-> [sample_ratio |-> 1, timeout_sec |-> 5],
   rbac      |-> [enabled |-> TRUE, autoload_interval_sec |-> 30],
   rate_limit |-> [enabled |-> TRUE, rps |-> 20, burst |-> 40, window_sec |-> 1],
   worker    |-> [workers |-> 4, queue_size |-> 128, submit_timeout_ms |-> 100],
   storage   |-> [driver |-> "local", local_dir |-> "data/files", public_base_url |-> "/files",
                  s3_bucket |-> Blank, s3_region |-> Blank, signed_url_secret |-> Blank],
   mq        |-> [enabled |-> FALSE, driver |-> "rabbitmq", url |-> Blank, exchange |-> "app.events",
                  publish_timeout_ms |-> 2000, operation_timeout_ms |-> 2000, poll_interval_ms |-> 1000,
                  batch_size |-> 50, max_attempts |-> 10, lock_timeout_sec |-> 30],
   scheduler |-> [enabled |-> FALSE, queue |-> "scheduler", concurrency |-> 4, task_timeout_sec |-> 30,
                  lock_ttl_sec |-> 30, outbox_dispatch_cron |-> "@every 5s"]]

RuntimeOnly == {<<"jwt", "access_secret">>, <<"jwt", "refresh_secret">>,
                <<"jwt", "previous_access_secret">>, <<"jwt", "previous_refresh_secret">>,
                <<"storage", "signed_url_secret">>}
NoDefault == RuntimeOnly \cup {<<"storage", "s3_bucket">>, <<"storage", "s3_region">>}

(* The keys whose values are texts, in whichever section.                  *)
Texts == {"name", "host", "user", "ssl_mode", "table", "addr", "issuer", "access_secret", "refresh_secret",
          "previous_access_secret", "previous_refresh_secret", "level", "encoding", "driver", "local_dir",
          "public_base_url", "s3_bucket", "s3_region", "signed_url_secret", "url", "exchange", "queue",
          "outbox_dispatch_cron"}

Key(s) == <<s.section, s.key>>

ASSUME SettingsAssumption ==
  \A i \in Inputs : \A s, t \in i.file :
     /\ s.section \in DOMAIN Defaults /\ s.key \in DOMAIN Defaults[s.section]
     /\ Key(s) = Key(t) => s = t

(* The numbers that something is computed of.  Unmarshal fails for what is *)
(* no number; what does not fit 32 bits it takes, and no validator refuses *)
(* it, but the products that the code forms of it may overflow, those that *)
(* make seconds a time.Duration among them: time.NewTicker then panics.    *)
Amounts == {<<"cache", "null_ttl_sec">>, <<"cache", "ttl_jitter_sec">>, <<"worker", "queue_size">>,
            <<"rate_limit", "rps">>, <<"rate_limit", "burst">>, <<"rate_limit", "window_sec">>,
            <<"rbac", "autoload_interval_sec">>, <<"jwt", "access_ttl_sec">>, <<"jwt", "refresh_ttl_sec">>,
            <<"worker", "submit_timeout_ms">>, <<"db", "dial_timeout_sec">>, <<"db", "conn_max_lifetime_sec">>,
            <<"migration", "timeout_sec">>, <<"migration", "statement_timeout_sec">>,
            <<"mq", "poll_interval_ms">>, <<"mq", "operation_timeout_ms">>, <<"mq", "publish_timeout_ms">>,
            <<"mq", "lock_timeout_sec">>, <<"scheduler", "lock_ttl_sec">>, <<"scheduler", "task_timeout_sec">>}
MaxInt32 == 2147483647

Fit(S) == \A s \in S : Key(s) \in Amounts => s.value \in -MaxInt32..MaxInt32

ASSUME AmountsAssumption == \A i \in Inputs : Fit(i.file) /\ Fit(i.env)

-----------------------------------------------------------------------------
(* The validators.                                                         *)

ValidApp(c) ==
  /\ c.app.name # Blank /\ c.app.port \in 1..MaxPort
  /\ c.app.read_timeout_sec > 0 /\ c.app.write_timeout_sec > 0 /\ c.app.shutdown_timeout_sec > 0

ValidDB(c) ==
  /\ Blank \notin {c.db.host, c.db.user, c.db.name, c.db.ssl_mode} /\ c.db.port \in 1..MaxPort
  /\ c.db.dial_timeout_sec > 0 /\ c.db.max_open_conns > 0 /\ c.db.max_idle_conns > 0
  /\ c.db.conn_max_lifetime_sec > 0 /\ c.db.conn_max_idle_time_sec > 0

ValidMigration(c) ==
  c.migration.table # Blank /\ c.migration.timeout_sec > 0 /\ c.migration.statement_timeout_sec > 0

ValidRedis(c) ==
  /\ c.redis.addr # Blank /\ c.redis.addr \in Addresses
  /\ c.redis.dial_timeout_sec > 0 /\ c.redis.read_timeout_sec > 0 /\ c.redis.write_timeout_sec > 0

MutValidJWT(c) == c.jwt.issuer # Blank /\ c.jwt.access_ttl_sec > 0 /\ c.jwt.refresh_ttl_sec > 0
ValidJWT(c) ==
  /\ c.jwt.issuer # Blank /\ c.jwt.access_ttl_sec > 0 /\ c.jwt.refresh_ttl_sec > 0
  /\ c.jwt.access_secret # Blank /\ c.jwt.refresh_secret # Blank

ValidCache(c) == c.cache.null_ttl_sec > 0 /\ c.cache.ttl_jitter_sec >= 0

ValidLog(c) == c.log.level # Blank /\ c.log.encoding = "json"

ValidTracing(c) == c.tracing.timeout_sec > 0 /\ c.tracing.sample_ratio \in 0..1

ValidRBAC(c) == c.rbac.enabled => c.rbac.autoload_interval_sec > 0

ValidRateLimit(c) ==
  c.rate_limit.enabled => c.rate_limit.window_sec > 0 /\ (c.rate_limit.rps > 0 \/ c.rate_limit.burst > 0)

ValidWorker(c) == c.worker.workers > 0 /\ c.worker.queue_size > 0 /\ c.worker.submit_timeout_ms > 0

ValidStorage(c) ==
  \/ c.storage.driver = "local" /\ c.storage.local_dir # Blank /\ c.storage.public_base_url # Blank
  \/ c.storage.driver = "s3" /\ c.storage.s3_bucket # Blank /\ c.storage.s3_region # Blank

ValidMQ(c) ==
  c.mq.enabled =>
    /\ c.mq.driver = "rabbitmq" /\ c.mq.url # Blank /\ c.mq.exchange # Blank
    /\ c.mq.publish_timeout_ms > 0 /\ c.mq.operation_timeout_ms > 0 /\ c.mq.poll_interval_ms > 0
    /\ c.mq.batch_size > 0 /\ c.mq.max_attempts > 0 /\ c.mq.lock_timeout_sec > 0

ValidScheduler(c) ==
  c.scheduler.enabled =>
    /\ c.scheduler.queue # Blank /\ c.scheduler.outbox_dispatch_cron # Blank
    /\ c.scheduler.concurrency > 0 /\ c.scheduler.task_timeout_sec > 0 /\ c.scheduler.lock_ttl_sec > 0

Validate(c) ==
  /\ ValidApp(c) /\ ValidDB(c) /\ ValidMigration(c) /\ ValidRedis(c) /\ ValidCache(c) /\ ValidJWT(c)
  /\ ValidLog(c) /\ ValidTracing(c) /\ ValidRBAC(c) /\ ValidRateLimit(c) /\ ValidWorker(c)
  /\ ValidStorage(c) /\ ValidMQ(c) /\ ValidScheduler(c)

ValidateForMigration(c) == ValidDB(c) /\ ValidMigration(c)

-----------------------------------------------------------------------------
(* load.                                                                   *)

Overlay(c, S) ==
  [x \in DOMAIN c |-> [k \in DOMAIN c[x] |->
     IF \E s \in S : Key(s) = <<x, k>> THEN (CHOOSE s \in S : Key(s) = <<x, k>>).value ELSE c[x][k]]]

(* Unmarshal asks the environment about the keys it has heard of: those    *)
(* with a default and those in the file.  A blank variable is none.        *)
Heard == {s \in inEnv : /\ Key(s) \notin NoDefault \/ \E t \in inFile : Key(s) = Key(t)
                       /\ s.key \in Texts => s.value # Blank}
Unmarshalled == Overlay(Overlay(Defaults, inFile), Heard)

(* applyRuntimeSecrets.                                                    *)
WithSecrets(c) == [c EXCEPT !.jwt.access_secret = secrets.access, !.jwt.refresh_secret = secrets.refresh,
                            !.jwt.previous_access_secret = secrets.previous_access,
                            !.jwt.previous_refresh_secret = secrets.previous_refresh,
                            !.storage.signed_url_secret = secrets.signed_url]

FileBackedSecret == \E s \in inFile : Key(s) \in RuntimeOnly

Valid(program, c) == IF program = "server" THEN Validate(c) ELSE ValidateForMigration(c)

Load(program) ==
  /\ result = [by |-> "nobody", cfg |-> NoConfig]
  /\ LET c == WithSecrets(Unmarshalled)
     IN result' = [by |-> program,
                   cfg |-> IF ~FileBackedSecret /\ Valid(program, c) THEN c ELSE NoConfig]
  /\ UNCHANGED <<inFile, inEnv, secrets>>

ConfigInit ==
  /\ \E i \in Inputs : inFile = i.file /\ inEnv = i.env
  /\ secrets \in [access : {Blank, "a"}, previous_access : {Blank, "b"},
                  refresh : {Blank, "r"}, previous_refresh : {Blank, "q"}, signed_url : {Blank, "s"}]
  /\ result = [by |-> "nobody", cfg |-> NoConfig]

ConfigNext == Load("server") \/ Load("migrate")

ConfigSpec == ConfigInit /\ [][ConfigNext]_configVars

-----------------------------------------------------------------------------
(* What the constructors and the running parts rely on.                    *)

(* open, Timeout; NewDB.  A pool without a limit on its connections or on  *)
(* their lives is what zero means to database/sql.                         *)
DatabaseNeeds(c) ==
  /\ c.db.dial_timeout_sec > 0 /\ c.db.max_open_conns > 0 /\ c.db.conn_max_lifetime_sec > 0
MigratorNeeds(c) ==
  DatabaseNeeds(c) /\ c.migration.timeout_sec > 0 /\ c.migration.statement_timeout_sec > 0

(* A channel with a negative size panics, one without workers never drains.*)
PoolNeeds(c) == c.worker.workers > 0 /\ c.worker.queue_size >= 0 /\ c.worker.submit_timeout_ms > 0

(* A ticker panics unless its period is positive.                          *)
EnforcerNeeds(c) == c.rbac.enabled => c.rbac.autoload_interval_sec > 0

(* Redis takes a ttl of zero for "for ever"; writeEnvelope sees to it that *)
(* no entry has one, whatever effectiveTTL adds.                           *)
AtLeastSecond(ttl) == IF ttl <= 0 THEN 1 ELSE ttl
EffectiveTTL(base, jitter) ==
  IF jitter <= 0 THEN {AtLeastSecond(base)}
  ELSE {AtLeastSecond(base + delta) : delta \in -jitter..jitter}
CacheNeeds(c) ==
  \A ttl \in EffectiveTTL(300, c.cache.ttl_jitter_sec) \cup {AtLeastSecond(c.cache.null_ttl_sec)} : ttl > 0
LockNeeds(c)  == c.scheduler.enabled => c.scheduler.lock_ttl_sec > 0 /\ c.scheduler.task_timeout_sec > 0
TokenNeeds(c) == /\ c.jwt.access_ttl_sec > 0 /\ c.jwt.refresh_ttl_sec > 0
                 /\ c.jwt.access_secret = secrets.access /\ secrets.access # Blank
                 /\ c.jwt.refresh_secret = secrets.refresh /\ secrets.refresh # Blank
                 /\ c.jwt.previous_access_secret = secrets.previous_access
                 /\ c.jwt.previous_refresh_secret = secrets.previous_refresh

(* What middleware.RateLimiter counts up to.                               *)
RateLimit(c) == IF c.rate_limit.rps * c.rate_limit.window_sec <= 0 THEN c.rate_limit.burst
                ELSE c.rate_limit.rps * c.rate_limit.window_sec
LimiterNeeds(c) == c.rate_limit.enabled => RateLimit(c) > 0 /\ c.rate_limit.window_sec > 0

(* OutboxDispatcher.Start, run and DispatchOnce; NewScheduler's task.      *)
RunsLoop(c) == c.mq.enabled /\ ~c.scheduler.enabled
RegistersTask(c) == c.scheduler.enabled /\ c.mq.enabled
DispatcherNeeds(c) ==
  RunsLoop(c) \/ RegistersTask(c) =>
    /\ c.mq.poll_interval_ms > 0 /\ c.mq.operation_timeout_ms > 0 /\ c.mq.publish_timeout_ms > 0
    /\ c.mq.batch_size > 0 /\ c.mq.max_attempts > 0 /\ c.mq.lock_timeout_sec > 0 /\ c.mq.url # Blank

-----------------------------------------------------------------------------
(* Properties.                                                             *)

Loaded(program) == result.by = program /\ result.cfg # NoConfig

(* No configuration that a program starts with makes a constructor panic,  *)
(* a request limit of zero, a lock or an entry that Redis keeps for ever,  *)
(* or tokens signed or taken with a secret that is not the environment's.  *)
LoadedIsUsable ==
  /\ Loaded("migrate") => MigratorNeeds(result.cfg)
  /\ Loaded("server") =>
       /\ MigratorNeeds(result.cfg) /\ PoolNeeds(result.cfg) /\ EnforcerNeeds(result.cfg)
       /\ CacheNeeds(result.cfg) /\ LockNeeds(result.cfg) /\ TokenNeeds(result.cfg)
       /\ LimiterNeeds(result.cfg) /\ DispatcherNeeds(result.cfg)

-----------------------------------------------------------------------------
(* Why it holds.                                                           *)

(* What was loaded is what the sources say, with the secrets of the        *)
(* environment and none of the file's, and passed its program's validators.*)
FromSources ==
  result.cfg # NoConfig =>
    /\ ~FileBackedSecret /\ result.cfg = WithSecrets(Unmarshalled)
    /\ Valid(result.by, result.cfg)

ConfigInv == Fit(inFile) /\ Fit(inEnv) /\ FromSources
=============================================================================
