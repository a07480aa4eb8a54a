\* The shipped configuration: lock_ttl_sec = task_timeout_sec, no watchdog.
CONSTANTS
  Clients = {c1, c2}
  Tokens = {t1, t2, t3}
  None = none
  TTL = 3
  TaskTimeout = 3
  Linger = 1
  Latency = 1
  CallTimeout = 1
  Watchdog = FALSE
SPECIFICATION Spec
INVARIANTS MutualExclusion
