\* WithLockAndWatchdog: fn outlives several leases.
CONSTANTS
  Clients = {c1, c2}
  Tokens = {t1, t2, t3}
  None = none
  TTL = 4
  TaskTimeout = 6
  Linger = 0
  Latency = 1
  CallTimeout = 1
  Watchdog = TRUE
SPECIFICATION LiveSpec
INVARIANTS MutualExclusion ProtectedWhileLive
PROPERTIES LockComesFree
