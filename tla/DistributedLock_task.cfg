\* WithLock as the scheduler uses it, with a ttl that outlasts the task.
CONSTANTS
  Clients = {c1, c2, c3}
  Tokens = {t1, t2, t3, t4}
  None = none
  TTL = 6
  TaskTimeout = 3
  Linger = 2
  Latency = 2
  CallTimeout = 1
  Watchdog = FALSE
SYMMETRY MCSymmetry
SPECIFICATION Spec
PROPERTIES LostToExpiryOnly MutexSpec
