\* Every kind of fault, leases outrun by their holders included.
CONSTANTS
  Events = {1, 2}
  Dispatchers = {d1, d2}
  MaxAttempts = 2
  BatchSize = 2
  Faults = {"acquire", "publish", "mark", "channel", "loss", "stop", "crash", "slow"}
  MaxFaults = 3
SPECIFICATION LiveSpec
INVARIANTS PublishedWasSent DeadOnlyWhenExhausted
PROPERTIES EventuallySettled
CHECK_DEADLOCK FALSE
