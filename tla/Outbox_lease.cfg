\* All faults except a lease that its holder outruns.
CONSTANTS
  Events = {1, 2}
  Dispatchers = {d1, d2}
  MaxAttempts = 2
  BatchSize = 2
  Faults = {"acquire", "publish", "mark", "channel", "loss", "stop", "crash"}
  MaxFaults = 4
SYMMETRY MCSymmetry
SPECIFICATION Spec
INVARIANTS ExclusiveHolder PublishesBounded
PROPERTIES AttemptsCountUp DeliverySpec
CHECK_DEADLOCK FALSE
