\* The broker is restarted once while an instance goes on running.
CONSTANTS
  Events = {1}
  Dispatchers = {d1}
  MaxAttempts = 2
  BatchSize = 1
  Faults = {"channel"}
  MaxFaults = 1
SPECIFICATION LiveSpec
PROPERTIES ReliablePublication
CHECK_DEADLOCK FALSE
