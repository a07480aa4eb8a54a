\* Two readers and two writers, with the single delete and with the double.
CONSTANTS
  Readers = {r1, r2}
  Writers = {w1, w2}
  Instances = {i1, i2}
  None = none
  Empty = empty
  MaxVersion = 3
  Deletes = {"single", "double"}
  Faults = {"redis", "load", "crash"}
  MaxFaults = 1
SPECIFICATION LiveSpec
INVARIANTS OneLoadPerMiss StaleHasCause DoubleDeleteConsistent
PROPERTIES EventuallyFresh EveryReadReturns
CHECK_DEADLOCK FALSE
