\* UpdateProfile as written, against the README's promise.
CONSTANTS
  Readers = {r1, r2}
  Writers = {w1}
  Instances = {i1}
  None = none
  Empty = empty
  MaxVersion = 2
  Deletes = {"single"}
  Faults = {}
  MaxFaults = 0
SPECIFICATION Spec
INVARIANTS ConsistentAtRest
CHECK_DEADLOCK FALSE
