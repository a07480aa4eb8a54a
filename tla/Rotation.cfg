CONSTANTS
  Instances = {i1, i2}
  MaxSkew = 1
  MaxTime = 5
  n1 = n1
  n2 = n2
  n3 = n3
  k1 = k1
  k2 = k2
  Requests = {n1, n2}
  Keys = {k1, k2}
  KeyID <- MCKeyID
  Plan <- MCPlan
  TTL <- MCTTL
  None = none
  Calls = {n1, n2, n3}
  Limit = 1
  Window = 3
  MaxDelay = 1
  Uploads = {n1, n2}
  Downloads = {n3}
  Size = 2
  Hole = hole
  Absent = absent
  Inputs <- MCInputs
  Addresses <- MCAddresses
  NoConfig = noconfig
SPECIFICATION RotationSpec
INVARIANT AcceptedEverywhere
CHECK_DEADLOCK FALSE
