\* A total budget below the sum of the two stages' budgets; servers of two
\* releases and the migration tool, as in a roll-out.
CONSTANTS
  Requests = {r1, r2}
  HTTPBudget = 3
  WorkerBudget = 2
  TotalBudget = 4
  PoolBudget = 1
  SubmitTimeout = 1
  TracingTimeout = 1
  AbortAfter = 1
  MaxWait = 1
  Servers = {s1, s2, s3}
  AutoRun = {s1, s2}
  Tools = {t1}
  Old = 1
  Latest = 3
  MaxFaults = 2
  None = none
SPECIFICATION MCSpec
INVARIANTS CutOffIsReported ExitInTime  CleanIsWhole ServesMigrated
PROPERTIES MainEnds ComesUp
CHECK_DEADLOCK FALSE
