\* A client and a handler that publish, handlers that subscribe late, and
\* two Shutdowns of the pool.
CONSTANTS
  p1 = p1
  w1 = w1
  w2 = w2
  h1 = h1
  h2 = h2
  Clients <- MCClients
  Workers <- MCWorkers
  Publishers <- MCPublishers
  Handlers <- MCHandlers
  Jobs <- MCJobs
  Stoppers = {s1, s2}
  None = none
  QueueSize = 1
SPECIFICATION BusLiveSpec
INVARIANTS NoSendOnClosed ReachedIsPrefix
PROPERTIES ExecutorSpec ShutdownReturns SubmitReturns PublishedIsHandled
CHECK_DEADLOCK FALSE
