SPECIFICATION Spec
CONSTANTS
  w1 = w1  w2 = w2  p1 = p1  p2 = p2
  main = main  k = k  NULL = NULL
  Workers = {w1, w2}
  Producers = {p1}
  Local <- LocalAll
  Pools = {"A"}
  PoolOf <- OnePool
  Queues = {main}
  QueueOf <- OnePoolQueue
  Keys = {k}
  Requests <- MixedRequests
  VisTimeout = 2
  Backoff = 1
  MaxSkew = 1
  Ages = {0}
  Budgets = {1}
  MaxJobs = 1
  MaxTime = 3
  MaxFaults = 1
CHECK_DEADLOCK FALSE
SYMMETRY Sym
INVARIANTS TypeOK Exclusive LeasesHold
