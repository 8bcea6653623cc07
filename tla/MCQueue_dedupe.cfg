SPECIFICATION Spec
CONSTANTS
  w1 = w1  w2 = w2  p1 = p1  p2 = p2
  main = main  k = k  NULL = NULL
  Workers = {w1, w2}
  Producers = {p1, p2}
  Local <- LocalAll
  Pools = {"A"}
  PoolOf <- OnePool
  Queues = {main}
  QueueOf <- OnePoolQueue
  Keys = {k}
  Requests <- KeyedRequests
  VisTimeout = 1
  Backoff = 0
  MaxSkew = 0
  Ages = {0}
  Budgets = {1}
  MaxJobs = 2
  MaxTime = 1
  MaxFaults = 1
CHECK_DEADLOCK FALSE
SYMMETRY Sym
INVARIANT NothingLost
PROPERTY RefinesLifecycle
