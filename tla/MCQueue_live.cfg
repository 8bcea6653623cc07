SPECIFICATION FairSpec
CONSTANTS
  w1 = w1  w2 = w2  p1 = p1  p2 = p2
  main = main  k = k  NULL = NULL
  Workers = {w1, w2}
  Producers = {p1}
  Local <- LocalFirst
  Pools = {"A", "B"}
  PoolOf <- TwoPools
  Queues = {main}
  QueueOf <- TwoPoolsQueue
  Keys = {k}
  Requests <- DelayedRequests
  VisTimeout = 1
  Backoff = 1
  MaxSkew = 0
  Ages = {0}
  Budgets = {}
  MaxJobs = 1
  MaxTime = 4
  MaxFaults = 1
CHECK_DEADLOCK FALSE
PROPERTY QueueProgress
