SPECIFICATION MCSpec
CONSTANTS
  Parts = {"store", "projections"}
  NONE = NONE
  Writers = {w1, w2}
  Streams = {s1, s2}
  MaxRetries = 2
  Sizes = {0, 2}
  StoreCalls = 3
  StoreFaults = 1
  Pods = {"p1", "p2"}
  Names = {"totals"}
  Batch = 2
  Calls = {1, 2}
  Requests <- MCRequests
  Matches <- MCMatches
  MaxFaults = 2
  MayPanic = TRUE
  Rebuilds = "offline"
CHECK_DEADLOCK FALSE
SYMMETRY Symmetric
INVARIANTS LogHolds ExactlyOnce
PROPERTY RefinesEventLog
