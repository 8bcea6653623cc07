SPECIFICATION MCSpec
CONSTANTS
  Parts = {"store"}
  NONE = NONE
  Writers = {w1, w2}
  Streams = {s1, s2}
  MaxRetries = 2
  Sizes = {1}
  StoreCalls = 2
  StoreFaults = 0
  Pods = {"p1", "p2"}
  Names = {"totals"}
  Batch = 2
  Calls = {1, 2}
  Requests <- MCRequests
  Matches <- MCMatches
  MaxFaults = 2
  MayPanic = TRUE
  Rebuilds = "offline"
CHECK_DEADLOCK FALSE
INVARIANT RaceRetried
