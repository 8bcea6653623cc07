SPECIFICATION MCSpec
CONSTANTS
  Parts = {"files"}
  NONE = NONE
  Wrong = Wrong
  Threads = {"t1", "t2", "t3", "t4", "t5"}
  MaxSize = 3
  Discards = TRUE
  MayPanic = TRUE
  PutBy <- Together
  ObjectSize = 2
  LockCallers = {"c1", "c2", "c3"}
  NamespaceOf <- TwoFiles
  MaxPuts = 2
  MaxFaults = 0
  WatchConns = {"c1", "c2"}
  WatchKeys = {"k"}
  RowContents = {1, 2}
  MaxWatchWrites = 3
  MaxDays = 146097
CHECK_DEADLOCK FALSE
INVARIANT ReadsWhole
