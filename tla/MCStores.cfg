SPECIFICATION MCSpec
CONSTANTS
  Parts = {"pool", "files", "s3", "db", "kv", "sign", "calendar", "locks", "watch", "migrate", "migrate_apart", "pg", "auth", "wire", "search", "query"}
  NONE = NONE
  Wrong = Wrong
  Threads = {"t1", "t2", "t3", "t4", "t5"}
  MaxSize = 3
  Discards = TRUE
  MayPanic = TRUE
  PutBy <- Apart
  ObjectSize = 2
  LockCallers = {"c1", "c2", "c3"}
  NamespaceOf <- TwoFiles
  MaxPuts = 3
  MaxFaults = 2
  WatchConns = {"c1", "c2"}
  WatchKeys = {"k"}
  RowContents = {1, 2}
  MaxWatchWrites = 3
  MaxDays = 146097
CHECK_DEADLOCK FALSE
INVARIANTS NoLostWakeup SlotsAndLocksHold ReadsWhole  WatchersFollow 
PROPERTIES MigrationsHold 
