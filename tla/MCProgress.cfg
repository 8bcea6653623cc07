SPECIFICATION MCSpec
CONSTANTS
  Parts = {"supervisor", "mailbox", "projections", "presence", "pubsub", "pool", "watch", "locks", "s3", "pg", "auth", "reactor", "http", "web"}
  NONE = NONE
  Wrong = Wrong
CHECK_DEADLOCK FALSE
PROPERTIES RealtimeProgress StoresProgress ServerProgress
