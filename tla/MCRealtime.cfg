SPECIFICATION MCSpec
CONSTANTS
  Parts = {"supervisor", "mailbox", "hub", "hub_cast", "channel", "presence", "pubsub"}
  NONE = NONE
  NumChildren = 3
  Policies <- Mixed
  Strategies = {"OneForOne", "RestForOne", "OneForAll"}
  MaxRestarts = 1
  MaxExits = 2
  MaxTime = 2
CHECK_DEADLOCK FALSE
INVARIANTS SupervisionHolds MailboxHolds MembershipsHold  PodsHear
