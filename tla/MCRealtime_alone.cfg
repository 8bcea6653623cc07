SPECIFICATION MCSpec
CONSTANTS
  Parts = {"supervisor"}
  NONE = NONE
  NumChildren = 2
  Policies <- AllPermanent
  Strategies = {"OneForOne"}
  MaxRestarts = 2
  MaxExits = 1
  MaxTime = 0
CHECK_DEADLOCK FALSE
INVARIANT OneForOneAlone
