SPECIFICATION FairSpec
CONSTANTS
  Last = 3
  UpdatedAt <- Forward
  Publishers = 2
  RingCap = 1
  OutCap = 8
  MaxLosses = 1
  MaxRefusals = 1
INVARIANT NothingIsMissed
PROPERTY KnownNeverGoesBack
PROPERTY WaiterResolves
CHECK_DEADLOCK FALSE
