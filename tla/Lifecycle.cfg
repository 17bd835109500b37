SPECIFICATION FairSpec
CONSTANTS
  t1 = t1
  t2 = t2
  q1 = q1
  Targets <- MCTargets
  Requests <- MCRequests
  Environments <- AllEnvironments
INVARIANTS
  NothingLeftBound
  NoLineLost
  CheckersFollowConfig
  PanicNeedsOverlap
PROPERTIES
  CancelEnds
CHECK_DEADLOCK FALSE
