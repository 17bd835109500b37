SPECIFICATION FairSpec
CONSTANTS
  a = a
  b = b
  cfgA = cfgA
  cfgB = cfgB
  Names = {a, b}
  Configs = {cfgA, cfgB}
  claims <- OwnNames
  NoConfig = NoConfig
  MaxDeliver = 4
  Environments <- AllEnvironments
CHECK_DEADLOCK FALSE
INVARIANTS
  TypeOK
  AckedIsApplied
PROPERTIES
  NewestWins
  ReadyMeansApplied
  
