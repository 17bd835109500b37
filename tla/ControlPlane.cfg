SPECIFICATION FairSpec
CONSTANTS
  a = a
  b = b
  both = both
  onlyA = onlyA
  otherB = otherB
  Names = {a, b}
  Configs = {both, onlyA, otherB}
  claims <- ClaimsOf
  NumFiles = 2
  NoFile = NoFile
  BadFile = BadFile
  NoConfig = NoConfig
  Tombstone = Tombstone
  InitialFiles <- OneFile
  Environments <- AllEnvironments
CHECK_DEADLOCK FALSE
INVARIANTS
  TypeOK
  LastStatePublished
  PublishedWhenQuiet
  RepairedBySync
PROPERTIES
  EventuallyPublished
