SPECIFICATION FairSpec
CONSTANTS
  Requests = {r1, r2, r3}
  k1 = k1
  Keys = {k1, k2}
  NoKey = NoKey
  NoFlight = NoFlight
  Environments <- AllEnvironments
INVARIANTS
  TypeOK
  FlightHasOwner
  OthersFetchAfterWaiting
  NoRefetch

  
