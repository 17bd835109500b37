SPECIFICATION FewSpec
CONSTANTS
  Requests = {r1, r2}
  Hosts = {a, default}
  DefaultHostname = default
  anyHost = r1
  Capacity = 1
  MaxEvents = 2
  NoFlight = NoFlight
  NoHost = NoHost
INVARIANTS
  TypeOK
  SingleFlight
  StaleOnlyIfRaced
  ConfigNeverGoesBack
PROPERTIES
  EveryRequestAnswered
