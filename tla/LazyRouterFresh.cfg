SPECIFICATION Spec
CONSTANTS
  Requests = {r1, r2}
  Hosts = {default}
  DefaultHostname = default
  anyHost = r1
  Capacity = 1
  MaxEvents = 2
  NoFlight = NoFlight
  NoHost = NoHost
INVARIANTS
  FreshAfterUpdate
