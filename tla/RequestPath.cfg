SPECIFICATION Spec
CONSTANTS
  Keys <- MCKeys
  storeOf <- MCStoreOf
  Params <- MCParams
  DefaultRate = 2
  DefaultBurst = 3
  Ttl = 1
  SweepSize = 2
  Addresses <- MCAddresses
  Country <- MCCountry
  Absent = Absent
  TooLarge = "large"
  Upper <- MCUpper
  Workers = {1, 2}
  PluginParams <- MCPluginParams
  NoRequest = NoRequest
  Environments <- MCEnvironments
INVARIANTS
  RouteMostSpecific
  
  ClientSeesResponse
  AdmittedWithinBudget
PROPERTY
  BucketsImplemented
