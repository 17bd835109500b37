SPECIFICATION Spec
CONSTANTS
  Clients = {c1}
  k1 = k1
  k2 = k2
  k3 = k3
  Keys = {k1, k2, k3}
  NumShards = 2
  shard <- TwoShards
  MetaSize = 1
  BodySize = 1
  MaxSize = 2
  Environments <- HostPurgeEnvironments
  NoKey = NoKey
INVARIANTS
  PurgedStaysPurged
