SPECIFICATION FairSpec
CONSTANTS
  r1 = r1
  r2 = r2
  Requests = {r1, r2}
  checker = checker
  None = None
  N = 2
  Weight <- Weights
  TableSize = 3
  h1 <- Offsets
  h2 <- Skips
  Environments <- MaglevOnly
PROPERTIES
  RecoversByRequests
