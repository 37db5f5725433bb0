CONSTANTS
  i1 = i1
  i2 = i2
  Instance = {i1, i2}
  Initially <- Alone
  MinConnections = 2
  BatchSize = 2
  Margin = 10
  DrainBatches = 1
  MaxLeaves = 1
SPECIFICATION FairSpec
INVARIANTS TypeOK
PROPERTIES FloorUpToDepartures NoHotPotato SharedLoadBalanced DrainEnds
CHECK_DEADLOCK FALSE
