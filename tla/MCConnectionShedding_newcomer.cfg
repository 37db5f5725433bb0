CONSTANTS
  i1 = i1
  i2 = i2
  Instance = {i1, i2}
  Initially <- Alone
  MinConnections = 2
  BatchSize = 2
  Margin = 10
  DrainBatches = 1
  MaxLeaves = 0
SPECIFICATION FairSpec
PROPERTIES Rebalanced
CHECK_DEADLOCK FALSE
