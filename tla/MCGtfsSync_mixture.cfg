CONSTANTS
  i1 = i1
  i2 = i2
  h1 = h1
  f1 = f1
  f2 = f2
  Nothing = Nothing
  Importer = {i1, i2}
  Host = {h1}
  Feed <- TwoFeeds
  HostOf <- SameHost
  Served <- Dated
  MaxVersion = 1
  ValidVersion = {1}
  AllowForce = FALSE
  FaultKinds = {}
  MaxFaults = 0
SPECIFICATION Spec
INVARIANTS TablesFromOwnSource
