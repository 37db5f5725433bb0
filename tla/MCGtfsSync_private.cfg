CONSTANTS
  i1 = i1
  i2 = i2
  h1 = h1
  f1 = f1
  f2 = f2
  Nothing = Nothing
  Importer = {i1, i2}
  Host = {i1, i2}
  Feed <- OneFeed
  HostOf <- OwnHost
  Served <- Dated
  MaxVersion = 3
  ValidVersion = {1, 3}
  AllowForce = FALSE
  FaultKinds = {"refused", "step", "finally", "crash"}
  MaxFaults = 2
SPECIFICATION Spec
INVARIANTS TypeOK SyncLockExclusive TablesWhole MetadataBehindData
  InterpolatedUnlessFault
PROPERTIES SkipOnlyWhenCurrent  ImplementsFeedStore
CHECK_DEADLOCK FALSE
SYMMETRY Symmetry
