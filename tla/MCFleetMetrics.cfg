CONSTANTS
  i1 = i1
  i2 = i2
  h1 = h1
  h2 = h2
  Instance = {i1}
  Handle = {h1, h2}
  KeyTtl = 3
  MaxOutage = 1
  MaxQueue = 2
  FaultKinds = {"outage", "rejected", "crash", "restart", "cli"}
  MaxFaults = 2
SPECIFICATION FairSpec
INVARIANTS TypeOK RegistryExact
PROPERTIES GhostsForgotten
CHECK_DEADLOCK FALSE
