CONSTANTS
  c1 = c1
  c2 = c2
  f1 = f1
  f2 = f2
  unknown = unknown
  Nothing = Nothing
  Client = {c1, c2}
  Feed = {f1, f2}
  Request <- Requests
  MaxMessages = 2
  MaxVersion = 3
  Shown <- ShownParts
  MaxFailures = 1
SPECIFICATION FairSpec
INVARIANTS TypeOK SingleSubscription GaugesExact
PROPERTIES NeverGoesBack CurrentEventuallyDisplayed
CHECK_DEADLOCK FALSE
