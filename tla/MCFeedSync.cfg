SPECIFICATION Spec
CONSTANTS
  f1 = f1
  f2 = f2
  None = None
  Feeds <- MCFeeds
  Kinds = {"config", "live", "static"}
  Run = {r1, r2}
  HookSets = {{}, {"pre", "post"}}
  MaxCrashes = 1
INVARIANTS
  CompletedTriedAll
PROPERTIES
  EveryRunReported
CHECK_DEADLOCK FALSE
