SPECIFICATION Spec
CONSTANTS
  NoKey = NoKey
  c1 = c1
  c2 = c2
  Caller = {c1, c2}
  Shift <- MCShift
  Ttl <- MCTtl
  Workloads <- MCWorkloads
  Hours = {0, 4, 9, 11, 12, 23}
  MaxTime = 35
  Patience = 1
  MaxFaults = 1
INVARIANTS
  FreshEnough
  DayOffByAtMostOne
  TodayAmongDays
CHECK_DEADLOCK FALSE
