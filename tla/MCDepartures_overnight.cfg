SPECIFICATION MCSpec
CONSTANTS
  None = None
  Failed = Failed
  Day = 48
  MaxDeviation = 3
  ActiveWindow = 8
  NullRetries = 3
  Horizon = 1
  T1 = T1
  T2 = T2
  U1 = U1
  R1 = R1
  R2 = R2
  S1 = S1
  S2 = S2
  G = G
  O = O
  H = H
  M = M
  Contained <- MCContained
INVARIANT CanceledOnItsStartDate
CHECK_DEADLOCK FALSE
