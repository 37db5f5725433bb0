SPECIFICATION Spec
CONSTANTS
  Interval = 4
  Window = 24
  Gap = {4, 5, 6, 11}
  Punctual = 6
  MaxError = 11
INVARIANTS
  ReadyWhilePunctual
  ReadyMeansMeasured
CHECK_DEADLOCK FALSE
