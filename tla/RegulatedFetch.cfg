SPECIFICATION Spec
CONSTANTS
  q1 = q1
  d1 = d1
  Callers <- OneCaller
  Direct <- OneDirect
  Capacity = 2
  Initial = 0
  InChCap = 1
  MaxUsed = 2
  MaxBack = 1
  Horizon = 7
INVARIANT TokensEarned
PROPERTY WaitsAreRight
CHECK_DEADLOCK FALSE
