SPECIFICATION Spec
CONSTANTS
  Interval = 4
  RetryAfter = 1
  MaxFetch = 3
  MaxBlock = 2
  Window = 6
  ExtraSecs = 2
  MaxAge = 8
  MaxSkew = 2
  MaxFailures = 3
INVARIANT NeverIdleLong
PROPERTIES
  BackoffKept
  RequestsCover
CHECK_DEADLOCK FALSE
