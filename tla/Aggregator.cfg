SPECIFICATION Spec
CONSTANTS
  stop1 = stop1
  stop2 = stop2
  inbound = inbound
  outbound = outbound
  Vehicles <- TwoVehicles
  SameWithin = 1
  Slack = 2
  RecentlySeenThreshold = 1
  Reports <- SomeReports
  MaxMerged = 2
  MaxQueued = 2
  MaxBatch = 2
INVARIANTS
  OrderKept
  NothingForgotten
  AverageNearFirst
CHECK_DEADLOCK FALSE
CONSTRAINT NoneReturned
