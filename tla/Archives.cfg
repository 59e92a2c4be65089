SPECIFICATION Spec
CONSTANTS
  Closed = Closed
  DayLength = 2
  LastTime = 3
  MaxSuffix = 2
  MaxEntries = 3
  MaxCrashes = 1
  MaxFaults = 1
INVARIANTS
  FiledByDay
  OneRunPerFile
  FlushedKept
PROPERTY NewDayAccepted
CHECK_DEADLOCK FALSE
