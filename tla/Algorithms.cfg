SPECIFICATION Spec
CONSTANTS
  Nil = nil
  None = none
  OffTheMap = off
  o1 = o1
  o2 = o2
  o3 = o3
  b1 = b1
  b2 = b2
  c1 = c1
  c2 = c2
  NoLastTime = absent
  TooLow = 2000
  TooHigh = 9000
  Malformed = malformed
  Damaged = damaged
  MaxBuckets = 8
  Hash <- SumOf
  AsRead <- TagAsRead
  Unreadable = unreadable
INVARIANTS
  ComparedRight
  PathsKeepTheirIndex
  NotesChangeNothing
  TimesKept
  ImagesTrue
CHECK_DEADLOCK FALSE
