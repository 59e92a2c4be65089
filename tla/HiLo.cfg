SPECIFICATION FairSpec
CONSTANTS
  h1 = h1
  h2 = h2
  l1 = l1
  l2 = l2
  k1 = k1
  None = None
  HiClients <- TwoHi
  LoClients <- TwoLo
  Closers <- OneCloser
  MaxWait = 2
  MaxDelay = 3
INVARIANT ServedOneByOne
PROPERTIES
  WaitHonoured
  ImplementsClosableService
  NobodyStarves
  CloseDrains
CHECK_DEADLOCK FALSE
