SPECIFICATION FairSpec
CONSTANTS
  h1 = h1
  h2 = h2
  l1 = l1
  l2 = l2
  k1 = k1
  None = None
  HiClients <- OneHi
  LoClients <- OneLo
  Closers <- OneCloser
  MaxWait = 1
  MaxDelay = 2
PROPERTY CloseReturns
CHECK_DEADLOCK FALSE
