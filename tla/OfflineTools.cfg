SPECIFICATION Spec
CONSTANTS
  b1 = b1
  b2 = b2
  Pipes <- BothPipes
  Blocks <- TwoBlocks
  NoBlock = NoBlock
  BlockSize = 2
  FileSize = 3
  MaxErrors = 1
  Workers = {w1, w2}
  Outputs = {"a", "b"}
  Contents <- TwoFiles
  RecordCap = 1
  OutputCap = 1
  NumDays = 2
  NumFiles = 2
  ChanSize = 1
  MaxRuns = 3
  MaxFaults = 2
INVARIANTS
  BlocksInOnePlace
  RecordsInOrder
  NothingLost
  NoShortArchive
PROPERTIES
  FileClosed
  Finishes
CHECK_DEADLOCK FALSE
