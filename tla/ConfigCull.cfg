SPECIFICATION FairSpec
CONSTANTS
  Dirs = {1, 2, 3}
  Items <- MCItems
  CompareOnly = FALSE
  Announcing = FALSE
  MaxWait = 3
  MaxRestarts = 1
INVARIANTS
  CulledIsRedundant
  MarkedWhileEmptying
PROPERTIES
  StoppedMeansQuiet
  ImplementsStore
  StopAnswered
CHECK_DEADLOCK FALSE
