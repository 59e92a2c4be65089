SPECIFICATION Spec
CONSTANTS
  Dirs = {1, 2, 3}
  Items <- MCItems
  CompareOnly = FALSE
  Announcing = TRUE
INVARIANT AllListed
CHECK_DEADLOCK FALSE
