SPECIFICATION FairSpec
CONSTANTS
  Cap = 1
  MaxErrors = 1
  Empties <- SecondEmpty
  Nils <- LastNil
  Breaking = TRUE
  Slow = TRUE
  Ticking = TRUE
  Failing = TRUE
  MaxResponses = 6
INVARIANT ResponsesKept
PROPERTIES
  ImplementsTee
  StopAnsweredOrDead
CHECK_DEADLOCK FALSE
