SPECIFICATION Spec
CONSTANTS
  w1 = w1
  w2 = w2
  s1 = s1
  Unit = {w1, w2}
  Server = {s1}
  None = None
  PageSize = 2
  HeadBudget = 1
  BackfillBudget = 1
  Genesis <- MCGenesis
  MaxChain = 2
  MaxLate = 0
  MaxCrashes = 0
  MaxAsks = 1
PROPERTIES NewerReadPrevails
CHECK_DEADLOCK FALSE
