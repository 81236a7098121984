SPECIFICATION Spec
CONSTANTS
  w1 = w1
  s1 = s1
  s2 = s2
  Unit = {w1}
  Server = {s1, s2}
  None = None
  PageSize = 2
  HeadBudget = 1
  BackfillBudget = 4
  Genesis <- MCOne
  MaxChain = 4
  MaxLate = 0
  MaxCrashes = 0
  MaxAsks = 0
INVARIANTS NoGap
CHECK_DEADLOCK FALSE
