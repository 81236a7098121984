SPECIFICATION Spec
CONSTANTS
  w1 = w1
  w2 = w2
  s1 = s1
  Unit = {w1, w2}
  Server = {s1}
  None = None
  PageSize = 1
  HeadBudget = 1
  BackfillBudget = 2
  Genesis <- MCGenesis
  MaxChain = 3
  MaxLate = 1
  MaxCrashes = 1
  MaxAsks = 1
INVARIANTS StampIsHonest
PROPERTIES SnapshotsMoveForward Converges HistoryCompletes
CHECK_DEADLOCK FALSE
