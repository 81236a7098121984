CONSTANTS
  None = None
  ann = ann  bob = bob
  row1 = row1 row2 = row2
  first = first  rival = rival  later = later
  Key <- MCKey
  Row <- MCRow
  Body <- MCBody
  Base <- MCBase
  Listed <- MCListed
  MaxActive = 1
  MaxRecent = 2
  MaxRequests = 3
  MaxTip = 2
CONSTRAINT OneAtATime
SYMMETRY RowsAreAlike
SPECIFICATION Spec
INVARIANTS
  TypeOK
  OneTransferPerRow
  ClaimIsExclusive
  SignaturesAreCurrent
  AssemblyIsOnRecord
  SubmittedWasSent
  ActiveWithinQuota
PROPERTIES
  ImplementsOneShot
CHECK_DEADLOCK FALSE
