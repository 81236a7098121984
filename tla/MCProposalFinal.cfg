CONSTANTS
  None = None
  ann = ann  bob = bob
  row1 = row1  row2 = row2
  first = first  rival = rival  later = later
  Key <- MCKey
  Row <- MCRow
  Body <- MCBody
  Base <- MCBase
  Listed <- MCListed
  MaxActive = 1
  MaxRecent = 1
  MaxRequests = 3
  MaxTip = 2
SPECIFICATION Spec
INVARIANT SubmittedIsFinal
CHECK_DEADLOCK FALSE
