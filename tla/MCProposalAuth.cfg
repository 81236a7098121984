SPECIFICATION Spec
CONSTANTS
  c1 = c1
  c2 = c2
  r1 = r1
  r2 = r2
  Address = {ann}
  Challenge = {c1, c2}
  Attempt = {r1, r2}
  None = None
  NonceTtl = 2
  SessionTtl = 3
  MaxDelay = 1
  MaxTime = 4
SYMMETRY Symmetry
INVARIANTS OncePerChallenge
PROPERTIES SpentInTime
CHECK_DEADLOCK FALSE
