SPECIFICATION Spec
CONSTANTS
  r1 = r1
  r2 = r2
  r3 = r3
  Call = {r1, r2, r3}
  Client = {ann}
  submit = submit
  evaluate = evaluate
  Method = {submit, evaluate}
  None = None
  ClientBuilds = 1
  AllBuilds = 1
  ClientInputs = 1
  AllInputs = 2
  ClientRpcs = 1
  MethodRpcs = 1
  Window = 3
  Retention = 0
  Inputs = {0, 2}
  MaxDelay = 1
  MaxTime = 4
CONSTRAINT MethodsApart
SYMMETRY Symmetry
INVARIANTS BurstIsBounded ServedIsPaid OnlyAcceptedReachTheDeployment
PROPERTIES WindowsEnd
CHECK_DEADLOCK FALSE
