CONSTANTS
  None = None
  ada = ada  tok = tok  one = one  two = two
  pat = pat  ned = ned  author = author
  Asset <- MCAsset
  Ada = ada
  Author = author
  Payee <- MCPayee
  Plans <- MCPlans
  Funds <- MCFunds
  MaxOutputs = 4
SPECIFICATION Spec
INVARIANTS
  EveryClaimIsPaid
  AuthorNeverGains
CHECK_DEADLOCK FALSE
