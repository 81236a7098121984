SPECIFICATION Spec
CONSTANTS
  None = None
  dan = dan  salary = salary  rent = rent
  Schedules <- MCSchedules
  Purses <- MCPurses
  Coin = {1}
  Batch = 2
  Cooldown = 1
  MaxWindow = 2
  Unlocks = {0, 1}
  MaxDeposits = 1
  Day = 1
  MaxStreams = 2
  MaxStateInteger = 4
PROPERTIES EverythingIsRecovered
CHECK_DEADLOCK FALSE
