SPECIFICATION Spec
CONSTANTS
  Calls <- MCCalls
  Request <- MCRequest
  UserCommands <- WithdrawCommands
  Order <- WithdrawOrder
  MaxTasks = 2
  MaxActive = 1
  MaxRounds = 2
  MaxGrants = 2
INVARIANTS
  EndToldAsItWas
CHECK_DEADLOCK FALSE
