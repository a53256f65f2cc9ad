SPECIFICATION Spec
CONSTANTS
  Calls <- MCCalls
  Request <- MCRequest
  UserCommands <- MCUserCommands
  Order <- MCOrder
  MaxTasks = 2
  MaxActive = 1
  MaxRounds = 2
  MaxGrants = 2
INVARIANTS
  CommandOnce
  EndsTold
CHECK_DEADLOCK FALSE
