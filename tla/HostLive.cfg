SPECIFICATION FairSpec
CONSTANTS
  h1 = h1
  h2 = h2
  none = none
  target = target
  work = work
  check = check
  note = note
  Hosts <- MCHosts
  NoHost = none
  Runs <- TwoRuns
  TargetOf <- SharedTarget
  KindOf <- ChatKind
  TaskRuns = {}
  AgentSteps = {work}
  ConfirmSteps = {}
  StepsOf <- AgentOnly
  Notes = {}
  MaxAttempt = 1
  MaxActive = 1
  MaxQueued = 2
  MaxPerTarget = 2
  CommandsDuringScan = {}
  KernelOutcomes <- FewOutcomes
  AskingSteps = {}
  MaxExpiries = 0
CHECK_DEADLOCK FALSE
PROPERTIES
  StopEnds
  QueueMoves
