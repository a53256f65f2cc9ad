SPECIFICATION Spec
CONSTANTS
  h1 = h1
  h2 = h2
  none = none
  target = target
  work = work
  check = check
  note = note
  Hosts <- MCHosts
  NoHost = none
  Runs <- OneRun
  TargetOf <- OneTarget
  KindOf <- WorkflowKind
  TaskRuns = {}
  AgentSteps = {work}
  ConfirmSteps = {check}
  StepsOf <- AgentStep
  Notes = {}
  MaxAttempt = 1
  MaxActive = 1
  MaxQueued = 2
  MaxPerTarget = 2
  CommandsDuringScan <- AnyCommand
  KernelOutcomes <- FewOutcomes
  AskingSteps = {}
  MaxExpiries = 1
SYMMETRY Symmetric
CHECK_DEADLOCK FALSE
PROPERTY CancelledIsFinal
