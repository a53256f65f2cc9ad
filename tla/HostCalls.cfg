SPECIFICATION Spec
CONSTANTS
  h1 = h1
  h2 = h2
  none = none
  target = target
  work = work
  check = check
  note = note
  Hosts <- MCHosts
  NoHost = none
  Runs <- OneRun
  TargetOf <- OneTarget
  KindOf <- OneChat
  TaskRuns = {}
  AgentSteps = {work}
  ConfirmSteps = {check}
  StepsOf <- AgentStep
  Notes = {}
  MaxAttempt = 2
  MaxActive = 1
  MaxQueued = 2
  MaxPerTarget = 2
  CommandsDuringScan <- FirstAttempt
  KernelOutcomes <- FewOutcomes
  AskingSteps = {work}
  MaxExpiries = 1
SYMMETRY Symmetric
CHECK_DEADLOCK FALSE
INVARIANTS
  TypeOK
  AtMostOneCall
  NoOrphan
PROPERTIES
  FinalUntilRetry
