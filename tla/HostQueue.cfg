SPECIFICATION Spec
CONSTANTS
  h1 = h1
  h2 = h2
  none = none
  target = target
  work = work
  check = check
  note = note
  Hosts <- MCHosts
  NoHost = none
  Runs <- TwoRuns
  TargetOf <- SharedTarget
  KindOf <- GroupKind
  TaskRuns = {1}
  AgentSteps = {work}
  ConfirmSteps = {check}
  StepsOf <- AgentOnly
  Notes = {note}
  MaxAttempt = 2
  MaxActive = 2
  MaxQueued = 2
  MaxPerTarget = 2
  CommandsDuringScan <- FirstAttempt
  KernelOutcomes <- FewOutcomes
  AskingSteps = {}
  MaxExpiries = 0
SYMMETRY Symmetric
CHECK_DEADLOCK FALSE
INVARIANTS
  ActiveIndex
  OneExecutingPerTarget
  SteeringRead
PROPERTIES
  RefinesLifecycle
  UnknownBarrier
