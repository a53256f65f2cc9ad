SPECIFICATION Spec
CONSTANTS
  Kinds = {"workflow", "group"}
  KernelResults = {"succeeded", "failed", "final", "unknown"}
  MaxAttempts = 2
  MaxCrashes = 1
  Graphs <- BothGraphs
  Tasks <- SomeTasks
  Messages <- TwoMessages
  BatchMessages = 1
  HostResponses = 2
  MaxRevisions = 1
INVARIANTS
  TypeOK
  NeverStuck
  LosersOut
  SuccessReachesEnd
  PlannedOnce
  OneCallPerMember
  CompletionIsEarned
PROPERTIES
  RetryOnTime
  UnknownStops
