SPECIFICATION Spec
CONSTANTS
  Kinds = {"workflow"}
  KernelResults = {"succeeded", "unknown"}
  MaxAttempts = 1
  MaxCrashes = 1
  Graphs <- OneGraph
  Tasks <- SomeTasks
  Messages <- TwoMessages
  BatchMessages = 1
  HostResponses = 1
  MaxRevisions = 1
INVARIANT
  UnknownShown
