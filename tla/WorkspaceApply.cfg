SPECIFICATION Spec
CONSTANTS
  Sessions = {s1, s2}
  Paths <- MCPaths
  Before <- MCBefore
  After <- MCAfter
  Edits <- MCEdits
  Absent = Absent
  MaxEdits = 1
  MaxFaults = 2
SYMMETRY MCSymmetry
INVARIANTS
  TypeOK
  MutualExclusion
  AllOrNone
  OriginalKept
  EditSurvives
  DeletionKept
  ReceiptIsCommit
  RecoverySettles
PROPERTIES
  FinalStays
CHECK_DEADLOCK FALSE
