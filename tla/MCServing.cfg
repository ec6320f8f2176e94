SPECIFICATION Spec
CONSTANTS
  None = None
  p = p
  Path = {p}
  TTL = 0
  Sparse = {TRUE}
  Graphs <- MCGraphs
  ScanEnds = {TRUE}
  Arguments <- MCArguments
  AgentTools = {"reindex_paths"}
  MaxPolls = 1
  MaxTime = 1
  MaxEdits = 1
  MaxOps = 1
CHECK_DEADLOCK FALSE
INVARIANTS
  TypeOK
  VerdictIsEarned
  StartIsReal
PROPERTIES
  
  SearchableAnswersAreRecent
  NoHiddenOperation
