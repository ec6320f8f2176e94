SPECIFICATION Spec
CONSTANTS
  None = None
  p = p
  Path = {p}
  TTL = 0
  Sparse = {FALSE}
  Graphs <- MCGraphs
  ScanEnds = {TRUE}
  Arguments <- MCArguments
  AgentTools = {"search"}
  MaxPolls = 1
  MaxTime = 1
  MaxEdits = 1
  MaxOps = 1
CHECK_DEADLOCK FALSE
INVARIANTS
  HitsAreIndexed
