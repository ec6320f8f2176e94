SPECIFICATION Spec
CHECK_DEADLOCK FALSE
CONSTANTS
  None = None
  Cases <- MCCases
  Factor = 1
  Floor = 1
  FilteredFloor = 2
  Cap = 3
  HybridFactor = 1
  HybridFloor = 1
  SparseFactor = 1
  SparseFloor = 1
  SparseCap = 3
INVARIANTS
  ResultsAreExactOrTold
  FusionKeepsDominance
  StatusAgreesWithSearch
  NoLexicalMatchIsLost
