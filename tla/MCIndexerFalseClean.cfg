CONSTANTS
  blank = blank
  long = long
  None = None
  NoRow = NoRow
  Deleted = Deleted
  Path = {1, 2}
  ScopeOf <- TwoFiles
  Content = {blank, long}
  Chunks <- OneChunk
  Size <- Sizes
  MaxEdits = 2
  MaxPaths = 2
  MaxPoints = 3
SPECIFICATION NewSpec
INVARIANT NoFalseClean
