CONSTANTS
  p1 = p1
  l1 = l1
  l2 = l2
  Path = {p1}
  ScopeOf <- OneScope
  Loop = {l1, l2}
  Tool = Tool
  Other = Other
  None = None
  MaxEdits = 2
SPECIFICATION Spec
INVARIANTS TypeOK NothingIsMissed
PROPERTIES IndexMovesForward ComesToBeIndexed StoppedThreadEnds
