SPECIFICATION Spec
CONSTANTS
  Path <- MCPath
  Version <- MCVersion
  Module <- MCModule
  Route <- MCRoute
  Symbol <- MCSymbol
  Env <- MCEnv
  Text <- MCText
  Rank <- MCRank
  Digest <- MCDigest
  Requests <- MCRequests
  Legacy <- MCLegacy
  None = None
  v = v
  w = w
  m1 = m1
  m2 = m2
  m3 = m3
  route = route
  symbol = symbol
  env = env
  MaxPaths = 2
  MaxReverse = 1
  MaxLarge = 3
INVARIANT UpdateKeepsEveryEdge

