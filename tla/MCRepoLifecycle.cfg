CONSTANTS
  rt1 = rt1
  rt2 = rt2
  rt3 = rt3
  r1 = r1
  r2 = r2
  Runtime = {rt1, rt2, rt3}
  Repo = {r1, r2}
  RepoOf <- Served
  Calls <- Called
  About <- Registered
  Registry = Registry
  None = None
  Dead = Dead
SPECIFICATION StartedSpec
ACTION_CONSTRAINT OthersLive
INVARIANTS TypeOK WorkIsAnnounced SearchableMeansPoints IndexingMeansWork
PROPERTY LeasesComeFree
