\* The process may be shut down for good.
CONSTANTS
  None = None
  Parts = {"snapshot"}
  Requests = {r1, r2}
  Commits = {r1, r2}
  DetailEnabled = TRUE
  IngressCapacity = 1
  CommitCapacity = 1
  DetailCapacity = 1
  Projections = 1
  MaxPanics = 1
SPECIFICATION ServicesSpec
CHECK_DEADLOCK FALSE
PROPERTIES SwitchedOnIsPersisted
