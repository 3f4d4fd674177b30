\* Every part may come to an end of its work.
CONSTANTS
  None = None
  Parts = {"pipeline", "flight", "snapshot", "watch", "shards", "inbound", "stream", "web"}
  Requests = {r1, r2}
  Commits = {r1, r2}
  DetailEnabled = TRUE
  IngressCapacity = 1
  CommitCapacity = 1
  DetailCapacity = 1
  Projections = 1
  MaxPanics = 1
SPECIFICATION ServicesSpec
CHECK_DEADLOCK FALSE
INVARIANTS ServicesTypeOK CompletedLosesNothing
PROPERTIES IsHandoff FilesAreTrue FilesAreFollowed WorkEnds
