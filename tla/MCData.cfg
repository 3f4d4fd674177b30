\* Every part may come to an end of its work, and the algorithms take no step.
CONSTANTS
  None = None
  Parts = {"stats", "flight", "setup", "tasks", "workers", "refresh", "start", "shards", "paging", "retention", "edit", "reads",
           "boundary", "metrics", "telemetry", "ecs", "blocks", "duration", "validate",
           "readings"}
  Events = {"e1", "e2", "e3"}
  DayOf <- StatsDays
  Keys = {k1}
  Callers = {c1, c2}
  MaxGen = 2
  MaxBatch = 3
  MaxPending = 2
  MaxPendingEvents = 2
  MaxStatsFaults = 1
  MaxStatsKills = 1
SPECIFICATION DataSpec
CHECK_DEADLOCK FALSE
INVARIANTS DataTypeOK CountedOnce EveryLoadHasAnOwner
  DeliveredIsOwnOutcome  EditsAreSafe
  ConfigurationMeansOneThing WorkIsOwned CountsAreExact
PROPERTIES StepsAreAllowed OutcomeNeverChanges LoadsAreContract
