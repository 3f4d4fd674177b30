\* The number of edits is bounded.
CONSTANTS
  None = None
  Parts = {"edit"}
  Events = {"e1", "e2", "e3"}
  DayOf <- StatsDays
  Keys = {k1}
  Callers = {c1, c2, c3}
  MaxGen = 0
  MaxBatch = 3
  MaxPending = 2
  MaxPendingEvents = 2
  MaxStatsFaults = 1
  MaxStatsKills = 1
SPECIFICATION DataSpec
CHECK_DEADLOCK FALSE
INVARIANTS SecretsAreWritten
