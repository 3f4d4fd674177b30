\* Time is bounded.
CONSTANTS
  None = None
  Requests = {r1, r2}
  Permits = 2
  Qualities = {0, 2}
  MaxLoads = 2
  MaxVersion = 2
  MaxJobs = 2
  Parts = {"values"}
SPECIFICATION TrafficSpec
CHECK_DEADLOCK FALSE
INVARIANTS PoolWindowIsKept
