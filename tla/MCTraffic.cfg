\* Every part may come to an end of its work, and the algorithms take no step.
CONSTANTS
  None = None
  Requests = {r1, r2}
  Permits = 2
  Qualities = {0, 2}
  MaxLoads = 2
  MaxVersion = 2
  MaxJobs = 2
  Parts = {"flow", "values", "plan", "groups", "turns", "addresses", "tunnel", "doh",
           "frames", "sockets", "trace", "inbound", "stream", "web", "regex", "rules", "hosts", "json", "wild",
           "paths"}
SYMMETRY Symmetric
SPECIFICATION TrafficSpec
CHECK_DEADLOCK FALSE
INVARIANTS TrafficTypeOK OpenLoadIsHeld CacheIsHonest AnswersAreEarned NamesAreExact TransportIsExact
  SessionsAreSound
PROPERTIES StepsAreJustified
