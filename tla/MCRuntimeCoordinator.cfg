\* The service ends when its shutdown has ended.
SPECIFICATION ScopedSpec
CONSTANTS
    Requests = {q1}
    Refreshers = {}
    Drains = {d1}
    MaxRevision = 2
    MaxVersion = 1
    MaxFailures = 1
    Scopes <- SmallScopes
INVARIANTS TypeOK RequestsAreOwned
PROPERTIES ResourcesNeverRollBack ShutdownEnds OldRuntimesAreReleased
CHECK_DEADLOCK FALSE
