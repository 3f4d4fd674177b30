\* The service ends when its shutdown has ended.
SPECIFICATION Spec
CONSTANTS
    Requests = {q1}
    Refreshers = {q1}
    Drains = {}
    MaxRevision = 3
    MaxVersion = 0
    MaxFailures = 0
INVARIANTS LateTasksAreOwned
CHECK_DEADLOCK FALSE
