\* The service may be stopped, or refuse to start, and then nothing more happens.
CONSTANTS
  None = None
  Initial = a
  Bad = bad
  Contents = {a, b}
  o1 = o1
  o2 = o2
  Ops = {o1, o2}
  Limits <- DecisionLimits
SPECIFICATION Spec
CHECK_DEADLOCK FALSE
INVARIANTS DecisionIsCompleted
