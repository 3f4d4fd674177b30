\* The service may be stopped, or refuse to start, and then nothing more happens.
CONSTANTS
  None = None
  Initial = a
  Bad = bad
  Contents = {a, b}
  o1 = o1
  o2 = o2
  Ops = {o1, o2}
  Limits <- SmallLimits
SPECIFICATION FairSpec
CHECK_DEADLOCK FALSE
INVARIANTS TypeOK OpenGateIsClean DecisionIsActive DecisionSurvives
PROPERTIES OverwritesAreDecided OperationMovesOn StartEnds
