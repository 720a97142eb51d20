SPECIFICATION Spec
CONSTANTS
  PwmGens = 1
  PwmTop = 7
  PwmWord = 64
  PwmSteps = 2
  PwmMHz = 2
  PwmPeriods = {1, 33}
  PwmCalls = 2
INVARIANTS ShapeAsAsked
CHECK_DEADLOCK FALSE
