SPECIFICATION Spec
CONSTANTS
  GpioPins = 2
  GpioEdges = 2
  GpioCalls = 3
INVARIANTS EdgeToldOnce
CHECK_DEADLOCK FALSE
