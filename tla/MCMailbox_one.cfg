SPECIFICATION Spec
CONSTANTS
  Word = {1, 65537}
  Sizes = {1, 2}
  CtrlVal = {"reset", "msg"}
  Ctrl0 = "reset"
  Dout0 = 0
  Depth = 2
  SyncLat = 2
  RingGap = 2
  BusOf <- MCOneChannel
INVARIANTS TypeOK RungIsSignalled IrqHasWord
PROPERTIES ImplementsAbs
