SPECIFICATION Spec
CONSTANTS
  Word = {1}
  Sizes = {2}
  CtrlVal = {"reset", "msg"}
  Ctrl0 = "reset"
  Dout0 = 0
  Depth = 2
  SyncLat = 2
  RingGap = 2
  BusOf <- MCTwoChannels
PROPERTIES ImplementsAbs
