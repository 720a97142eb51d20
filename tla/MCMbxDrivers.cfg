SPECIFICATION FairSpec
CONSTANTS
  Word = {11, 12, 21, 22, 23, 31, 32, 33}
  Sizes = {2}
  CtrlVal = {0, 1, 2, 3}
  Ctrl0 = 0
  Dout0 = 0
  Depth = 3
  SyncLat = 2
  RingGap = 2
  BusOf <- MCIdle
  Programs <- MCPrograms
  CtrlFor <- MCCtrlFor
  LenOf <- MCLenOf
INVARIANTS DTypeOK MessagesIntact DriversGoOn
PROPERTIES MessagesArrive LocksEnd
