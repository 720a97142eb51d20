SPECIFICATION Spec
CONSTANTS
  Fifo = 4
  UsartLens = {2}
  UsartIntr = {"TX_EMPTY"}
  MaxTx = 0
  MaxRx = 3
  MaxRecv = 1
  MaxCalls = 1
  SpiLens = {1}
  SpiMaxTx = 0
  SpiCalls = 0
INVARIANTS ReceiveInBuffer
CHECK_DEADLOCK FALSE
