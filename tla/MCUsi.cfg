SPECIFICATION Spec
CONSTANTS
  Fifo = 4
  UsartLens = {1, 4}
  UsartIntr = {"TX_EMPTY"}
  MaxTx = 5
  MaxRx = 2
  MaxRecv = 1
  MaxCalls = 1
  SpiLens = {1, 5}
  SpiMaxTx = 6
  SpiCalls = 2
INVARIANTS PortTypeOK SentInOrder SpiInOrder SpiAnswersMatch SpiSelected PortGoesOn
PROPERTIES CompleteWhenQuiet SpiEndsComplete SendEnds SpiEnds
CHECK_DEADLOCK FALSE
