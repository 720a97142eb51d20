SPECIFICATION Spec
CONSTANTS
  Fifo = 8
  IicLens = {1, 2, 10}
  IicCalls = 3
  GpioPins = 2
  GpioEdges = 2
  GpioCalls = 3
  RtcRate = 2
  RtcMod = 7
  RtcLoad = 1
  RtcTimes = {2}
  RtcAlarms = {1, 4}
  RtcCalls = 5
  LastYear = 2099
  TimerMod = 8
  TimerUs = 2
  TimerSecond = 2
  Timeouts = {0, 1, 3, 5}
  TimerCalls = 5
  WdtUnit = 4
  WdtRanges = 2
  WdtMs = 3
  WdtValues = {1, 2, 5, 9}
  WdtCalls = 4
  PwmGens = 2
  PwmTop = 7
  PwmWord = 64
  PwmSteps = 2
  PwmMHz = 2
  PwmPeriods = {5, 20}
  PwmCalls = 4
  DmaCalls = 6
  S9Words = {1, 2}
  BootAddrs = {0, 1, 2}
  BootWrites = 4
  IrqDevices <- MCIrqDevices
  IrqJobs = 3
INVARIANTS DevicesTypeOK DevicesGoOn RequestsAddUp DoneIsComplete CalendarRight NeverBitesEarly PwmShape EventsKept Slave9Carries RunsWhereTold ServedByOwner
PROPERTIES NothingEarly IicEnds PinsServed AlarmRings TransfersTold
CHECK_DEADLOCK FALSE
