SPECIFICATION BootSpec
CONSTANTS
  kTaskTimerPeriod = 2
  kTimer05Sec = 3
  OtherTimeouts = {2, 5}
  MaxTick = 8
  MaxOthers = 2
  kConsoleRows = 2
  kConsoleColumns = 3
  Texts <- MCTexts
  MaxPrints = 3
  MaxKey = 7
  PmPeriod = 16
  WaitCounts = 5
  PollStep = 2
  MaxWaited = 40
INVARIANTS TimersInv BootInv RefsIntact ConsoleShowsTail
PROPERTIES ExpiresOnTime
