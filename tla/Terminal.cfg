SPECIFICATION Spec
CONSTANTS
  kRows = 2
  kColumns = 4
  kLineMax = 6
  kHistory = 2
  Chars = {"e", "c", "l", "p", " "}
  Devices <- MCDevices
  RootDir <- MCRootDir
  MaxKeys = 6
  MaxPending = 2
INVARIANTS TerminalInv ScreenCatchesUp HistoryKeepsLines
CHECK_DEADLOCK FALSE
