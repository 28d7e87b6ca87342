SPECIFICATION FairSpec
CONSTANTS
  MaxPorts = 3
  CanUnplug = {2}
  NoDriver = {}
  MayFail = FALSE
  MaxChanges = 1
PROPERTIES WaitingIsServed
CHECK_DEADLOCK FALSE
