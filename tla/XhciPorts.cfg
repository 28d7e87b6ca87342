SPECIFICATION FairSpec
CONSTANTS
  MaxPorts = 3
  CanUnplug = {2}
  NoDriver = {1}
  MayFail = TRUE
  MaxChanges = 1
INVARIANTS PortsInv
PROPERTIES PhaseOrder EveryPortConfigured
CHECK_DEADLOCK FALSE
