SPECIFICATION FairSpec
CONSTANTS
  Configurations <- MCConfigurations
  Keys = {a, b}
  MaxEventWaiters = 1
  MaxSetupStages = 2
  MaxEpConfigs = 2
  RingSlots = 5
  MaxReports = 3
INVARIANTS UsbInv OnePoll KeysSeenOnce
PROPERTIES StartsPolling
CHECK_DEADLOCK FALSE
