SPECIFICATION TransportSpec
CONSTANTS
  buf_size_ = 4
  TRBs = {a, b}
  NoTRB = none
  MaxInFlight = 2
  ebuf_size_ = 3
  PortEvent = port
  MaxBus = 2
  MaxDev = 1
  MaxFn = 1
  MaxDevices = 5
  Topologies <- MCTopologies
  FollowedTopology <- MCFollowed
  PoolBases = {0, 1, 2, 3, 61}
  Page = 4
  PoolSize = 20
  RingUnits = 2
  MaxScratchpads = 4
INVARIANTS TransportInv PciInv
PROPERTIES ImplementsFifo EventRingIsFifo CommandsAnswered
