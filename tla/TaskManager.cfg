SPECIFICATION FairSpec
CONSTANTS
  kMaxLevel = 2
  kDefaultLevel = 1
  MaxTasks = 4
  Messages = {m}
  MaxMessages = 1
INVARIANTS Inv
PROPERTIES DispatchesHighest RoundRobin
