SPECIFICATION Spec
CONSTANTS
  kMaxLevel = 3
  kDefaultLevel = 1
  MaxEvents = 1
  MaxTimeouts = 1
PROPERTIES QueuesAreFifo
