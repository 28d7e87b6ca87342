SPECIFICATION FairSpec
CONSTANTS
  kMaxLevel = 3
  kDefaultLevel = 1
  MaxEvents = 2
  MaxTimeouts = 2
INVARIANTS KernelInv AsleepOnlyWithoutMail ScreenExclusive StartUpOrdered CursorTimerChain
PROPERTIES OnlyRaceDamagesQueues MailIsRead EventsAreProcessed
