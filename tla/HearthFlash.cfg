SPECIFICATION FairSpec
CONSTANTS
  Families = {"xmodem", "smp", "esp"}
  Blocks = 3
  SeqMod = 2
  Retries = 2
  EntryAttempts = 2
  EchoAttempts = 2
  MaxTimeouts = 2
  MaxNoProgress = 2
  Calls = 2
INVARIANTS WholeWhenOk OutOfLoader
PROPERTY FlashReturns
CHECK_DEADLOCK FALSE
