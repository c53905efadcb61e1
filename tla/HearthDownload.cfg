SPECIFICATION FairSpec
CONSTANTS
  Transfers = 2
  Blocks = 2
  ResetPin = TRUE
  Lossy = {"GET", "ACK", "STAGED"}
  RebootPhases = {"idle"}
  MaxLosses = 1
  MaxReboots = 1
  MaxGarbles = 2
  MaxFaults = 1
  MaxRefusals = 1
  MaxEnds = 1
  MaxLines = 5
INVARIANTS OneTransfer StagedWhole RatesAgree
PROPERTY RequestorOn
CHECK_DEADLOCK FALSE
