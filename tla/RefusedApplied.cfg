SPECIFICATION Spec
CONSTANTS
  Transfers = 2
  Blocks = 1
  ResetPin = FALSE
  Lossy = {"GET", "ACK", "STAGED"}
  RebootPhases = {"idle"}
  MaxLosses = 0
  MaxReboots = 0
  MaxGarbles = 0
  MaxFaults = 0
  MaxRefusals = 1
  MaxEnds = 0
  MaxLines = 5
INVARIANT AppliedConsented
CHECK_DEADLOCK FALSE
