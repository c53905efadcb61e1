\* Whose answer a command takes, no event is lost or repeated, every call
\* returns: two commands, two events, a poll or a wait and a boot.
SPECIFICATION FairSpec
CONSTANTS
  MaxCommands = 2
  MaxEvents = 2
  MaxReboots = 1
  MaxCalls = 1
INVARIANTS
  TypeOK
  OneReader
  OwnAnswer
  EventsDelivered
  EventsInOrder
PROPERTIES
  CallsReturn
CHECK_DEADLOCK FALSE
