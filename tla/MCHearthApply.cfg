\* Flash, resume, retain, roll back, boot and confirm, with power losses.
SPECIFICATION FairSpec
CONSTANTS
  Versions = {1, 2, 3}
  First = 1
  Bundles = {2, 3}
  FwOf <- BackToOne
  HasHost = {3}
  MaxOffers = 2
  MaxLosses = 2
  MaxFaults = 1
  MaxReflashes = 1
INVARIANTS
  AttemptsBounded
  RetainedConsistent
  RebootsBounded
  DeclaredInForce
PROPERTIES
  RecordedRuns
  Settles
CHECK_DEADLOCK FALSE
