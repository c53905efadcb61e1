\* A resumed apply flashes an older retained image over a healthy one.
SPECIFICATION Spec
CONSTANTS
  Versions = {1, 2, 3}
  First = 1
  Bundles = {2, 3}
  FwOf <- NewParts
  HasHost = {3}
  MaxOffers = 2
  MaxLosses = 2
  MaxFaults = 0
  MaxReflashes = 1
INVARIANTS
  HealthyNotDowngraded
CHECK_DEADLOCK FALSE
