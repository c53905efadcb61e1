SPECIFICATION Spec
CONSTANTS
  mon = mon
  tue = tue
  night = night
  noon = noon
  Days <- MCDays
  MaxPerDay = 2
  Targets <- MCTargets
  OwnTargets <- MCOwn
  Proposals <- MCProposals
  MaxBuilt = 1
  MaxFaults = 1
INVARIANTS FitsAsAdded  
PROPERTY ResyncWhole
CHECK_DEADLOCK FALSE
