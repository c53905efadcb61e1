SPECIFICATION Spec
CONSTANTS
  Size = 19
  Spaces <- MCNames
  Keys <- MCNames
  Contents <- MCContents
  MaxCommitFailures = 1
INVARIANTS TypeOK OneRecordEach
PROPERTY KeepsWhatItSays
CHECK_DEADLOCK FALSE
