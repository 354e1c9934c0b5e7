SPECIFICATION Spec
CONSTANTS
  MaxLsn = 2
  Names = {1}
  SegmentRecords = 2
  MaxCheckpoints = 1
  MaxCrashes = 2
INVARIANT TypeOK
INVARIANT StrictDurable
INVARIANT RecoveredCausally
INVARIANT KeptNamesResolve
CHECK_DEADLOCK FALSE
