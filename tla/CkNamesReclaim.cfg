SPECIFICATION Spec
CONSTANTS
  MaxLsn = 2
  Names = {1}
  SegmentRecords = 2
  MaxCheckpoints = 1
  MaxCrashes = 1
INVARIANT NamesResolve
CHECK_DEADLOCK FALSE
