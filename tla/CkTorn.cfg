SPECIFICATION Spec
CONSTANTS
  MaxLsn = 2
  Names = {}
  SegmentRecords = 1
  MaxCheckpoints = 2
  MaxCrashes = 1
INVARIANT StrictDurable
CHECK_DEADLOCK FALSE
