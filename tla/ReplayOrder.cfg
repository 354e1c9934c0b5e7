SPECIFICATION FairSpec
CONSTANTS
  MaxLsn = 4
  k1 = k1
  k2 = k2
  NoKey = NoKey
  Keys = {k1, k2}
  MaxBuffer = 2
  Format = "image"
  SpillModes = {TRUE, FALSE}
  MaxFaults = 1
INVARIANT TypeOK
INVARIANT ReplayedInOrder
INVARIANT NeverOutOfOrder
INVARIANT AllocatorsCoverLog
PROPERTY ReplayFinishes
CHECK_DEADLOCK FALSE
