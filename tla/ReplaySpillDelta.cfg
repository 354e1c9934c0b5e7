SPECIFICATION Spec
CONSTANTS
  MaxLsn = 4
  k1 = k1
  k2 = k2
  NoKey = NoKey
  Keys = {k1, k2}
  MaxBuffer = 2
  Format = "delta"
  SpillModes = {TRUE}
  MaxFaults = 0
INVARIANT ReplayedInOrder
CHECK_DEADLOCK FALSE
