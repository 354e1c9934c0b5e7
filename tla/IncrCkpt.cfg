SPECIFICATION Spec
CONSTANTS
  NumPages = 2
  MaxLsn = 4
  MaxInflight = 2
  BatchPages = 1
  Tiers = {"Strict", "Periodic"}
  MaxCk = 2
  MaxFaults = 2
INVARIANT TypeOK
INVARIANT KeptAboveFloor
INVARIANT RefusalExplained
INVARIANT HomeBehindWal
INVARIANT RecLsnCovers
INVARIANT FrontierReachesHorizon
INVARIANT CaptureIsDurable
CHECK_DEADLOCK FALSE
