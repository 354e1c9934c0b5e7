SPECIFICATION Spec
CONSTANTS
  NumPages = 2
  MaxLsn = 4
  MaxInflight = 2
  BatchPages = 1
  Tiers = {"Strict", "Periodic"}
  MaxCk = 1
  MaxFaults = 1
INVARIANT DurableKept
CHECK_DEADLOCK FALSE
