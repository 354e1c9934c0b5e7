SPECIFICATION FairSpec
CONSTANTS
  a1 = a1
  a2 = a2
  a3 = a3
  Scheduler = Scheduler
  Owner = Owner
  Appenders = {a1, a2, a3}
  SizeOf <- OneOversized
  Budget = 2
  MaxBatch = 2
  AssignedLsns <- Numberings
  MayPanic = TRUE
INVARIANT TypeOK
INVARIANT StrictAckDurable
INVARIANT PeriodicAckHeld
INVARIANT WatermarkSoundInOrder
INVARIANT UnsettledBounded
PROPERTY AppendsReturn
PROPERTY PeriodicSettles
CHECK_DEADLOCK FALSE
