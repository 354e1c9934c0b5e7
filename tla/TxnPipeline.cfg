SPECIFICATION FairSpec
CONSTANTS
  t1 = t1
  t2 = t2
  t3 = t3
  k1 = k1
  m1 = m1
  k2 = k2
  Txns = {t1, t2, t3}
  Smos = {m1}
  Keys = {k1, k2}
  SysKeys = {}
  LsnMax = 4
  NoTxn = NoTxn
  MaxOps = 1
  DeltaMode = FALSE
  GcOn = FALSE
CONSTRAINT WriteSetsInOrder
INVARIANT SnapshotReads
INVARIANT NewestCommittedReadable
INVARIANT FirstCommitterWins
INVARIANT UnpublishedInvisible
INVARIANT FreezeSeesOnlyPublished
PROPERTY PushesAscend
PROPERTY Monotone
PROPERTY CommitSettles
PROPERTY ImplementsSnapshotIsolation
CHECK_DEADLOCK FALSE
