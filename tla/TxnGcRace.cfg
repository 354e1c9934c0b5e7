SPECIFICATION Spec
CONSTANTS
  t1 = t1
  m1 = m1
  m2 = m2
  k1 = k1
  NoTxn = NoTxn
  r1 = r1
  Txns = {t1}
  Smos = {m1, m2}
  Keys = {k1}
  SysKeys = {r1}
  LsnMax = 4
  MaxOps = 1
  DeltaMode = FALSE
  GcOn = TRUE
SYMMETRY Perms
INVARIANT SnapshotReads
CHECK_DEADLOCK FALSE
