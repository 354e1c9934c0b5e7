SPECIFICATION Spec
CONSTANTS
  t1 = t1
  t2 = t2
  m1 = m1
  m2 = m2
  k1 = k1
  NoTxn = NoTxn
  r1 = r1
  Txns = {t1, t2}
  Smos = {m1, m2}
  Keys = {k1}
  SysKeys = {r1}
  LsnMax = 4
  MaxOps = 2
  DeltaMode = TRUE
  GcOn = TRUE
SYMMETRY Perms
CONSTRAINT RangesBesideGc
INVARIANT TypeOK
INVARIANT IInv
INVARIANT FencedSnapshotReads
INVARIANT NewestCommittedReadable
CHECK_DEADLOCK FALSE
