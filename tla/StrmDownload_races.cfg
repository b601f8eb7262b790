SPECIFICATION Spec
CONSTANTS
  t1 = t1
  t2 = t2
  w1 = w1
  w2 = w2
  u1 = u1
  Tasks = {t1}
  Birth <- SingleRow
  MaxRetry = 1
  Databases = {"sqlite", "postgres"}
  Users = {u1}
  MaxUserOps = 3
  Workers = {w1, w2}
  ClaimBatch = 1
  Tasks115 = {t1}
  DirtyPaths = {t1}
  Cap115 = 1
  CapDAV = 1
  Signals = {"stop"}
  MaxStarts = 2
  MaxFaults = 1
CHECK_DEADLOCK FALSE
SYMMETRY WorkerSymmetry
INVARIANTS TypeOK FinishedIffClosed RunningIsHeld CopiesAreOpen
PROPERTY LedgerSpec
