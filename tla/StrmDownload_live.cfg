SPECIFICATION FairSpec
CONSTANTS
  t1 = t1
  t2 = t2
  w1 = w1
  w2 = w2
  u1 = u1
  Tasks = {t1, t2}
  Birth <- TwoBatches
  MaxRetry = 1
  Databases = {"sqlite"}
  Users = {u1}
  MaxUserOps = 0
  Workers = {w1, w2}
  ClaimBatch = 1
  Tasks115 = {t1, t2}
  DirtyPaths = {}
  Cap115 = 1
  CapDAV = 1
  Signals = {}
  MaxStarts = 1
  MaxFaults = 1
CHECK_DEADLOCK FALSE
PROPERTY EveryTaskSettles
