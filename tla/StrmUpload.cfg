SPECIFICATION FairSpec
CONSTANTS
  t1 = t1
  t2 = t2
  w1 = w1
  w2 = w2
  u1 = u1
  Tasks = {t1}
  Birth <- SingleRow
  MaxRetry = 1
  Databases = {"sqlite", "postgres"}
  Users = {u1}
  MaxUserOps = 2
  Workers = {w1, w2}
  Tasks115 = {t1}
  Replacing = {t1}
  MaxStarts = 2
  MaxFaults = 1
CHECK_DEADLOCK FALSE
INVARIANTS TypeOK DoneIsReplaced
PROPERTIES OnSQLiteWorkersLeaveCanceledRows LedgerSpec ReplacementFollows
