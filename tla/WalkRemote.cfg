SPECIFICATION FairSpec
CONSTANTS
  r = r
  a = a
  b = b
  c = c
  Dirs = {r, a, b, c}
  Root = r
  Children <- Tree
  Workers = {w1, w2, w3}
INVARIANTS TypeOK PendingIsExact VisitedOnce SuccessIsComplete NobodySleepsForever
PROPERTY WalkReturns
