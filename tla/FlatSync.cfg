SPECIFICATION FairSpec
CONSTANTS
  f1 = f1  f2 = f2  f3 = f3
  a = a  b = b  c = c  x = x  y = y  v = v  w = w
  Files = {f1, f2, f3}
  Dirs = {a, b, c}
  Root = Root
  None = None
  Names = {x, y}
  Chain <- Tree
  Base <- Titles
  Stamp <- Times
  Start <- Drive
  Providers = {"115", "local"}
  PageSize = 1
  PageWorkers = 2
  DirWorkers = 2
  ProcessWorkers = 2
  MaxRuns = 2
  MaxChanges = 1
  MaxFaults = 1
INVARIANTS TypeOK ListedIsSeen SteadyIsListed DoneIsMirror FullIsTrue
PROPERTIES RunEnds
CHECK_DEADLOCK FALSE
