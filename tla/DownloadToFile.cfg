SPECIFICATION FileSpec
CONSTANTS
  w1 = w1
  w2 = w2
  w3 = w3
  i1 = i1
  i2 = i2
  i3 = i3
  i4 = i4
  Writers = {w1, w2, w3}
  Blocks = 2
  Inodes = {i1, i2, i3, i4}
  None = None
  MaxFailures = 3
SYMMETRY FileSymmetry
CHECK_DEADLOCK FALSE
INVARIANTS FileTypeOK TargetIsWhole ReturnedMeansWhole
