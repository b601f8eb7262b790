SPECIFICATION Spec
CONSTANTS
  m1 = m1  m2 = m2
  Media = {m1, m2}
  None = None
  MaxConcurrent = 2
  MaxJobs = 3
INVARIANTS OneJobPerMedia
CHECK_DEADLOCK FALSE
