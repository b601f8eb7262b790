SPECIFICATION Spec
CONSTANTS
  job = job  test = test
  Requests = {r1, r2}
  Clients = {job, test}
  Testers = {test}
  None = None
  Retries = 1
  RefreshAttempts = 2
  MaxExpiries = 1
  MaxJobs = 1
  MaxCalls = 3
  MaxFaults = 0
INVARIANTS RefreshedPairIsStored
CHECK_DEADLOCK FALSE
