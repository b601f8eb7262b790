SPECIFICATION FairSpec
CONSTANTS
  job = job  test = test
  Requests = {r1, r2}
  Clients = {job, test}
  Testers = {test}
  None = None
  Retries = 1
  RefreshAttempts = 2
  MaxExpiries = 1
  MaxJobs = 2
  MaxCalls = 3
  MaxFaults = 1
INVARIANTS TypeOK WorkingPairIsKept OwnRotationsDontHurt
CHECK_DEADLOCK FALSE
PROPERTIES RequestsReturn
