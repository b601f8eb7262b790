SPECIFICATION FairSpec
CONSTANTS
  Paths = {p1}
  Runs = {1, 2}
  Nobody = Nobody
  Users = {u1, u2}
  MaxRequests = 3
  MaxEdits = 1
  MaxStarts = 2
  MaxFaults = 1
INVARIANTS TypeOK RunningIsLive RecordsAreClosed OutcomeIsRecorded
PROPERTIES PathsAreFreed PromiseSpec
CHECK_DEADLOCK FALSE
