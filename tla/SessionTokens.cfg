SPECIFICATION Spec
CONSTANTS
  Clients = {c1, c2}
  Limit = 1
  MaxAttempts = 1
  Earlier = 1
  MaxTokens = 3
  MaxLogouts = 1
  MaxFaults = 2
SYMMETRY ClientSymmetry
INVARIANTS TypeOK DeadTokensStayDead SessionLimit
PROPERTY TokenIsAccepted
CHECK_DEADLOCK FALSE
