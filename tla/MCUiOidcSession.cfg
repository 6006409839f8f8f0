CONSTANTS
  p1 = p1
  p2 = p2
  r1 = r1
  r2 = r2
  NoOne = NoOne
  Processes <- MCProcesses
  Requests <- MCRequests
  MaxTokens = 3
  MaxLogouts = 2
  MaxFaults = 1
SPECIFICATION Spec
SYMMETRY Symmetry
CHECK_DEADLOCK FALSE
INVARIANTS
  RefreshTokenNotBurnt
  OneUsableToken
  LogoutRevokes
