SPECIFICATION FairSpec
CONSTANTS
  Options <- MCOptions
  Utf8 = TRUE
  UsesSasl = TRUE
  ServerCaps <- MCServerCaps
  Refusable <- MCRefusable
  Volatile <- MCServerCaps
  MaxChanges = 2
INVARIANTS
  NeverWithoutBatch
  RegisteredIsAuthenticated
PROPERTIES
  NegotiationEnds
CHECK_DEADLOCK FALSE
