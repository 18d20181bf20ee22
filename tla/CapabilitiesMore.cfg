SPECIFICATION FairSpec
CONSTANTS
  Options <- MCOptions
  Utf8 = TRUE
  UsesSasl = TRUE
  ServerCaps <- MCServerCaps
  Refusable <- MCRefusable
  Volatile <- MCServerCaps
  MaxChanges = 2
INVARIANTS
  TypeOK
  EnabledMeansGranted
  OnlySaslRefuses
  EndIsLast
CHECK_DEADLOCK FALSE
