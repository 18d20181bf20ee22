CONSTANTS
    c1 = c1
    c2 = c2
    Channels <- OneChannel
    MaxRejoins = 1
    SlowServer = FALSE
    MaxActs = 6
SPECIFICATION FairSpec
INVARIANTS
  AttemptsAreEarned
  UserLeaveStays
PROPERTIES
  RegainedRestoresAll
  AttemptsConclude
CHECK_DEADLOCK FALSE
