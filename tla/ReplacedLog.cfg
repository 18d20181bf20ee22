SPECIFICATION Spec
CONSTANTS
  Targets = {"channel", "person"}
  Texts = {1, 2}
  MaxPending = 2
  MaxBatches = 1
  HeldLimit = 2
  Followed = 2
  Replaces = TRUE
  MaxSends = 2
  MaxTurns = 2
  MaxEvents = 1
  MaxOnWay = 1
INVARIANTS
  LogIsTrue
CHECK_DEADLOCK FALSE
