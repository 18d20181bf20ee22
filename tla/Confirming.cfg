SPECIFICATION Spec
CONSTANTS
  Targets = {"channel"}
  Texts = {1, 2}
  MaxPending = 2
  MaxBatches = 1
  HeldLimit = 2
  Followed = 2
  Replaces = FALSE
  MaxSends = 2
  MaxTurns = 2
  MaxEvents = 1
  MaxOnWay = 1
INVARIANTS
  FollowedAsTracked
  ShownAsDelivered
  NeverTwice
PROPERTIES
  EveryLineSettles
CHECK_DEADLOCK FALSE
