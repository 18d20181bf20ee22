SPECIFICATION Spec
CONSTANTS
  CommandCapacity = 2
  EventCapacity = 1
  MaxHeld = 2
  MaxPaced = 3
  PacedBurst = 1
  MaxSendLines = 2
  MaxIds = 4
  MaxCalls = 5
  MaxBuffered = 1
  Operations <- SendingOperations
INVARIANTS
  EveryMessageAccounted
  FloodLimited
PROPERTIES
  NothingSentDuringCheck
  NothingSentToDeadLink
  ImplementsDelivery
CHECK_DEADLOCK FALSE
