SPECIFICATION Spec
CONSTANTS
  CommandCapacity = 2
  EventCapacity = 1
  MaxHeld = 1
  MaxPaced = 1
  PacedBurst = 1
  MaxSendLines = 1
  MaxIds = 1
  MaxCalls = 4
  MaxBuffered = 1
  Operations <- HeldOperations
INVARIANTS
  HeldCommandsReported
CHECK_DEADLOCK FALSE
