SPECIFICATION Spec
CONSTANTS
  CommandCapacity = 2
  EventCapacity = 1
  MaxHeld = 1
  MaxPaced = 1
  PacedBurst = 1
  MaxSendLines = 1
  MaxIds = 0
  MaxCalls = 2
  MaxBuffered = 1
  Operations <- NickOperations
PROPERTIES
  LinkLossIsNotRefused
CHECK_DEADLOCK FALSE
