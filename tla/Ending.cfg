SPECIFICATION FairSpec
CONSTANTS
  CommandCapacity = 2
  EventCapacity = 1
  MaxHeld = 1
  MaxPaced = 2
  PacedBurst = 1
  MaxSendLines = 2
  MaxIds = 2
  MaxCalls = 3
  MaxBuffered = 1
  Operations <- EndingOperations
INVARIANTS
  TerminalEventIsLast
  EndIsReported
  ClosedOnlyWhenAsked
PROPERTIES
  QuitAlwaysEnds
  DisconnectEnds
  MessagesSettle
CHECK_DEADLOCK FALSE
