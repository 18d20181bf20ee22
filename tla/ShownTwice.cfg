SPECIFICATION Spec
CONSTANTS
  Channels = {c1}
  Limit <- MCLimit
  OlderLimit <- MCOlderLimit
  MaxQueued = 1
  MaxAbandoned = 1
  MaxCommands = 1
  MaxEvents = 1
  MaxOnWay = 1
  MaxLines = 3
  MaxActs = 3
INVARIANTS
  NoLineTwice
CHECK_DEADLOCK FALSE
