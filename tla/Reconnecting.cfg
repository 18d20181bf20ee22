CONSTANTS
    Operations <- AllOperations
    MaxGenerations = 3
    MaxUses = 3
    MaxReports = 1
SPECIFICATION FairSpec
INVARIANTS
  NeverStranded
  OnlyUserStops
PROPERTIES
  DisconnectStays
  Recovers
CHECK_DEADLOCK FALSE
