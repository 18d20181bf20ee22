CONSTANTS
    Operations <- AllOperations
    MaxGenerations = 2
    MaxUses = 3
    MaxReports = 1
SPECIFICATION Spec
INVARIANT WakeUpReconnects
CHECK_DEADLOCK FALSE
