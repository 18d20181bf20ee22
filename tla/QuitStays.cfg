CONSTANTS
    Operations <- AllOperations
    MaxGenerations = 2
    MaxUses = 3
    MaxReports = 1
SPECIFICATION Spec
PROPERTY QuitStays
CHECK_DEADLOCK FALSE
