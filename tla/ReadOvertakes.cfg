CONSTANTS
    Operations <- AllOperations
    MaxGenerations = 3
    MaxUses = 3
    MaxReports = 1
SPECIFICATION Spec
PROPERTY NewerAttemptStands
CHECK_DEADLOCK FALSE
