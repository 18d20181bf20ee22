SPECIFICATION Spec
CONSTANTS
    Passwords = {p}
    ChannelKeys = {c}
    Values = {1, 2}
    Systems = {"entries", "vault"}
    Faults = {"read", "write", "remove", "unavailable", "load", "save"}
    MaxWrites = 1
    MaxMoves = 2
    MaxFaults = 1
    MaxStarts = 1
INVARIANTS
  SecretsSurvive
  SecretsInUse
  ChoiceAgrees
PROPERTIES
  WaitsEnd
CHECK_DEADLOCK FALSE
