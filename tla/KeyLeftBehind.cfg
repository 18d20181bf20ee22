SPECIFICATION Spec
CONSTANTS
    Passwords = {p}
    ChannelKeys = {c}
    Values = {1}
    Systems = {"entries"}
    Faults = {}
    MaxWrites = 1
    MaxMoves = 1
    MaxFaults = 0
    MaxStarts = 0
INVARIANT
    KeysMoveToo
CHECK_DEADLOCK FALSE
