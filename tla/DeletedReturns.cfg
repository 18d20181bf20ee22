SPECIFICATION Spec
CONSTANTS
    Passwords = {p}
    ChannelKeys = {c}
    Values = {1}
    Systems = {"vault"}
    Faults = {"remove"}
    MaxWrites = 2
    MaxMoves = 0
    MaxFaults = 1
    MaxStarts = 0
INVARIANT
    DeletedIsGone
CHECK_DEADLOCK FALSE
