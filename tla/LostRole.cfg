SPECIFICATION Spec
CONSTANTS
    ExtendedJoin = TRUE
    MaxMoves = 3
    MaxOwn = 1
    MaxTimeouts = 0
    MaxLink = 1
    MaxQueued = 1
    People = {p1, p2}
    Regulars = {}
    Nicks <- MCNicks
    Channels <- MCOne
    Logins <- MCNone
    Levels <- MCLevels
    Open <- MCNone
INVARIANT RoleIsTheHighest
CHECK_DEADLOCK FALSE
