SPECIFICATION Spec
CONSTANTS
    ExtendedJoin = FALSE
    MaxMoves = 3
    MaxOwn = 3
    MaxTimeouts = 0
    MaxLink = 1
    MaxQueued = 1
    People = {p1, p2}
    Regulars = {}
    Nicks <- MCNicks
    Channels <- MCOne
    Logins <- MCNone
    Levels <- MCNone
    Open <- MCNone
INVARIANT EachPresenceIsOne
CHECK_DEADLOCK FALSE
