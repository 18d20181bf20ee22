SPECIFICATION Spec
CONSTANTS
    ExtendedJoin = TRUE
    MaxMoves = 3
    MaxOwn = 2
    MaxTimeouts = 0
    MaxLink = 1
    MaxQueued = 1
    People = {p1, p2}
    Regulars = {p1}
    Nicks <- MCNicks
    Channels <- MCTwo
    Logins <- MCLogins
    Levels <- MCNone
    Open <- MCNone
INVARIANT KnownArePresent
ACTION_CONSTRAINT AccountsAlone
CHECK_DEADLOCK FALSE
