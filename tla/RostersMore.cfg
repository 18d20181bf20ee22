SPECIFICATION Spec
CONSTANTS
    ExtendedJoin = TRUE
    MaxMoves = 3
    MaxOwn = 2
    MaxTimeouts = 1
    MaxLink = 1
    MaxQueued = 1
    People = {p1, p2}
    Regulars = {p1}
    Nicks <- MCNicks
    Channels <- MCTwo
    Logins <- MCLogins
    Levels <- MCOp
    Open <- MCOne
INVARIANTS
  TypeOK
  IndexAgrees
ACTION_CONSTRAINT OneSideAtATime
CHECK_DEADLOCK FALSE
