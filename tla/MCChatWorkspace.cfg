SPECIFICATION FairSpec
CONSTANTS
    a = a
    b = b
    c = c
    open = open
    closed = closed
    None = None
    Channel = {a, b, c}
    Filter = {open, closed}
    DefaultFilter = open
    Found <- MCFound
    PageSize = 2
    LastPage = 2
    MaxMoves = 2
INVARIANTS
    TypeOK
    LatestLoadWins
    RestAgrees
    LinkWins
PROPERTIES
    CascadeEnds
    ComesToRest
CHECK_DEADLOCK FALSE
