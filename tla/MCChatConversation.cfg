SPECIFICATION FairSpec
CONSTANTS
    a = a
    b = b
    None = None
    Channel = {a, b}
    Stored <- MCStored
    PageSize = 1
    MaxMoves = 4
INVARIANTS
    TypeOK
    NoDuplicates
    NoHoles
PROPERTIES
    OwnMessages
    TypingEnds
    Reconnects
CHECK_DEADLOCK FALSE
