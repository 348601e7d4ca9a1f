SPECIFICATION Spec
CONSTANTS
    a = a
    b = b
    None = None
    Channel = {a, b}
    Stored <- MCStored
    PageSize = 1
    MaxMoves = 3
INVARIANTS
    OwnAtRest
CHECK_DEADLOCK FALSE
