SPECIFICATION Spec
CONSTANTS
    a = a
    b = b
    None = None
    Channel = {a, b}
    Stored <- MCStored
    PageSize = 2
    MaxMoves = 3
INVARIANTS
    ReadyWhenOpen
CHECK_DEADLOCK FALSE
