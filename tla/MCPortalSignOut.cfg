SPECIFICATION Spec
CONSTANTS
    a = a
    b = b
    c = c
    t1 = t1
    t2 = t2
    None = None
    Tab = {t1, t2}
    Account = {a, b, c}
    Role <- MCRole
    MaxMoves = 3
PROPERTIES
    OwnRejectionEnds
\* Ends when every tab is at rest and no move is left.
CHECK_DEADLOCK FALSE
