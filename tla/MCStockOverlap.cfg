SPECIFICATION FairSpec
CONSTANTS
  Branch = {b1, b2}
  Request = {r1, r2, r3}
  MaxQuantity = 1
  Width = 3
  None = None
INVARIANTS
  TypeOK
  NothingFromNothing
  BooksAccounted
PROPERTIES
  BooksButForLosses
  BegunEnds
\* Ends when every request is done.
CHECK_DEADLOCK FALSE
