SPECIFICATION Spec
CONSTANTS
  Branch = {b1, b2}
  Request = {r1, r2, r3}
  MaxQuantity = 1
  Width = 2
  None = None
SYMMETRY Symmetry
INVARIANT NoOverdraw
\* Ends when every request is done.
CHECK_DEADLOCK FALSE
