SPECIFICATION Spec
CONSTANTS
  Gatepass = {g1, g2, g3}
  Day = {d1, d2}
  Clerk = {k1, k2}
  None = None
SYMMETRY Symmetry
INVARIANTS
  TypeOK
  DenseNumbers
PROPERTY ImplementsBook
