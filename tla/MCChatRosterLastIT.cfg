SPECIFICATION Spec
CONSTANTS
  IT = {i1, i2}
  Auditor = {u1}
  Customer = {e1}
  Actor = {a1, a2}
  None = None
  Keep = Keep
SYMMETRY Symmetry
PROPERTY KeepsIT
