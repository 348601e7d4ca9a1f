SPECIFICATION Spec
CONSTANTS
  IT = {i1, i2, i3}
  Auditor = {u1}
  Customer = {e1}
  Actor = {a1}
  None = None
  Keep = Keep
SYMMETRY Symmetry
INVARIANT OwnersDiffer
