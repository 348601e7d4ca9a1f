SPECIFICATION Spec
CONSTANTS
  IT = {i1, i2, i3}
  Auditor = {}
  Customer = {e1}
  Actor = {a1, a2}
  None = None
  Keep = Keep
SYMMETRY Symmetry
INVARIANT OwnersAreMembers
