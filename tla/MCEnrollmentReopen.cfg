SPECIFICATION Spec
CONSTANTS
  Request = {q1, q2}
  Ingest = {i1}
  Budget = 3
  None = None
SYMMETRY Symmetry
PROPERTY ReopensOnlyDecided
