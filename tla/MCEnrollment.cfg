SPECIFICATION FairSpec
CONSTANTS
  Request = {q1, q2, q3}
  Ingest = {i1, i2}
  Budget = 2
  None = None
INVARIANT TypeOK
PROPERTIES
  StaysUnderReview
  NewestGetsResolved
