SPECIFICATION Spec
CONSTANTS
  Channel = {c1}
  Ticket = {t1, t2}
  Staff = {s1}
  Actor = {a1}
  None = None
SYMMETRY Symmetry
PROPERTY FollowUpIsActive
\* Ends when every chat id has been used and deleted before a ticket was issued.
CHECK_DEADLOCK FALSE
