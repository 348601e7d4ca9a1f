SPECIFICATION Spec
CONSTANTS
  Channel = {c1, c2}
  Ticket = {t1, t2}
  Staff = {s1}
  Actor = {a1, a2}
  None = None
SYMMETRY Symmetry
INVARIANTS
  TypeOK
  HeldTicketIsOwn
  OneActiveTicket
  NoOrphanTicket
PROPERTIES
  RelinkOnlySettled
  ImplementsCustody
\* Ends when every chat id has been used and deleted before a ticket was issued.
CHECK_DEADLOCK FALSE
