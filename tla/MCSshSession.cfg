SPECIFICATION FairSpec
CONSTANTS
  Forwarder <- Streams
  MaxPending = 1
  NoOne = NoOne
INVARIANTS
  TypeOK
  OneWriter
  RowEndsLast
PROPERTIES
  SessionEnds
  GoroutinesEnd
\* Ends when the handler has returned and nobody can go on.
CHECK_DEADLOCK FALSE
