\* The levels of three contexts are set at once.  30 bytes hold two messages
\* and leave 2 bytes of a third, as 1024 bytes hold 73 and leave 2 of the next.
CONSTANTS
  BufferSize = 30
  ContextCount = 3
  Levels = {4}
  Garbage = {0, 1}
  MaxPending = 42
  MaxMessages = 3
SPECIFICATION FairSpec
CHECK_DEADLOCK FALSE
PROPERTY EveryRequestIsApplied
