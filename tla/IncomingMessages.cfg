\* The daemon never leaves more unread than one read() takes.
CONSTANTS
  BufferSize = 28
  ContextCount = 2
  Levels = {2, 6}
  Garbage = {0, 1}
  MaxPending = 28
  MaxMessages = 5
SPECIFICATION FairSpec
CHECK_DEADLOCK FALSE
INVARIANTS
  
  NothingIsForgotten
PROPERTIES
  ChannelSpec
  EveryRequestIsApplied
