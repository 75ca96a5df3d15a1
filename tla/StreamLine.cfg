\* An entry that crosses the end of the fixed array, with a terminal that is
\* absent, too narrow or wide enough, and two changes at any time.
CONSTANTS
  StaticSize = 7
  Nul = nul
  Garbage = garbage
  Kinds = {"console", "file"}
  PrefixLength = 2
  ValueLengths = {0, 1, 3}
  SuffixLength = 2
  ThreadSuffixLength = 2
  ColorLength = 2
  ResetLength = 1
  Widths = {0, 6, 11}
  DEFAULT_WIDTH = 9
  MaxValues = 2
  MaxChanges = 2
SPECIFICATION Spec
INVARIANTS
  TypeOK
  ContentIsWritten
  PrintedWhole
  
  
