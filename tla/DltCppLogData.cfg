CONSTANTS
  MaxMessageSize = 96
  ValueSizes = {4, 8}
  StringLengths = {0, 30, 100}
  FormatResults <- MC_FormatResults
SPECIFICATION Spec
INVARIANTS
  TypeOK
  BufferBounds
  
  MarkerIsLast
  WriteLossIsMarked
  WireLengthExact
