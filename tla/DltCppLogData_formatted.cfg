\* Formatted strings only: lengths around the 71 bytes a first string can use.
CONSTANTS
  MaxMessageSize = 96
  ValueSizes = {}
  StringLengths = {1}
  FormatResults = {20, 70, 71, 72}
SPECIFICATION Spec
INVARIANT FormattedLossIsMarked
