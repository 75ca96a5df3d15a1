\* The program's own buffer size; a container of booleans streamed element by
\* element.
CONSTANTS
  MaxMessageSize = 16384
  ValueSizes = {1}
  StringLengths = {0}
  FormatResults = {}
SPECIFICATION Spec
INVARIANT NoarIsNumberOfArguments
