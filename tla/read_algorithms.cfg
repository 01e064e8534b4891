SPECIFICATION MCSpec
CONSTANTS
  a = a
  b = b
  c = c
  d = d
  e = e
  Names = {a, b, c, d, e}
  HashOf <- MCHashOf
  Opaque = Opaque
  Blank = Blank
  Plain = "x"
  Comma = ","
  Newline = "nl"
  Close = ")"
  Colon = ":"
  Byte = {"p", "q", "r", "s", "t"}
  Source <- MCSource
  Insertions <- MCInsertions
  MaxLines = 5
  MaxText = 3
  MaxBits = 8
  MaxBytes = 14
  MaxReplacements = 3
  MaxDepth = 2
  MaxNodes = 4
INVARIANT LookupCorrect
INVARIANT ScanAgreesWithParser
INVARIANT PayloadsRoundTrip
INVARIANT RangesExact
INVARIANT TypedValuesRoundTrip
INVARIANT PlansEdit
CHECK_DEADLOCK FALSE
