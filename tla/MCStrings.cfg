CONSTANTS
  Radix = 2
  HexDigits <- MCHexDigits
  Controls <- MCControls
  High <- MCHigh
  Low <- MCLow
  Encode <- MCEncode
  Sources <- MCSources
  Capacity = 4
  Pieces = 2
  WrittenLength = 2
SPECIFICATION Spec
INVARIANTS
  ReadsTheText
  OutIsAlwaysText
  WrittenTextReadsBack
  SkippedKeysMissOnlyPairing
PROPERTY ReadReturns
CHECK_DEADLOCK FALSE
