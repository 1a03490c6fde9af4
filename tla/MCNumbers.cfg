CONSTANTS
  Base = 3
  Max64 = 31
  Max128 = 127
  Fast64 = 3
  Fast128 = 4
  MantissaDigits = 3
  MantissaMax = 20
  AnyLength = 4
  DigitsLength = 6
  LiteralU64 = 3
  LiteralI64 = 2
  Power <- MCPower
  Texts <- MCTexts
SPECIFICATION Spec
INVARIANTS
  AccumulatorIsExact
  ReadsExactlyTheIntegers
  ElementsReadAsTheyDoAlone
  FloatsFollowTheGrammar
CHECK_DEADLOCK FALSE
