CONSTANTS
  WordBits = 12
  MantissaWidth = 4
  ExponentMin <- MCExponentMin
  LogNumerator = 1233
  LogBits = 12
  MinverseLength = 6
  Wide = 268435456
  VecMax = 4000
  ReserveWindow = 64
  Jobs <- MCJobs
SPECIFICATION Spec
INVARIANTS
  WritesTheArray
  RawWritesStayInside
  ReservationHolds
  ShortestDecimal
  EverySinkGetsTheText
CHECK_DEADLOCK FALSE
