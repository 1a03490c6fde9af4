CONSTANTS
  Plain = {"str"}
  Escaped = {"esc"}
  MaxDepth = 2
  Leaves = {"1"}
  Keys = {"str"}
  Edits = {"[", "]", "{", "}", ",", ":", "esc", "lone", "ws", "kw"}
  Inputs <- MCInputs
  SkipEntered <- MCEntered
SPECIFICATION SkipSpec
INVARIANTS
  SkipFramesKept
  SkipsExactlyOneValue
PROPERTY SkipReturns
CHECK_DEADLOCK FALSE
