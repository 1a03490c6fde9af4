CONSTANTS
  Plain = {"str", "other", "third", "last"}
  Escaped = {"esc"}
  MaxDepth = 2
  Keys = {"str", "esc", "other", "third", "last"}
  Values <- MCValues
  Edits = {"}", ",", ":", "ws", "lone", "kw", "unopened", "1"}
  Decoded <- MCDecoded
  Fields <- MCFields
  Key <- MCKey
  Type <- MCType
  Default <- MCDefault
  Skip <- MCSkip
  Declared <- MCDeclared
  Entered <- MCEntered
  Inputs <- MCInputs
SPECIFICATION Spec
INVARIANTS
  ReadsTheType
  CallerFramesKept
PROPERTY ReaderReturns
CHECK_DEADLOCK FALSE
