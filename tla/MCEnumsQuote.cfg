CONSTANTS
  Plain = {"str", "other", "tag", "cont", "unit", "new", "tup", "rec"}
  Escaped = {"esc"}
  MaxDepth = 2
  Edits = {"{", "}", "[", ",", ":", "ws", "lone", "1", "junk"}
  DenyUnknown = FALSE
  Tag = "t"
  Content = "c"
  Decoded <- MCDecoded
  Fields <- MCFields
  Key <- MCKey
  Type <- MCType
  Default = {}
  Skip = {}
  Order <- MCOrder
  Shape <- MCShape
  FieldsOf <- MCFieldsOf
  Entered <- MCEntered
  Inputs <- MCInputs
SPECIFICATION Spec
INVARIANT TagIsAtAQuote
CHECK_DEADLOCK FALSE
