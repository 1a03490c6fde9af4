CONSTANTS
  TagKey = "tag"
  ContentKey = "content"
  TagName = "V"
  Values <- MCValues
  Nodes <- MCNodes
  Words <- MCWords
  MaxDepth = 3
  Plain <- MCPlain
  Escaped <- MCEscaped
  Inputs = {}
  Decoded <- MCDecoded
  Fields <- MCFields
  Key <- MCKey
  Type <- MCType
  Default = {}
  Skip <- MCSkip
  Entered = {}
  Declared <- MCDeclared
SPECIFICATION RoundTripSpec
INVARIANTS
  SameText
  DepthIsNesting
  WrittenIsJson
  LinesAreIndented
PROPERTY ReadsBack
