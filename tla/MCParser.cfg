CONSTANTS
  Plain = {"str"}
  Escaped = {"esc"}
  MaxDepth = 2
  Alphabet = {"[", "]", "{", "}", ",", ":", "str", "1", "lone", "ws"}
  MaxLen = 4
  Leaves = {"1"}
  Keys = {"str"}
  Edits = {"[", "]", "{", "}", ",", ":", "esc", "kw", "ws", "junk"}
  Inputs <- MCInputs
SPECIFICATION FairStream
INVARIANTS
  TypeOK
  StateMatchesFrames
  AcceptsExactlyJson
PROPERTIES
  ImplementsEventGrammar
  PullLoopEnds
