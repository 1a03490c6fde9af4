CONSTANTS
  Plain = {"str"}
  Escaped = {"esc"}
  MaxDepth = 2
  Leaves = {"1"}
  Keys = {"str"}
  Edits = {"[", "]", "{", "}", ",", ":", "esc", "lone", "ws"}
  EventsAfterComma = FALSE
  CarelessLength = 11
  Inputs <- MCInputs
SPECIFICATION ClientSpec
INVARIANTS
  StateFollowsClient
  MixedAcceptsOnlyJson
  FramesFollowText
CHECK_DEADLOCK FALSE
