CONSTANTS
  Plain = {"str"}
  Escaped = {"esc"}
  MaxDepth = 2
  Leaves = {"1"}
  Keys = {"str"}
  Edits = {"]", ","}
  EventsAfterComma = TRUE
  CarelessLength = 0
  Inputs <- MCInputs
SPECIFICATION ClientSpec
INVARIANT MixedAcceptsOnlyJson
CHECK_DEADLOCK FALSE
