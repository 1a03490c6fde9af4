CONSTANTS
  MaxDepth = 4
  Width = 5
SPECIFICATION StackSpec
PROPERTY ImplementsFrameStack
