SPECIFICATION SafeSpec
CONSTANTS
  Shapes <- ThreeShapes
  MaxRequests = 1
  Executor = FALSE
CHECK_DEADLOCK FALSE
INVARIANTS
  HandlersGetCompleteRequests
