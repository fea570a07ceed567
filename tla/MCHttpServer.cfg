SPECIFICATION Spec
CONSTANTS
  Shapes <- ThreeShapes
  MaxRequests = 2
  Executor = TRUE
CHECK_DEADLOCK FALSE
INVARIANTS
  TypeOK
  RequestsStayApart
  BodiesAreWhole
PROPERTIES
  BadRequestIsLast
  EveryRequestIsAnswered
