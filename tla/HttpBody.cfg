SPECIFICATION Spec
CONSTANTS
  Lines <- EveryLine
  BodySize = 1
  MaxIn = 2
  MaxRequests = 1
  MaxRest = 1
INVARIANTS BodyIsWhole
CHECK_DEADLOCK FALSE
