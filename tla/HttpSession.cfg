SPECIFICATION Spec
CONSTANTS
  Lines <- EveryLine
  BodySize = 1
  MaxIn = 2
  MaxRequests = 1
  MaxRest = 1
INVARIANTS ResponsesInOrder ChunkedBodyIsWhole TimedByTheRightTimer
PROPERTIES InputIsRead
CHECK_DEADLOCK FALSE
