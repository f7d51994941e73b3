CONSTANTS
  Lines = {"USER", "PASS", "ABOR", "CWD", "NOOP", "QUIT", "bad", "illegal", "unknown"}
  MaxInput = 2
  MaxPending = 2
  FailureLimit = 3
SPECIFICATION FairSpec
INVARIANTS NoLostWakeup AlwaysTimed
PROPERTIES StaysLoggedIn
CHECK_DEADLOCK FALSE
