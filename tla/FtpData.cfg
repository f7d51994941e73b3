CONSTANTS
  Lines = {"PASV", "EPSV", "PORT", "RETR", "STAT", "ABOR"}
  MaxInput = 1
  MaxPending = 1
  FailureLimit = 3
SPECIFICATION DataSpec
INVARIANTS OneFinalReply WorkHasItsCommand CommandHasWork TransferIntact
PROPERTIES FullBufferDrains
CHECK_DEADLOCK FALSE
