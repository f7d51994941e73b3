CONSTANTS
  Uses <- EveryUse
  MaxReadable = 2
  MaxFill = 2
  MaxLoops = 2
  Room = 1
  FileSize = 2
  Entries = 1
  ClientData <- Sends
  MaxTransfers = 2
  Resets = {"download", "upload"}
SPECIFICATION FairSpec
INVARIANTS NobodyIsForgotten ListerAskedOnce GoodbyeIsSent
PROPERTIES ImplementsTransfer EveryTransferEnds QuitEnds
CHECK_DEADLOCK FALSE
