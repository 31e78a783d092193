CONSTANTS
  Hosts <- MCEasyHost
  MyAddr = "0"
  OtherAddr = "1"
  Commands <- MCCommands
  CMD_BUF_SIZE = 6
  FOREIGN = FALSE
  NOISY = TRUE
INIT HInit
NEXT HNext
INVARIANT EasyWritesInBounds
