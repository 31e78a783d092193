CONSTANTS
  Hosts <- MCHosts
  MyAddr = "0"
  OtherAddr = "1"
  Commands <- MCCommands
  CMD_BUF_SIZE = 6
  FOREIGN = TRUE
  NOISY = FALSE
INIT HInit
NEXT HNext
INVARIANT CommandReachesEngine
