CONSTANTS
  Hosts <- MCHosts
  MyAddr = "0"
  OtherAddr = "1"
  Commands <- MCCommands
  CMD_BUF_SIZE = 6
  FOREIGN = FALSE
  NOISY = TRUE
  Alphabet = {48, 43, 13, 10, 1, 255}
  MaxLen = 3
  BufLen = 8
  Widths = {2, 9}
  MaxVals = 13
SPECIFICATION Spec
INVARIANT HTypeOK ResyncAfterBreak
INVARIANT CrcMatchesReference SingleBitDetected VerifyAcceptsAppended CrcCharsDecode
INVARIANT PageWithinBudget
