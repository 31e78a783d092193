CONSTANTS
  Addresses = {"0"}
  DefaultAddr = "0"
  Wildcard = "?"
  BadAddr = "#"
  NoAddr = NoAddr
  Groups = {0}
  RegGroups = {0}
  MAX_PARAMS = 2
  TTTs = {0, 1}
  Pages <- MCPages
  VALUE_LEN = 9
  START_HOOK = FALSE
  BINARY_HOOK = FALSE
  NV_HOOKS = FALSE
  SensorAddr = "0"
  SetupParams <- MCSetupParams
  LOSSY = FALSE
  NOISY = FALSE
  LATE = FALSE
  ISR_ANYTIME = FALSE
  IDENTIFY = TRUE
INIT IInit
NEXT ArduinoNext
INVARIANT ResultsAnswerGetData
