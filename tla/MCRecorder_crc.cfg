CONSTANTS
  Addresses = {"0"}
  DefaultAddr = "0"
  Wildcard = "?"
  BadAddr = "#"
  NoAddr = NoAddr
  Groups = {0}
  RegGroups = {0}
  MAX_PARAMS = 2
  TTTs = {0, 1}
  Pages <- MCPages
  VALUE_LEN = 9
  START_HOOK = TRUE
  BINARY_HOOK = TRUE
  NV_HOOKS = TRUE
  SensorAddr = "0"
  SetupParams <- MCSetupParams
  LOSSY = FALSE
  LATE = FALSE
  NOISY = TRUE
INIT RInit
NEXT RNext
INVARIANT CrcOkMeansIntact
