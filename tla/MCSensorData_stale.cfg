CONSTANTS
  Addresses = {"0"}
  DefaultAddr = "0"
  Wildcard = "?"
  BadAddr = "#"
  NoAddr = NoAddr
  Groups = {0, 1}
  RegGroups = {0, 1}
  MAX_PARAMS = 2
  TTTs = {0, 1000}
  Pages = {0}
  VALUE_LEN = 9
  START_HOOK = TRUE
  BINARY_HOOK = TRUE
  NV_HOOKS = TRUE
SPECIFICATION MCSpec
INVARIANT CacheWithinLastHeader
