SPECIFICATION Spec
CONSTANTS
  Addrs <- MCAddrs
  Programs <- MCPrograms
  Start = "start"
  Configs <- MCConfigs
  Limits <- MCLimits
  Loops = {"run", "explore"}
INVARIANT FoundIsReached
PROPERTIES Terminates FoundIsReported
CHECK_DEADLOCK FALSE
