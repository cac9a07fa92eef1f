SPECIFICATION ForceSpec
CONSTANTS
  Conns = {c1}
  MaxConnections = 1
  Configs <- Plain
  LaunchMayFail = FALSE
  HandlersStop = FALSE
\* Nothing happens any more when every connection is over.
CHECK_DEADLOCK FALSE
PROPERTIES
  ForcedEnds
