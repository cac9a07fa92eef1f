SPECIFICATION LiveSpec

CONSTANTS
  Conns = {c1, c2}
  MaxConnections = 2
  Configs <- Mixed
  LaunchMayFail = TRUE
  HandlersStop = TRUE

\* Nothing happens any more when every connection is over.
CHECK_DEADLOCK FALSE

INVARIANTS
  TypeOK
  AccountsExact
  StrandExact
  CancelHitsHandler
  KeepAliveLimit
PROPERTIES
  ForcedEnds
  SlotSpec
  SlotComesBack
