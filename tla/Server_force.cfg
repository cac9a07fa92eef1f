SPECIFICATION ForceSpec
CONSTANTS
  o1 = o1
  o2 = o2
  Owners = {o1, o2}
  Conns = {c1}
  MaxConnections = 1
  MayCall <- StartAndForce
  Faults = {}
  None = None
\* Nothing happens any more once a stopped server's calls have returned.
CHECK_DEADLOCK FALSE
PROPERTIES
  ForceCloses
