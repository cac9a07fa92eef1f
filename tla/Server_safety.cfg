SPECIFICATION Spec
CONSTANTS
  o1 = o1
  o2 = o2
  Owners = {o1, o2}
  Conns = {c1, c2}
  MaxConnections = 1
  MayCall <- StartStopWait
  Faults = {"bind", "accept", "option", "alloc", "launch", "spawn"}
  None = None
SYMMETRY Symmetric
\* Nothing happens any more once a stopped server's calls have returned.
CHECK_DEADLOCK FALSE
INVARIANTS
  TypeOK
  Admission
  StopOrderly
  ResultsTruthful
  WaitLeavesNothing
PROPERTY SlotSpec
