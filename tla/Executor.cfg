SPECIFICATION FairSpec
CONSTANTS
  Owners = {o1, o2}
  Workers = {w1, w2}
  Handlers = {h1, h2, h3}
  NoHandler = NoHandler
  CreateMayFail = TRUE
  HandlersMayJoin = TRUE
INVARIANTS
  TypeOK
  RunningMeansServing
  ThreadOwnership
  FailureConserved
PROPERTIES
  PoolSpec
  PoolEnds
\* The executor is gone after its destructor: behaviours end there.
CHECK_DEADLOCK FALSE
