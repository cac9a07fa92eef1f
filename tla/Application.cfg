SPECIFICATION FairSpec

CONSTANTS
  o1 = o1
  o2 = o2
  Owners = {o1, o2}
  Handlers = {h1, h2}
  MayCall <- OwnerWaits
  Faults = {"config", "bind", "thread", "spawn"}
  None = None

\* Nothing happens any more when the application is gone.
CHECK_DEADLOCK FALSE

INVARIANTS
  StateTruthful
  DestroyedMeansGone
PROPERTIES
  LegalTransitions
  CallsReturn
