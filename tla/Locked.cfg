SPECIFICATION FairSpec
CONSTANTS
  Branch = {"A", "B"}
  Request = {"r1", "r2", "r3"}
  Target <- MCTarget
  Owner = "engine"
  Isolation = "snapshot"
  None = None
INVARIANT CompletedOnce
PROPERTY Serialised
CHECK_DEADLOCK FALSE
