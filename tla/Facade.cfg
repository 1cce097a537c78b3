SPECIFICATION FairSpec
CONSTANTS
  Branch = {"A", "B"}
  Request = {"r1", "r2", "w"}
  Target <- MCTarget
  Owner = "facade"
  Isolation = "snapshot"
  None = None
PROPERTY AllAnswered
CHECK_DEADLOCK FALSE
