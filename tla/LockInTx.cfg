SPECIFICATION FairSpec
CONSTANTS
  Branch = {"A", "B"}
  Request = {"r1", "r2"}
  Target <- MCTarget
  Owner = "facade"
  Isolation = "committed"
  None = None
PROPERTY VotesKept
CHECK_DEADLOCK FALSE
