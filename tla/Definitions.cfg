SPECIFICATION Spec
CONSTANTS
  Contents <- MCContents
  Requests = {r1, r2}
  Apart <- MCApart
  Calls <- MCCalls
  PerMilli = 4
  MaxTime = 1
  MaxCalls = 3
INVARIANTS LatestIsDeployed InstancesKeepDefinition FlagMeansDeployed DraftsInOrder
PROPERTIES StateKept
CHECK_DEADLOCK FALSE
