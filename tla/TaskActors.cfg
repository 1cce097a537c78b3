SPECIFICATION Spec
CONSTANTS
  People <- MCPeople
  Requests = {r1}
  Overlap = FALSE
  Calls <- MCCalls
  NextOperators <- MCNextOperators
  Resolved <- MCResolved
  OldRows <- MCOldRows
  Principals <- MCPrincipals
  Fields <- MCFields
  MaxTime = 1
  MaxRecords = 2
  MaxCalls = 3
INVARIANTS TwinsAgree RemovedIsGone CopiedOnce LatestWordDecides
PROPERTIES NeverEmptied
CHECK_DEADLOCK FALSE
