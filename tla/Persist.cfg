SPECIFICATION Spec
CONSTANTS
  MaxRequests = 3
  Connections = 1
  PerRequest = 2
  Overlap = {"engine"}
  AtOnce = 2
  MaxFaults = 1
  Fields <- MCFields
  MayEdit <- MCMayEdit
  Calls <- MCCalls
  InitialCall <- MCInitialCall
  Setups <- MCSetups
INVARIANTS OneBusinessRow RefusedNeverStored RowTellsOutcome
PROPERTIES KeepsPromise EveryRequestEnds
CHECK_DEADLOCK FALSE
