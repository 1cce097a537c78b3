SPECIFICATION FairSpec
CONSTANTS
  Node <- MCNode
  Kind <- MCKind
  Succ <- MCSucc
  Conditional <- MCConditional
  Countersign <- MCCountersign
  Members <- MCMembers
  CsExpr <- MCCsExpr
  Veto = {}
  ReturnToSource = {"B", "X", "Y", "E"}
  AllowRecall = {}
  AllowAddSign = {}
  Detours = {"apply", "B", "X", "Y", "E", "C"}
  JumpTargets = {}
  Submits = {"agree"}
  Transactional = TRUE
  Ops = {"execute", "return", "reapply", "rollback", "withdraw"}
  MaxRows = 8
INVARIANTS
  TypeOK
  NoOrphanInstance
  LineageOK
  RoundsAgree
  OneTokenPerBranch
  JoinHoldsBranches
  JoinReleasesOnce
  NothingSkipped
PROPERTIES
  EventuallyEnds
CHECK_DEADLOCK FALSE
