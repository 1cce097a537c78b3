SPECIFICATION Spec
CONSTANTS
  Node <- MCNode
  Kind <- MCKind
  Succ <- MCSucc
  Conditional <- MCConditional
  Countersign <- MCCountersign
  Members <- MCMembers
  CsExpr <- MCCsExpr
  Veto = {}
  ReturnToSource = {"apply", "sign"}
  AllowRecall = {}
  AllowAddSign = {"sign"}
  Detours = {"apply", "sign", "done"}
  JumpTargets = {}
  Submits = {"agree", "reject"}
  Transactional = TRUE
  Ops = {"execute", "addSign", "reject", "return", "reapply", "rollback", "withdraw"}
  MaxRows = 6
INVARIANTS
  AddSignHolds
PROPERTIES
  TerminalFinal
  HistoryImmutable
CHECK_DEADLOCK FALSE
