SPECIFICATION Spec
CONSTANTS
  Node <- MCNode
  Kind <- MCKind
  Succ <- MCSucc
  Conditional <- MCConditional
  Countersign <- MCCountersign
  Members <- MCMembers
  CsExpr <- MCCsExpr
  Turns = {}
  Veto = {}
  ReturnToSource = {"A", "B"}
  AllowRecall = {"review", "C"}
  AllowAddSign = {}
  Detours = {"A", "C"}
  JumpTargets = {}
  Submits = {"agree"}
  Transactional = TRUE
  Ops = {"execute", "return", "reapply", "rollback", "recall", "withdraw"}
  MaxRows = 7
INVARIANTS
  RecalledIsSuperseded
CHECK_DEADLOCK FALSE
