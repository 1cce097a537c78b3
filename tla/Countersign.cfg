SPECIFICATION Spec
CONSTANTS
  Node <- MCNode
  Kind <- MCKind
  Succ <- MCSucc
  Conditional <- MCConditional
  Countersign <- MCCountersign
  Members <- MCMembers
  CsExpr <- MCCsExpr
  Veto = {"veto"}
  ReturnToSource = {}
  AllowRecall = {}
  AllowAddSign = {}
  Detours = {"turns", "odd"}
  JumpTargets = {"all"}
  Submits = {"agree", "disagree"}
  Transactional = TRUE
  Ops = {"execute", "return", "rollback", "jump", "withdraw"}
  MaxRows = 12
INVARIANTS
  FinishedIsQuiet
  EveryMemberVotes
  OneSequentialAtATime
CHECK_DEADLOCK FALSE
