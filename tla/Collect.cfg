SPECIFICATION FairSpec
CONSTANTS
  Request = {"r1", "r2"}
  Alone = {"ask", "revoke", "recall"}
  Person = {"x", "y"}
  Askable <- MCAskable
  MaxRounds = 0
  HostSubmits = {"reject", "return"}
  MemberSubmits = {}
  Recallable = {"member"}
  MaxRows = 6
INVARIANTS
  LedgerAccounts
PROPERTIES
  Consulted
  ConsultationEnds
CHECK_DEADLOCK FALSE
