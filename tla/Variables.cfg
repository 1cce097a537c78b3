SPECIFICATION Spec
CONSTANTS
  Path <- MCPath
  Assigns <- MCAssigns
  Editable = {"apply", "check"}
  ReturnToSource = {"check"}
  People <- MCPeople
  Dept <- MCDept
  Leaders <- MCLeaders
  Roles <- MCRoles
  Applicants = {"a"}
  Entered = {"b", "c"}
  Names <- MCNames
  MaxRows = 5
INVARIANTS RowsReachTheirPeople InitiatorKept
PROPERTIES FieldsKept
CHECK_DEADLOCK FALSE
