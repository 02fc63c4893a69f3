SPECIFICATION Spec
CONSTANTS
  table = table
  column = column
  operation = operation
  view = view
  rule = rule
  setting = setting
  Defs = {table, column, operation, view, rule, setting}
  Kind <- MCKind
  On <- MCOn
  Base = "AppConfig"
  Rows = {r1, r2, r3}
  Values = {deny, allow}
  BaseValue = deny
  Callers = {c1, c2}
  MaxHistory = 4
  MaxOverlap = 2
SYMMETRY Symmetry
INVARIANTS TypeOK AuditFirst OverlayLoads
PROPERTIES SerialCallRecorded RollbackReachesTarget WritesRecorded
