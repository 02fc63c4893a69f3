SPECIFICATION Spec
CONSTANTS
  c1 = c1
  c2 = c2
  v1 = v1
  v2 = v2
  v3 = v3
  shared = shared
  own = own
  Callers = {c1, c2}
  Versions = {v1, v2, v3}
  Names = {shared, own}
  NameOf <- MCNameOf
  None = None
  MaxStaged = 2
  MaxRolledBack = 2
SYMMETRY Symmetry
INVARIANTS TypeOK TimelineExplains HealthyOnly SlotsServed ReportedRecorded NoOrphan
