SPECIFICATION Spec
CONSTANTS
  r1 = r1
  r2 = r2
  v1 = v1
  v2 = v2
  Columns = {state, assigned_to}
  Keys = {k, l}
  Values = {v1, v2}
  Requests = {r1, r2}
  MaxUpdates = 3
  None = None
SYMMETRY Same
INVARIANTS AuditEndsAtColumn CountsNoPhantoms
PROPERTY FieldsKept
CHECK_DEADLOCK FALSE
