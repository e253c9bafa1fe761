SPECIFICATION Spec
CONSTANTS
  p1 = p1
  k1 = k1
  a1 = a1
  audit = audit
  s1 = s1
  s2 = s2
  None = None
  Audit = audit
  Records = {p1, k1}
  Tables = {"problem", "problem_task"}
  TableOf <- ProblemTableOf
  FkFields = {"problem"}
  NullableFields = {"first_reported_by_task"}
  RequiredFields = {}
  UnmappedFields = {}
  FieldTable <- ProblemFieldTable
  FieldTarget <- ProblemFieldTarget
  AuditedTables = {"problem", "problem_task"}
  Comments = {}
  Uploads = {a1}
  Sessions = {s1, s2}
SYMMETRY Alike
INVARIANTS TypeOK  OwnRowsRemoved ClearsOnlyItsOwn
