SPECIFICATION Spec
CONSTANTS
  root = root
  server = server
  a = a
  p1 = p1
  q1 = q1
  q2 = q2
  x1 = x1
  None = None
  Absent = Absent
  LostAfterCommit = TRUE
  CmdbRoot = root
  Classes = {root, server, a}
  Cis = {x1}
  Replicas = {p1}
  Requests = {q1, q2}
  ReplicaOf <- OneProcess
  BuiltinSuper <- MCBuiltin
  Catalogues <- Extras
SYMMETRY Interchangeable
INVARIANTS ClassForest SnapshotForest BuiltinsStay
