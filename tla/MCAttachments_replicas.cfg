SPECIFICATION Spec
CONSTANTS
  Replicas = {r1, r2}
  Sessions = {s1, s2}
  Parents = {p1}
  Names = {n1}
  Uploads = {u1, u2}
  None = None
SYMMETRY Alike
INVARIANTS ReplacedByName FileAccounted
PROPERTIES CleanStart
