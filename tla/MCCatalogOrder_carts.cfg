SPECIFICATION Spec
CONSTANTS
  e1 = e1
  e2 = e2
  e3 = e3
  d1 = d1
  h1 = h1
  h2 = h2
  s1 = s1
  s2 = s2
  Users = {u1}
  Entries = {e1, e2, e3}
  Directs = {d1}
  Hooks = {h1, h2}
  HooksOf <- SomeHooks
  Keyed = {h1}
  Silent = {h2}
  ClientNumbers = {1, 2}
  Sessions = {s1, s2}
  None = None
SYMMETRY SameSessions
INVARIANTS OrderedOnce NothingForgotten ToldOnce
