SPECIFICATION FairSpec
CHECK_DEADLOCK FALSE
CONSTANTS
  o1 = o1
  u1 = u1
  u2 = u2
  i1 = i1
  i2 = i2
  h1 = h1
  h2 = h2
  None = None
  Orders = {o1}
  Updates = {u1, u2}
  Items = {i1, i2}
  Existing = {i1}
  Hooks = {h1, h2}
  OAuth = {h1, h2}
  Secrets = {h2}
  OrderHooks = {h1, h2}
  ChangeHooks = {h1, h2}
  Removable = {h1}
  Pool = 3
INVARIANTS ToldInOrder AllLogged
PROPERTY Answered
