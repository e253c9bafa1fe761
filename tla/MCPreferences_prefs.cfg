SPECIFICATION PrefsSpec
CONSTANTS
  a = a
  b = b
  x = x
  Users = {a, b}
  Tables = {incidents, changes}
  Others = {layoutDensity}
  Values = {default, x, compact}
  Default = default
  OwnOf <- MCOwnOf
  LegacySettings = {layoutDensity}
  Legacy = compact
  MaxSaves = 2
  MaxTurns = 2
  None = none
SYMMETRY Symmetry
INVARIANTS ScreenAsStored ChoicesStored StagedHere
CHECK_DEADLOCK FALSE
