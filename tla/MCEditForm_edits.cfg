SPECIFICATION Spec
CONSTANTS
  Targets = {a, b}
  Values = {empty, x}
  Empty = empty
  None = none
SYMMETRY Symmetry
INVARIANTS SavedWhereTyped UntouchedAsRead SavedIsClean ClosedNoteIsSaved
PROPERTY EditsKept
