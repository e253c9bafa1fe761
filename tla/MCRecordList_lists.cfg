SPECIFICATION FairListSpec
CONSTANTS
  Tables = {"incidents", "problems"}
  Rows <- MCRows
  TableOf <- MCTableOf
  Links <- MCLinks
  KindOf <- MCKindOf
  PageSize = 1
  Nothing = nothing
INVARIANTS ConfirmedAsShown
PROPERTIES NoReferenceLeft LeavesPagePastEnd
