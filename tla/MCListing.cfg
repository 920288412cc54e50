SPECIFICATION ListSpec
CONSTANTS
  Updaters = {u1}
  Names = {n1, n2}
  Emails = {e1, e2, e3}
  None = None
  MaxId = 3
  DefaultPageSize = 1
  MaxPageSize = 2
  IntMax = 7
  Sizes = {0, 3}
  SortParams <- Params
  Instants = {1, 2}
SYMMETRY Symmetry
INVARIANT ListTypeOK
INVARIANT CursorWalkComplete
INVARIANT OffsetWalkComplete
INVARIANT OverlapAloneUndoes
CHECK_DEADLOCK FALSE
