SPECIFICATION UsersSpec
CONSTANTS
  Updaters = {u1, u2}
  Names = {n1, n2}
  Emails = {e1, e2}
  None = None
  MaxId = 3
PROPERTY DeletedStaysDeleted
CHECK_DEADLOCK FALSE
