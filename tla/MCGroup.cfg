SPECIFICATION FairSpec
CONSTANTS
  Tasks = {t1, t2, t3, t4}
  None = None
  Limit = 2
INVARIANT SlotsBalance
INVARIANT NothingOutlivesWait
INVARIANT VerdictTrue
PROPERTY WaitReturns
