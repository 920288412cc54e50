SPECIFICATION FairSpec
CONSTANTS
  Workers = {w1, w2}
  Clients = {a, b}
  Tasks = {t1, t2, t3}
  None = None
  QueueSize = 1
  Cancelable = {t1}
  NestedUnder = {"discard"}
INVARIANT TypeOK
PROPERTY ImplementsWorkSet
PROPERTY AcceptedEnds
PROPERTY StopReturns
