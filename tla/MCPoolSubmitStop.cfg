SPECIFICATION Spec
CONSTANTS
  Workers = {w1, w2}
  Clients = {a, b}
  Tasks = {t1, t2}
  None = None
  QueueSize = 1
  Cancelable = {}
  NestedUnder = {}
INVARIANT SubmitNeverPanics
