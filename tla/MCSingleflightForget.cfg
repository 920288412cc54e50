SPECIFICATION Spec
CONSTANTS
  Callers = {c1, c2, c3}
  Keys = {k1}
  None = None
INVARIANT OneInFlight
