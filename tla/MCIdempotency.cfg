SPECIFICATION Spec
CONSTANTS
  Requests = {r1, r2, r3}
  None = None
  LockTTL = 2
  CompleteTTL = 3
  MaxTime = 5
SYMMETRY Symmetry
INVARIANT TypeOK
 
INVARIANT Exclusive
 
