SPECIFICATION FairSpec
CONSTANTS
  Callers = {c1, c2, c3}
  Keys = {k1, k2}
  None = None
INVARIANT ForgetAloneOverlaps
INVARIANT NoWaiterLost
INVARIANT ResultOfJoined
INVARIANT SharedFlagExact
PROPERTY ImplementsSharedCalls
PROPERTY WaiterReturns
