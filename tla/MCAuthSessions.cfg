SPECIFICATION FairSpec
CONSTANTS
  Requests = {r1, r2}
  Tokens = {t1, t2}
  Users = {u1}
  None = None
INVARIANT TypeOK
INVARIANT RotationAtomic
INVARIANT NoSessionLost
INVARIANT DeadTokenGrantsNothing
INVARIANT ReplayKillsFamily
INVARIANT NoOrphanToken
PROPERTY ImplementsTokenStore
PROPERTY RequestEnds
