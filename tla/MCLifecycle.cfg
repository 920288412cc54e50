SPECIFICATION FairSpec
CONSTANTS
  HTTPRequests = {h1, h2}
  RPCs = {r1}
  Routines = {g1, g2, g3}
  Safes = {g3}
INVARIANT TypeOK
INVARIANT UsersKeepDB
INVARIANT GatewayCallsFinish
PROPERTY ShutdownEnds
