SPECIFICATION Spec
CONSTANTS
  RetryConfig <- Twice
  RetryIf = {"refused", "reset", "EOF", "deadline", "body"}
  NoError = NoError
  RetryCount = 1
  RetryWaitMins = {2, 100}
  RetryWaitMax = 2000
  DurationMax = 8191
  NoResponse = NoResponse
  Attempts = {1, 2}
  Requests <- Sample
  LogLevel = "info"
  ConfiguredTimeout = 0
  Nobody = Nobody
  Other = Other
  GivenID = GivenID
  AliasID = AliasID
INVARIANT TypeOK
 
 
INVARIANT BodiesClosed
CHECK_DEADLOCK FALSE
PROPERTY CallEnds
PROPERTY HandlersEnd
