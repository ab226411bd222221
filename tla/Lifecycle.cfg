CONSTANTS
  HTTPServers = {public_http}
  GRPCServers = {public_grpc}
  ReadOnly = {}
  Calls = {c1, c2}
  None = None
SPECIFICATION FairSpec
INVARIANTS TypeOK AppliedToOpenDatabase GRPCCallsFinish
PROPERTY StopsInTheEnd
CHECK_DEADLOCK FALSE
