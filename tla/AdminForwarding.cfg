CONSTANTS
  Pods = {p1, p2}
  Deletes = {d}
  Follows = {f}
  Transfers = {t}
  None = None
  MaxCalls = 1
  MaxTries = 2
  MaxTerm = 3
  MaxCrashes = 1
SPECIFICATION FairSpec
INVARIANTS TypeOK ForwardingClimbs OneCommitPerAttempt AcknowledgedCommitted
PROPERTY HandlersReturn
CHECK_DEADLOCK FALSE
