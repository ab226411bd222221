CONSTANTS
  Codes = {a}
  LongURLs = {u, v}
  Times = {}
  NoRow = NoRow
  None = None
  Replicas = {r1, r2}
  MaxLog = 3
  MaxRestarts = 1
  MaxTries = 2
SPECIFICATION SpecRetry
SYMMETRY Symmetry
INVARIANTS RequestsInv AcknowledgedResolves NoCodeGivenTwice
PROPERTY ImplementsShortener
CHECK_DEADLOCK FALSE
