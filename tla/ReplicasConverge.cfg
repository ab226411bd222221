CONSTANTS
  Codes = {a}
  LongURLs = {u, v}
  Times = {1, 2}
  NoRow = NoRow
  Replicas = {r1, r2}
  MaxLog = 4
  MaxRestarts = 2
SPECIFICATION Spec
SYMMETRY Symmetry
INVARIANTS TypeOK MappingConverges FollowTimesConverge FollowsCountedAtLeastOnce ResolvesCommitted ConvergeInv
CHECK_DEADLOCK FALSE
