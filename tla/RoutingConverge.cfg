CONSTANTS
  Nodes = {n1, n2}
  MaxElections = 2
  MaxRestarts = 1
  MaxFailures = 1
SPECIFICATION FairSpec
INVARIANTS TypeOK NoLeadershipLost
PROPERTY RoutesConverge
CHECK_DEADLOCK FALSE
