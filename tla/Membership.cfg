CONSTANTS
  LastOrdinal = 2
  MaxJoinTries = 2
  MaxDeaths = 1
  MaxLosses = 1
  None = None
SPECIFICATION FairSpec
INVARIANTS TypeOK LeaderVotes
PROPERTIES MajoritiesOverlap VotersConverge
CHECK_DEADLOCK FALSE
