SPECIFICATION Spec
CONSTANTS
  NumPeers = 3
  MaxTerm = 2
  MaxIndex = 0
  Races = {}
  Reliable = TRUE
INVARIANTS TypeOK ElectionSafety VotesBind VotesExclusive
 
CHECK_DEADLOCK FALSE
