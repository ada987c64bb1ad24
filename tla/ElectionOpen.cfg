SPECIFICATION Spec
CONSTANTS
  NumPeers = 2
  MaxTerm = 2
  MaxIndex = 1
  Races <- Open
  Reliable = FALSE
INVARIANTS CandidateTermStable
PROPERTIES LeaderKeepsTerm
CHECK_DEADLOCK FALSE
