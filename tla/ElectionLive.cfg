SPECIFICATION FairSpec
CONSTANTS
  NumPeers = 2
  MaxTerm = 3
  MaxIndex = 0
  Races = {}
  Reliable = TRUE
PROPERTIES ElectionEnds LeaderYields
CHECK_DEADLOCK FALSE
