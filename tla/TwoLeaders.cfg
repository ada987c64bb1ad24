SPECIFICATION Spec
CONSTANTS
  NumPeers = 3
  MaxTerm = 2
  MaxIndex = 0
  Races <- Open
  Reliable = TRUE
INVARIANT ElectionSafety
CHECK_DEADLOCK FALSE
