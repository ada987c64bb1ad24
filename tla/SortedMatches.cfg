SPECIFICATION Spec
CONSTANTS
  NumPeers = 4
  Candidates <- InTurn
  Beating = {}
  MaxTerm = 1
  MaxCommand = 4
  MinNext = 0
  Lossy = TRUE
  Races = {"stop"}
INVARIANT AppliedEntriesStay
CHECK_DEADLOCK FALSE
