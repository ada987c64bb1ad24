SPECIFICATION Spec
CONSTANTS
  NumPeers = 3
  Candidates <- InTurn
  Beating = {}
  MaxTerm = 2
  MaxCommand = 3
  MinNext = 3
  Lossy = FALSE
  Races = {"overtake"}
INVARIANT StateMachineSafety
CHECK_DEADLOCK FALSE
