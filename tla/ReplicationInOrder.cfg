SPECIFICATION Spec
CONSTANTS
  NumPeers = 3
  Candidates <- Rivals
  Beating = {0}
  MaxTerm = 2
  MaxCommand = 2
  MinNext = 0
  Lossy = TRUE
  Races = {"stop"}
INVARIANTS TypeOK LogMatching StateMachineSafety AppliedInOrder AppliedEntriesStay
PROPERTIES  AgreesOnOneSequence
CHECK_DEADLOCK FALSE
