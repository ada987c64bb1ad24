SPECIFICATION Spec
CONSTANTS
  NumPeers = 3
  Candidates <- Back
  Beating = {}
  MaxTerm = 3
  MaxCommand = 2
  MinNext <- BelowZero
  Lossy = TRUE
  Races = {"commit", "stop", "return"}
INVARIANTS LogMatching AppliedInOrder AppliedEntriesStay
PROPERTY AgreesOnOneSequence
CHECK_DEADLOCK FALSE
