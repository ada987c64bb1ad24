SPECIFICATION FairSpec
CONSTANTS
  Peer = {0, 1}
  None = None
  Caller = {c1, c2}
  Reliable = FALSE
  MaxCalls = 2
INVARIANTS TypeOK Isolation ConnectedAreFound CountsBounded
 
