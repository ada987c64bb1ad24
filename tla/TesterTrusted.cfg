SPECIFICATION Spec
CONSTANTS
  NumServers = 2
  Expected = 2
  MaxCommand = 2
  MaxStarts = 3
  MaxQueue = 2
INVARIANTS TypeOK NoFalseAlarm ReturnedIsCommitted ReturnedInOrder
CHECK_DEADLOCK FALSE
