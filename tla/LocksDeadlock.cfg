SPECIFICATION Spec
CONSTANTS
  Thread = {t1, t2}
  Running <- EveryBlock
INVARIANT NoDeadlock
CHECK_DEADLOCK FALSE
