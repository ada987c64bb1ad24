SPECIFICATION Spec
CONSTANTS
  Thread = {t1, t2, t3}
  Running <- Downward
INVARIANTS TypeOK NoDeadlock
