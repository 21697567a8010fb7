SPECIFICATION FairSpec
CONSTANTS
  Records = {a}
  MaxRuns = 3
  MaxPushes = 1
INVARIANTS AtMostOneRunningRow UncontendedRunReconciles
PROPERTIES RunningRowIsSettled NightlyRunReconciles
CHECK_DEADLOCK FALSE
