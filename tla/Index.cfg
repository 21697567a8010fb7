CONSTANTS
  Ids = {1, 2}
  Builders = {b1}
  Deltas = {d1}
  Retain = 0
  ChunkSize = 1
  VerifyRounds = 1
  Kinds = {"admin", "script"}
  MaxBuilds = 2
  MaxRefreshes = 1
  MaxRebuilds = 1
  MaxChanges = 1
  MaxFaults = 1
SPECIFICATION Spec
INVARIANTS TypeOK SwapIsComplete
PROPERTIES SearchStaysUp UndisturbedIsExact
CHECK_DEADLOCK FALSE
