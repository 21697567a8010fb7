SPECIFICATION FairBatchSpec
CONSTANTS
  MaxBatches = 2
  MaxDeliveries = 2
INVARIANTS BatchTypeOK SuccessMeansDone
PROPERTIES KeepsPromise RunSettles
CHECK_DEADLOCK FALSE
