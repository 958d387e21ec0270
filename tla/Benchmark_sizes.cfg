SPECIFICATION Spec
CONSTANTS
  Items <- MCItems
  BucketCount = 3
  Hash <- MCHash
  n_list <- MCNList
  delta_list <- MCDeltaList
  Trials <- MCTrials
  MaxFaults = 1
INVARIANTS
  FailsOnlyByFault
  RowsComplete
CHECK_DEADLOCK FALSE
