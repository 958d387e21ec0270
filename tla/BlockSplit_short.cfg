SPECIFICATION Spec
CONSTANTS
  n = 3
  m = 5
  w = 2
  kBlockBytes = 2
  payload_bytes = 3
INVARIANTS
  KeptRowsWhole
  LinearAcrossBlocks
  SelfCheckSound
CHECK_DEADLOCK FALSE
