SPECIFICATION Spec
CONSTANTS
  n = 4
  m = 7
  w = 3
  Bits = {0}
INVARIANTS
  EchelonForm
  RowsSpanned
  DecodesWhatItCan
CHECK_DEADLOCK FALSE
