SPECIFICATION Spec
CONSTANTS
  p = 5
  Scalars = {1, 2, 3}
  MaxX = 3
INVARIANTS
  HeapExact
  NoFalseMatch
  MatchFound
