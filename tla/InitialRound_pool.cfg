SPECIFICATION InitialSpec
CONSTANTS
  a = a
  d = d
  e = e
  Items <- MCItems
  BucketCount = 3
  Hash <- MCHash
  Threads = 3
  PerThreadContext = TRUE
  MaxFaults = 1
  XSets <- MCXSets
  YSets <- MCYSets
INVARIANTS
  DistinctClaims
  ContextLive
  NoContextLeft
  VerdictExact
  InitialIsNaive
PROPERTIES
  Returns
